-------------------------------- MODULE Ledger --------------------------------
(***************************************************************************)
(* What the billing code promises about who pays for which organization:   *)
(* the Paystack customer in the organization's row and the one subscription *)
(* row it may have.  Every committed request takes effect at once, on the   *)
(* rows as they are then.  PaidOrganizations.tla models the requests and    *)
(* implements this module.                                                 *)
(***************************************************************************)
CONSTANTS
  Orgs,       \* organization ids
  Codes,      \* Paystack's subscription codes
  OrgOf,      \* the organization in the metadata of each
  Customers,  \* Paystack's customer codes, one per e-mail address
  PayerOf,    \* the customer who paid for each code
  None

VARIABLES
  orgs,    \* rows of "organizations": id and paystack_customer_id
  subs,    \* rows of "subscriptions": organization_id and paystack_sub_code
  bought   \* the codes Paystack has issued

tables == <<orgs, subs>>

OrgRow == [id : Orgs, customer : Customers \cup {None}]

SubRow == [org : Orgs, code : Codes]

Init ==
  /\ orgs = [id : Orgs, customer : {None}]
  /\ subs = {} /\ bought = {}

(* A checkout is paid, in whatever state the organization is by then. *)
Buy(c) ==
  /\ c \notin bought
  /\ bought' = bought \cup {c}
  /\ UNCHANGED tables

(* The rows of an organization that is still there follow a code that was  *)
(* bought for it: each row, or only one of the two, or neither.            *)
OrgAfter(x, c) == {x} \cup
  {y \in {[x EXCEPT !.customer = PayerOf[c]]} :
     \A z \in orgs \ {x} : z.customer # PayerOf[c]}

SubsAfter(c) ==
  {subs, {s \in subs : s.org # OrgOf[c]} \cup {[org |-> OrgOf[c], code |-> c]}}

Settle(c) == \E x \in orgs :
  /\ c \in bought
  /\ x.id = OrgOf[c]
  /\ \E y \in OrgAfter(x, c) : orgs' = (orgs \ {x}) \cup {y}
  /\ subs' \in SubsAfter(c)
  /\ UNCHANGED bought

(* An organization goes, and its subscription with it. *)
Close(o) ==
  /\ orgs' = {x \in orgs : x.id # o}
  /\ subs' = {s \in subs : s.org # o}
  /\ UNCHANGED bought

Next == (\E c \in Codes : Buy(c) \/ Settle(c)) \/ (\E o \in Orgs : Close(o))

Spec == Init /\ [][Next]_<<orgs, subs, bought>>

-----------------------------------------------------------------------------
TypeOK ==
  /\ orgs \subseteq OrgRow
  /\ subs \subseteq SubRow
  /\ bought \subseteq Codes

(* Primary key, and the unique organization_id of a subscription. *)
Keyed ==
  /\ \A x, y \in orgs : x.id = y.id => x = y
  /\ \A s, t \in subs : s.org = t.org => s = t

(* A customer of Paystack pays for one organization at most: the column is *)
(* unique, and get_by_paystack_customer_id relies on it.                   *)
OneOrgPerCustomer == \A x, y \in orgs :
  x.customer # None /\ x.customer = y.customer => x = y

NoOrphanSubscription == \A s \in subs : \E x \in orgs : x.id = s.org

LedgerInv == TypeOK /\ Keyed /\ OneOrgPerCustomer /\ NoOrphanSubscription

=============================================================================
