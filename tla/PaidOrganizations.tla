--------------------------- MODULE PaidOrganizations ---------------------------
(***************************************************************************)
(* Several organizations and the requests that touch an organization's row *)
(* and its subscription row together: the payment callback, the webhook    *)
(* for a new subscription, the cancellation, edits, and the deletion.      *)
(* Billing.tla says what they write into plan and status; here it is the   *)
(* locks they take, in which order, and the three keys that tie the rows:   *)
(* the unique customer, the unique organization_id of a subscription and   *)
(* the foreign key, which the ORM does not cascade and the database does.   *)
(***************************************************************************)
CONSTANTS
  Orgs, Codes, OrgOf, Customers, PayerOf,
  Requests,   \* slots for requests in progress at the same time
  Endpoints,  \* the handlers that run; a bound of the model
  None

VARIABLES
  orgs, subs,  \* the committed rows
  bought,      \* the subscription codes Paystack has issued
  req          \* the requests in progress

vars == <<orgs, subs, bought, req>>

(* What each handler does after what.  edit: update_org and charge.success, *)
(* which assign a column of the organization and save it.                  *)
After ==
  [verify |-> [org |-> "flushOrg", flushOrg |-> "sub", sub |-> "flushSub",
               flushSub |-> "commit"],
   create |-> [sub |-> "flushSub", flushSub |-> "org", org |-> "flushOrg",
               flushOrg |-> "commit"],
   cancel |-> [org |-> "sub", sub |-> "flushOrg", flushOrg |-> "flushSub",
               flushSub |-> "commit"],
   edit   |-> [org |-> "flushOrg", flushOrg |-> "commit"],
   delete |-> [org |-> "children", children |-> "flushOrg", flushOrg |-> "cascade",
               cascade |-> "commit"]]

Ops == {"verify", "create", "cancel", "edit", "delete"}

Phases == {"idle", "org", "sub", "children", "flushOrg", "flushSub", "cascade", "commit"}

ASSUME PaidAssumption ==
  /\ OrgOf \in [Codes -> Orgs]
  /\ PayerOf \in [Codes -> Customers]
  /\ Endpoints \subseteq Ops
  /\ None \notin Orgs \cup Codes \cup Customers \cup Ops

(* The refinement: the committed rows are the ledger, what is in progress   *)
(* is not seen there.                                                      *)
Book == INSTANCE Ledger WITH
  orgs <- orgs, subs <- subs, bought <- bought, Orgs <- Orgs, Codes <- Codes,
  OrgOf <- OrgOf, Customers <- Customers, PayerOf <- PayerOf, None <- None

tables == <<orgs, subs>>

(* key is the lock of a DELETE, or of an UPDATE that changes a column with  *)
(* a unique index; row that of any other UPDATE; share the one an INSERT    *)
(* takes on the row its foreign key names.  sub is on the other table.     *)
Locks == {"key", "row", "share", "sub"}

Request == [op    : Ops \cup {None},
            pc    : Phases,
            org   : Orgs \cup {None},
            code  : Codes \cup {None},   \* the subscription it is about
            cols  : SUBSET {"customer", "other"},  \* columns its UPDATE carries
            old   : Codes \cup {None},   \* the code in the row it loaded
            had   : BOOLEAN,             \* history: there was a subscription
            locks : SUBSET Locks]

Idle == [op |-> None, pc |-> "idle", org |-> None, code |-> None, cols |-> {},
         old |-> None, had |-> FALSE, locks |-> {}]

Init == Book!Init /\ req = [r \in Requests |-> Idle]

-----------------------------------------------------------------------------
Row(o) == CHOOSE x \in orgs : x.id = o

OrgExists(o) == \E x \in orgs : x.id = o

Subscribed(o) == \E s \in subs : s.org = o

Set(r, q) == req' = [req EXCEPT ![r] = q]

Step(q) == [q EXCEPT !.pc = After[q.op][q.pc]]

(* The statement is done, and the transaction keeps its locks. *)
Granted(q, locks) == [Step(q) EXCEPT !.locks = @ \cup locks]

(* Paystack calls back and delivers a webhook as often as it likes. *)
BeginPaid(r) == \E c \in bought, op \in Endpoints \cap {"verify", "create"} :
  /\ req[r].pc = "idle"
  /\ Set(r, [Idle EXCEPT !.op = op, !.org = OrgOf[c], !.code = c,
                         !.pc = IF op = "verify" THEN "org" ELSE "sub"])
  /\ UNCHANGED <<tables, bought>>

Begin(r) == \E o \in Orgs, op \in Endpoints \cap {"cancel", "edit", "delete"} :
  /\ req[r].pc = "idle"
  /\ Set(r, [Idle EXCEPT !.op = op, !.org = o, !.pc = "org",
                         !.had = op = "delete" /\ Subscribed(o)])
  /\ UNCHANGED <<tables, bought>>

-----------------------------------------------------------------------------
(* Columns that get a value other than the one loaded.  The plan, the name *)
(* and the logo may or may not.                                            *)
Assigned(q) ==
  {"customer" : x \in {y \in {Row(q.org)} : q.op = "verify" /\ y.customer # PayerOf[q.code]}}

(* Without the organization there is a 404, or nothing to do; a webhook     *)
(* commits what it has done so far.                                        *)
LoadOrg(r) == LET q == req[r] IN
  /\ q.pc = "org"
  /\ IF OrgExists(q.org)
       THEN \E other \in SUBSET {"other"} :
              /\ q.op = "delete" => other = {}
              /\ Set(r, [Step(q) EXCEPT !.cols = Assigned(q) \cup other])
       ELSE Set(r, IF q.op = "create" THEN [q EXCEPT !.pc = "commit"] ELSE Idle)
  /\ UNCHANGED <<tables, bought>>

(* A cancellation without a subscription is a 404. *)
LoadSub(r) == LET q == req[r] IN
  /\ q.pc = "sub"
  /\ \/ \E s \in subs : s.org = q.org /\ Set(r, [Step(q) EXCEPT !.old = s.code])
     \/ ~Subscribed(q.org) /\ Set(r, IF q.op = "cancel" THEN Idle ELSE Step(q))
  /\ UNCHANGED <<tables, bought>>

(* Mutant: the relationship cascades deletes, as those next to it do. *)
CascadingRelationship(r) ==
  /\ req[r].pc = "children"
  /\ Set(r, Step(req[r]))
  /\ UNCHANGED <<tables, bought>>

(* The relationship "subscription" has no cascade: the ORM looks for the    *)
(* row and sets its organization_id to NULL, which the column refuses.     *)
LookForChildren(r) ==
  /\ req[r].pc = "children"
  /\ Set(r, IF Subscribed(req[r].org) THEN Idle ELSE Step(req[r]))
  /\ UNCHANGED <<tables, bought>>

-----------------------------------------------------------------------------
(* An UPDATE that sets the customer the row already has changes no key.    *)
ChangesKey(q) ==
  \/ q.op = "delete"
  \/ "customer" \in q.cols /\ \A x \in orgs : x.id = q.org => x.customer # PayerOf[q.code]

Dirty(q) == q.op = "delete" \/ q.cols # {}

OrgBlocked(q, p) == p.locks \cap
  (IF ChangesKey(q) THEN {"key", "row", "share"} ELSE {"key", "row"}) # {}

SubBlocked(q, p) == "sub" \in p.locks \/ (q.old = None /\ "key" \in p.locks)

(* p has not committed, and takes the customer of q or gives it up. *)
CustomerBusy(q, p) ==
  /\ "customer" \in q.cols /\ ChangesKey(q)
  /\ "key" \in p.locks
  /\ \/ "customer" \in p.cols /\ PayerOf[p.code] = PayerOf[q.code]
     \/ \E x \in orgs : x.id = p.org /\ x.customer = PayerOf[q.code]

(* Mutant: no statement waits. *)
NeverWaits(q, p) == FALSE

WaitsFor(q, p) ==
  \/ q.pc = "flushOrg" /\ Dirty(q) /\ p.org = q.org /\ OrgBlocked(q, p)
  \/ q.pc = "flushOrg" /\ p.org # q.org /\ CustomerBusy(q, p)
  \/ q.pc = "flushSub" /\ p.org = q.org /\ SubBlocked(q, p)
  \/ q.pc = "cascade"  /\ p.org = q.org /\ Subscribed(q.org) /\ "sub" \in p.locks

Served(r) == \A s \in Requests \ {r} : ~WaitsFor(req[r], req[s])

(* The row is still there and the customer is nobody else's.  Otherwise an *)
(* UPDATE fails, and a DELETE finds nothing to do.                         *)
OrgWritable(q) ==
  /\ OrgExists(q.org)
  /\ "customer" \in q.cols =>
       \A x \in orgs : x.id # q.org => x.customer # PayerOf[q.code]

(* A transaction without a subscription ends with the organization. *)
Onward(q) == {Step(q)} \cup {p \in {[q EXCEPT !.pc = "commit"]} : q.op = "verify"}

FlushOrg(r) == LET q == req[r] IN
  /\ q.pc = "flushOrg"
  /\ Served(r)
  /\ \/ ~Dirty(q) /\ \E p \in Onward(q) : Set(r, p)
     \/ Dirty(q) /\ ~OrgWritable(q) /\ Set(r, Idle)
     \/ /\ Dirty(q) /\ OrgWritable(q)
        /\ \E p \in Onward(q) :
             Set(r, [p EXCEPT !.locks = @ \cup {IF ChangesKey(q) THEN "key" ELSE "row"}])
  /\ UNCHANGED <<tables, bought>>

(* Mutant: the foreign key is missing. *)
SubWritableAnyOrg(q) == Subscribed(q.org) <=> q.old # None

(* An UPDATE needs its row; an INSERT the organization, and no row yet.    *)
SubWritable(q) ==
  /\ Subscribed(q.org) <=> q.old # None
  /\ OrgExists(q.org)

(* Mutant: a statement that failed is tried again, and again. *)
FlushSubAgain(r) == LET q == req[r] IN
  /\ q.pc = "flushSub"
  /\ Served(r) /\ SubWritable(q)
  /\ Set(r, Granted(q, IF q.old = None THEN {"sub", "share"} ELSE {"sub"}))
  /\ UNCHANGED <<tables, bought>>

FlushSub(r) == LET q == req[r] IN
  /\ q.pc = "flushSub"
  /\ Served(r)
  /\ Set(r, IF SubWritable(q)
              THEN Granted(q, IF q.old = None THEN {"sub", "share"} ELSE {"sub"})
              ELSE Idle)
  /\ UNCHANGED <<tables, bought>>

(* ON DELETE CASCADE: the database deletes what was committed since the ORM *)
(* looked.                                                                 *)
Cascade(r) == LET q == req[r] IN
  /\ q.pc = "cascade"
  /\ Served(r)
  /\ Set(r, Granted(q, IF Subscribed(q.org) THEN {"sub"} ELSE {}))
  /\ UNCHANGED <<tables, bought>>

-----------------------------------------------------------------------------
CommitDelete(r) == LET q == req[r] IN
  /\ q.pc = "commit" /\ q.op = "delete"
  /\ orgs' = {x \in orgs : x.id # q.org}
  /\ subs' = {s \in subs : s.org # q.org}
  /\ Set(r, Idle)
  /\ UNCHANGED bought

(* An UPDATE leaves the columns alone that had their value when loaded.    *)
WritesCode(q) == q.op \in {"verify", "create"} /\ "sub" \in q.locks /\ q.old # q.code

CommitWrite(r) == LET q == req[r] IN
  /\ q.pc = "commit" /\ q.op # "delete"
  /\ orgs' = {IF x.id = q.org /\ "customer" \in q.cols
                THEN [x EXCEPT !.customer = PayerOf[q.code]] ELSE x : x \in orgs}
  /\ subs' = IF WritesCode(q)
               THEN {s \in subs : s.org # q.org} \cup {[org |-> q.org, code |-> q.code]}
               ELSE subs
  /\ Set(r, Idle)
  /\ UNCHANGED bought

(* An error, a crash, a client that goes away. *)
Abort(r) ==
  /\ req[r].pc # "idle"
  /\ Set(r, Idle)
  /\ UNCHANGED <<tables, bought>>

(* PostgreSQL finds that two transactions wait for one another: with two    *)
(* rows per organization a cycle is never longer.                          *)
Victim(r) ==
  /\ \E s \in Requests \ {r} : WaitsFor(req[r], req[s]) /\ WaitsFor(req[s], req[r])
  /\ Set(r, Idle)
  /\ UNCHANGED <<tables, bought>>

Buy == \E c \in Codes : Book!Buy(c) /\ UNCHANGED req

Continue(r) ==
  \/ LoadOrg(r) \/ LoadSub(r) \/ LookForChildren(r) \/ FlushOrg(r) \/ FlushSub(r)
  \/ Cascade(r) \/ CommitDelete(r) \/ CommitWrite(r)

Next == \/ Buy
        \/ \E r \in Requests :
             BeginPaid(r) \/ Begin(r) \/ Continue(r) \/ Victim(r) \/ Abort(r)

Spec == Init /\ [][Next]_vars

(* The event loop resumes a handler whose query is answered, Postgres      *)
(* queues the waiters of a lock and breaks cycles.                         *)
FairSpec == Spec /\ \A r \in Requests : SF_vars(Continue(r)) /\ WF_vars(Victim(r))

-----------------------------------------------------------------------------
(* Rows have the columns' types and requests the fields of their endpoint. *)
TypeOK == Book!TypeOK /\ req \in [Requests -> Request]

(* The code a request is about was bought for its organization, and it     *)
(* assigns a customer only together with a code.                           *)
Founded(q) ==
  /\ q.pc # "idle" => q.op \in Ops /\ q.org \in Orgs /\ q.pc \in DOMAIN After[q.op] \cup {"commit"}
  /\ q.op \in {"verify", "create"} => q.code \in bought /\ OrgOf[q.code] = q.org
  /\ "customer" \in q.cols => q.op = "verify"
  /\ q.locks # {} => q.pc # "idle"

(* What the database found when it gave q its locks still holds.           *)
LocksMean(q) ==
  /\ q.locks # {} => OrgExists(q.org)
  /\ "sub" \in q.locks => (Subscribed(q.org) <=> "share" \notin q.locks)
  /\ "key" \in q.locks /\ "customer" \in q.cols =>
       \A x \in orgs : x.id # q.org => x.customer # PayerOf[q.code]
  /\ "row" \in q.locks /\ "customer" \in q.cols =>
       \A x \in orgs : x.id = q.org => x.customer = PayerOf[q.code]
  /\ q.op = "delete" /\ q.pc = "commit" /\ Subscribed(q.org) => "sub" \in q.locks

(* The locks each phase has behind it. *)
Holds(q) ==
  /\ q.op = "delete" /\ q.pc \in {"cascade", "commit"} => "key" \in q.locks
  /\ "share" \in q.locks => "sub" \in q.locks
  /\ q.pc \in {"sub", "flushSub", "children", "cascade"} => "sub" \notin q.locks
  /\ q.op # "create" /\ q.pc \in {"org", "flushOrg"} => "sub" \notin q.locks
  /\ \/ q.pc \in {"org", "children", "flushOrg"}
     \/ q.op \in {"cancel", "create"} /\ q.pc = "sub"
     \/ q.op = "create" /\ q.pc = "flushSub"
     => q.locks \cap {"key", "row"} = {}
  /\ "customer" \in q.cols /\ q.pc # "flushOrg" => q.locks \cap {"key", "row"} # {}

(* An organization that had a subscription has it as long as it is there,  *)
(* and its deletion does not get past the look for children.               *)
StaysSubscribed(q) == q.had =>
  /\ q.op = "delete" /\ q.pc \in {"org", "children", "flushOrg"}
  /\ OrgExists(q.org) => Subscribed(q.org) /\ q.pc # "flushOrg"

(* Two requests hold no conflicting locks of one organization, and two     *)
(* organizations do not get one customer.                                  *)
Compatible(p, q) ==
  /\ p.org = q.org =>
       /\ "key" \in p.locks => q.locks \cap {"key", "row", "share"} = {}
       /\ "row" \in p.locks => "row" \notin q.locks
       /\ "sub" \in p.locks => "sub" \notin q.locks
  /\ p.org # q.org /\ "key" \in p.locks /\ "key" \in q.locks
       /\ "customer" \in p.cols /\ "customer" \in q.cols
       => PayerOf[p.code] # PayerOf[q.code]

Sound(q) == Founded(q) /\ LocksMean(q) /\ Holds(q) /\ StaysSubscribed(q)

(* The inductive invariant of the proofs: the ledger is in order, and what *)
(* the locks stand for holds in every interleaving.                        *)
IInv ==
  /\ TypeOK /\ Book!LedgerInv
  /\ \A r \in Requests : Sound(req[r])
  /\ \A r, s \in Requests : r # s => Compatible(req[r], req[s])

-----------------------------------------------------------------------------
(* Every commit is one step of Ledger.tla, although the handlers decide on *)
(* rows they loaded before (billing_service.py:117-138, 283-330).          *)
Ledgered == Book!Spec

(* organization.py:37: the second organization somebody pays for does not  *)
(* get the customer code, however the two callbacks overlap.               *)
OneOrgPerCustomer == Book!OneOrgPerCustomer

(* subscription.py:28: a subscription stored while the organization is     *)
(* deleted goes with it, or is refused.                                    *)
NoOrphanSubscription == Book!NoOrphanSubscription

(* organization.py:48: an organization that has a subscription when its    *)
(* deletion is asked for is not deleted.  Only a subscription that arrives *)
(* during the deletion goes with the organization.                         *)
Lost == {s \in subs : \A t \in subs' : t.org # s.org}

SubscribedStays == [][\A s \in Lost : \E r \in Requests :
  /\ req[r].op = "delete" /\ req[r].pc = "commit"
  /\ req[r].org = s.org /\ ~req[r].had]_vars

(* Every handler ends, although verify_transaction and subscription.create *)
(* take the two rows in opposite orders and a deletion takes both.         *)
EveryRequestEnds == \A r \in Requests : req[r].pc # "idle" ~> req[r].pc = "idle"

=============================================================================
