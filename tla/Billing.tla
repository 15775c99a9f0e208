-------------------------------- MODULE Billing --------------------------------
(***************************************************************************)
(* One organization's plan and subscription and the requests that write    *)
(* them: the payment callback, the cancellation and the four webhooks.     *)
(* Subscription codes belong to one organization; what organizations       *)
(* share, the unique customer, is in PaidOrganizations.tla.                *)
(*                                                                         *)
(* A request loads the organization and the subscription in the order its  *)
(* handler does, assigns columns, and flushes each, which takes the row's  *)
(* lock; get_db commits at the end.  The cancellation calls Paystack       *)
(* between its loads and its flush.  Paystack announces what happens to a  *)
(* subscription in webhooks, as often and in whatever order it likes.      *)
(***************************************************************************)
EXTENDS Naturals, Sequences

CONSTANTS
  Requests,   \* slots for requests in progress at the same time
  Codes,      \* Paystack's subscription codes
  PlanOf,     \* the plan each of them is for
  Endpoints,  \* the handlers that run; a bound of the model
  Quirks,     \* what the environment does beyond the ideal, see below
  MaxEvents,  \* webhooks on Paystack's own account; a bound of the model
  None

Ops == {"verify", "cancel", "charge", "create", "disable", "failed"}

Webhooks == {"charge", "create", "disable", "failed"}

(* reorder: webhooks come in any order, and again;  again: the customer     *)
(* subscribes while a subscription is active;  replay: the customer comes  *)
(* back to the callback URL of a subscription that has ended;  bare: the   *)
(* payload leaves out what the handlers look for and do without;  lose: a  *)
(* commit fails after the answer to the webhook was sent.                  *)
AllQuirks == {"reorder", "again", "replay", "bare", "lose"}

Plans == {"free", "pro", "enterprise"}

ASSUME BillingAssumption ==
  /\ PlanOf \in [Codes -> Plans \ {"free"}]
  /\ Endpoints \subseteq Ops
  /\ Quirks \subseteq AllQuirks
  /\ MaxEvents \in Nat

VARIABLES
  org,    \* the committed columns plan and paystack_customer_id
  sub,    \* the committed subscription, None if there is none
  pay,    \* Paystack's view of each code
  inbox,  \* the webhooks Paystack has announced, in their order
  done,   \* the positions in it that were handled
  req     \* the requests in progress

vars == <<org, sub, pay, inbox, done, req>>

OrgRow == [plan : Plans, customer : BOOLEAN]

SubRow == [code     : Codes,                            \* paystack_sub_code
           plan     : Plans,                            \* paystack_plan_code
           status   : {"active", "past_due", "canceled"},
           canceled : BOOLEAN]                          \* canceled_at is set

ASSUME NoneIsNoRow == None \notin SubRow \cup Ops \cup Codes

NewOrg == [plan |-> "free", customer |-> FALSE]

Event == [kind : Webhooks, code : Codes]

(* What a handler does after what: org and sub load the row and assign,    *)
(* call is the request to Paystack.                                        *)
After ==
  [verify  |-> [org |-> "flushOrg", flushOrg |-> "sub", sub |-> "flushSub",
                flushSub |-> "commit"],
   create  |-> [sub |-> "flushSub", flushSub |-> "org", org |-> "flushOrg",
                flushOrg |-> "commit"],
   charge  |-> [org |-> "flushOrg", flushOrg |-> "commit"],
   disable |-> [sub |-> "org", org |-> "flushOrg", flushOrg |-> "flushSub",
                flushSub |-> "commit"],
   failed  |-> [sub |-> "flushSub", flushSub |-> "commit"],
   cancel  |-> [org |-> "sub", sub |-> "call", call |-> "flushOrg",
                flushOrg |-> "flushSub", flushSub |-> "commit"]]

First == [verify |-> "org", create |-> "sub", charge |-> "org", disable |-> "sub",
          failed |-> "sub", cancel |-> "org"]

Request == [op    : Ops \cup {None},
            pc    : {"idle", "org", "sub", "call", "flushOrg", "flushSub", "commit"},
            code  : Codes \cup {None},       \* the subscription it is about
            event : Nat,                     \* position in the inbox, 0 for a browser
            full  : BOOLEAN,                 \* the payload is not bare
            orgOld : OrgRow, orgNew : OrgRow,                   \* loaded, assigned
            subOld : SubRow \cup {None}, subNew : SubRow \cup {None},
            locks : SUBSET {"org", "sub"}]

Idle == [op |-> None, pc |-> "idle", code |-> None, event |-> 0, full |-> TRUE,
         orgOld |-> NewOrg, orgNew |-> NewOrg, subOld |-> None, subNew |-> None,
         locks |-> {}]

Init ==
  /\ org = NewOrg /\ sub = None
  /\ pay = [c \in Codes |-> "none"]
  /\ inbox = <<>> /\ done = {}
  /\ req = [r \in Requests |-> Idle]

Set(r, q) == req' = [req EXCEPT ![r] = q]

(* A webhook without organization_id disables only the row; a transaction  *)
(* without a subscription only sets the plan.                              *)
NextPc(q) ==
  CASE ~q.full /\ q.op = "disable" /\ q.pc = "sub"     -> "flushSub"
    [] ~q.full /\ q.op = "verify"  /\ q.pc = "flushOrg" -> "commit"
    [] OTHER -> After[q.op][q.pc]

Step(q) == [q EXCEPT !.pc = NextPc(q)]

-----------------------------------------------------------------------------
(* Paystack and its customer.                                              *)
Announce(events) ==
  /\ Len(inbox) + Len(events) <= MaxEvents
  /\ inbox' = inbox \o events

(* A checkout that initialize_transaction started is paid.                 *)
Subscribe(c) ==
  /\ pay[c] = "none"
  /\ "again" \in Quirks \/ \A d \in Codes : pay[d] # "active"
  /\ pay' = [pay EXCEPT ![c] = "active"]
  /\ Announce(<<[kind |-> "charge", code |-> c], [kind |-> "create", code |-> c]>>)
  /\ UNCHANGED <<org, sub, done, req>>

Renew(c) ==
  /\ pay[c] = "active"
  /\ \E kind \in {"charge", "failed"} : Announce(<<[kind |-> kind, code |-> c]>>)
  /\ UNCHANGED <<org, sub, pay, done, req>>

Unsubscribe(c) ==
  /\ pay[c] = "active"
  /\ pay' = [pay EXCEPT ![c] = "disabled"]
  /\ Announce(<<[kind |-> "disable", code |-> c]>>)
  /\ UNCHANGED <<org, sub, done, req>>

-----------------------------------------------------------------------------
(* Without organization_id charge and create return at once. *)
Start(r, op, c, n) == \E full \in BOOLEAN :
  /\ full \/ ("bare" \in Quirks /\ op \notin {"cancel", "failed"})
  /\ req[r].pc = "idle" /\ op \in Endpoints
  /\ Set(r, [Idle EXCEPT !.op = op, !.code = c, !.event = n, !.full = full,
                         !.pc = IF full \/ op \notin {"charge", "create"}
                                  THEN First[op] ELSE "commit"])
  /\ UNCHANGED <<org, sub, pay, inbox, done>>

(* Paystack delivers a webhook until it gets an answer. *)
Webhook(r) == \E n \in DOMAIN inbox :
  /\ "reorder" \notin Quirks => n \notin done /\ \A m \in 1..(n-1) : m \in done
  /\ Start(r, inbox[n].kind, inbox[n].code, n)

(* Mutant: the status of the transaction is not looked at. *)
CallbackUnpaid(r) == \E c \in Codes : Start(r, "verify", c, 0)

(* verify_transaction, for a transaction that Paystack reports as paid. *)
Callback(r) == \E c \in Codes :
  /\ IF "replay" \in Quirks THEN pay[c] # "none" ELSE pay[c] = "active"
  /\ Start(r, "verify", c, 0)

StartCancel(r) == Start(r, "cancel", None, 0)

(* Mutant: the plan of any product. *)
AnyPlan(q) == IF q.op \in {"disable", "cancel"} THEN "free" ELSE "enterprise"

Target(q) == IF q.op \in {"disable", "cancel"} THEN "free" ELSE PlanOf[q.code]

LoadOrg(r) == LET q == req[r] IN
  /\ q.pc = "org"
  /\ Set(r, Step([q EXCEPT !.orgOld = org,
                           !.orgNew = [plan |-> Target(q),
                                       customer |-> org.customer \/ q.op = "verify"]]))
  /\ UNCHANGED <<org, sub, pay, inbox, done>>

(* Mutant: an existing row keeps its status. *)
UpsertedOldStatus(c) == [code |-> c, plan |-> PlanOf[c],
                         status |-> IF sub = None THEN "active" ELSE sub.status,
                         canceled |-> sub # None /\ sub.canceled]

(* _upsert_subscription_record; the row keeps its canceled_at. *)
Upserted(c) == [code |-> c, plan |-> PlanOf[c], status |-> "active",
                canceled |-> sub # None /\ sub.canceled]

Canceled(row) == [row EXCEPT !.status = "canceled", !.canceled = TRUE]

(* Mutant: the row of the organization, whatever its code is now. *)
IsAboutOrg(q) == sub # None

(* The webhooks look the row up by its code, the others by organization.   *)
IsAbout(q) == sub # None /\ (q.op \in {"disable", "failed"} => sub.code = q.code)

Assigned(q) ==
  CASE q.op \in {"verify", "create"} -> Upserted(q.code)
    [] q.op = "failed"               -> [sub EXCEPT !.status = "past_due"]
    [] q.op \in {"disable", "cancel"} -> Canceled(sub)

(* A cancellation learns the code from the row, and is a 404 without one.  *)
LoadSub(r) == LET q == req[r] IN
  /\ q.pc = "sub"
  /\ Set(r, CASE q.op = "cancel" /\ sub = None -> Idle
              [] q.op \in {"verify", "create"} \/ IsAbout(q) ->
                   Step([q EXCEPT !.subOld = sub, !.subNew = Assigned(q),
                                  !.code = IF q.op = "cancel" THEN sub.code ELSE q.code])
              [] OTHER -> Step(q))
  /\ UNCHANGED <<org, sub, pay, inbox, done>>

(* POST /subscription/disable: Paystack refuses it for a subscription that *)
(* is not active, and then the handler raises.                             *)
Call(r) == LET q == req[r] IN
  /\ q.pc = "call"
  /\ IF pay[q.code] = "active"
       THEN /\ pay' = [pay EXCEPT ![q.code] = "disabled"]
            /\ inbox' = Append(inbox, [kind |-> "disable", code |-> q.code])
            /\ Set(r, Step(q))
       ELSE Set(r, Idle) /\ UNCHANGED <<pay, inbox>>
  /\ UNCHANGED <<org, sub, done>>

-----------------------------------------------------------------------------
Free(r, row) == \A s \in Requests \ {r} : row \notin req[s].locks

(* An UPDATE is sent if a column differs from what was loaded.  Periods and *)
(* canceled_at are times, so they always do.                               *)
OrgDirty(q) == q.orgNew # q.orgOld

SubDirty(q) == q.subNew # None /\ (q.op = "failed" => q.subNew # q.subOld)

FlushOrg(r) == LET q == req[r] IN
  /\ q.pc = "flushOrg"
  /\ OrgDirty(q) => Free(r, "org")
  /\ Set(r, Step(IF OrgDirty(q) THEN [q EXCEPT !.locks = @ \cup {"org"}] ELSE q))
  /\ UNCHANGED <<org, sub, pay, inbox, done>>

(* An INSERT waits for another one of the same organization and then fails *)
(* on the unique organization_id.                                          *)
Duplicate(q) == q.subNew # None /\ q.subOld = None /\ sub # None

FlushSub(r) == LET q == req[r] IN
  /\ q.pc = "flushSub"
  /\ SubDirty(q) => Free(r, "sub")
  /\ Set(r, IF Duplicate(q) THEN Idle
            ELSE Step(IF SubDirty(q) THEN [q EXCEPT !.locks = @ \cup {"sub"}] ELSE q))
  /\ UNCHANGED <<org, sub, pay, inbox, done>>

MergedOrg(q) ==
  [plan     |-> IF q.orgNew.plan # q.orgOld.plan THEN q.orgNew.plan ELSE org.plan,
   customer |-> q.orgNew.customer # q.orgOld.customer \/ org.customer]

(* Mutant: the plan is sent with every UPDATE. *)
MergedSubPlan(q) ==
  IF q.subOld = None THEN q.subNew ELSE
    [code     |-> IF q.subNew.code # q.subOld.code THEN q.subNew.code ELSE sub.code,
     plan     |-> q.subNew.plan,
     status   |-> IF q.subNew.status # q.subOld.status THEN q.subNew.status ELSE sub.status,
     canceled |-> sub.canceled \/ q.subNew.canceled]

MergedSub(q) ==
  IF q.subOld = None THEN q.subNew ELSE
    [code     |-> IF q.subNew.code # q.subOld.code THEN q.subNew.code ELSE sub.code,
     plan     |-> IF q.subNew.plan # q.subOld.plan THEN q.subNew.plan ELSE sub.plan,
     status   |-> IF q.subNew.status # q.subOld.status THEN q.subNew.status ELSE sub.status,
     canceled |-> sub.canceled \/ q.subNew.canceled]

Commit(r) == LET q == req[r] IN
  /\ q.pc = "commit"
  /\ org' = MergedOrg(q)
  /\ sub' = IF SubDirty(q) THEN MergedSub(q) ELSE sub
  /\ done' = done \cup ({q.event} \ {0})
  /\ Set(r, Idle)
  /\ UNCHANGED <<pay, inbox>>

(* An error of Paystack or of the database, a crash: the webhook or the    *)
(* client may come again.                                                  *)
Abort(r) ==
  /\ req[r].pc # "idle"
  /\ Set(r, Idle)
  /\ UNCHANGED <<org, sub, pay, inbox, done>>

(* FastAPI sends the answer before get_db commits: Paystack has its 200 and *)
(* does not repeat a webhook whose commit fails.                           *)
Lose(r) == LET q == req[r] IN
  /\ "lose" \in Quirks
  /\ q.pc = "commit" /\ q.event # 0
  /\ done' = done \cup {q.event}
  /\ Set(r, Idle)
  /\ UNCHANGED <<org, sub, pay, inbox>>

(* PostgreSQL finds that r and s wait for one another and fails r. *)
WaitsFor(r, s) ==
  \/ req[r].pc = "flushOrg" /\ OrgDirty(req[r]) /\ "org" \in req[s].locks
  \/ req[r].pc = "flushSub" /\ SubDirty(req[r]) /\ "sub" \in req[s].locks

Victim(r) ==
  /\ \E s \in Requests \ {r} : WaitsFor(r, s) /\ WaitsFor(s, r)
  /\ Set(r, Idle)
  /\ UNCHANGED <<org, sub, pay, inbox, done>>

Environment == \E c \in Codes : Subscribe(c) \/ Renew(c) \/ Unsubscribe(c)

Begin(r) == Webhook(r) \/ Callback(r) \/ StartCancel(r)

Continue(r) ==
  \/ LoadOrg(r) \/ LoadSub(r) \/ Call(r) \/ FlushOrg(r) \/ FlushSub(r) \/ Commit(r)

Next == \/ Environment
        \/ \E r \in Requests : Begin(r) \/ Continue(r) \/ Victim(r) \/ Abort(r) \/ Lose(r)

Spec == Init /\ [][Next]_vars

-----------------------------------------------------------------------------
(* Rows have the columns' types, requests the rows they loaded. *)
TypeOK ==
  /\ org \in OrgRow
  /\ sub \in SubRow \cup {None}
  /\ pay \in [Codes -> {"none", "active", "disabled"}]
  /\ inbox \in Seq(Event)
  /\ done \subseteq Nat
  /\ req \in [Requests -> Request]

Known(c) == c \in Codes /\ pay[c] # "none"

OrgPaid(o) == o.plan # "free" => \E c \in Codes : Known(c) /\ PlanOf[c] = o.plan

(* No interleaving, replay or reordering gives an organization a plan that *)
(* was not bought, nor a subscription Paystack does not know.              *)
PaidPlan == OrgPaid(org) /\ (sub # None => Known(sub.code))

(* Whatever overlaps, a subscription that ended says when.                 *)
EndIsDated == sub # None /\ sub.status = "canceled" => sub.canceled

SubSound(s) == s # None => Known(s.code) /\ (s.status = "canceled" => s.canceled)

(* What a request has loaded and assigned is as sound as the rows are.     *)
RequestSound(q) ==
  /\ q.pc # "idle" => q.op \in Ops /\ q.pc \in DOMAIN After[q.op] \cup {"commit"}
  /\ q.pc # "idle" /\ (q.op = "cancel" => q.pc \notin {"org", "sub"}) => Known(q.code)
  /\ OrgPaid(q.orgOld) /\ OrgPaid(q.orgNew)
  /\ SubSound(q.subOld) /\ SubSound(q.subNew)
  /\ q.subOld # None => sub # None

(* The inductive invariant behind PaidPlan and EndIsDated: rows, webhooks  *)
(* and requests in progress, at every step of every interleaving.          *)
IInv ==
  /\ TypeOK
  /\ OrgPaid(org)
  /\ SubSound(sub)
  /\ \A n \in DOMAIN inbox : Known(inbox[n].code)
  /\ \A r \in Requests : RequestSound(req[r])

(* billing_service.py:146: cancelling disables the subscription it marks.  *)
(* What the database calls canceled does not go on costing money.          *)
CanceledIsDisabled == sub # None /\ sub.status = "canceled" => pay[sub.code] = "disabled"

(* billing_service.py:314-317: code and plan of the row are of one         *)
(* subscription.  Not so when upserts overlap and two codes are for one    *)
(* plan: each UPDATE sends the columns that differ from what was loaded,   *)
(* and one of them may change the code alone.                              *)
CodeMatchesPlan == sub # None => sub.plan = PlanOf[sub.code]

Twins == \E c, d \in Codes : c # d /\ Known(c) /\ Known(d) /\ PlanOf[c] = PlanOf[d]

(* That is the only way they come apart: until the customer has bought one *)
(* plan twice, no overlap of upserts, cancellations and webhooks, each     *)
(* with a row loaded earlier, puts the plan of one subscription beside the *)
(* code of another.                                                        *)
MixedOnlyWithTwins == CodeMatchesPlan \/ Twins

(* When requests come one after the other, the row a request loaded is the *)
(* row it writes, and whoever ends a subscription knows that it has ended. *)
Alone == \A r, s \in Requests : r = s

SerialSound(q) ==
  /\ q.op = "disable" /\ q.pc # "idle" => pay[q.code] = "disabled"
  /\ q.op = "cancel" /\ q.pc \in {"flushOrg", "flushSub", "commit"} =>
       pay[q.code] = "disabled"
  /\ q.subNew # None =>
       /\ q.subOld = sub
       /\ q.subNew.plan = PlanOf[q.subNew.code]
       /\ q.subNew.status = "canceled" =>
            q.op \in {"disable", "cancel"} /\ q.subNew.code = q.code

SerialInv ==
  /\ CodeMatchesPlan /\ CanceledIsDisabled
  /\ \A n \in DOMAIN inbox : inbox[n].kind = "disable" => pay[inbox[n].code] = "disabled"
  /\ \A r \in Requests : SerialSound(req[r])

(* README.md:11, plan sync: when all webhooks are handled and nothing is   *)
(* in progress, the organization has the one subscription it pays for.    *)
Quiet == done = DOMAIN inbox /\ \A r \in Requests : req[r].pc = "idle"

Active == {c \in Codes : pay[c] = "active"}

Served(c) == org.plan = PlanOf[c] /\ sub # None /\ sub.code = c /\ sub.status # "canceled"

InStep == Quiet => /\ \A c \in Codes : Active = {c} => Served(c)
                   /\ Active = {} => org.plan = "free"

=============================================================================
