----------------------------- MODULE BillingProofs -----------------------------
(***************************************************************************)
(* Proofs about Billing.tla for any number of overlapping requests, any     *)
(* subscription codes and any webhooks: the plan of an organization was     *)
(* bought, a subscription that ended says when, and its code and plan are   *)
(* of one unless a plan was bought twice.  For requests one after           *)
(* the other: what is canceled costs nothing, and once the webhooks have    *)
(* come, each once and in order, the organization has what it pays for.     *)
(***************************************************************************)
EXTENDS Billing, TLAPS

USE BillingAssumption, NoneIsNoRow

(* Paystack never forgets a subscription and the row is never deleted, so   *)
(* what was sound before a step is sound after it.                          *)
Grows ==
  /\ pay' \in [Codes -> {"none", "active", "disabled"}]
  /\ \A c \in Codes : pay[c] # "none" => pay'[c] # "none"
  /\ sub # None => sub' # None

LEMMA Persists ==
  ASSUME Grows, NEW q, RequestSound(q)
  PROVE  RequestSound(q)'
<1>1. ASSUME NEW o, OrgPaid(o) PROVE OrgPaid(o)'
  BY <1>1 DEF Grows, OrgPaid, Known
<1>2. ASSUME NEW s, SubSound(s) PROVE SubSound(s)'
  BY <1>2 DEF Grows, SubSound, Known
<1>3. ASSUME NEW c, Known(c) PROVE Known(c)'
  BY <1>3 DEF Grows, Known
<1>4. OrgPaid(q.orgOld)' /\ OrgPaid(q.orgNew)'
  BY <1>1 DEF RequestSound
<1>5. SubSound(q.subOld)' /\ SubSound(q.subNew)'
  BY <1>2 DEF RequestSound
<1>6. (q.pc # "idle" /\ (q.op = "cancel" => q.pc \notin {"org", "sub"}) => Known(q.code))'
  BY <1>3 DEF RequestSound
<1> QED BY <1>4, <1>5, <1>6 DEF RequestSound, Grows

LEMMA RowsPersist ==
  ASSUME Grows
  PROVE  /\ \A o \in OrgRow : OrgPaid(o) => OrgPaid(o)'
         /\ \A s \in SubRow \cup {None} : SubSound(s) => SubSound(s)'
         /\ \A c \in Codes : Known(c) => Known(c)'
  BY DEF Grows, OrgPaid, SubSound, Known

(* A step of one request: what it must show of the rows and of itself. *)
LEMMA RequestStep ==
  ASSUME IInv, NEW r \in Requests, NEW q \in Request, Set(r, q),
         Grows, inbox' \in Seq(Event), done' \subseteq Nat,
         (\A n \in DOMAIN inbox : Known(inbox[n].code))',
         org' \in OrgRow, sub' \in SubRow \cup {None},
         OrgPaid(org)', SubSound(sub)', RequestSound(q)'
  PROVE  IInv'
<1>1. /\ req' \in [Requests -> Request] /\ req'[r] = q
      /\ \A s \in Requests : s # r => req'[s] = req[s]
  BY DEF Set, IInv, TypeOK
<1>2. TypeOK'
  BY <1>1 DEF TypeOK, Grows
<1>3. ASSUME NEW s \in Requests PROVE RequestSound(req[s])'
  <2>1. CASE s = r
    BY <1>1, <2>1 DEF RequestSound
  <2>2. CASE s # r
    <3>1. PICK p : p = req[s]
      OBVIOUS
    <3>2. RequestSound(p)'
      BY <3>1, Persists DEF IInv
    <3> QED BY <1>1, <2>2, <3>1, <3>2 DEF RequestSound
  <2> QED BY <2>1, <2>2
<1> QED BY <1>2, <1>3 DEF IInv

(* The same for a step that leaves the tables and Paystack alone. *)
LEMMA LocalStep ==
  ASSUME IInv, NEW r \in Requests, NEW q \in Request, Set(r, q),
         UNCHANGED <<org, sub, pay, inbox, done>>, RequestSound(q)
  PROVE  IInv'
<1>1. Grows
  BY DEF Grows, IInv, TypeOK
<1>2. RequestSound(q)'
  BY <1>1, Persists
<1>3. OrgPaid(org)' /\ SubSound(sub)'
  BY DEF IInv, OrgPaid, SubSound, Known
<1>4. (\A n \in DOMAIN inbox : Known(inbox[n].code))'
  BY DEF IInv, Known
<1>5. /\ inbox' \in Seq(Event) /\ done' \subseteq Nat
      /\ org' \in OrgRow /\ sub' \in SubRow \cup {None}
  BY DEF IInv, TypeOK
<1> QED BY <1>1, <1>2, <1>3, <1>4, <1>5, RequestStep

LEMMA IdleSound == Idle \in Request /\ RequestSound(Idle)
  BY DEF Idle, Request, NewOrg, OrgRow, Plans, RequestSound, OrgPaid, SubSound

(* The table of steps: from any step of a handler to another of its own. *)
LEMMA StepPc ==
  ASSUME NEW q \in Request, q.op \in Ops, q.pc \in DOMAIN After[q.op]
  PROVE  /\ NextPc(q) \in DOMAIN After[q.op] \cup {"commit"}
         /\ NextPc(q) \in {"org", "sub", "call", "flushOrg", "flushSub", "commit"}
         /\ q.op = "cancel" /\ NextPc(q) \in {"org", "sub"} => q.pc = "org"
<1>1. CASE q.op = "verify"
  BY <1>1 DEF NextPc, After, Request
<1>2. CASE q.op = "create"
  BY <1>2 DEF NextPc, After, Request
<1>3. CASE q.op = "charge"
  BY <1>3 DEF NextPc, After, Request
<1>4. CASE q.op = "disable"
  BY <1>4 DEF NextPc, After, Request
<1>5. CASE q.op = "failed"
  BY <1>5 DEF NextPc, After, Request
<1>6. CASE q.op = "cancel"
  BY <1>6 DEF NextPc, After, Request
<1> QED BY <1>1, <1>2, <1>3, <1>4, <1>5, <1>6 DEF Ops

LEMMA FirstPc ==
  ASSUME NEW op \in Ops
  PROVE  First[op] \in {"org", "sub"} /\ First[op] \in DOMAIN After[op]
  BY DEF Ops, First, After

-----------------------------------------------------------------------------
(* What Paystack announces is about the subscription in question, and its  *)
(* end only if it has ended.                                               *)
LEMMA Announced ==
  ASSUME IInv, NEW c \in Codes, Subscribe(c) \/ Renew(c) \/ Unsubscribe(c)
  PROVE  /\ inbox' \in Seq(Event)
         /\ \A n \in DOMAIN inbox' :
              \/ n \in DOMAIN inbox /\ inbox'[n] = inbox[n]
              \/ inbox'[n].code = c /\ (inbox'[n].kind = "disable" => Unsubscribe(c))
<1> DEFINE About(e) == e.code = c /\ (e.kind = "disable" => Unsubscribe(c))
           event(kind) == [kind |-> kind, code |-> c]
<1>1. PICK events \in Seq(Event) : /\ inbox' = inbox \o events
                                   /\ \A k \in 1..Len(events) : About(events[k])
  <2>1. CASE Subscribe(c)
    <3> DEFINE both == <<event("charge"), event("create")>>
    <3>1. both \in Seq(Event) /\ (\A k \in 1..Len(both) : About(both[k]))
      BY DEF Event, Webhooks
    <3>2. inbox' = inbox \o both
      BY <2>1 DEF Subscribe, Announce
    <3> QED BY <3>1, <3>2
  <2>2. ASSUME NEW kind \in Webhooks, inbox' = inbox \o <<event(kind)>>,
               kind = "disable" => Unsubscribe(c)
        PROVE  \E events \in Seq(Event) : /\ inbox' = inbox \o events
                                          /\ \A k \in 1..Len(events) : About(events[k])
    <3>1. <<event(kind)>> \in Seq(Event)
      BY DEF Event
    <3>2. \A k \in 1..Len(<<event(kind)>>) : About(<<event(kind)>>[k])
      BY <2>2
    <3> QED BY <2>2, <3>1, <3>2
  <2>3. CASE Renew(c)
    <3>1. PICK kind \in {"charge", "failed"} : inbox' = inbox \o <<event(kind)>>
      BY <2>3 DEF Renew, Announce
    <3> QED BY <2>2, <3>1 DEF Webhooks
  <2>4. CASE Unsubscribe(c)
    <3>1. inbox' = inbox \o <<event("disable")>> /\ "disable" \in Webhooks
      BY <2>4 DEF Unsubscribe, Announce, Webhooks
    <3> QED BY <2>2, <2>4, <3>1
  <2> QED BY <2>1, <2>3, <2>4
<1>2. inbox \in Seq(Event)
  BY DEF IInv, TypeOK
<1>3. /\ inbox' \in Seq(Event) /\ Len(inbox') = Len(inbox) + Len(events)
      /\ Len(inbox) \in Nat /\ Len(events) \in Nat
      /\ \A n \in 1..Len(inbox') :
           inbox'[n] = IF n <= Len(inbox) THEN inbox[n] ELSE events[n - Len(inbox)]
  BY <1>1, <1>2
<1>4. ASSUME NEW n \in DOMAIN inbox'
      PROVE  (n \in DOMAIN inbox /\ inbox'[n] = inbox[n]) \/ About(inbox'[n])
  <2>1. n \in 1..Len(inbox') /\ DOMAIN inbox = 1..Len(inbox)
    BY <1>2, <1>3
  <2>2. CASE n <= Len(inbox)
    BY <1>3, <2>1, <2>2
  <2>3. CASE ~(n <= Len(inbox))
    <3>1. n - Len(inbox) \in 1..Len(events)
      BY <1>3, <2>1, <2>3
    <3>2. About(events[n - Len(inbox)]) /\ inbox'[n] = events[n - Len(inbox)]
      BY <1>1, <1>3, <2>1, <2>3, <3>1
    <3> QED BY <3>2
  <2> QED BY <2>2, <2>3
<1> QED BY <1>3, <1>4

(* Paystack only turns subscriptions active or disabled, and announces      *)
(* those it has.                                                            *)
LEMMA EnvironmentStep == ASSUME IInv, Environment PROVE IInv'
<1>1. PICK c \in Codes : Subscribe(c) \/ Renew(c) \/ Unsubscribe(c)
  BY DEF Environment
<1>2. Grows /\ pay'[c] # "none" /\ UNCHANGED <<org, sub, done, req>>
  BY <1>1 DEF Subscribe, Renew, Unsubscribe, Grows, IInv, TypeOK
<1>3. /\ inbox' \in Seq(Event)
      /\ \A n \in DOMAIN inbox' : (n \in DOMAIN inbox /\ inbox'[n] = inbox[n])
                                  \/ inbox'[n].code = c
  BY <1>1, Announced
<1>4. (\A n \in DOMAIN inbox : Known(inbox[n].code))'
  BY <1>2, <1>3, RowsPersist DEF IInv, Known, Grows
<1>5. OrgPaid(org)' /\ SubSound(sub)'
  BY <1>2, RowsPersist DEF IInv, TypeOK, OrgPaid, SubSound, Known, Grows
<1>6. TypeOK'
  BY <1>2, <1>3 DEF IInv, TypeOK, Grows
<1>7. ASSUME NEW s \in Requests PROVE RequestSound(req[s])'
  <2>1. PICK p : p = req[s]
    OBVIOUS
  <2>2. RequestSound(p)'
    BY <1>2, <2>1, Persists DEF IInv
  <2> QED BY <1>2, <2>1, <2>2 DEF RequestSound
<1> QED BY <1>4, <1>5, <1>6, <1>7 DEF IInv

(* A request starts with a code that Paystack knows, or with none. *)
LEMMA StartStep ==
  ASSUME IInv, NEW r \in Requests, NEW op \in Ops, NEW c \in Codes \cup {None},
         NEW n \in Nat, op # "cancel" => Known(c), Start(r, op, c, n)
  PROVE  IInv'
<1>1. PICK full \in BOOLEAN :
         Set(r, [Idle EXCEPT !.op = op, !.code = c, !.event = n, !.full = full,
                             !.pc = IF full \/ op \notin {"charge", "create"}
                                      THEN First[op] ELSE "commit"])
         /\ (full \/ op \notin {"cancel", "failed"})
  BY DEF Start
<1> DEFINE q == [Idle EXCEPT !.op = op, !.code = c, !.event = n, !.full = full,
                             !.pc = IF full \/ op \notin {"charge", "create"}
                                      THEN First[op] ELSE "commit"]
<1>2. q \in Request
  BY FirstPc, IdleSound DEF Idle, Request
<1>3. /\ q.op = op /\ q.code = c
      /\ q.pc \in DOMAIN After[op] \cup {"commit"}
      /\ op = "cancel" => q.pc \in {"org", "sub"}
      /\ q.orgOld = Idle.orgOld /\ q.orgNew = Idle.orgNew
      /\ q.subOld = Idle.subOld /\ q.subNew = Idle.subNew
  BY <1>1, FirstPc DEF Idle
<1>4. RequestSound(q)
  BY <1>3, IdleSound DEF RequestSound, Idle
<1>5. UNCHANGED <<org, sub, pay, inbox, done>>
  BY DEF Start
<1> QED BY <1>1, <1>2, <1>4, <1>5, LocalStep

LEMMA BeginStep == ASSUME IInv, NEW r \in Requests, Begin(r) PROVE IInv'
<1>1. CASE Webhook(r)
  <2>1. PICK n \in DOMAIN inbox : Start(r, inbox[n].kind, inbox[n].code, n)
    BY <1>1 DEF Webhook
  <2>2. inbox[n] \in Event /\ n \in Nat /\ Known(inbox[n].code)
    BY DEF IInv, TypeOK
  <2> QED BY <2>1, <2>2, StartStep DEF Event, Webhooks, Ops
<1>2. CASE Callback(r)
  <2>1. PICK c \in Codes : pay[c] # "none" /\ Start(r, "verify", c, 0)
    BY <1>2 DEF Callback
  <2> QED BY <2>1, StartStep DEF Known, Ops
<1>3. CASE StartCancel(r)
  BY <1>3, StartStep DEF StartCancel, Ops
<1> QED BY <1>1, <1>2, <1>3 DEF Begin

-----------------------------------------------------------------------------
(* What a load assigns is sound: a plan is the one of a known code. *)
LEMMA LoadOrgStep == ASSUME IInv, NEW r \in Requests, LoadOrg(r) PROVE IInv'
<1>1. PICK q : q = req[r]
  OBVIOUS
<1>2. q \in Request /\ RequestSound(q) /\ q.pc = "org" /\ q.op \in Ops
  BY <1>1 DEF IInv, TypeOK, LoadOrg, RequestSound
<1>3. PICK o \in OrgRow : o = [plan |-> Target(q), customer |-> org.customer \/ q.op = "verify"]
  BY <1>2 DEF IInv, TypeOK, OrgRow, Target, Plans, RequestSound, Known
<1>4. OrgPaid(o)
  BY <1>2, <1>3 DEF OrgPaid, Target, RequestSound, Known
<1>5. PICK t : t = Step([q EXCEPT !.orgOld = org, !.orgNew = o])
  OBVIOUS
<1>6. PICK pc : pc = NextPc([q EXCEPT !.orgOld = org, !.orgNew = o])
  OBVIOUS
<1>7. pc = NextPc(q)
  BY <1>2, <1>6 DEF NextPc, Request
<1>8. q.pc \in DOMAIN After[q.op]
  BY <1>2 DEF RequestSound
<1>9. /\ t \in Request /\ t.op = q.op /\ t.code = q.code /\ t.pc = pc
      /\ t.orgOld = org /\ t.orgNew = o
      /\ t.subOld = q.subOld /\ t.subNew = q.subNew
  BY <1>2, <1>5, <1>6, <1>7, <1>8, StepPc DEF Step, Request, IInv, TypeOK
<1>10. RequestSound(t)
  <2>1. t.op \in Ops /\ t.pc \in DOMAIN After[t.op] \cup {"commit"}
    BY <1>2, <1>7, <1>8, <1>9, StepPc
  <2>2. t.op # "cancel" => Known(t.code)
    BY <1>2, <1>9 DEF RequestSound
  <2>3. t.op = "cancel" => t.pc = "sub"
    BY <1>2, <1>7, <1>9 DEF NextPc, After
  <2> QED BY <1>2, <1>4, <1>9, <2>1, <2>2, <2>3 DEF RequestSound, IInv
<1>11. Set(r, t) /\ UNCHANGED <<org, sub, pay, inbox, done>>
  BY <1>1, <1>3, <1>5 DEF LoadOrg
<1> QED BY <1>9, <1>10, <1>11, LocalStep

(* A step that changes nothing of the request but its pc. *)
LEMMA PlainStep ==
  ASSUME NEW q \in Request, RequestSound(q), q.op \in Ops, q.pc \in DOMAIN After[q.op],
         q.op = "cancel" => q.pc \notin {"org", "sub"}
  PROVE  Step(q) \in Request /\ RequestSound(Step(q))
<1>1. PICK t : t = Step(q)
  OBVIOUS
<1>2. /\ t \in Request /\ t.op = q.op /\ t.code = q.code /\ t.pc = NextPc(q)
      /\ t.orgOld = q.orgOld /\ t.orgNew = q.orgNew
      /\ t.subOld = q.subOld /\ t.subNew = q.subNew
  BY <1>1, StepPc DEF Step, Request
<1>3. /\ t.pc \in DOMAIN After[t.op] \cup {"commit"}
      /\ q.pc # "idle" /\ (t.op = "cancel" => q.pc \notin {"org", "sub"})
  BY <1>2, StepPc DEF After, Ops
<1>4. Known(t.code)
  BY <1>2, <1>3 DEF RequestSound
<1>5. RequestSound(t)
  BY <1>2, <1>3, <1>4 DEF RequestSound
<1> QED BY <1>1, <1>2, <1>5

LEMMA LoadSubStep == ASSUME IInv, NEW r \in Requests, LoadSub(r) PROVE IInv'
<1>1. PICK q : q = req[r]
  OBVIOUS
<1>2. /\ q \in Request /\ RequestSound(q) /\ q.pc = "sub" /\ q.op \in Ops
      /\ q.pc \in DOMAIN After[q.op] /\ sub \in SubRow \cup {None} /\ SubSound(sub)
      /\ UNCHANGED <<org, sub, pay, inbox, done>>
  BY <1>1 DEF IInv, TypeOK, LoadSub, RequestSound
<1>3. q.op # "charge" /\ (q.op # "cancel" => Known(q.code))
  BY <1>2 DEF After, RequestSound
<1>4. CASE q.op = "cancel" /\ sub = None
  <2>1. Set(r, Idle)
    BY <1>1, <1>4 DEF LoadSub, IsAbout
  <2> QED BY <1>2, <2>1, IdleSound, LocalStep
<1>5. CASE q.op \in {"disable", "failed"} /\ ~IsAbout(q)
  <2>1. Set(r, Step(q))
    BY <1>1, <1>5 DEF LoadSub
  <2> QED BY <1>2, <1>5, <2>1, PlainStep, LocalStep
<1>6. CASE q.op \in {"verify", "create"} \/ (sub # None /\ (q.op # "cancel" => IsAbout(q)))
  <2>1. PICK n : n = Assigned(q)
    OBVIOUS
  <2>2. n \in SubRow /\ SubSound(n)
    <3>1. CASE q.op \in {"verify", "create"}
      BY <1>2, <1>3, <2>1, <3>1 DEF Assigned, Upserted, SubRow, SubSound, Known, Plans
    <3>2. CASE q.op = "failed"
      BY <1>2, <1>6, <2>1, <3>2 DEF Assigned, SubRow, SubSound
    <3>3. CASE q.op \in {"disable", "cancel"}
      BY <1>2, <1>6, <2>1, <3>3 DEF Assigned, Canceled, SubRow, SubSound
    <3> QED BY <1>2, <1>3, <3>1, <3>2, <3>3 DEF Ops
  <2>3. PICK c : c = IF q.op = "cancel" THEN sub.code ELSE q.code
    OBVIOUS
  <2>4. c \in Codes /\ Known(c)
    BY <1>2, <1>3, <1>6, <2>3 DEF SubSound, Known
  <2>5. PICK u : u = [q EXCEPT !.subOld = sub, !.subNew = n, !.code = c]
    OBVIOUS
  <2>6. /\ u \in Request /\ u.op = q.op /\ u.pc = q.pc /\ u.code = c
        /\ u.orgOld = q.orgOld /\ u.orgNew = q.orgNew /\ u.subOld = sub /\ u.subNew = n
    BY <1>2, <2>2, <2>4, <2>5 DEF Request
  <2>7. PICK t : t = Step(u)
    OBVIOUS
  <2>8. /\ t \in Request /\ t.op = q.op /\ t.pc = NextPc(u) /\ t.code = c
        /\ t.orgOld = q.orgOld /\ t.orgNew = q.orgNew /\ t.subOld = sub /\ t.subNew = n
    BY <1>2, <2>6, <2>7, StepPc DEF Step, Request
  <2>9. t.pc \in DOMAIN After[t.op] \cup {"commit"}
    BY <1>2, <2>6, <2>8, StepPc
  <2>10. RequestSound(t)
    BY <1>2, <2>2, <2>4, <2>8, <2>9 DEF RequestSound
  <2>11. Set(r, t)
    <3>1. q.op \in {"verify", "create"} \/ IsAbout(q)
      BY <1>6 DEF IsAbout
    <3>2. ~(q.op = "cancel" /\ sub = None)
      BY <1>6
    <3> QED BY <1>1, <2>1, <2>3, <2>5, <2>7, <3>1, <3>2 DEF LoadSub
  <2> QED BY <1>2, <2>8, <2>10, <2>11, LocalStep
<1> QED BY <1>2, <1>3, <1>4, <1>5, <1>6 DEF Ops, IsAbout

-----------------------------------------------------------------------------
(* The request to Paystack ends a subscription and is announced. *)
LEMMA CallStep == ASSUME IInv, NEW r \in Requests, Call(r) PROVE IInv'
<1>1. PICK q : q = req[r]
  OBVIOUS
<1>2. /\ q \in Request /\ RequestSound(q) /\ q.pc = "call" /\ q.op \in Ops
      /\ q.pc \in DOMAIN After[q.op] /\ UNCHANGED <<org, sub, done>>
  BY <1>1 DEF IInv, TypeOK, Call, RequestSound
<1>3. Known(q.code)
  BY <1>2 DEF RequestSound
<1>4. Step(q) \in Request /\ RequestSound(Step(q))
  BY <1>2, PlainStep
<1>5. CASE pay[q.code] = "active"
  <2>1. /\ pay' = [pay EXCEPT ![q.code] = "disabled"]
        /\ inbox' = Append(inbox, [kind |-> "disable", code |-> q.code])
        /\ Set(r, Step(q))
    BY <1>1, <1>5 DEF Call
  <2>2. Grows
    BY <1>2, <2>1 DEF Grows, IInv, TypeOK
  <2>3. RequestSound(Step(q))'
    BY <1>4, <2>2, Persists
  <2>4. inbox' \in Seq(Event)
    BY <1>3, <2>1 DEF IInv, TypeOK, Event, Webhooks, Known
  <2>5. (\A n \in DOMAIN inbox : Known(inbox[n].code))'
    BY <1>3, <2>1, <2>2, RowsPersist DEF IInv, TypeOK, Known, Grows
  <2>6. OrgPaid(org)' /\ SubSound(sub)'
    BY <1>2, <2>2, RowsPersist DEF IInv, TypeOK, OrgPaid, SubSound, Known, Grows
  <2>7. done' \subseteq Nat /\ org' \in OrgRow /\ sub' \in SubRow \cup {None}
    BY <1>2 DEF IInv, TypeOK
  <2> QED BY <1>4, <2>1, <2>2, <2>3, <2>4, <2>5, <2>6, <2>7, RequestStep
<1>6. CASE pay[q.code] # "active"
  <2>1. Set(r, Idle) /\ UNCHANGED <<org, sub, pay, inbox, done>>
    BY <1>1, <1>6 DEF Call
  <2> QED BY <2>1, IdleSound, LocalStep
<1> QED BY <1>5, <1>6

(* A flush takes a lock and leaves what will be committed alone. *)
LEMMA Locked ==
  ASSUME NEW q \in Request, RequestSound(q), NEW l \in {"org", "sub"}
  PROVE  LET p == [q EXCEPT !.locks = @ \cup {l}]
         IN  /\ p \in Request /\ RequestSound(p)
             /\ p.op = q.op /\ p.pc = q.pc
<1>1. PICK p : p = [q EXCEPT !.locks = @ \cup {l}]
  OBVIOUS
<1>2. /\ p \in Request /\ p.op = q.op /\ p.pc = q.pc /\ p.code = q.code
      /\ p.orgOld = q.orgOld /\ p.orgNew = q.orgNew
      /\ p.subOld = q.subOld /\ p.subNew = q.subNew
  BY <1>1 DEF Request
<1>3. RequestSound(p)
  BY <1>2 DEF RequestSound
<1> QED BY <1>1, <1>2, <1>3

LEMMA FlushStep ==
  ASSUME IInv, NEW r \in Requests, FlushOrg(r) \/ FlushSub(r)
  PROVE  IInv'
<1>1. PICK q : q = req[r]
  OBVIOUS
<1>2. /\ q \in Request /\ RequestSound(q) /\ q.pc \in {"flushOrg", "flushSub"} /\ q.op \in Ops
      /\ q.pc \in DOMAIN After[q.op] /\ UNCHANGED <<org, sub, pay, inbox, done>>
  BY <1>1 DEF IInv, TypeOK, FlushOrg, FlushSub, RequestSound
<1>3. \/ Set(r, Idle) \/ Set(r, Step(q))
      \/ \E l \in {"org", "sub"} : Set(r, Step([q EXCEPT !.locks = @ \cup {l}]))
  BY <1>1 DEF FlushOrg, FlushSub
<1>4. CASE Set(r, Idle)
  BY <1>2, <1>4, IdleSound, LocalStep
<1>5. CASE Set(r, Step(q))
  BY <1>2, <1>5, PlainStep, LocalStep
<1>6. ASSUME NEW l \in {"org", "sub"}, Set(r, Step([q EXCEPT !.locks = @ \cup {l}]))
      PROVE  IInv'
  <2>1. PICK p : p = [q EXCEPT !.locks = @ \cup {l}]
    OBVIOUS
  <2>2. p \in Request /\ RequestSound(p) /\ p.op = q.op /\ p.pc = q.pc
    BY <1>2, <2>1, Locked
  <2>3. Step(p) \in Request /\ RequestSound(Step(p))
    BY <1>2, <2>2, PlainStep
  <2> QED BY <1>2, <1>6, <2>1, <2>3, LocalStep
<1> QED BY <1>3, <1>4, <1>5, <1>6

(* A commit writes the columns that changed over the committed ones; both  *)
(* are sound, and the time of a cancellation is never taken back.          *)
LEMMA CommitStep == ASSUME IInv, NEW r \in Requests, Commit(r) PROVE IInv'
<1>1. PICK q : q = req[r]
  OBVIOUS
<1>2. /\ q \in Request /\ RequestSound(q) /\ UNCHANGED <<pay, inbox>>
      /\ org \in OrgRow /\ OrgPaid(org) /\ sub \in SubRow \cup {None} /\ SubSound(sub)
      /\ done' \subseteq Nat
  <2>1. q \in Request /\ RequestSound(q)
    BY <1>1 DEF IInv, TypeOK
  <2>2. q.event \in Nat /\ done' = done \cup ({q.event} \ {0})
    BY <1>1, <2>1 DEF Request, Commit
  <2> QED BY <2>1, <2>2 DEF IInv, TypeOK, Commit
<1>3. org' \in OrgRow /\ OrgPaid(org')
  BY <1>1, <1>2 DEF Commit, MergedOrg, Request, OrgRow, RequestSound, OrgPaid
<1>4. sub' \in SubRow \cup {None} /\ SubSound(sub') /\ (sub # None => sub' # None)
  <2>1. CASE ~SubDirty(q)
    BY <1>1, <1>2, <2>1 DEF Commit
  <2>2. CASE SubDirty(q) /\ q.subOld = None
    BY <1>1, <1>2, <2>2 DEF Commit, SubDirty, MergedSub, Request, RequestSound
  <2>3. CASE SubDirty(q) /\ q.subOld # None
    <3>1. sub \in SubRow /\ q.subOld \in SubRow /\ q.subNew \in SubRow
      BY <1>2, <2>3 DEF SubDirty, Request, RequestSound
    <3>2. MergedSub(q) \in SubRow
      BY <2>3, <3>1 DEF MergedSub, SubRow
    <3>3. SubSound(MergedSub(q))
      BY <1>2, <2>3, <3>1 DEF MergedSub, SubRow, SubSound, RequestSound
    <3> QED BY <1>1, <2>3, <3>2, <3>3 DEF Commit
  <2> QED BY <2>1, <2>2, <2>3
<1>5. Grows
  BY <1>2, <1>4 DEF Grows, IInv, TypeOK
<1>6. OrgPaid(org)' /\ SubSound(sub)' /\ (\A n \in DOMAIN inbox : Known(inbox[n].code))'
  BY <1>2, <1>3, <1>4 DEF IInv, OrgPaid, SubSound, Known
<1>7. RequestSound(Idle)'
  BY <1>5, IdleSound, Persists
<1>8. inbox' \in Seq(Event) /\ Set(r, Idle)
  BY <1>2 DEF IInv, TypeOK, Commit
<1> QED BY <1>2, <1>3, <1>4, <1>5, <1>6, <1>7, <1>8, IdleSound, RequestStep

-----------------------------------------------------------------------------
(* A webhook that was answered and not stored. *)
LEMMA LoseStep == ASSUME IInv, NEW r \in Requests, Lose(r) PROVE IInv'
<1>1. PICK q : q = req[r]
  OBVIOUS
<1>2. q \in Request /\ done' = done \cup {q.event} /\ Set(r, Idle)
      /\ UNCHANGED <<org, sub, pay, inbox>>
  BY <1>1 DEF IInv, TypeOK, Lose
<1>3. Grows
  BY <1>2 DEF Grows, IInv, TypeOK
<1>4. RequestSound(Idle)'
  BY <1>3, IdleSound, Persists
<1>5. OrgPaid(org)' /\ SubSound(sub)' /\ (\A n \in DOMAIN inbox : Known(inbox[n].code))'
  BY <1>2 DEF IInv, OrgPaid, SubSound, Known
<1>6. /\ inbox' \in Seq(Event) /\ done' \subseteq Nat
      /\ org' \in OrgRow /\ sub' \in SubRow \cup {None}
  BY <1>2 DEF IInv, TypeOK, Request
<1> QED BY <1>2, <1>3, <1>4, <1>5, <1>6, IdleSound, RequestStep

LEMMA Initial == Init => IInv
<1> SUFFICES ASSUME Init PROVE IInv
  OBVIOUS
<1>1. TypeOK
  BY IdleSound DEF Init, TypeOK, NewOrg, OrgRow, Plans
<1>2. OrgPaid(org) /\ SubSound(sub)
  BY DEF Init, OrgPaid, SubSound, NewOrg
<1>3. \A r \in Requests : RequestSound(req[r])
  BY IdleSound DEF Init, RequestSound
<1> QED BY <1>1, <1>2, <1>3 DEF Init, IInv

LEMMA Inductive == IInv /\ [Next]_vars => IInv'
<1> SUFFICES ASSUME IInv, [Next]_vars PROVE IInv'
  OBVIOUS
<1>1. CASE Environment
  BY <1>1, EnvironmentStep
<1>2. ASSUME NEW r \in Requests, Begin(r) PROVE IInv'
  BY <1>2, BeginStep
<1>3. ASSUME NEW r \in Requests, Continue(r) PROVE IInv'
  BY <1>3, LoadOrgStep, LoadSubStep, CallStep, FlushStep, CommitStep DEF Continue
<1>4. ASSUME NEW r \in Requests, Victim(r) \/ Abort(r) PROVE IInv'
  BY <1>4, IdleSound, LocalStep DEF Victim, Abort
<1>5. CASE UNCHANGED vars
  BY <1>5 DEF vars, IInv, TypeOK, OrgPaid, SubSound, RequestSound, Known
<1>6. ASSUME NEW r \in Requests, Lose(r) PROVE IInv'
  BY <1>6, LoseStep
<1> QED BY <1>1, <1>2, <1>3, <1>4, <1>5, <1>6 DEF Next

(* Every row, webhook and request is sound at every step of every          *)
(* interleaving of the payment callback, the cancellation and the webhooks. *)
THEOREM Invariant == Spec => []IInv
BY Initial, Inductive, PTL DEF Spec

(* The billing service gives no organization a plan that was not bought,   *)
(* whatever it overlaps, repeats or receives in the wrong order.           *)
THEOREM PlansAreBought == Spec => []PaidPlan
<1>1. IInv => PaidPlan
  BY DEF IInv, PaidPlan, SubSound
<1> QED BY <1>1, Invariant, PTL

(* A cancellation that overlaps an upsert never leaves a row that is        *)
(* canceled and has no canceled_at.                                        *)
THEOREM EndsAreDated == Spec => []EndIsDated
<1>1. IInv => EndIsDated
  BY DEF IInv, EndIsDated, SubSound
<1> QED BY <1>1, Invariant, PTL

-----------------------------------------------------------------------------
(* Code and plan of a row that a request has loaded or assigned are of one *)
(* subscription, and so both differ or none as long as no plan was bought   *)
(* twice.                                                                  *)
Matching(s) == s # None => s.plan = PlanOf[s.code]

Matched(q) == Matching(q.subOld) /\ Matching(q.subNew)

MatchInv == Twins \/ (Matching(sub) /\ \A r \in Requests : Matched(req[r]))

(* Paystack forgets no subscription. *)
LEMMA CodesStay ==
  ASSUME IInv, [Next]_vars
  PROVE  \A c \in Codes : pay[c] # "none" => pay'[c] # "none"
<1>1. CASE UNCHANGED pay
  BY <1>1
<1>2. CASE Environment
  BY <1>2 DEF Environment, Subscribe, Renew, Unsubscribe, IInv, TypeOK
<1>3. ASSUME NEW r \in Requests, Call(r)
      PROVE  \A c \in Codes : pay[c] # "none" => pay'[c] # "none"
  BY <1>3 DEF Call, IInv, TypeOK
<1>4. ASSUME NEW r \in Requests, Begin(r) PROVE UNCHANGED pay
  BY <1>4 DEF Begin, Webhook, Callback, StartCancel, Start
<1>5. ASSUME NEW r \in Requests, Continue(r), ~Call(r) PROVE UNCHANGED pay
  BY <1>5 DEF Continue, LoadOrg, LoadSub, FlushOrg, FlushSub, Commit
<1>6. ASSUME NEW r \in Requests, Victim(r) \/ Abort(r) \/ Lose(r) PROVE UNCHANGED pay
  BY <1>6 DEF Victim, Abort, Lose
<1> QED BY <1>1, <1>2, <1>3, <1>4, <1>5, <1>6 DEF Next, vars

LEMMA TwinsStay == ASSUME IInv, [Next]_vars, Twins PROVE Twins'
<1>1. PICK c \in Codes, d \in Codes :
        c # d /\ pay[c] # "none" /\ pay[d] # "none" /\ PlanOf[c] = PlanOf[d]
  BY DEF Twins, Known
<1>2. pay'[c] # "none" /\ pay'[d] # "none"
  BY <1>1, CodesStay
<1> QED BY <1>1, <1>2 DEF Twins, Known

(* A step of one request that leaves the row alone. *)
LEMMA MatchStep ==
  ASSUME IInv, Matching(sub), \A s \in Requests : Matched(req[s]),
         NEW r \in Requests, NEW t, Set(r, t), UNCHANGED sub, Matched(t)
  PROVE  MatchInv'
<1>1. req'[r] = t /\ \A s \in Requests : s # r => req'[s] = req[s]
  BY DEF Set, IInv, TypeOK
<1>2. Matching(sub') /\ \A s \in Requests : Matched(req'[s])
  BY <1>1
<1> QED BY <1>2 DEF MatchInv, Matched, Matching

LEMMA IdleMatched == Matched(Idle)
  BY DEF Idle, Matched, Matching

(* A webhook, a callback or a cancellation starts with no row. *)
LEMMA MatchBegin ==
  ASSUME IInv, Matching(sub), \A s \in Requests : Matched(req[s]),
         NEW r \in Requests, Begin(r)
  PROVE  MatchInv'
<1>1. PICK op, c, n : Start(r, op, c, n)
  BY DEF Begin, Webhook, Callback, StartCancel
<1>2. PICK full \in BOOLEAN :
        Set(r, [Idle EXCEPT !.op = op, !.code = c, !.event = n, !.full = full,
                            !.pc = IF full \/ op \notin {"charge", "create"}
                                     THEN First[op] ELSE "commit"])
        /\ UNCHANGED sub
  BY <1>1 DEF Start
<1>3. PICK t : t = [Idle EXCEPT !.op = op, !.code = c, !.event = n, !.full = full,
                                !.pc = IF full \/ op \notin {"charge", "create"}
                                         THEN First[op] ELSE "commit"]
  OBVIOUS
<1>4. t.subOld = None /\ t.subNew = None
  BY <1>3 DEF Idle
<1> QED BY <1>2, <1>3, <1>4, MatchStep DEF Matched, Matching

(* What is assigned to the row is the plan of the code assigned with it, or *)
(* neither.                                                                *)
LEMMA MatchLoad ==
  ASSUME IInv, Matching(sub), \A s \in Requests : Matched(req[s]),
         NEW r \in Requests, LoadSub(r)
  PROVE  MatchInv'
<1>1. PICK q : q = req[r]
  OBVIOUS
<1>2. /\ q \in Request /\ RequestSound(q) /\ Matched(q) /\ q.pc = "sub" /\ q.op \in Ops
      /\ sub \in SubRow \cup {None} /\ UNCHANGED sub
  BY <1>1 DEF IInv, TypeOK, LoadSub, RequestSound
<1>3. CASE Set(r, Idle)
  BY <1>2, <1>3, IdleMatched, MatchStep
<1>4. CASE Set(r, Step(q))
  <2>1. PICK t : t = Step(q)
    OBVIOUS
  <2>2. t.subOld = q.subOld /\ t.subNew = q.subNew
    BY <1>2, <2>1 DEF Step, Request
  <2> QED BY <1>2, <1>4, <2>1, <2>2, MatchStep DEF Matched
<1>5. ASSUME q.op \in {"verify", "create"} \/ IsAbout(q), NEW c,
             Set(r, Step([q EXCEPT !.subOld = sub, !.subNew = Assigned(q), !.code = c]))
      PROVE  MatchInv'
  <2>1. PICK n : n = Assigned(q)
    OBVIOUS
  <2>2. Matching(n)
    <3>1. CASE q.op \in {"verify", "create"}
      BY <2>1, <3>1 DEF Assigned, Upserted, Matching
    <3>2. CASE q.op = "failed"
      BY <1>2, <1>5, <2>1, <3>2 DEF Assigned, IsAbout, Matching, SubRow
    <3>3. CASE q.op \in {"disable", "cancel"}
      BY <1>2, <1>5, <2>1, <3>3 DEF Assigned, Canceled, IsAbout, Matching, SubRow
    <3>4. q.op # "charge"
      BY <1>2 DEF RequestSound, After
    <3> QED BY <1>2, <3>1, <3>2, <3>3, <3>4 DEF Ops
  <2>3. PICK t : t = Step([q EXCEPT !.subOld = sub, !.subNew = n, !.code = c])
    OBVIOUS
  <2>4. t.subOld = sub /\ t.subNew = n
    BY <1>2, <2>3 DEF Step, Request
  <2>5. Set(r, t)
    BY <1>5, <2>1, <2>3
  <2> QED BY <1>2, <2>2, <2>4, <2>5, MatchStep DEF Matched
<1> QED BY <1>1, <1>3, <1>4, <1>5 DEF LoadSub

(* The other steps move on with the rows they have. *)
LEMMA MatchMove ==
  ASSUME IInv, Matching(sub), \A s \in Requests : Matched(req[s]),
         NEW r \in Requests, LoadOrg(r) \/ Call(r) \/ FlushOrg(r) \/ FlushSub(r)
  PROVE  MatchInv'
<1>1. PICK q : q = req[r]
  OBVIOUS
<1>2. q \in Request /\ Matched(q) /\ UNCHANGED sub
  BY <1>1 DEF IInv, TypeOK, LoadOrg, Call, FlushOrg, FlushSub
<1>3. \/ Set(r, Idle) \/ Set(r, Step(q))
      \/ \E o : Set(r, Step([q EXCEPT !.orgOld = org, !.orgNew = o]))
      \/ \E l : Set(r, Step([q EXCEPT !.locks = @ \cup {l}]))
  BY <1>1 DEF LoadOrg, Call, FlushOrg, FlushSub
<1>4. CASE Set(r, Idle)
  BY <1>2, <1>4, IdleMatched, MatchStep
<1>5. CASE Set(r, Step(q))
  <2>1. PICK t : t = Step(q)
    OBVIOUS
  <2>2. t.subOld = q.subOld /\ t.subNew = q.subNew
    BY <1>2, <2>1 DEF Step, Request
  <2> QED BY <1>2, <1>5, <2>1, <2>2, MatchStep DEF Matched
<1>6. ASSUME NEW o, Set(r, Step([q EXCEPT !.orgOld = org, !.orgNew = o]))
      PROVE  MatchInv'
  <2>1. PICK t : t = Step([q EXCEPT !.orgOld = org, !.orgNew = o])
    OBVIOUS
  <2>2. t.subOld = q.subOld /\ t.subNew = q.subNew
    BY <1>2, <2>1 DEF Step, Request
  <2> QED BY <1>2, <1>6, <2>1, <2>2, MatchStep DEF Matched
<1>7. ASSUME NEW l, Set(r, Step([q EXCEPT !.locks = @ \cup {l}]))
      PROVE  MatchInv'
  <2>1. PICK t : t = Step([q EXCEPT !.locks = @ \cup {l}])
    OBVIOUS
  <2>2. t.subOld = q.subOld /\ t.subNew = q.subNew
    BY <1>2, <2>1 DEF Step, Request
  <2> QED BY <1>2, <1>7, <2>1, <2>2, MatchStep DEF Matched
<1> QED BY <1>3, <1>4, <1>5, <1>6, <1>7

(* Without twins two rows with their plans differ in code and plan or in    *)
(* neither, so an UPDATE sends both columns or none.                       *)
LEMMA MatchCommit ==
  ASSUME IInv, ~Twins, Matching(sub), \A s \in Requests : Matched(req[s]),
         NEW r \in Requests, Commit(r)
  PROVE  MatchInv'
<1>1. PICK q : q = req[r]
  OBVIOUS
<1>2. /\ q \in Request /\ RequestSound(q) /\ Matched(q) /\ sub \in SubRow \cup {None}
      /\ sub' = (IF SubDirty(q) THEN MergedSub(q) ELSE sub) /\ Set(r, Idle)
  BY <1>1 DEF IInv, TypeOK, Commit
<1>3. Matching(sub')
  <2>1. CASE ~SubDirty(q)
    BY <1>2, <2>1
  <2>2. CASE SubDirty(q) /\ q.subOld = None
    BY <1>2, <2>2 DEF MergedSub, Matched
  <2>3. CASE SubDirty(q) /\ q.subOld # None
    <3>1. /\ sub \in SubRow /\ q.subOld \in SubRow /\ q.subNew \in SubRow
          /\ Known(q.subOld.code) /\ Known(q.subNew.code)
      BY <1>2, <2>3 DEF SubDirty, Request, RequestSound, SubSound
    <3>2. /\ sub.plan = PlanOf[sub.code] /\ q.subOld.plan = PlanOf[q.subOld.code]
          /\ q.subNew.plan = PlanOf[q.subNew.code]
      BY <1>2, <3>1, NoneIsNoRow DEF Matched, Matching
    <3>3. q.subNew.code # q.subOld.code <=> q.subNew.plan # q.subOld.plan
      BY <3>1, <3>2 DEF Twins, Known
    <3>4. PICK m : m = MergedSub(q)
      OBVIOUS
    <3>5. m.plan = PlanOf[m.code]
      BY <2>3, <3>2, <3>3, <3>4 DEF MergedSub
    <3> QED BY <1>2, <2>3, <3>4, <3>5 DEF Matching
  <2> QED BY <2>1, <2>2, <2>3
<1>4. req'[r] = Idle /\ \A s \in Requests : s # r => req'[s] = req[s]
  BY <1>2 DEF Set, IInv, TypeOK
<1>5. \A s \in Requests : Matched(req'[s])
  BY <1>4, IdleMatched
<1> QED BY <1>3, <1>5 DEF MatchInv, Matched, Matching

LEMMA MatchInductive == IInv /\ MatchInv /\ [Next]_vars => MatchInv'
<1> SUFFICES ASSUME IInv, MatchInv, [Next]_vars PROVE MatchInv'
  OBVIOUS
<1>1. CASE Twins
  BY <1>1, TwinsStay DEF MatchInv
<1>2. CASE ~Twins
  <2>1. Matching(sub) /\ \A s \in Requests : Matched(req[s])
    BY <1>2 DEF MatchInv
  <2>2. ASSUME UNCHANGED <<sub, req>> PROVE MatchInv'
    BY <2>1, <2>2 DEF MatchInv, Matched, Matching
  <2>3. CASE Environment
    BY <2>2, <2>3 DEF Environment, Subscribe, Renew, Unsubscribe
  <2>4. ASSUME NEW r \in Requests, Begin(r) PROVE MatchInv'
    BY <2>1, <2>4, MatchBegin
  <2>5. ASSUME NEW r \in Requests, Continue(r) PROVE MatchInv'
    BY <1>2, <2>1, <2>5, MatchLoad, MatchMove, MatchCommit DEF Continue
  <2>6. ASSUME NEW r \in Requests, Victim(r) \/ Abort(r) \/ Lose(r) PROVE MatchInv'
    BY <2>1, <2>6, IdleMatched, MatchStep DEF Victim, Abort, Lose
  <2>7. CASE UNCHANGED vars
    BY <2>2, <2>7 DEF vars
  <2> QED BY <2>3, <2>4, <2>5, <2>6, <2>7 DEF Next
<1> QED BY <1>1, <1>2

(* billing_service.py:314: as long as no plan was bought twice, code and    *)
(* plan of the row are of one subscription, whatever requests overlap and   *)
(* whatever webhooks are late, repeated or lost.                           *)
THEOREM MixesNeedTwins == Spec => []MixedOnlyWithTwins
<1>1. Init => MatchInv
  BY IdleMatched DEF Init, MatchInv, Matching
<1>2. MatchInv => MixedOnlyWithTwins
  BY DEF MatchInv, MixedOnlyWithTwins, CodeMatchesPlan, Matching
<1> QED BY <1>1, <1>2, Initial, Inductive, MatchInductive, PTL DEF Spec

-----------------------------------------------------------------------------
(* Requests one after the other.                                           *)

LEMMA IdleSerial == SerialSound(Idle)
  BY NoneIsNoRow DEF SerialSound, Idle, Ops

(* A step of the only request that leaves the row and Paystack alone. *)
LEMMA SerialStep ==
  ASSUME IInv, SerialInv, Alone, NEW r \in Requests, NEW q \in Request, Set(r, q),
         UNCHANGED <<sub, pay, inbox>>, SerialSound(q)
  PROVE  SerialInv'
<1>1. \A s \in Requests : req'[s] = q
  BY DEF Set, IInv, TypeOK, Alone
<1>2. \A s \in Requests : SerialSound(req[s])'
  BY <1>1 DEF SerialSound
<1> QED BY <1>2 DEF SerialInv, CodeMatchesPlan, CanceledIsDisabled

(* What the request keeps when a step leaves its rows alone. *)
LEMMA SerialMove ==
  ASSUME IInv, SerialInv, Alone, NEW r \in Requests, NEW t \in Request, Set(r, t),
         UNCHANGED <<sub, pay, inbox>>, t.op = req[r].op, t.code = req[r].code,
         t.subOld = req[r].subOld, t.subNew = req[r].subNew, req[r].pc # "idle",
         t.op = "cancel" /\ t.pc \in {"flushOrg", "flushSub", "commit"} =>
           req[r].pc \in {"flushOrg", "flushSub", "commit"}
  PROVE  SerialInv'
<1>1. PICK q : q = req[r]
  OBVIOUS
<1>2. SerialSound(q)
  BY <1>1 DEF SerialInv
<1>3. SerialSound(t)
  BY <1>1, <1>2 DEF SerialSound
<1> QED BY <1>3, SerialStep

LEMMA SerialIdle ==
  ASSUME IInv, SerialInv, Alone, NEW r \in Requests, Set(r, Idle),
         UNCHANGED <<sub, pay, inbox>>
  PROVE  SerialInv'
  BY IdleSerial, IdleSound, SerialStep

(* Only a webhook that announces the end of a subscription starts disable. *)
LEMMA SerialStart ==
  ASSUME IInv, SerialInv, Alone, NEW r \in Requests, NEW op \in Ops,
         NEW c \in Codes \cup {None}, NEW n \in Nat, Start(r, op, c, n),
         op = "disable" => pay[c] = "disabled"
  PROVE  SerialInv'
<1>1. PICK full \in BOOLEAN :
         Set(r, [Idle EXCEPT !.op = op, !.code = c, !.event = n, !.full = full,
                             !.pc = IF full \/ op \notin {"charge", "create"}
                                      THEN First[op] ELSE "commit"])
  BY DEF Start
<1>2. PICK q : q = [Idle EXCEPT !.op = op, !.code = c, !.event = n, !.full = full,
                                !.pc = IF full \/ op \notin {"charge", "create"}
                                         THEN First[op] ELSE "commit"]
  OBVIOUS
<1>3. q \in Request
  BY <1>2, FirstPc, IdleSound DEF Idle, Request
<1>4. /\ q.op = op /\ q.code = c /\ q.subNew = None
      /\ op = "cancel" => q.pc = "org"
  BY <1>2 DEF Idle, First
<1>5. SerialSound(q)
  BY <1>4 DEF SerialSound
<1>6. UNCHANGED <<sub, pay, inbox>>
  BY DEF Start
<1> QED BY <1>1, <1>2, <1>3, <1>5, <1>6, SerialStep

LEMMA SerialBegin ==
  ASSUME IInv, SerialInv, Alone, NEW r \in Requests, Begin(r) PROVE SerialInv'
<1>1. CASE Webhook(r)
  <2>1. PICK n \in DOMAIN inbox : Start(r, inbox[n].kind, inbox[n].code, n)
    BY <1>1 DEF Webhook
  <2>2. inbox[n] \in Event /\ n \in Nat
    BY DEF IInv, TypeOK
  <2>3. inbox[n].kind = "disable" => pay[inbox[n].code] = "disabled"
    BY DEF SerialInv
  <2> QED BY <2>1, <2>2, <2>3, SerialStart DEF Event, Webhooks, Ops
<1>2. CASE Callback(r)
  <2>1. PICK c \in Codes : Start(r, "verify", c, 0)
    BY <1>2 DEF Callback
  <2> QED BY <2>1, SerialStart DEF Ops
<1>3. CASE StartCancel(r)
  BY <1>3, SerialStart DEF StartCancel, Ops
<1> QED BY <1>1, <1>2, <1>3 DEF Begin

LEMMA SerialLoadOrg ==
  ASSUME IInv, SerialInv, Alone, NEW r \in Requests, LoadOrg(r) PROVE SerialInv'
<1>1. PICK q : q = req[r]
  OBVIOUS
<1>2. q \in Request /\ RequestSound(q) /\ q.pc = "org" /\ q.op \in Ops
      /\ UNCHANGED <<sub, pay, inbox>>
  BY <1>1 DEF IInv, TypeOK, LoadOrg, RequestSound
<1>3. PICK o \in OrgRow : o = [plan |-> Target(q), customer |-> org.customer \/ q.op = "verify"]
  BY <1>2 DEF IInv, TypeOK, OrgRow, Target, Plans, RequestSound, Known
<1>4. PICK u : u = [q EXCEPT !.orgOld = org, !.orgNew = o]
  OBVIOUS
<1>5. /\ u \in Request /\ u.op = q.op /\ u.pc = "org" /\ u.code = q.code /\ u.full = q.full
      /\ u.subOld = q.subOld /\ u.subNew = q.subNew
  BY <1>2, <1>4 DEF Request, IInv, TypeOK
<1>6. PICK t : t = Step(u)
  OBVIOUS
<1>7. u.pc \in DOMAIN After[u.op]
  BY <1>2, <1>5 DEF RequestSound
<1>8. /\ t \in Request /\ t.op = q.op /\ t.code = q.code
      /\ t.subOld = q.subOld /\ t.subNew = q.subNew
  BY <1>2, <1>5, <1>6, <1>7, StepPc DEF Step, Request
<1>9. q.op = "cancel" => t.pc = "sub"
  BY <1>2, <1>5, <1>6 DEF Step, NextPc, After, Request
<1>10. Set(r, t)
  BY <1>1, <1>3, <1>4, <1>6 DEF LoadOrg
<1> QED BY <1>1, <1>2, <1>8, <1>9, <1>10, SerialMove

(* What is assigned to the row has the plan of its code, and is only        *)
(* canceled by the two operations that know the code.                      *)
LEMMA SerialLoadSub ==
  ASSUME IInv, SerialInv, Alone, NEW r \in Requests, LoadSub(r) PROVE SerialInv'
<1>1. PICK q : q = req[r]
  OBVIOUS
<1>2. /\ q \in Request /\ RequestSound(q) /\ q.pc = "sub" /\ q.op \in Ops
      /\ q.pc \in DOMAIN After[q.op] /\ sub \in SubRow \cup {None} /\ SubSound(sub)
      /\ UNCHANGED <<sub, pay, inbox>> /\ SerialSound(q)
  BY <1>1 DEF IInv, TypeOK, LoadSub, RequestSound, SerialInv
<1>3. q.op # "charge" /\ (q.op # "cancel" => Known(q.code))
  BY <1>2 DEF After, RequestSound
<1>4. CASE q.op = "cancel" /\ sub = None
  <2>1. Set(r, Idle)
    BY <1>1, <1>4 DEF LoadSub, IsAbout
  <2> QED BY <1>2, <2>1, SerialIdle
<1>5. CASE q.op \in {"disable", "failed"} /\ ~IsAbout(q)
  <2>1. PICK t : t = Step(q)
    OBVIOUS
  <2>2. /\ t \in Request /\ t.op = q.op /\ t.code = q.code
        /\ t.subOld = q.subOld /\ t.subNew = q.subNew
    BY <1>2, <2>1, StepPc DEF Step, Request
  <2>3. Set(r, t)
    BY <1>1, <1>5, <2>1 DEF LoadSub
  <2> QED BY <1>1, <1>2, <1>5, <2>2, <2>3, SerialMove
<1>6. CASE q.op \in {"verify", "create"} \/ (sub # None /\ (q.op # "cancel" => IsAbout(q)))
  <2>1. PICK n : n = Assigned(q)
    OBVIOUS
  <2>2. PICK c : c = IF q.op = "cancel" THEN sub.code ELSE q.code
    OBVIOUS
  <2>3. /\ n \in SubRow /\ n.plan = PlanOf[n.code]
        /\ n.status = "canceled" => q.op \in {"disable", "cancel"} /\ n.code = c
        /\ q.op = "disable" => pay[c] = "disabled"
    <3>1. CASE q.op \in {"verify", "create"}
      BY <1>2, <1>3, <2>1, <3>1 DEF Assigned, Upserted, SubRow, Known, Plans
    <3>2. CASE q.op = "failed"
      BY <1>2, <1>6, <2>1, <3>2 DEF Assigned, SubRow, SerialInv, CodeMatchesPlan
    <3>3. CASE q.op \in {"disable", "cancel"}
      BY <1>2, <1>6, <2>1, <2>2, <3>3
      DEF Assigned, Canceled, SubRow, SerialInv, CodeMatchesPlan, IsAbout, SerialSound
    <3> QED BY <1>2, <1>3, <3>1, <3>2, <3>3 DEF Ops
  <2>4. c \in Codes
    BY <1>2, <1>3, <1>6, <2>2 DEF SubSound, Known
  <2>5. PICK u : u = [q EXCEPT !.subOld = sub, !.subNew = n, !.code = c]
    OBVIOUS
  <2>6. /\ u \in Request /\ u.op = q.op /\ u.pc = "sub" /\ u.code = c
        /\ u.subOld = sub /\ u.subNew = n
    BY <1>2, <2>3, <2>4, <2>5 DEF Request
  <2>7. PICK t : t = Step(u)
    OBVIOUS
  <2>8. /\ t \in Request /\ t.op = q.op /\ t.pc = NextPc(u) /\ t.code = c
        /\ t.subOld = sub /\ t.subNew = n
    BY <1>2, <2>6, <2>7, StepPc DEF Step, Request
  <2>9. q.op = "cancel" => t.pc = "call"
    BY <2>6, <2>8 DEF NextPc, After
  <2>10. SerialSound(t)
    BY <2>3, <2>8, <2>9 DEF SerialSound
  <2>11. Set(r, t)
    <3>1. q.op \in {"verify", "create"} \/ IsAbout(q)
      BY <1>6 DEF IsAbout
    <3>2. ~(q.op = "cancel" /\ sub = None)
      BY <1>6
    <3> QED BY <1>1, <2>1, <2>2, <2>5, <2>7, <3>1, <3>2 DEF LoadSub
  <2> QED BY <1>2, <2>8, <2>10, <2>11, SerialStep
<1> QED BY <1>2, <1>3, <1>4, <1>5, <1>6 DEF Ops, IsAbout

(* The cancellation goes on only with a subscription it has ended. *)
LEMMA SerialCall ==
  ASSUME IInv, SerialInv, Alone, NEW r \in Requests, Call(r) PROVE SerialInv'
<1>1. PICK q : q = req[r]
  OBVIOUS
<1>2. /\ q \in Request /\ RequestSound(q) /\ q.pc = "call" /\ q.op = "cancel"
      /\ SerialSound(q) /\ Known(q.code) /\ sub' = sub
  <2>1. q \in Request /\ RequestSound(q) /\ q.pc = "call" /\ SerialSound(q) /\ sub' = sub
    BY <1>1 DEF IInv, TypeOK, Call, SerialInv
  <2>2. q.op = "cancel"
    BY <2>1 DEF RequestSound, Ops, After
  <2> QED BY <2>1, <2>2 DEF RequestSound
<1>3. CASE pay[q.code] = "active"
  <2>1. /\ pay' = [pay EXCEPT ![q.code] = "disabled"]
        /\ inbox' = Append(inbox, [kind |-> "disable", code |-> q.code])
        /\ Set(r, Step(q))
    BY <1>1, <1>3 DEF Call
  <2>2. PICK t : t = Step(q)
    OBVIOUS
  <2>3. /\ t \in Request /\ t.op = q.op /\ t.code = q.code
        /\ t.subOld = q.subOld /\ t.subNew = q.subNew
    BY <1>2, <2>2, StepPc DEF Step, Request, RequestSound
  <2>4. /\ \A d \in Codes : pay[d] = "disabled" => pay'[d] = "disabled"
        /\ pay'[q.code] = "disabled"
    BY <1>2, <2>1 DEF IInv, TypeOK, Known
  <2>5. SerialSound(t)'
    BY <1>2, <2>3, <2>4 DEF SerialSound
  <2>6. \A s \in Requests : req'[s] = t
    BY <2>1, <2>2 DEF Set, IInv, TypeOK, Alone
  <2>7. \A s \in Requests : SerialSound(req[s])'
    BY <2>5, <2>6 DEF SerialSound
  <2>8. CodeMatchesPlan' /\ CanceledIsDisabled'
    BY <1>2, <2>4 DEF SerialInv, CodeMatchesPlan, CanceledIsDisabled, IInv, SubSound, Known
  <2>9. ASSUME NEW n \in DOMAIN inbox', inbox'[n].kind = "disable"
        PROVE  pay'[inbox'[n].code] = "disabled"
    <3>1. /\ inbox \in Seq(Event)
          /\ \A m \in DOMAIN inbox : Known(inbox[m].code)
      BY DEF IInv, TypeOK
    <3>2. \/ n \in DOMAIN inbox /\ inbox'[n] = inbox[n]
          \/ inbox'[n] = [kind |-> "disable", code |-> q.code]
      BY <2>1, <3>1
    <3> QED BY <2>4, <2>9, <3>1, <3>2 DEF SerialInv, Known
  <2> QED BY <2>7, <2>8, <2>9 DEF SerialInv
<1>4. CASE pay[q.code] # "active"
  <2>1. Set(r, Idle) /\ UNCHANGED <<sub, pay, inbox>>
    BY <1>1, <1>4 DEF Call
  <2> QED BY <2>1, SerialIdle
<1> QED BY <1>3, <1>4

LEMMA SerialFlush ==
  ASSUME IInv, SerialInv, Alone, NEW r \in Requests, FlushOrg(r) \/ FlushSub(r)
  PROVE  SerialInv'
<1>1. PICK q : q = req[r]
  OBVIOUS
<1>2. /\ q \in Request /\ q.pc \in {"flushOrg", "flushSub"} /\ q.op \in Ops
      /\ q.pc \in DOMAIN After[q.op] /\ UNCHANGED <<sub, pay, inbox>>
  BY <1>1 DEF IInv, TypeOK, FlushOrg, FlushSub, RequestSound
<1>3. \/ Set(r, Idle)
      \/ \E l \in SUBSET {"org", "sub"} : Set(r, Step([q EXCEPT !.locks = l]))
  <2>1. [q EXCEPT !.locks = q.locks] = q
    BY <1>2 DEF Request
  <2>2. /\ q.locks \cup {"org"} \in SUBSET {"org", "sub"}
        /\ q.locks \cup {"sub"} \in SUBSET {"org", "sub"}
        /\ q.locks \in SUBSET {"org", "sub"}
    BY <1>2 DEF Request
  <2> QED BY <1>1, <2>1, <2>2 DEF FlushOrg, FlushSub
<1>4. CASE Set(r, Idle)
  BY <1>2, <1>4, SerialIdle
<1>5. ASSUME NEW l \in SUBSET {"org", "sub"}, Set(r, Step([q EXCEPT !.locks = l]))
      PROVE  SerialInv'
  <2>1. PICK p : p = [q EXCEPT !.locks = l]
    OBVIOUS
  <2>2. /\ p \in Request /\ p.op = q.op /\ p.pc = q.pc /\ p.code = q.code
        /\ p.subOld = q.subOld /\ p.subNew = q.subNew
    BY <1>2, <2>1 DEF Request
  <2>3. PICK t : t = Step(p)
    OBVIOUS
  <2>4. /\ t \in Request /\ t.op = q.op /\ t.code = q.code
        /\ t.subOld = q.subOld /\ t.subNew = q.subNew
    BY <1>2, <2>2, <2>3, StepPc DEF Step, Request
  <2> QED BY <1>1, <1>2, <1>5, <2>1, <2>3, <2>4, SerialMove
<1> QED BY <1>3, <1>4, <1>5

(* The row that is stored is the row that was loaded, with what the request *)
(* assigned.                                                               *)
LEMMA SerialCommit ==
  ASSUME IInv, SerialInv, Alone, NEW r \in Requests, Commit(r) PROVE SerialInv'
<1>1. PICK q : q = req[r]
  OBVIOUS
<1>2. /\ q \in Request /\ SerialSound(q) /\ q.pc = "commit"
      /\ UNCHANGED <<pay, inbox>> /\ Set(r, Idle)
      /\ sub' = IF SubDirty(q) THEN MergedSub(q) ELSE sub
  BY <1>1 DEF IInv, TypeOK, SerialInv, Commit
<1>3. CASE ~SubDirty(q)
  BY <1>2, <1>3, SerialIdle
<1>4. CASE SubDirty(q)
  <2>1. /\ q.subNew \in SubRow /\ q.subOld = sub /\ q.subNew.plan = PlanOf[q.subNew.code]
        /\ q.subNew.status = "canceled" => pay[q.subNew.code] = "disabled"
    BY <1>2, <1>4 DEF SubDirty, SerialSound, Request
  <2>2. /\ sub' # None /\ sub'.code = q.subNew.code /\ sub'.plan = q.subNew.plan
        /\ sub'.status = q.subNew.status
    <3>1. PICK m : m = MergedSub(q)
      OBVIOUS
    <3>2. m.code = q.subNew.code /\ m.plan = q.subNew.plan /\ m.status = q.subNew.status
      BY <2>1, <3>1 DEF MergedSub
    <3>3. sub' = m
      BY <1>2, <1>4, <3>1
    <3>4. m \in SubRow
      <4>1. CASE sub = None
        BY <2>1, <3>1, <4>1 DEF MergedSub
      <4>2. CASE sub # None
        <5>1. sub \in SubRow
          BY <4>2 DEF IInv, TypeOK
        <5> QED BY <2>1, <3>1, <4>2, <5>1 DEF MergedSub, SubRow
      <4> QED BY <4>1, <4>2
    <3> QED BY <3>2, <3>3, <3>4, NoneIsNoRow
  <2>3. CodeMatchesPlan' /\ CanceledIsDisabled'
    BY <1>2, <2>1, <2>2 DEF CodeMatchesPlan, CanceledIsDisabled
  <2>4. \A s \in Requests : req'[s] = Idle
    BY <1>2 DEF Set, IInv, TypeOK, Alone
  <2>5. \A s \in Requests : SerialSound(req[s])'
    BY <2>4 DEF SerialSound, Idle
  <2> QED BY <1>2, <2>3, <2>5 DEF SerialInv
<1> QED BY <1>3, <1>4

LEMMA SerialEnvironment == ASSUME IInv, SerialInv, Environment PROVE SerialInv'
<1>1. PICK c \in Codes : Subscribe(c) \/ Renew(c) \/ Unsubscribe(c)
  BY DEF Environment
<1>2. /\ UNCHANGED <<sub, req>>
      /\ \A d \in Codes : pay[d] = "disabled" => pay'[d] = "disabled"
      /\ Unsubscribe(c) => pay'[c] = "disabled"
  BY <1>1 DEF Subscribe, Renew, Unsubscribe, IInv, TypeOK
<1>3. \A n \in DOMAIN inbox : Known(inbox[n].code)
  BY DEF IInv
<1>4. ASSUME NEW n \in DOMAIN inbox', inbox'[n].kind = "disable"
      PROVE  pay'[inbox'[n].code] = "disabled"
  BY <1>1, <1>2, <1>3, <1>4, Announced DEF SerialInv, Known
<1>5. CodeMatchesPlan' /\ CanceledIsDisabled'
  BY <1>2 DEF SerialInv, CodeMatchesPlan, CanceledIsDisabled, IInv, SubSound, Known
<1>6. ASSUME NEW s \in Requests PROVE SerialSound(req[s])'
  <2>1. PICK q : q = req[s]
    OBVIOUS
  <2>2. SerialSound(q) /\ RequestSound(q)
    BY <2>1 DEF SerialInv, IInv
  <2>3. /\ q.op = "disable" /\ q.pc # "idle" => pay'[q.code] = "disabled"
        /\ q.op = "cancel" /\ q.pc \in {"flushOrg", "flushSub", "commit"} =>
             pay'[q.code] = "disabled"
    BY <1>2, <2>2 DEF SerialSound, RequestSound, Known
  <2> QED BY <1>2, <2>1, <2>2, <2>3 DEF SerialSound
<1> QED BY <1>4, <1>5, <1>6 DEF SerialInv

LEMMA SerialInductive == Alone /\ IInv /\ SerialInv /\ [Next]_vars => SerialInv'
<1> SUFFICES ASSUME Alone, IInv, SerialInv, [Next]_vars PROVE SerialInv'
  OBVIOUS
<1>1. CASE Environment
  BY <1>1, SerialEnvironment
<1>2. ASSUME NEW r \in Requests, Begin(r) PROVE SerialInv'
  BY <1>2, SerialBegin
<1>3. ASSUME NEW r \in Requests, Continue(r) PROVE SerialInv'
  BY <1>3, SerialLoadOrg, SerialLoadSub, SerialCall, SerialFlush, SerialCommit DEF Continue
<1>4. ASSUME NEW r \in Requests, Victim(r) \/ Abort(r) \/ Lose(r) PROVE SerialInv'
  BY <1>4, SerialIdle DEF Victim, Abort, Lose
<1>5. CASE UNCHANGED vars
  BY <1>5 DEF vars, SerialInv, SerialSound, CodeMatchesPlan, CanceledIsDisabled
<1> QED BY <1>1, <1>2, <1>3, <1>4, <1>5 DEF Next

LEMMA SerialInitial == Init => SerialInv
  BY IdleSerial DEF Init, SerialInv, CodeMatchesPlan, CanceledIsDisabled

(* Requests that do not overlap keep the row, the webhooks and what is in  *)
(* progress consistent, whatever webhooks come again or are lost.          *)
THEOREM OneAfterTheOther == ASSUME Alone PROVE Spec => []SerialInv
BY SerialInitial, SerialInductive, Initial, Inductive, PTL DEF Spec, Alone

(* A subscription that the database calls canceled costs nothing more.     *)
THEOREM CancelingEnds == ASSUME Alone PROVE Spec => []CanceledIsDisabled
<1>1. SerialInv => CanceledIsDisabled
  BY DEF SerialInv
<1> QED BY <1>1, OneAfterTheOther, PTL

-----------------------------------------------------------------------------
(* The inductive invariant behind InStep, for requests that come one after *)
(* the other and an ideal environment.  Webhooks are handled in order; those *)
(* from the create of the active subscription on are about that            *)
(* subscription and no end, and without an active one the last is an end.  *)
Pending(n) == n \in DOMAIN inbox /\ n \notin done

Before(n) == 1..(n - 1) \subseteq done

Opens(p, c) ==
  /\ p \in DOMAIN inbox /\ inbox[p] = [kind |-> "create", code |-> c]
  /\ \A n \in DOMAIN inbox : n >= p => inbox[n].code = c /\ inbox[n].kind # "disable"

Orderly ==
  /\ done \subseteq DOMAIN inbox /\ \A n \in done : Before(n)
  /\ \A c, d \in Active : c = d
  /\ \A c \in Active : \E p \in DOMAIN inbox : Opens(p, c)
  /\ Active = {} /\ inbox # <<>> => inbox[Len(inbox)].kind = "disable"

(* What the database says is right, or a webhook to come will make it so.  *)
Settled ==
  /\ \A c \in Active : Served(c) \/ \E p \in DOMAIN inbox : Opens(p, c) /\ Pending(p)
  /\ Active = {} => org.plan = "free" \/ Pending(Len(inbox))

(* Whatever a request writes, a webhook to come will overwrite it. *)
Overtaken ==
  /\ \A c \in Active : \E p \in DOMAIN inbox : Opens(p, c) /\ Pending(p)
  /\ Active = {} => Pending(Len(inbox))

(* A webhook's request is about the next webhook, a callback's about the   *)
(* active subscription, or one that ended meanwhile, and each has loaded   *)
(* the rows as they are and assigned what its handler assigns.             *)
InTurn(q) ==
  /\ q.op \in Webhooks => /\ Pending(q.event) /\ Before(q.event)
                          /\ inbox[q.event] = [kind |-> q.op, code |-> q.code]
  /\ q.op \in {"verify", "cancel"} => q.event = 0
  /\ q.op = "verify" => q.code \in Active \/ Overtaken
  /\ q.op = "cancel" /\ q.pc \in {"flushOrg", "flushSub", "commit"} => Overtaken

OrgLoaded == [verify  |-> {"flushOrg", "sub", "flushSub", "commit"},
              create  |-> {"flushOrg", "commit"}, charge |-> {"flushOrg", "commit"},
              disable |-> {"flushOrg", "flushSub", "commit"}, failed |-> {},
              cancel  |-> {"sub", "call", "flushOrg", "flushSub", "commit"}]

SubLoaded == [verify |-> {"flushSub", "commit"},
              create |-> {"flushSub", "org", "flushOrg", "commit"}]

Carries(q) ==
  /\ IF q.pc \in OrgLoaded[q.op] THEN q.orgOld = org /\ q.orgNew.plan = Target(q)
                                 ELSE q.orgNew = q.orgOld
  /\ q.op \in DOMAIN SubLoaded =>
       (q.pc \in SubLoaded[q.op] => q.subNew # None /\ q.subNew.code = q.code
                                     /\ q.subNew.status = "active")
  /\ q.op = "failed" /\ q.subNew # None => q.subNew.code = q.code
                                           /\ q.subNew.status = "past_due"
  /\ q.op = "charge" => q.subNew = None

SyncSound(q) == q.pc # "idle" => q.full /\ InTurn(q) /\ Carries(q)

SyncInv == Orderly /\ Settled /\ \A r \in Requests : SyncSound(req[r])

LEMMA IdleSync == SyncSound(Idle)
BY DEF SyncSound, Idle

(* A step of the only request that leaves everything else alone. *)
LEMMA SyncStep ==
  ASSUME IInv, SyncInv, Alone, NEW r \in Requests, NEW q \in Request, Set(r, q),
         UNCHANGED <<org, sub, pay, inbox, done>>, SyncSound(q)
  PROVE  SyncInv'
<1>1. \A s \in Requests : req'[s] = q
  BY DEF Set, IInv, TypeOK, Alone
<1>2. Active' = Active /\ (\A c : Served(c)' <=> Served(c))
  BY DEF Active, Served
<1>3. /\ \A n : Pending(n)' <=> Pending(n)
      /\ \A n : Before(n)' <=> Before(n)
      /\ \A n, c : Opens(n, c)' <=> Opens(n, c)
  BY DEF Pending, Before, Opens
<1>4. Orderly' /\ Settled' /\ (Overtaken' <=> Overtaken)
  BY <1>2, <1>3 DEF SyncInv, Orderly, Settled, Overtaken
<1>5. SyncSound(q)'
  BY <1>2, <1>3, <1>4 DEF SyncSound, InTurn, Carries
<1>6. \A s \in Requests : SyncSound(req[s])'
  BY <1>1, <1>5 DEF SyncSound
<1> QED BY <1>4, <1>6 DEF SyncInv

LEMMA SyncIdle ==
  ASSUME IInv, SyncInv, Alone, NEW r \in Requests, Set(r, Idle),
         UNCHANGED <<org, sub, pay, inbox, done>>
  PROVE  SyncInv'
BY IdleSync, IdleSound, SyncStep

(* Which steps of a handler come after its loads. *)
LEMMA LoadedPc ==
  ASSUME NEW op \in Ops, NEW pc \in DOMAIN After[op]
  PROVE  /\ pc = "org" => After[op][pc] \in OrgLoaded[op]
         /\ pc # "org" => (After[op][pc] \in OrgLoaded[op] <=> pc \in OrgLoaded[op])
         /\ op \in DOMAIN SubLoaded =>
              /\ pc = "sub" => After[op][pc] \in SubLoaded[op]
              /\ pc # "sub" => (After[op][pc] \in SubLoaded[op] <=> pc \in SubLoaded[op])
         /\ op = "cancel" /\ After[op][pc] \in {"flushOrg", "flushSub", "commit"} =>
              pc \in {"call", "flushOrg", "flushSub"}
<1> USE DEF After, OrgLoaded, SubLoaded
<1>1. CASE op = "verify"
  BY <1>1
<1>2. CASE op = "create"
  BY <1>2
<1>3. CASE op = "charge"
  BY <1>3
<1>4. CASE op = "disable"
  BY <1>4
<1>5. CASE op = "failed"
  BY <1>5
<1>6. CASE op = "cancel"
  BY <1>6
<1> QED BY <1>1, <1>2, <1>3, <1>4, <1>5, <1>6 DEF Ops

(* What is known of a request at a step that is not its commit. *)
LEMMA SyncRequest ==
  ASSUME IInv, SyncInv, NEW r \in Requests,
         req[r].pc \in {"org", "sub", "call", "flushOrg", "flushSub"}
  PROVE  /\ req[r] \in Request /\ req[r].op \in Ops /\ req[r].pc \in DOMAIN After[req[r].op]
         /\ req[r].full /\ InTurn(req[r]) /\ Carries(req[r])
         /\ NextPc(req[r]) = After[req[r].op][req[r].pc]
BY DEF IInv, TypeOK, RequestSound, SyncInv, SyncSound, NextPc

(* A step that loads nothing and changes nothing but pc and locks. *)
LEMMA SyncMove ==
  ASSUME IInv, SyncInv, Alone, NEW r \in Requests, NEW t \in Request, Set(r, t),
         UNCHANGED <<org, sub, pay, inbox, done>>,
         req[r].pc \in {"sub", "flushOrg", "flushSub"},
         req[r].pc = "sub" => req[r].op \in {"disable", "failed"},
         t.op = req[r].op, t.code = req[r].code, t.event = req[r].event, t.full = req[r].full,
         t.orgOld = req[r].orgOld, t.orgNew = req[r].orgNew, t.subNew = req[r].subNew,
         t.pc = NextPc(req[r])
  PROVE  SyncInv'
<1>1. PICK q : q = req[r]
  OBVIOUS
<1>2. /\ q \in Request /\ q.op \in Ops /\ q.pc \in DOMAIN After[q.op]
      /\ q.full /\ InTurn(q) /\ Carries(q) /\ t.pc = After[q.op][q.pc]
  BY <1>1, SyncRequest
<1>3. InTurn(t)
  <2>1. q.op = "cancel" /\ t.pc \in {"flushOrg", "flushSub", "commit"} =>
          q.pc \in {"flushOrg", "flushSub"}
    BY <1>1, <1>2, LoadedPc
  <2> QED BY <1>1, <1>2, <2>1 DEF InTurn
<1>4. Carries(t)
  <2>1. /\ t.pc \in OrgLoaded[q.op] <=> q.pc \in OrgLoaded[q.op]
        /\ q.op \in DOMAIN SubLoaded =>
             (t.pc \in SubLoaded[q.op] <=> q.pc \in SubLoaded[q.op])
    <3>1. q.pc # "org" /\ (q.op \in DOMAIN SubLoaded => q.pc # "sub")
      BY <1>1 DEF SubLoaded
    <3> QED BY <1>2, <3>1, LoadedPc
  <2>2. Target(t) = Target(q)
    BY <1>1 DEF Target
  <2> QED BY <1>1, <1>2, <2>1, <2>2 DEF Carries
<1>5. SyncSound(t)
  BY <1>1, <1>2, <1>3, <1>4 DEF SyncSound
<1> QED BY <1>5, SyncStep

LEMMA SyncFlush ==
  ASSUME IInv, SyncInv, Alone, NEW r \in Requests, FlushOrg(r) \/ FlushSub(r)
  PROVE  SyncInv'
<1>1. PICK q : q = req[r]
  OBVIOUS
<1>2. /\ q \in Request /\ q.op \in Ops /\ q.pc \in {"flushOrg", "flushSub"}
      /\ q.pc \in DOMAIN After[q.op] /\ UNCHANGED <<org, sub, pay, inbox, done>>
  BY <1>1, SyncRequest DEF FlushOrg, FlushSub
<1>3. \/ Set(r, Idle)
      \/ \E l \in SUBSET {"org", "sub"} : Set(r, Step([q EXCEPT !.locks = l]))
  <2>1. [q EXCEPT !.locks = q.locks] = q
    BY <1>2 DEF Request
  <2>2. /\ q.locks \cup {"org"} \in SUBSET {"org", "sub"}
        /\ q.locks \cup {"sub"} \in SUBSET {"org", "sub"} /\ q.locks \in SUBSET {"org", "sub"}
    BY <1>2 DEF Request
  <2> QED BY <1>1, <2>1, <2>2 DEF FlushOrg, FlushSub
<1>4. CASE Set(r, Idle)
  BY <1>2, <1>4, SyncIdle
<1>5. ASSUME NEW l \in SUBSET {"org", "sub"}, Set(r, Step([q EXCEPT !.locks = l]))
      PROVE  SyncInv'
  <2>1. PICK p : p = [q EXCEPT !.locks = l]
    OBVIOUS
  <2>2. /\ p \in Request /\ p.op = q.op /\ p.pc = q.pc /\ p.code = q.code
        /\ p.event = q.event /\ p.full = q.full /\ p.orgOld = q.orgOld
        /\ p.orgNew = q.orgNew /\ p.subNew = q.subNew
    BY <1>2, <2>1 DEF Request
  <2>3. PICK t : t = Step(p)
    OBVIOUS
  <2>4. /\ t \in Request /\ t.pc = NextPc(p) /\ t.op = q.op /\ t.code = q.code
        /\ t.event = q.event /\ t.full = q.full /\ t.orgOld = q.orgOld
        /\ t.orgNew = q.orgNew /\ t.subNew = q.subNew
    BY <1>2, <2>2, <2>3, StepPc DEF Step, Request
  <2>5. NextPc(p) = NextPc(q)
    BY <2>2 DEF NextPc
  <2> QED BY <1>1, <1>2, <1>5, <2>1, <2>3, <2>4, <2>5, SyncMove
<1> QED BY <1>3, <1>4, <1>5

LEMMA SyncLoadOrg ==
  ASSUME IInv, SyncInv, Alone, NEW r \in Requests, LoadOrg(r) PROVE SyncInv'
<1>1. PICK q : q = req[r]
  OBVIOUS
<1>2. /\ q \in Request /\ q.op \in Ops /\ q.pc = "org" /\ q.pc \in DOMAIN After[q.op]
      /\ q.full /\ InTurn(q) /\ Carries(q) /\ RequestSound(q)
      /\ UNCHANGED <<org, sub, pay, inbox, done>>
  BY <1>1, SyncRequest DEF LoadOrg, IInv
<1>3. PICK o \in OrgRow : o = [plan |-> Target(q), customer |-> org.customer \/ q.op = "verify"]
  BY <1>2 DEF IInv, TypeOK, OrgRow, Target, Plans, RequestSound, Known
<1>4. PICK u : u = [q EXCEPT !.orgOld = org, !.orgNew = o]
  OBVIOUS
<1>5. /\ u \in Request /\ u.op = q.op /\ u.pc = "org" /\ u.code = q.code /\ u.full = q.full
      /\ u.event = q.event /\ u.orgOld = org /\ u.orgNew = o /\ u.subNew = q.subNew
  BY <1>2, <1>4 DEF Request, IInv, TypeOK
<1>6. PICK t : t = Step(u)
  OBVIOUS
<1>7. /\ t \in Request /\ t.op = q.op /\ t.pc = After[q.op]["org"] /\ t.code = q.code
      /\ t.full = q.full /\ t.event = q.event /\ t.orgOld = org /\ t.orgNew = o
      /\ t.subNew = q.subNew
  <2>1. NextPc(u) = After[q.op]["org"]
    BY <1>2, <1>5 DEF NextPc
  <2> QED BY <1>2, <1>5, <1>6, <2>1, StepPc DEF Step, Request
<1>8. InTurn(t)
  <2>1. q.op = "cancel" => t.pc \notin {"flushOrg", "flushSub", "commit"}
    BY <1>2, <1>7, LoadedPc
  <2> QED BY <1>2, <1>7, <2>1 DEF InTurn
<1>9. Carries(t)
  <2>1. /\ t.pc \in OrgLoaded[q.op]
        /\ q.op \in DOMAIN SubLoaded =>
             (t.pc \in SubLoaded[q.op] <=> q.pc \in SubLoaded[q.op])
    BY <1>2, <1>7, LoadedPc
  <2>2. Target(t) = Target(q)
    BY <1>7 DEF Target
  <2> QED BY <1>2, <1>3, <1>7, <2>1, <2>2 DEF Carries
<1>10. Set(r, t)
  BY <1>1, <1>3, <1>4, <1>6 DEF LoadOrg
<1> QED BY <1>2, <1>7, <1>8, <1>9, <1>10, SyncStep DEF SyncSound

LEMMA SyncLoadSub ==
  ASSUME IInv, SyncInv, Alone, NEW r \in Requests, LoadSub(r) PROVE SyncInv'
<1>1. PICK q : q = req[r]
  OBVIOUS
<1>2. /\ q \in Request /\ q.op \in Ops /\ q.pc = "sub" /\ q.pc \in DOMAIN After[q.op]
      /\ q.full /\ InTurn(q) /\ Carries(q) /\ RequestSound(q)
      /\ sub \in SubRow \cup {None} /\ SubSound(sub)
      /\ UNCHANGED <<org, sub, pay, inbox, done>>
  BY <1>1, SyncRequest DEF LoadSub, IInv, TypeOK
<1>3. q.op # "charge" /\ (q.op # "cancel" => Known(q.code))
  BY <1>2 DEF After, RequestSound
<1>4. CASE q.op = "cancel" /\ sub = None
  <2>1. Set(r, Idle)
    BY <1>1, <1>4 DEF LoadSub, IsAbout
  <2> QED BY <1>2, <2>1, SyncIdle
<1>5. CASE q.op \in {"disable", "failed"} /\ ~IsAbout(q)
  <2>1. PICK t : t = Step(q)
    OBVIOUS
  <2>2. /\ t \in Request /\ t.op = q.op /\ t.code = q.code /\ t.event = q.event
        /\ t.full = q.full /\ t.orgOld = q.orgOld /\ t.orgNew = q.orgNew
        /\ t.subNew = q.subNew /\ t.pc = NextPc(q)
    BY <1>2, <2>1, StepPc DEF Step, Request
  <2>3. Set(r, t)
    BY <1>1, <1>5, <2>1 DEF LoadSub
  <2> QED BY <1>1, <1>2, <1>5, <2>2, <2>3, SyncMove
<1>6. CASE q.op \in {"verify", "create"} \/ (sub # None /\ (q.op # "cancel" => IsAbout(q)))
  <2>1. PICK n : n = Assigned(q)
    OBVIOUS
  <2>2. PICK c : c = IF q.op = "cancel" THEN sub.code ELSE q.code
    OBVIOUS
  <2>3. /\ n \in SubRow
        /\ q.op \in {"verify", "create"} => n.code = q.code /\ n.status = "active"
        /\ q.op = "failed" => n.code = q.code /\ n.status = "past_due"
    <3>1. CASE q.op \in {"verify", "create"}
      BY <1>2, <1>3, <2>1, <3>1 DEF Assigned, Upserted, SubRow, Known, Plans
    <3>2. CASE q.op = "failed"
      BY <1>2, <1>6, <2>1, <3>2 DEF Assigned, SubRow, IsAbout
    <3>3. CASE q.op \in {"disable", "cancel"}
      BY <1>2, <1>6, <2>1, <3>3 DEF Assigned, Canceled, SubRow
    <3> QED BY <1>2, <1>3, <3>1, <3>2, <3>3 DEF Ops
  <2>4. c \in Codes
    BY <1>2, <1>3, <1>6, <2>2 DEF SubSound, Known
  <2>5. PICK u : u = [q EXCEPT !.subOld = sub, !.subNew = n, !.code = c]
    OBVIOUS
  <2>6. /\ u \in Request /\ u.op = q.op /\ u.pc = "sub" /\ u.code = c /\ u.event = q.event
        /\ u.full = q.full /\ u.orgOld = q.orgOld /\ u.orgNew = q.orgNew /\ u.subNew = n
    BY <1>2, <2>3, <2>4, <2>5 DEF Request
  <2>7. PICK t : t = Step(u)
    OBVIOUS
  <2>8. /\ t \in Request /\ t.op = q.op /\ t.pc = After[q.op]["sub"] /\ t.code = c
        /\ t.event = q.event /\ t.full = q.full /\ t.orgOld = q.orgOld
        /\ t.orgNew = q.orgNew /\ t.subNew = n
    <3>1. NextPc(u) = After[q.op]["sub"]
      BY <1>2, <2>6 DEF NextPc
    <3> QED BY <1>2, <2>6, <2>7, <3>1, StepPc DEF Step, Request
  <2>9. InTurn(t)
    <3>1. q.op = "cancel" => t.pc \notin {"flushOrg", "flushSub", "commit"}
      BY <1>2, <2>8, LoadedPc
    <3> QED BY <1>2, <2>2, <2>8, <3>1 DEF InTurn, Webhooks
  <2>10. Carries(t)
    <3>1. t.pc \in OrgLoaded[q.op] <=> q.pc \in OrgLoaded[q.op]
      BY <1>2, <2>8, LoadedPc
    <3>2. Target(t) = Target(q)
      BY <2>2, <2>8 DEF Target
    <3>3. n # None /\ (q.op \in {"verify", "create"} => c = q.code)
      BY <2>2, <2>3, NoneIsNoRow
    <3>4. q.op \in DOMAIN SubLoaded => q.op \in {"verify", "create"}
      BY DEF SubLoaded
    <3>5. q.op = "failed" => c = q.code
      BY <2>2
    <3> QED BY <1>2, <1>3, <2>3, <2>8, <3>1, <3>2, <3>3, <3>4, <3>5 DEF Carries
  <2>11. Set(r, t)
    <3>1. q.op \in {"verify", "create"} \/ IsAbout(q)
      BY <1>6 DEF IsAbout
    <3>2. ~(q.op = "cancel" /\ sub = None)
      BY <1>6
    <3> QED BY <1>1, <2>1, <2>2, <2>5, <2>7, <3>1, <3>2 DEF LoadSub
  <2> QED BY <1>2, <2>8, <2>9, <2>10, <2>11, SyncStep DEF SyncSound
<1> QED BY <1>2, <1>3, <1>4, <1>5, <1>6 DEF Ops, IsAbout

(* A request starts with the next webhook or for the active subscription. *)
LEMMA SyncStart ==
  ASSUME IInv, SyncInv, Alone, Quirks = {}, NEW r \in Requests, NEW op \in Ops,
         NEW c \in Codes \cup {None}, NEW n \in Nat, Start(r, op, c, n),
         op \in Webhooks => Pending(n) /\ Before(n) /\ inbox[n] = [kind |-> op, code |-> c],
         op \in {"verify", "cancel"} => n = 0,
         op = "verify" => c \in Active
  PROVE  SyncInv'
<1>1. /\ Set(r, [Idle EXCEPT !.op = op, !.code = c, !.event = n, !.full = TRUE,
                             !.pc = First[op]])
      /\ UNCHANGED <<org, sub, pay, inbox, done>>
  BY DEF Start
<1>2. PICK q : q = [Idle EXCEPT !.op = op, !.code = c, !.event = n, !.full = TRUE,
                                !.pc = First[op]]
  OBVIOUS
<1>3. q \in Request
  BY <1>2, FirstPc, IdleSound DEF Idle, Request
<1>4. /\ q.op = op /\ q.code = c /\ q.event = n /\ q.full /\ q.pc = First[op]
      /\ q.subNew = None /\ q.orgNew = q.orgOld
  BY <1>2 DEF Idle
<1>5. /\ First[op] \notin OrgLoaded[op]
      /\ op \in DOMAIN SubLoaded => First[op] \notin SubLoaded[op]
      /\ op = "cancel" => First[op] = "org"
  BY DEF Ops, First, OrgLoaded, SubLoaded
<1>6. InTurn(q) /\ Carries(q)
  BY <1>4, <1>5 DEF InTurn, Carries
<1> QED BY <1>1, <1>2, <1>3, <1>4, <1>6, SyncStep DEF SyncSound

LEMMA SyncBegin ==
  ASSUME IInv, SyncInv, Alone, Quirks = {}, NEW r \in Requests, Begin(r) PROVE SyncInv'
<1>1. CASE Webhook(r)
  <2>1. PICK n \in DOMAIN inbox : /\ n \notin done /\ (\A m \in 1..(n - 1) : m \in done)
                                 /\ Start(r, inbox[n].kind, inbox[n].code, n)
    BY <1>1 DEF Webhook
  <2>2. inbox[n] \in Event /\ n \in Nat
    BY DEF IInv, TypeOK
  <2>3. /\ inbox[n].kind \in Ops \ {"verify", "cancel"} /\ inbox[n].code \in Codes
        /\ inbox[n] = [kind |-> inbox[n].kind, code |-> inbox[n].code]
    BY <2>2 DEF Event, Webhooks, Ops
  <2> QED BY <2>1, <2>2, <2>3, SyncStart DEF Pending, Before
<1>2. CASE Callback(r)
  <2>1. PICK c \in Codes : pay[c] = "active" /\ Start(r, "verify", c, 0)
    BY <1>2 DEF Callback
  <2> QED BY <2>1, SyncStart DEF Ops, Webhooks, Active
<1>3. CASE StartCancel(r)
  BY <1>3, SyncStart DEF StartCancel, Ops, Webhooks
<1> QED BY <1>1, <1>2, <1>3 DEF Begin

-----------------------------------------------------------------------------
(* What the announcements of Paystack do to the queue and to what is to be *)
(* settled by it.                                                          *)
Extended ==
  /\ UNCHANGED done /\ DOMAIN inbox \subseteq DOMAIN inbox'
  /\ \A n \in DOMAIN inbox : inbox'[n] = inbox[n]
  /\ Orderly' /\ Settled'
  /\ Overtaken => Overtaken'
  /\ Overtaken' \/ Active \subseteq Active'

LEMMA EndExtends ==
  ASSUME IInv, SyncInv, NEW c \in Codes, pay[c] = "active",
         pay' = [pay EXCEPT ![c] = "disabled"],
         inbox' = Append(inbox, [kind |-> "disable", code |-> c]), UNCHANGED done
  PROVE  Extended /\ Overtaken'
<1>1. /\ inbox \in Seq(Event) /\ Len(inbox) \in Nat /\ DOMAIN inbox = 1..Len(inbox)
      /\ pay \in [Codes -> {"none", "active", "disabled"}]
  BY DEF IInv, TypeOK
<1>2. PICK e \in Event : e = [kind |-> "disable", code |-> c]
  BY DEF Event, Webhooks
<1>3. inbox' = Append(inbox, e)
  BY <1>2
<1>4. /\ Len(inbox') = Len(inbox) + 1 /\ DOMAIN inbox' = 1..(Len(inbox) + 1)
      /\ inbox'[Len(inbox) + 1] = e
      /\ \A n \in DOMAIN inbox : inbox'[n] = inbox[n]
  BY <1>1, <1>3
<1>5. Active' = {}
  BY <1>1 DEF Active, SyncInv, Orderly
<1>6. Pending(Len(inbox))'
  BY <1>1, <1>4 DEF Pending, SyncInv, Orderly
<1>7. Overtaken' /\ Settled'
  BY <1>5, <1>6 DEF Overtaken, Settled
<1>8. Orderly'
  BY <1>1, <1>2, <1>4, <1>5 DEF SyncInv, Orderly, Before
<1> QED BY <1>1, <1>4, <1>7, <1>8 DEF Extended

LEMMA SubscribeExtends ==
  ASSUME IInv, SyncInv, Quirks = {}, NEW c \in Codes, Subscribe(c)
  PROVE  Extended
<1>1. /\ inbox \in Seq(Event) /\ Len(inbox) \in Nat /\ DOMAIN inbox = 1..Len(inbox)
      /\ pay \in [Codes -> {"none", "active", "disabled"}]
  BY DEF IInv, TypeOK
<1>2. PICK a \in Event, b \in Event : /\ a = [kind |-> "charge", code |-> c]
                                     /\ b = [kind |-> "create", code |-> c]
  BY DEF Event, Webhooks
<1>3. inbox' = inbox \o <<a, b>> /\ UNCHANGED done
  BY <1>2 DEF Subscribe, Announce
<1>4. <<a, b>> \in Seq(Event) /\ Len(<<a, b>>) = 2 /\ <<a, b>>[2] = b
  BY <1>2
<1>5. PICK p \in Nat : p = Len(inbox) + 2
  BY <1>1
<1>6. /\ DOMAIN inbox' = 1..p /\ p \in DOMAIN inbox' /\ inbox'[p] = b
      /\ \A n \in DOMAIN inbox : inbox'[n] = inbox[n]
  BY <1>1, <1>3, <1>4, <1>5
<1>7. Active = {} /\ Active' = {c}
  BY <1>1 DEF Active, Subscribe
<1>8. Opens(p, c)' /\ Pending(p)'
  <2>1. \A n \in DOMAIN inbox' : n >= p => n = p
    BY <1>6
  <2>2. p \notin done'
    BY <1>1, <1>3, <1>5 DEF SyncInv, Orderly
  <2> QED BY <1>2, <1>6, <2>1, <2>2 DEF Opens, Pending
<1>9. Overtaken' /\ Settled'
  BY <1>6, <1>7, <1>8 DEF Overtaken, Settled
<1>10. Orderly'
  <2>1. done' \subseteq DOMAIN inbox' /\ (\A n \in done' : Before(n)')
    BY <1>1, <1>3, <1>5, <1>6 DEF SyncInv, Orderly, Before
  <2> QED BY <1>6, <1>7, <1>8, <2>1 DEF Orderly
<1>11. DOMAIN inbox \subseteq DOMAIN inbox'
  BY <1>1, <1>5, <1>6
<1> QED BY <1>3, <1>6, <1>9, <1>10, <1>11 DEF Extended

LEMMA RenewExtends ==
  ASSUME IInv, SyncInv, NEW c \in Codes, Renew(c)
  PROVE  Extended
<1>1. /\ inbox \in Seq(Event) /\ Len(inbox) \in Nat /\ DOMAIN inbox = 1..Len(inbox)
      /\ c \in Active /\ UNCHANGED <<org, sub, pay, done>> /\ Active' = Active
  BY DEF IInv, TypeOK, Renew, Active
<1>2. PICK kind \in {"charge", "failed"} : inbox' = inbox \o <<[kind |-> kind, code |-> c]>>
  BY DEF Renew, Announce
<1>3. PICK e \in Event : e = [kind |-> kind, code |-> c]
  BY DEF Event, Webhooks
<1>4. /\ Len(inbox') = Len(inbox) + 1 /\ DOMAIN inbox' = 1..(Len(inbox) + 1)
      /\ inbox'[Len(inbox) + 1] = e
      /\ \A n \in DOMAIN inbox : inbox'[n] = inbox[n]
  <2>1. inbox' = inbox \o <<e>>
    BY <1>2, <1>3
  <2>2. <<e>> \in Seq(Event) /\ Len(<<e>>) = 1 /\ <<e>>[1] = e
    OBVIOUS
  <2> QED BY <1>1, <2>1, <2>2
<1>5. ASSUME NEW d \in Active, NEW p \in DOMAIN inbox, Opens(p, d) PROVE Opens(p, d)'
  <2>1. d = c
    BY <1>1 DEF SyncInv, Orderly
  <2> QED BY <1>1, <1>3, <1>4, <1>5, <2>1 DEF Opens
<1>6. \A p : Pending(p) => Pending(p)'
  BY <1>1, <1>4 DEF Pending
<1>7. DOMAIN inbox \subseteq DOMAIN inbox' /\ (\A d : Served(d) <=> Served(d)')
  BY <1>1, <1>4 DEF Served
<1>8. Overtaken => Overtaken'
  BY <1>1, <1>5, <1>6, <1>7 DEF Overtaken
<1>9. Settled'
  BY <1>1, <1>5, <1>6, <1>7 DEF SyncInv, Settled
<1>10. Orderly'
  BY <1>1, <1>5, <1>7 DEF SyncInv, Orderly, Before
<1> QED BY <1>1, <1>4, <1>7, <1>8, <1>9, <1>10 DEF Extended

LEMMA ExtendedSound ==
  ASSUME Extended, UNCHANGED org, NEW q, SyncSound(q)
  PROVE  SyncSound(q)'
<1>1. Carries(q) => Carries(q)'
  BY DEF Carries
<1>2. InTurn(q) => InTurn(q)'
  BY DEF InTurn, Extended, Pending, Before
<1> QED BY <1>1, <1>2 DEF SyncSound

LEMMA SyncEnvironment ==
  ASSUME IInv, SyncInv, Quirks = {}, Environment PROVE SyncInv'
<1>1. PICK c \in Codes : Subscribe(c) \/ Renew(c) \/ Unsubscribe(c)
  BY DEF Environment
<1>2. UNCHANGED <<org, req>>
  BY <1>1 DEF Subscribe, Renew, Unsubscribe
<1>3. Extended
  <2>1. CASE Subscribe(c)
    BY <2>1, SubscribeExtends
  <2>2. CASE Renew(c)
    BY <2>2, RenewExtends
  <2>3. CASE Unsubscribe(c)
    <3>1. PICK e \in Event : e = [kind |-> "disable", code |-> c]
      BY DEF Event, Webhooks
    <3>2. inbox' = inbox \o <<e>> /\ inbox \in Seq(Event)
      BY <2>3, <3>1 DEF Unsubscribe, Announce, IInv, TypeOK
    <3>3. inbox' = Append(inbox, e)
      BY <3>2
    <3> QED BY <2>3, <3>1, <3>3, EndExtends DEF Unsubscribe
  <2> QED BY <1>1, <2>1, <2>2, <2>3
<1>4. ASSUME NEW r \in Requests PROVE SyncSound(req[r])'
  <2>1. PICK q : q = req[r]
    OBVIOUS
  <2>2. SyncSound(q)'
    BY <1>2, <1>3, <2>1, ExtendedSound DEF SyncInv
  <2> QED BY <1>2, <2>1, <2>2 DEF SyncSound
<1> QED BY <1>3, <1>4 DEF Extended, SyncInv

(* A cancellation announces the end itself, and whatever comes after it. *)
LEMMA SyncCall ==
  ASSUME IInv, SyncInv, Alone, NEW r \in Requests, Call(r) PROVE SyncInv'
<1>1. PICK q : q = req[r]
  OBVIOUS
<1>2. /\ q \in Request /\ q.pc = "call" /\ q.op = "cancel" /\ q.full /\ InTurn(q)
      /\ Carries(q) /\ NextPc(q) = "flushOrg" /\ q.code \in Codes
      /\ UNCHANGED <<org, sub, done>>
  <2>1. /\ q \in Request /\ q.op \in Ops /\ q.pc = "call" /\ q.pc \in DOMAIN After[q.op]
        /\ q.full /\ InTurn(q) /\ Carries(q) /\ NextPc(q) = After[q.op]["call"]
        /\ RequestSound(q) /\ UNCHANGED <<org, sub, done>>
    BY <1>1, SyncRequest DEF Call, IInv
  <2>2. q.op = "cancel"
    BY <2>1 DEF Ops, After
  <2>3. After["cancel"]["call"] = "flushOrg"
    BY DEF After
  <2> QED BY <2>1, <2>2, <2>3 DEF RequestSound, Known
<1>3. CASE pay[q.code] = "active"
  <2>1. /\ pay' = [pay EXCEPT ![q.code] = "disabled"]
        /\ inbox' = Append(inbox, [kind |-> "disable", code |-> q.code])
        /\ Set(r, Step(q))
    BY <1>1, <1>3 DEF Call
  <2>2. Extended /\ Overtaken'
    BY <1>2, <1>3, <2>1, EndExtends
  <2>3. PICK t : t = Step(q)
    OBVIOUS
  <2>4. /\ t.op = "cancel" /\ t.pc = "flushOrg" /\ t.event = q.event /\ t.full
        /\ t.orgOld = q.orgOld /\ t.orgNew = q.orgNew
    BY <1>2, <2>3 DEF Step, Request
  <2>5. InTurn(t)'
    BY <1>2, <2>2, <2>4 DEF InTurn, Webhooks
  <2>6. Carries(t)'
    BY <1>2, <2>4 DEF Carries, OrgLoaded, SubLoaded, Target
  <2>7. \A s \in Requests : req'[s] = t
    BY <2>1, <2>3 DEF Set, IInv, TypeOK, Alone
  <2>8. \A s \in Requests : SyncSound(req[s])'
    BY <2>4, <2>5, <2>6, <2>7 DEF SyncSound, InTurn, Carries
  <2> QED BY <2>2, <2>8 DEF Extended, SyncInv
<1>4. CASE pay[q.code] # "active"
  BY <1>1, <1>2, <1>4, SyncIdle DEF Call
<1> QED BY <1>3, <1>4

-----------------------------------------------------------------------------
(* What a commit leaves: the plan of the request, and its row. *)
LEMMA Written ==
  ASSUME IInv, SerialInv, SyncInv, NEW r \in Requests, Commit(r), NEW q, q = req[r]
  PROVE  /\ q.op \in Ops /\ InTurn(q) /\ UNCHANGED <<pay, inbox>> /\ Set(r, Idle)
         /\ done' = done \cup ({q.event} \ {0})
         /\ q.op # "failed" => org'.plan = Target(q)
         /\ q.op = "failed" => org'.plan = org.plan
         /\ q.op \in {"verify", "create"} =>
              sub' # None /\ sub'.code = q.code /\ sub'.status = "active"
         /\ q.op = "charge" => sub' = sub
         /\ q.op = "failed" =>
              sub' = sub \/ (sub' # None /\ sub'.code = q.code /\ sub'.status = "past_due")
<1>1. /\ q \in Request /\ q.pc = "commit" /\ q.op \in Ops /\ InTurn(q) /\ Carries(q)
      /\ SerialSound(q) /\ UNCHANGED <<pay, inbox>> /\ Set(r, Idle)
      /\ done' = done \cup ({q.event} \ {0}) /\ org' = MergedOrg(q)
      /\ sub' = IF SubDirty(q) THEN MergedSub(q) ELSE sub
      /\ org \in OrgRow /\ sub \in SubRow \cup {None}
  BY DEF IInv, TypeOK, RequestSound, SerialInv, SyncInv, SyncSound, Commit
<1>2. org'.plan = IF q.orgNew.plan # q.orgOld.plan THEN q.orgNew.plan ELSE org.plan
  BY <1>1 DEF MergedOrg
<1>3. q.op # "failed" => "commit" \in OrgLoaded[q.op]
  BY <1>1 DEF Ops, OrgLoaded
<1>4. q.op = "failed" => "commit" \notin OrgLoaded[q.op]
  BY DEF OrgLoaded
<1>5. ASSUME SubDirty(q)
      PROVE  sub' # None /\ sub'.code = q.subNew.code /\ sub'.status = q.subNew.status
  <2>1. q.subNew \in SubRow /\ q.subOld = sub
    BY <1>1, <1>5 DEF SubDirty, SerialSound, Request
  <2>2. PICK m : m = MergedSub(q)
    OBVIOUS
  <2>3. m.code = q.subNew.code /\ m.status = q.subNew.status
    BY <2>1, <2>2 DEF MergedSub
  <2>4. m \in SubRow
    <3>1. CASE sub = None
      BY <2>1, <2>2, <3>1 DEF MergedSub
    <3>2. CASE sub # None
      BY <1>1, <2>1, <2>2, <3>2 DEF MergedSub, SubRow
    <3> QED BY <3>1, <3>2
  <2> QED BY <1>1, <1>5, <2>2, <2>3, <2>4, NoneIsNoRow
<1>6. q.op \in {"verify", "create"} =>
        SubDirty(q) /\ q.subNew.code = q.code /\ q.subNew.status = "active"
  BY <1>1 DEF Carries, SubLoaded, SubDirty
<1>7. q.op = "charge" => ~SubDirty(q)
  BY <1>1 DEF Carries, SubDirty
<1>8. q.op = "failed" /\ SubDirty(q) => q.subNew.code = q.code /\ q.subNew.status = "past_due"
  BY <1>1 DEF Carries, SubDirty
<1>9. /\ q.op # "failed" => org'.plan = Target(q)
      /\ q.op = "failed" => org'.plan = org.plan
  BY <1>1, <1>2, <1>3, <1>4 DEF Carries
<1> QED BY <1>1, <1>5, <1>6, <1>7, <1>8, <1>9

(* The active subscription stays served, or its creation is still to come. *)
LEMMA CommitServes ==
  ASSUME IInv, SerialInv, SyncInv, NEW r \in Requests, Commit(r), NEW c \in Active
  PROVE  Served(c)' \/ \E p \in DOMAIN inbox : Opens(p, c) /\ Pending(p)'
<1>1. PICK q : q = req[r]
  OBVIOUS
<1>2. /\ q.op \in Ops /\ InTurn(q) /\ UNCHANGED <<pay, inbox>>
      /\ done' = done \cup ({q.event} \ {0}) /\ DOMAIN inbox = 1..Len(inbox)
      /\ Len(inbox) \in Nat /\ c \in Codes
  BY <1>1, Written DEF IInv, TypeOK, Active
<1>3. ASSUME q.op \in {"verify", "create"}, q.code = c PROVE Served(c)'
  BY <1>1, <1>3, Written DEF Served, Target
<1>4. ASSUME NEW p \in DOMAIN inbox, Opens(p, c), Pending(p), p # q.event
      PROVE  \E n \in DOMAIN inbox : Opens(n, c) /\ Pending(n)'
  BY <1>2, <1>4 DEF Pending
<1>5. CASE q.op \in {"verify", "cancel"}
  <2>1. CASE Overtaken
    BY <1>2, <1>4, <1>5, <2>1 DEF Overtaken, InTurn
  <2>2. CASE ~Overtaken
    <3>1. q.op = "verify" /\ q.code \in Active
      <4>1. q \in Request /\ q.pc = "commit"
        BY <1>1 DEF IInv, TypeOK, Commit
      <4> QED BY <1>2, <1>5, <2>2, <4>1 DEF InTurn
    <3> QED BY <1>3, <3>1 DEF SyncInv, Orderly
  <2> QED BY <2>1, <2>2
<1>6. CASE q.op \in Webhooks
  <2>1. PICK n \in DOMAIN inbox : /\ n = q.event /\ n \notin done /\ Before(n)
                                 /\ inbox[n] = [kind |-> q.op, code |-> q.code]
    BY <1>2, <1>6 DEF InTurn, Pending
  <2>2. PICK p \in DOMAIN inbox : Opens(p, c)
    BY DEF SyncInv, Orderly
  <2>3. CASE p \notin done
    <3>1. CASE p = n
      BY <1>3, <2>1, <2>2, <3>1 DEF Opens
    <3>2. CASE p # n
      BY <1>4, <2>1, <2>2, <2>3, <3>2 DEF Pending
    <3> QED BY <3>1, <3>2
  <2>4. CASE p \in done
    <3>1. n > p
      BY <1>2, <2>1, <2>4 DEF SyncInv, Orderly, Before
    <3>2. q.code = c /\ q.op # "disable"
      BY <1>2, <2>1, <2>2, <3>1 DEF Opens
    <3>3. CASE q.op = "create"
      BY <1>3, <3>2, <3>3
    <3>4. CASE Served(c) /\ q.op \in {"charge", "failed"}
      BY <1>1, <3>2, <3>4, Written DEF Served, Target
    <3>5. CASE q.op \in {"charge", "failed"} /\ ~Served(c)
      <4>1. PICK m \in DOMAIN inbox : Opens(m, c) /\ Pending(m)
        BY <3>5 DEF SyncInv, Settled
      <4>2. m # n
        BY <2>1, <3>5, <4>1 DEF Opens
      <4> QED BY <1>4, <2>1, <4>1, <4>2
    <3> QED BY <1>6, <3>2, <3>3, <3>4, <3>5 DEF Webhooks
  <2> QED BY <2>3, <2>4
<1> QED BY <1>2, <1>5, <1>6 DEF Ops, Webhooks

(* Without an active subscription the plan is free, or the end is to come. *)
LEMMA CommitEnds ==
  ASSUME IInv, SerialInv, SyncInv, NEW r \in Requests, Commit(r), Active = {}
  PROVE  org'.plan = "free" \/ Pending(Len(inbox))'
<1>1. PICK q : q = req[r]
  OBVIOUS
<1>2. /\ q.op \in Ops /\ InTurn(q) /\ UNCHANGED <<pay, inbox>> /\ q.pc = "commit"
      /\ done' = done \cup ({q.event} \ {0}) /\ DOMAIN inbox = 1..Len(inbox)
      /\ Len(inbox) \in Nat
  BY <1>1, Written DEF IInv, TypeOK, Commit
<1>3. CASE q.op \in {"verify", "cancel"}
  <2>1. Pending(Len(inbox)) /\ q.event = 0
    BY <1>2, <1>3 DEF InTurn, Overtaken
  <2> QED BY <1>2, <2>1 DEF Pending
<1>4. CASE q.op \in Webhooks
  <2>1. PICK n \in DOMAIN inbox : /\ n = q.event /\ n \notin done /\ Before(n)
                                 /\ inbox[n] = [kind |-> q.op, code |-> q.code]
    BY <1>2, <1>4 DEF InTurn, Pending
  <2>2. CASE n = Len(inbox)
    <3>1. q.op = "disable"
      BY <1>2, <2>1, <2>2 DEF SyncInv, Orderly
    <3> QED BY <1>1, <3>1, Written DEF Target
  <2>3. CASE n # Len(inbox)
    <3>1. Len(inbox) \in DOMAIN inbox /\ n < Len(inbox)
      BY <1>2, <2>1, <2>3
    <3>2. Len(inbox) \notin done
      BY <1>2, <2>1, <3>1 DEF SyncInv, Orderly, Before
    <3> QED BY <1>2, <2>1, <2>3, <3>1, <3>2 DEF Pending
  <2> QED BY <2>2, <2>3
<1> QED BY <1>2, <1>3, <1>4 DEF Ops, Webhooks

LEMMA SyncCommit ==
  ASSUME IInv, SerialInv, SyncInv, Alone, NEW r \in Requests, Commit(r) PROVE SyncInv'
<1>1. PICK q : q = req[r]
  OBVIOUS
<1>2. /\ q.op \in Ops /\ InTurn(q) /\ UNCHANGED <<pay, inbox>> /\ Set(r, Idle)
      /\ done' = done \cup ({q.event} \ {0})
  BY <1>1, Written
<1>3. Active' = Active /\ (\A p, c : Opens(p, c)' <=> Opens(p, c))
  BY <1>2 DEF Active, Opens
<1>4. Orderly'
  <2>1. q.op \in Webhooks => q.event \in DOMAIN inbox /\ Before(q.event)
    BY <1>2 DEF InTurn, Pending
  <2>2. q.op \notin Webhooks => q.event = 0
    BY <1>2 DEF InTurn, Ops, Webhooks
  <2>3. done' \subseteq DOMAIN inbox' /\ (\A n \in done' : Before(n)')
    BY <1>2, <2>1, <2>2 DEF SyncInv, Orderly, Before
  <2> QED BY <1>2, <1>3, <2>3 DEF SyncInv, Orderly
<1>5. Settled'
  <2>1. Active = {} => org'.plan = "free" \/ Pending(Len(inbox))'
    BY CommitEnds
  <2>2. \A c \in Active : Served(c)' \/ \E p \in DOMAIN inbox : Opens(p, c) /\ Pending(p)'
    BY CommitServes
  <2> QED BY <1>2, <1>3, <2>1, <2>2 DEF Settled
<1>6. \A s \in Requests : req'[s] = Idle
  BY <1>2 DEF Set, IInv, TypeOK, Alone
<1>7. \A s \in Requests : SyncSound(req[s])'
  BY <1>6 DEF SyncSound, Idle
<1> QED BY <1>4, <1>5, <1>7 DEF SyncInv

LEMMA SyncInitial == Init => SyncInv
<1> SUFFICES ASSUME Init PROVE SyncInv
  OBVIOUS
<1>1. Active = {} /\ done = {} /\ inbox = <<>> /\ org.plan = "free"
  BY DEF Init, Active, NewOrg
<1>2. \A r \in Requests : SyncSound(req[r])
  BY IdleSync DEF Init
<1> QED BY <1>1, <1>2 DEF SyncInv, Orderly, Settled

LEMMA SyncInductive ==
  ASSUME Alone, Quirks = {}
  PROVE  IInv /\ SerialInv /\ SyncInv /\ [Next]_vars => SyncInv'
<1> SUFFICES ASSUME IInv, SerialInv, SyncInv, [Next]_vars PROVE SyncInv'
  OBVIOUS
<1>1. CASE Environment
  BY <1>1, SyncEnvironment
<1>2. ASSUME NEW r \in Requests, Begin(r) PROVE SyncInv'
  BY <1>2, SyncBegin
<1>3. ASSUME NEW r \in Requests, Continue(r) PROVE SyncInv'
  BY <1>3, SyncLoadOrg, SyncLoadSub, SyncCall, SyncFlush, SyncCommit DEF Continue
<1>4. ASSUME NEW r \in Requests, Victim(r) \/ Abort(r) \/ Lose(r) PROVE SyncInv'
  BY <1>4, SyncIdle DEF Victim, Abort, Lose
<1>5. CASE UNCHANGED vars
  <2>1. UNCHANGED <<org, sub, pay, inbox, done, req>>
    BY <1>5 DEF vars
  <2>2. /\ UNCHANGED <<Active, Overtaken, Orderly, Settled>>
        /\ \A n : (Pending(n)' <=> Pending(n)) /\ (Before(n)' <=> Before(n))
    BY <2>1 DEF Active, Overtaken, Orderly, Settled, Pending, Before, Opens, Served
  <2>3. \A s \in Requests : SyncSound(req[s])'
    BY <2>1, <2>2 DEF SyncInv, SyncSound, InTurn, Carries
  <2> QED BY <2>2, <2>3 DEF SyncInv
<1> QED BY <1>1, <1>2, <1>3, <1>4, <1>5 DEF Next

(* Requests one after the other and webhooks in their order, each once:     *)
(* what the rows say is right or a webhook to come will make it so.         *)
THEOREM WebhooksCatchUp == ASSUME Alone, Quirks = {} PROVE Spec => []SyncInv
<1>1. Init => IInv /\ SerialInv /\ SyncInv
  BY Initial, SerialInitial, SyncInitial
<1>2. IInv /\ SerialInv /\ SyncInv /\ [Next]_vars => (IInv /\ SerialInv /\ SyncInv)'
  BY Inductive, SerialInductive, SyncInductive
<1> QED BY <1>1, <1>2, PTL DEF Spec

(* README.md:11, plan sync: with all webhooks handled and nothing in        *)
(* progress, the organization has the one subscription it pays for.         *)
THEOREM PlansInStep == ASSUME Alone, Quirks = {} PROVE Spec => []InStep
<1>1. SyncInv => InStep
  <2>1. Quiet => \A n : ~Pending(n)
    BY DEF Quiet, Pending
  <2>2. SyncInv /\ (\A n : ~Pending(n)) => /\ \A c \in Codes : Active = {c} => Served(c)
                                           /\ Active = {} => org.plan = "free"
    BY DEF SyncInv, Settled
  <2> QED BY <2>1, <2>2 DEF InStep
<1> QED BY <1>1, WebhooksCatchUp, PTL

=============================================================================
