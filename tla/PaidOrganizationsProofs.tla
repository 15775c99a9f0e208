------------------------ MODULE PaidOrganizationsProofs ------------------------
(***************************************************************************)
(* For any organizations, purchases and number of overlapping requests:    *)
(* the locks keep what the requests rely on, and the requests implement    *)
(* Ledger.tla.                                                             *)
(***************************************************************************)
EXTENDS PaidOrganizations, TLAPS

USE PaidAssumption

LEMMA IdleTyped == Idle \in Request
BY DEF Idle, Request, Phases

(* A request without locks gets in nobody's way. *)
LEMMA LocklessCompatible ==
  ASSUME NEW p, NEW q, p.locks = {}
  PROVE  Compatible(p, q) /\ Compatible(q, p)
BY DEF Compatible

LEMMA IdleSound == Sound(Idle)
BY DEF Sound, Founded, LocksMean, Holds, StaysSubscribed, Idle, Ops

LEMMA SetSlot ==
  ASSUME IInv, NEW r \in Requests, NEW p \in Request, Set(r, p)
  PROVE  /\ req' \in [Requests -> Request] /\ req'[r] = p
         /\ \A s \in Requests : s # r => req'[s] = req[s]
BY DEF Set, IInv, TypeOK

(* A step of one request that leaves the tables alone. *)
LEMMA SlotStep ==
  ASSUME IInv, NEW r \in Requests, NEW p \in Request, Set(r, p),
         UNCHANGED <<tables, bought>>, Sound(p),
         \A s \in Requests : s # r => Compatible(p, req[s]) /\ Compatible(req[s], p)
  PROVE  IInv'
<1>1. /\ req' \in [Requests -> Request] /\ req'[r] = p
      /\ \A s \in Requests : s # r => req'[s] = req[s]
  BY SetSlot
<1>2. orgs' = orgs /\ subs' = subs /\ bought' = bought  BY DEF tables
<1>3. TypeOK' /\ Book!LedgerInv'
  BY <1>1, <1>2 DEF IInv, TypeOK, Book!LedgerInv, Book!TypeOK, Book!Keyed,
       Book!OneOrgPerCustomer, Book!NoOrphanSubscription
<1>4. ASSUME NEW s \in Requests  PROVE Sound(req[s])' 
  <2>1. Sound(req'[s])
    BY <1>1 DEF IInv
  <2> QED  BY <2>1, <1>2 DEF Sound, Founded, LocksMean, Holds, StaysSubscribed,
             OrgExists, Subscribed
<1>5. ASSUME NEW s \in Requests, NEW t \in Requests, s # t
      PROVE  Compatible(req[s], req[t])'
  <2>1. Compatible(req'[s], req'[t])
    <3>1. CASE s = r  BY <3>1, <1>1, <1>5
    <3>2. CASE t = r  BY <3>2, <1>1, <1>5
    <3>3. CASE s # r /\ t # r  BY <3>3, <1>1, <1>5 DEF IInv
    <3> QED  BY <3>1, <3>2, <3>3
  <2> QED  BY <2>1 DEF Compatible
<1> QED  BY <1>3, <1>4, <1>5 DEF IInv

LEMMA ToIdle ==
  ASSUME IInv, NEW r \in Requests, Set(r, Idle), UNCHANGED <<tables, bought>>
  PROVE  IInv'
<1>1. Idle.locks = {}  BY DEF Idle
<1> QED  BY <1>1, IdleTyped, IdleSound, LocklessCompatible, SlotStep

(* A step without a statement: the locks stay as they are. *)
LEMMA QuietStep ==
  ASSUME IInv, NEW r \in Requests, NEW p \in Request, Set(r, p),
         UNCHANGED <<tables, bought>>, Sound(p),
         p.org = req[r].org, p.code = req[r].code, p.locks = req[r].locks,
         "customer" \in p.cols /\ "key" \in p.locks => "customer" \in req[r].cols
  PROVE  IInv'
<1>1. ASSUME NEW s \in Requests, s # r
      PROVE  Compatible(p, req[s]) /\ Compatible(req[s], p)
  <2>1. Compatible(req[r], req[s]) /\ Compatible(req[s], req[r])  BY <1>1 DEF IInv
  <2> QED  BY <2>1 DEF Compatible
<1> QED  BY <1>1, SlotStep

-----------------------------------------------------------------------------
(* The order of a handler's phases stays within the phases. *)
LEMMA StepPhase ==
  ASSUME NEW q, q.op \in Ops, q.pc \in DOMAIN After[q.op]
  PROVE  /\ After[q.op][q.pc] \in Phases \ {"idle"}
         /\ After[q.op][q.pc] \in DOMAIN After[q.op] \cup {"commit"}
BY DEF After, Ops, Phases

LEMMA BeginPaidPreserves ==
  ASSUME IInv, NEW r \in Requests, BeginPaid(r)
  PROVE  IInv'
<1>1. PICK c \in bought, op \in Endpoints \cap {"verify", "create"} :
        /\ Set(r, [Idle EXCEPT !.op = op, !.org = OrgOf[c], !.code = c,
                               !.pc = IF op = "verify" THEN "org" ELSE "sub"])
        /\ UNCHANGED <<tables, bought>>
  BY DEF BeginPaid
<1>2. PICK p : p = [Idle EXCEPT !.op = op, !.org = OrgOf[c], !.code = c,
                               !.pc = IF op = "verify" THEN "org" ELSE "sub"]
  OBVIOUS
<1>3. c \in Codes /\ OrgOf[c] \in Orgs  BY DEF IInv, TypeOK, Book!TypeOK
<1>4. p \in Request  BY <1>2, <1>3 DEF Idle, Request, Phases, Ops
<1>5. /\ p.op = op /\ p.org = OrgOf[c] /\ p.code = c /\ p.locks = {} /\ p.cols = {}
      /\ p.had = FALSE /\ p.pc = IF op = "verify" THEN "org" ELSE "sub"
  BY <1>2 DEF Idle
<1>6. Sound(p)
  BY <1>3, <1>5 DEF Sound, Founded, LocksMean, Holds, StaysSubscribed, Ops, After
<1> QED  BY <1>1, <1>2, <1>4, <1>5, <1>6, LocklessCompatible, SlotStep

LEMMA BeginPreserves ==
  ASSUME IInv, NEW r \in Requests, Begin(r)
  PROVE  IInv'
<1>1. PICK o \in Orgs, op \in Endpoints \cap {"cancel", "edit", "delete"} :
        /\ Set(r, [Idle EXCEPT !.op = op, !.org = o, !.pc = "org",
                               !.had = op = "delete" /\ Subscribed(o)])
        /\ UNCHANGED <<tables, bought>>
  BY DEF Begin
<1>2. PICK p : p = [Idle EXCEPT !.op = op, !.org = o, !.pc = "org",
                               !.had = op = "delete" /\ Subscribed(o)]
  OBVIOUS
<1>4. p \in Request  BY <1>2 DEF Idle, Request, Phases, Ops
<1>5. /\ p.op = op /\ p.org = o /\ p.locks = {} /\ p.cols = {}
      /\ p.had = (op = "delete" /\ Subscribed(o)) /\ p.pc = "org"
  BY <1>2 DEF Idle
<1>6. Founded(p) /\ LocksMean(p) /\ Holds(p)
  BY <1>5 DEF Founded, LocksMean, Holds, Ops, After
<1>7. StaysSubscribed(p)  BY <1>5 DEF StaysSubscribed
<1> QED  BY <1>1, <1>2, <1>4, <1>5, <1>6, <1>7, LocklessCompatible, SlotStep DEF Sound

-----------------------------------------------------------------------------
LEMMA LoadOrgPreserves ==
  ASSUME IInv, NEW r \in Requests, LoadOrg(r)
  PROVE  IInv'
<1> DEFINE q == req[r]
<1>q. q \in Request /\ Sound(q) /\ q.pc = "org"  BY DEF IInv, TypeOK, LoadOrg
<1>0. q.op \in Ops /\ q.pc \in DOMAIN After[q.op]
  BY <1>q DEF Sound, Founded
<1>u. UNCHANGED <<tables, bought>>  BY DEF LoadOrg
<1>1. CASE OrgExists(q.org)
  <2>1. PICK other \in SUBSET {"other"} :
          Set(r, [Step(q) EXCEPT !.cols = Assigned(q) \cup other])
    BY <1>1 DEF LoadOrg
  <2>2. PICK p : p = [Step(q) EXCEPT !.cols = Assigned(q) \cup other]  OBVIOUS
  <2>3. Assigned(q) \subseteq {"customer"} /\ (q.op # "verify" => Assigned(q) = {})
    BY DEF Assigned
  <2>4. p \in Request  BY <1>0, <1>q, <2>2, <2>3, StepPhase DEF Step, Request
  <2>5. /\ p.op = q.op /\ p.org = q.org /\ p.code = q.code /\ p.locks = q.locks
        /\ p.had = q.had /\ p.cols = Assigned(q) \cup other /\ p.pc = After[q.op]["org"]
    BY <1>q, <2>2 DEF Step, Request
  <2>6. p.pc \in {"flushOrg", "sub", "children"} /\ p.pc \in DOMAIN After[q.op] 
    BY <1>0, <1>q, <2>5 DEF After, Ops
  <2>7. p.pc = "flushOrg" \/ (p.op # "verify" /\ p.op # "create")
    BY <1>0, <1>q, <2>5 DEF After, Ops
  <2>8. q.op = "delete" => p.pc = "children"  BY <2>5 DEF After
  <2>9. Founded(p) /\ LocksMean(p) /\ Holds(p)
    BY <1>q, <2>3, <2>5, <2>6, <2>7 DEF Sound, Founded, LocksMean, Holds
  <2>10. StaysSubscribed(p)  BY <1>q, <2>5, <2>8 DEF Sound, StaysSubscribed
  <2>11. "key" \notin p.locks  BY <1>q, <2>5 DEF Sound, Holds
  <2> QED  BY <1>u, <2>1, <2>2, <2>4, <2>5, <2>9, <2>10, <2>11, QuietStep DEF Sound
<1>2. CASE ~OrgExists(q.org) /\ q.op = "create"
  <2>1. Set(r, [q EXCEPT !.pc = "commit"])  BY <1>2 DEF LoadOrg
  <2>2. PICK p : p = [q EXCEPT !.pc = "commit"]  OBVIOUS
  <2>3. p \in Request  BY <1>q, <2>2 DEF Request, Phases
  <2>4. /\ p.op = q.op /\ p.org = q.org /\ p.code = q.code /\ p.locks = q.locks
        /\ p.had = q.had /\ p.cols = q.cols /\ p.pc = "commit"
    BY <1>q, <2>2 DEF Request
  <2>5. Sound(p)
    BY <1>q, <1>2, <2>4 DEF Sound, Founded, LocksMean, Holds, StaysSubscribed
  <2> QED  BY <1>u, <2>1, <2>2, <2>3, <2>4, <2>5, QuietStep
<1>3. CASE ~OrgExists(q.org) /\ q.op # "create"
  BY <1>3, <1>u, ToIdle DEF LoadOrg
<1> QED  BY <1>1, <1>2, <1>3

LEMMA LoadSubPreserves ==
  ASSUME IInv, NEW r \in Requests, LoadSub(r)
  PROVE  IInv'
<1> DEFINE q == req[r]
<1>q. q \in Request /\ Sound(q) /\ q.pc = "sub"  BY DEF IInv, TypeOK, LoadSub
<1>0. q.op \in Ops /\ q.pc \in DOMAIN After[q.op]
  BY <1>q DEF Sound, Founded
<1>u. UNCHANGED <<tables, bought>>  BY DEF LoadSub
<1>1. ASSUME NEW p \in Request, Set(r, p), NEW old, p = [Step(q) EXCEPT !.old = old]
      PROVE  IInv'
  <2>0. PICK n : n = After[q.op]["sub"]  OBVIOUS
  <2>1. /\ p.op = q.op /\ p.org = q.org /\ p.code = q.code /\ p.locks = q.locks
        /\ p.had = q.had /\ p.cols = q.cols /\ p.pc = After[q.op]["sub"]
    <3>1. Step(q) = [q EXCEPT !.pc = n]  BY <1>q, <2>0 DEF Step
    <3>2. p = [[q EXCEPT !.pc = n] EXCEPT !.old = old]  BY <1>1, <3>1
    <3> QED  BY <1>q, <2>0, <3>2 DEF Request
  <2>2. p.pc \in {"flushSub", "flushOrg"} /\ p.pc \in DOMAIN After[q.op]
    BY <1>0, <1>q, <2>1 DEF After, Ops
  <2>3. (p.pc = "flushOrg" => q.op = "cancel") /\ (q.op = "cancel" => "customer" \notin q.cols)
    BY <1>0, <1>q, <2>1 DEF After, Ops, Sound, Founded
  <2>4. q.op = "cancel" => q.locks \cap {"key", "row"} = {}
    BY <1>q DEF Sound, Holds
  <2>5. Sound(p)
    BY <1>q, <2>1, <2>2, <2>3, <2>4 DEF Sound, Founded, LocksMean, Holds, StaysSubscribed
  <2> QED  BY <1>1, <1>u, <2>1, <2>5, QuietStep
<1>2. Step(q) \in Request  BY <1>0, <1>q, StepPhase DEF Step, Request
<1>3. CASE \E s \in subs : s.org = q.org /\ Set(r, [Step(q) EXCEPT !.old = s.code])
  <2>1. PICK s \in subs : Set(r, [Step(q) EXCEPT !.old = s.code])  BY <1>3
  <2>2. s.code \in Codes  BY DEF IInv, TypeOK, Book!TypeOK, Book!SubRow
  <2>3. [Step(q) EXCEPT !.old = s.code] \in Request  BY <1>2, <2>2 DEF Request
  <2> QED  BY <1>1, <2>1, <2>3
<1>4. CASE Set(r, Step(q))
  <2>1. Step(q) = [Step(q) EXCEPT !.old = q.old]  BY <1>q DEF Step, Request
  <2> QED  BY <1>1, <1>2, <1>4, <2>1
<1>5. CASE Set(r, Idle)  BY <1>5, <1>u, ToIdle
<1> QED  BY <1>3, <1>4, <1>5 DEF LoadSub

LEMMA LookPreserves ==
  ASSUME IInv, NEW r \in Requests, LookForChildren(r)
  PROVE  IInv'
<1> DEFINE q == req[r]
<1>q. q \in Request /\ Sound(q) /\ q.pc = "children"  BY DEF IInv, TypeOK, LookForChildren
<1>0. q.op = "delete" /\ q.pc \in DOMAIN After[q.op]
  BY <1>q DEF Sound, Founded, Ops, After
<1>u. UNCHANGED <<tables, bought>>  BY DEF LookForChildren
<1>1. CASE Subscribed(q.org)  BY <1>1, <1>u, ToIdle DEF LookForChildren
<1>2. CASE ~Subscribed(q.org)
  <2>1. PICK p : p = Step(q)  OBVIOUS
  <2>2. p \in Request  BY <1>0, <1>q, <2>1, StepPhase DEF Step, Request, Ops
  <2>3. /\ p.op = q.op /\ p.org = q.org /\ p.code = q.code /\ p.locks = q.locks
        /\ p.had = q.had /\ p.cols = q.cols /\ p.pc = "flushOrg"
    BY <1>0, <1>q, <2>1 DEF Step, Request, After
  <2>4. Sound(p)
    BY <1>0, <1>q, <1>2, <2>3 DEF Sound, Founded, LocksMean, Holds, StaysSubscribed, Ops, After
  <2>5. Set(r, p)  BY <1>2, <2>1 DEF LookForChildren
  <2> QED  BY <1>u, <2>2, <2>3, <2>4, <2>5, QuietStep
<1> QED  BY <1>1, <1>2

-----------------------------------------------------------------------------
(* A statement that waited for nobody gets its lock on the organization.   *)
LEMMA OrgLockCompatible ==
  ASSUME IInv, NEW r \in Requests, NEW s \in Requests, s # r, Served(r),
         req[r].pc = "flushOrg", Dirty(req[r]), OrgExists(req[r].org), NEW p,
         p.org = req[r].org, p.cols = req[r].cols, p.code = req[r].code,
         p.locks = req[r].locks \cup {IF ChangesKey(req[r]) THEN "key" ELSE "row"}
  PROVE  Compatible(p, req[s]) /\ Compatible(req[s], p)
<1> DEFINE q == req[r]
           t == req[s]
<1>1. Compatible(q, t) /\ Compatible(t, q)  BY DEF IInv
<1>2. ~WaitsFor(q, t)  BY DEF Served
<1>3. /\ p.locks \subseteq q.locks \cup {"key", "row"}
      /\ ("key" \in p.locks => ChangesKey(q) \/ "key" \in q.locks)
  OBVIOUS
<1>4. CASE t.org = q.org
  <2>1. ~OrgBlocked(q, t)  BY <1>2, <1>4 DEF WaitsFor
  <2>2. /\ t.locks \cap {"key", "row"} = {}
        /\ ChangesKey(q) => "share" \notin t.locks
    BY <2>1 DEF OrgBlocked
  <2> QED  BY <1>1, <1>3, <1>4, <2>2 DEF Compatible
<1>5. CASE t.org # q.org
  <2>1. ~CustomerBusy(q, t)  BY <1>2, <1>5 DEF WaitsFor
  <2>2. q.locks \cap {"key", "row"} = {}  BY DEF IInv, Sound, Holds
  <2>3. "key" \in p.locks => ChangesKey(q)  BY <1>3, <2>2
  <2>4. /\ "key" \in p.locks /\ "customer" \in q.cols /\ "key" \in t.locks
           /\ "customer" \in t.cols
        => PayerOf[t.code] # PayerOf[q.code]
    BY <2>1, <2>3 DEF CustomerBusy
  <2> QED  BY <1>1, <1>5, <2>4 DEF Compatible
<1> QED  BY <1>4, <1>5

LEMMA FlushOrgPreserves ==
  ASSUME IInv, NEW r \in Requests, FlushOrg(r)
  PROVE  IInv'
<1> DEFINE q == req[r]
<1>q. q \in Request /\ Sound(q) /\ q.pc = "flushOrg" /\ Served(r)
  BY DEF IInv, TypeOK, FlushOrg
<1>0. q.op \in Ops /\ q.pc \in DOMAIN After[q.op]
  BY <1>q DEF Sound, Founded
<1>u. UNCHANGED <<tables, bought>>  BY DEF FlushOrg
<1>n. ASSUME NEW p \in Onward(q)
      PROVE  /\ p \in Request
             /\ p.op = q.op /\ p.org = q.org /\ p.code = q.code /\ p.locks = q.locks
             /\ p.had = q.had /\ p.cols = q.cols
             /\ p.pc \in {"commit", "sub", "flushSub", "cascade"}
             /\ p.pc \in DOMAIN After[q.op] \cup {"commit"}
             /\ q.op = "delete" <=> p.pc = "cascade"
             /\ p.pc \in {"commit", "flushSub", "sub"} => q.op # "delete"
             /\ p.pc \in {"sub", "flushSub"} => q.op \in {"verify", "cancel"}
             /\ p.pc = "sub" => q.op = "verify"
  <2>1. Step(q) \in Request /\ [q EXCEPT !.pc = "commit"] \in Request
    BY <1>0, <1>q, StepPhase DEF Step, Request, Phases
  <2>2. CASE p = Step(q)
    <3>1. /\ p.op = q.op /\ p.org = q.org /\ p.code = q.code /\ p.locks = q.locks
          /\ p.had = q.had /\ p.cols = q.cols /\ p.pc = After[q.op]["flushOrg"]
      BY <2>2, <1>q DEF Step, Request
    <3> QED  BY <1>0, <1>q, <2>1, <2>2, <3>1 DEF After, Ops
  <2>3. CASE p = [q EXCEPT !.pc = "commit"] /\ q.op = "verify"
    BY <1>q, <2>1, <2>3 DEF Request
  <2> QED  BY <2>2, <2>3 DEF Onward
<1>f. Founded(q) /\ LocksMean(q) /\ Holds(q) /\ StaysSubscribed(q)  BY <1>q DEF Sound
<1>1. ASSUME ~Dirty(q), NEW p \in Onward(q), Set(r, p)  PROVE IInv'
  <2>1. q.cols = {} /\ q.op # "delete" /\ ~q.had
    BY <1>1, <1>f DEF Dirty, StaysSubscribed
  <2>m. /\ p.op = q.op /\ p.org = q.org /\ p.code = q.code /\ p.locks = q.locks
        /\ p.cols = q.cols /\ p.pc \in {"commit", "sub", "flushSub"}
        /\ p.pc \in DOMAIN After[q.op] \cup {"commit"}
        /\ p.pc \in {"sub", "flushSub"} => q.op \in {"verify", "cancel"}
        /\ p.pc = "sub" => q.op = "verify"
    BY <1>1, <1>n, <2>1
  <2>2. Founded(p)  BY <1>f, <1>q, <2>1, <2>m DEF Founded
  <2>5. LocksMean(p)  BY <1>f, <2>1, <2>m DEF LocksMean
  <2>3. Holds(p)  BY <1>q, <1>f, <2>1, <2>m DEF Holds
  <2>4. StaysSubscribed(p)  BY <1>1, <1>n, <2>1 DEF StaysSubscribed
  <2> QED  BY <1>u, <1>1, <1>n, <2>2, <2>3, <2>4, <2>5, QuietStep DEF Sound
<1>2. CASE Set(r, Idle)  BY <1>2, <1>u, ToIdle
<1>3. ASSUME Dirty(q), OrgWritable(q), NEW m \in Onward(q),
             Set(r, [m EXCEPT !.locks = @ \cup {IF ChangesKey(q) THEN "key" ELSE "row"}])
      PROVE IInv'
  <2>1. PICK p : p = [m EXCEPT !.locks = @ \cup {IF ChangesKey(q) THEN "key" ELSE "row"}]
    OBVIOUS
  <2>m. m \in Request  BY <1>3, <1>n
  <2>2. p \in Request  BY <2>1, <2>m DEF Request, Locks
  <2>3. /\ p.op = q.op /\ p.org = q.org /\ p.code = q.code /\ p.had = q.had
        /\ p.cols = q.cols /\ p.pc = m.pc
        /\ p.locks = q.locks \cup {IF ChangesKey(q) THEN "key" ELSE "row"}
    <3>1. /\ p.op = m.op /\ p.org = m.org /\ p.code = m.code /\ p.had = m.had
          /\ p.cols = m.cols /\ p.pc = m.pc
          /\ p.locks = m.locks \cup {IF ChangesKey(q) THEN "key" ELSE "row"}
      BY <2>1, <2>m DEF Request
    <3> QED  BY <3>1, <1>3, <1>n
  <2>4. Founded(p)
    <3>1. p.pc \in DOMAIN After[q.op] \cup {"commit"} /\ p.pc # "idle"
      BY <1>3, <1>n, <2>3
    <3> QED  BY <1>f, <1>q, <2>3, <3>1 DEF Founded
  <2>5. OrgExists(q.org) /\ ("customer" \in q.cols =>
            \A x \in orgs : x.id # q.org => x.customer # PayerOf[q.code])
    BY <1>3 DEF OrgWritable
  <2>6. LocksMean(p)
    <3>1. "sub" \in p.locks <=> "sub" \in q.locks  BY <2>3
    <3>2. "share" \in p.locks <=> "share" \in q.locks  BY <2>3
    <3>3. "row" \in p.locks => ~ChangesKey(q)  BY <2>3, <1>f, <1>q DEF Holds
    <3>4. "row" \in p.locks /\ "customer" \in q.cols =>
            \A x \in orgs : x.id = q.org => x.customer = PayerOf[q.code]
      BY <3>3, <2>5 DEF ChangesKey, IInv, Book!LedgerInv, Book!Keyed
    <3>5. q.op = "delete" => p.pc # "commit"  BY <1>3, <1>n, <2>3
    <3> QED  BY <1>f, <2>3, <2>5, <3>1, <3>2, <3>4, <3>5 DEF LocksMean
  <2>7. Holds(p)
    <3>1. "sub" \in p.locks <=> "sub" \in q.locks  BY <2>3
    <3>2. "share" \in p.locks <=> "share" \in q.locks  BY <2>3
    <3>3. q.op # "create" => "sub" \notin q.locks  BY <1>f, <1>q DEF Holds
    <3>4. p.locks \cap {"key", "row"} # {}  BY <2>3
    <3>5. q.op = "delete" => "key" \in p.locks  BY <2>3 DEF ChangesKey
    <3>6. p.pc \notin {"org", "children", "flushOrg"} /\ (p.pc = "sub" => p.op # "cancel")
      BY <1>3, <1>n, <2>3
    <3>7. p.pc \in {"sub", "flushSub", "cascade"} => q.op # "create"
      BY <1>3, <1>n, <2>3
    <3> QED  BY <1>f, <2>3, <3>1, <3>2, <3>3, <3>4, <3>5, <3>6, <3>7 DEF Holds
  <2>8. StaysSubscribed(p)
    <3>1. ~q.had  BY <1>f, <1>q, <2>5 DEF StaysSubscribed
    <3> QED  BY <2>3, <3>1 DEF StaysSubscribed
  <2>9. \A s \in Requests : s # r => Compatible(p, req[s]) /\ Compatible(req[s], p)
    BY <1>3, <1>q, <2>3, <2>5, OrgLockCompatible
  <2> QED  BY <1>u, <1>3, <2>1, <2>2, <2>4, <2>6, <2>7, <2>8, <2>9, SlotStep DEF Sound
<1> QED  BY <1>1, <1>2, <1>3 DEF FlushOrg

LEMMA FlushSubPreserves ==
  ASSUME IInv, NEW r \in Requests, FlushSub(r)
  PROVE  IInv'
<1> DEFINE q == req[r]
           L == IF q.old = None THEN {"sub", "share"} ELSE {"sub"}
<1>q. q \in Request /\ Sound(q) /\ q.pc = "flushSub" /\ Served(r)
  BY DEF IInv, TypeOK, FlushSub
<1>0. q.op \in Ops /\ q.pc \in DOMAIN After[q.op]
  BY <1>q DEF Sound, Founded
<1>f. Founded(q) /\ LocksMean(q) /\ Holds(q) /\ StaysSubscribed(q)  BY <1>q DEF Sound
<1>u. UNCHANGED <<tables, bought>>  BY DEF FlushSub
<1>1. CASE ~SubWritable(q)  BY <1>1, <1>u, ToIdle DEF FlushSub
<1>2. CASE SubWritable(q)
  <2>1. PICK p : p = Granted(q, L)  OBVIOUS
  <2>2. Set(r, p)  BY <1>2, <2>1 DEF FlushSub
  <2>3. L \subseteq {"sub", "share"} /\ "sub" \in L /\ ("share" \in L <=> q.old = None)
    OBVIOUS
  <2>4. p \in Request
    BY <1>0, <1>q, <2>1, <2>3, StepPhase DEF Granted, Step, Request, Locks
  <2> HIDE DEF L
  <2>5. /\ p.op = q.op /\ p.org = q.org /\ p.code = q.code /\ p.had = q.had
        /\ p.cols = q.cols /\ p.pc = After[q.op]["flushSub"] /\ p.locks = q.locks \cup L
    <3>1. PICK n : n = After[q.op]["flushSub"]  OBVIOUS
    <3>2. Step(q) = [q EXCEPT !.pc = n]  BY <1>q, <3>1 DEF Step
    <3>3. p = [[q EXCEPT !.pc = n] EXCEPT !.locks = @ \cup L]  BY <2>1, <3>2 DEF Granted
    <3> QED  BY <1>q, <3>1, <3>3 DEF Request
  <2>6. /\ p.pc \in {"org", "commit"} /\ p.pc \in DOMAIN After[q.op] \cup {"commit"}
        /\ p.pc = "org" => q.op = "create"
        /\ q.op # "delete"
    BY <1>0, <1>q, <2>5 DEF After, Ops
  <2>7. Founded(p)  BY <1>f, <1>q, <2>5, <2>6 DEF Founded
  <2>8. "sub" \notin q.locks /\ "share" \notin q.locks  BY <1>f, <1>q DEF Holds
  <2>9. LocksMean(p)
    <3>1. OrgExists(q.org) /\ (Subscribed(q.org) <=> "share" \notin p.locks)
      BY <1>2, <2>3, <2>5, <2>8 DEF SubWritable
    <3>2. ("key" \in p.locks <=> "key" \in q.locks) /\ ("row" \in p.locks <=> "row" \in q.locks)
      BY <2>3, <2>5
    <3> QED  BY <1>f, <2>5, <2>6, <3>1, <3>2 DEF LocksMean
  <2>10. q.op = "create" => q.locks \cap {"key", "row"} = {}
    BY <1>f, <1>q DEF Holds
  <2>11. Holds(p)
    <3>1. ("key" \in p.locks <=> "key" \in q.locks) /\ ("row" \in p.locks <=> "row" \in q.locks)
      BY <2>3, <2>5
    <3>2. "sub" \in p.locks  BY <2>3, <2>5
    <3> QED  BY <1>f, <1>q, <2>5, <2>6, <2>10, <3>1, <3>2 DEF Holds
  <2>12. StaysSubscribed(p)
    <3>1. ~q.had  BY <1>f, <1>q DEF StaysSubscribed
    <3> QED  BY <2>5, <3>1 DEF StaysSubscribed
  <2>13. ASSUME NEW s \in Requests, s # r
         PROVE  Compatible(p, req[s]) /\ Compatible(req[s], p)
    <3>1. Compatible(q, req[s]) /\ Compatible(req[s], q)  BY <2>13 DEF IInv
    <3>2. req[s].org = q.org => ~SubBlocked(q, req[s])
      BY <2>13, <1>q DEF Served, WaitsFor
    <3>3. req[s].org = q.org => /\ "sub" \notin req[s].locks
                                /\ (q.old = None => "key" \notin req[s].locks)
      BY <3>2 DEF SubBlocked
    <3>4. \A l \in {"key", "row"} : l \in p.locks <=> l \in q.locks
      BY <2>3, <2>5
    <3>5. "share" \in p.locks <=> q.old = None  BY <2>3, <2>5, <2>8
    <3>6. Compatible(p, req[s])
      <4>1. "share" \in req[s].locks => "sub" \in req[s].locks
        BY DEF IInv, Sound, Holds
      <4> QED  BY <3>1, <3>3, <3>4, <4>1, <2>5 DEF Compatible
    <3>7. Compatible(req[s], p)
      BY <3>1, <3>3, <3>4, <3>5, <2>5 DEF Compatible
    <3> QED  BY <3>6, <3>7
  <2> QED  BY <1>u, <2>2, <2>4, <2>7, <2>9, <2>11, <2>12, <2>13, SlotStep DEF Sound
<1> QED  BY <1>1, <1>2

LEMMA CascadePreserves ==
  ASSUME IInv, NEW r \in Requests, Cascade(r)
  PROVE  IInv'
<1> DEFINE q == req[r]
           L == IF Subscribed(q.org) THEN {"sub"} ELSE {}
<1>q. q \in Request /\ Sound(q) /\ q.pc = "cascade" /\ Served(r)
  BY DEF IInv, TypeOK, Cascade
<1>f. Founded(q) /\ LocksMean(q) /\ Holds(q) /\ StaysSubscribed(q)  BY <1>q DEF Sound
<1>0. q.op = "delete"  BY <1>q, <1>f DEF Founded, Ops, After
<1>u. UNCHANGED <<tables, bought>>  BY DEF Cascade
<1>1. PICK p : p = Granted(q, L)  OBVIOUS
<1>2. Set(r, p)  BY <1>1 DEF Cascade
<1>3. Step(q) = [q EXCEPT !.pc = "commit"]  BY <1>0, <1>q DEF Step, After
<1>4. p \in Request /\ p.op = "delete" /\ p.org = q.org /\ p.code = q.code /\ p.had = q.had
      /\ p.cols = q.cols /\ p.pc = "commit" /\ p.locks = q.locks \cup L
  <2>1. p = [[q EXCEPT !.pc = "commit"] EXCEPT !.locks = @ \cup L]
    BY <1>1, <1>3 DEF Granted
  <2>2. L \subseteq {"sub"}  OBVIOUS
  <2> HIDE DEF L
  <2> QED  BY <1>0, <1>q, <2>1, <2>2 DEF Request, Phases, Locks
<1>5. /\ "key" \in q.locks /\ "sub" \notin q.locks /\ "share" \notin q.locks
      /\ "customer" \notin q.cols /\ ~q.had
  BY <1>0, <1>q, <1>f DEF Founded, Holds, StaysSubscribed
<1>6. /\ "sub" \in p.locks <=> Subscribed(q.org)
      /\ "share" \notin p.locks /\ "key" \in p.locks
      /\ "row" \in p.locks <=> "row" \in q.locks
  BY <1>4, <1>5
<1>7. Founded(p) /\ StaysSubscribed(p)
  BY <1>0, <1>4, <1>5, <1>f DEF Founded, StaysSubscribed
<1>8. LocksMean(p)
  <2>1. OrgExists(q.org)  BY <1>5, <1>f DEF LocksMean
  <2> QED  BY <1>4, <1>5, <1>6, <2>1 DEF LocksMean
<1>9. Holds(p)  BY <1>4, <1>5, <1>6 DEF Holds
<1>10. ASSUME NEW s \in Requests, s # r
       PROVE  Compatible(p, req[s]) /\ Compatible(req[s], p)
  <2>1. Compatible(q, req[s]) /\ Compatible(req[s], q)  BY <1>10 DEF IInv
  <2>2. req[s].org = q.org /\ Subscribed(q.org) => "sub" \notin req[s].locks
    BY <1>10, <1>q DEF Served, WaitsFor
  <2> QED  BY <1>4, <1>5, <1>6, <2>1, <2>2 DEF Compatible
<1> QED  BY <1>u, <1>2, <1>4, <1>7, <1>8, <1>9, <1>10, SlotStep DEF Sound

-----------------------------------------------------------------------------
LEMMA BuyPreserves ==
  ASSUME IInv, Buy
  PROVE  IInv'
<1>1. PICK c \in Codes : bought' = bought \cup {c} /\ UNCHANGED <<orgs, subs, req>>
  BY DEF Buy, Book!Buy, Book!tables
<1>2. TypeOK' /\ Book!LedgerInv'
  BY <1>1 DEF IInv, TypeOK, Book!LedgerInv, Book!TypeOK, Book!Keyed,
       Book!OneOrgPerCustomer, Book!NoOrphanSubscription
<1>3. ASSUME NEW r \in Requests  PROVE Sound(req[r])'
  BY <1>1 DEF IInv, Sound, Founded, LocksMean, Holds, StaysSubscribed, OrgExists, Subscribed
<1>4. \A r, s \in Requests : r # s => Compatible(req[r], req[s])'
  BY <1>1 DEF IInv, Compatible
<1> QED  BY <1>2, <1>3, <1>4 DEF IInv

(* The locks of the others stay compatible when r is done. *)
LEMMA Released ==
  ASSUME IInv, NEW r \in Requests, Set(r, Idle)
  PROVE  /\ req' \in [Requests -> Request] /\ req'[r] = Idle
         /\ \A s \in Requests : s # r => req'[s] = req[s]
         /\ \A s, t \in Requests : s # t => Compatible(req[s], req[t])'
<1>1. /\ req' \in [Requests -> Request] /\ req'[r] = Idle
      /\ \A s \in Requests : s # r => req'[s] = req[s]
  BY IdleTyped, SetSlot
<1>2. Idle.locks = {}  BY DEF Idle
<1>3. ASSUME NEW s \in Requests, NEW t \in Requests, s # t
      PROVE  Compatible(req'[s], req'[t])
  <2>1. CASE s = r \/ t = r  BY <2>1, <1>1, <1>2, LocklessCompatible
  <2>2. CASE s # r /\ t # r  BY <2>2, <1>1, <1>3 DEF IInv
  <2> QED  BY <2>1, <2>2
<1> QED  BY <1>1, <1>3 DEF Compatible

(* An organization goes: nobody else has a lock on it, and no subscription *)
(* of it is left.                                                          *)
LEMMA CommitDeletePreserves ==
  ASSUME IInv, NEW r \in Requests, CommitDelete(r)
  PROVE  IInv' /\ Book!Close(req[r].org)
<1> DEFINE q == req[r]
<1>1. /\ q.pc = "commit" /\ q.op = "delete"
      /\ orgs' = {x \in orgs : x.id # q.org}
      /\ subs' = {s \in subs : s.org # q.org}
      /\ Set(r, Idle) /\ bought' = bought
  BY DEF CommitDelete
<1>2. Book!Close(q.org)  BY <1>1 DEF Book!Close
<1>q. q \in Request /\ Founded(q) /\ LocksMean(q) /\ Holds(q) /\ StaysSubscribed(q)
  BY DEF IInv, TypeOK, Sound
<1>3. "key" \in q.locks /\ (Subscribed(q.org) => "sub" \in q.locks)
  BY <1>1, <1>q DEF LocksMean, Holds
<1>4. TypeOK' /\ Book!LedgerInv'
  <2>1. TypeOK'  BY <1>1, Released DEF IInv, TypeOK, Book!TypeOK
  <2>2. Book!LedgerInv'
    BY <1>1 DEF IInv, TypeOK, Book!LedgerInv, Book!TypeOK, Book!Keyed,
       Book!OneOrgPerCustomer, Book!NoOrphanSubscription
  <2> QED  BY <2>1, <2>2
<1>5. ASSUME NEW s \in Requests  PROVE Sound(req[s])'
  <2>1. CASE s = r
    <3>1. req'[s] = Idle  BY <2>1, <1>1, Released
    <3> QED  BY <3>1 DEF Sound, Founded, LocksMean, Holds, StaysSubscribed, Idle, Ops
  <2>2. CASE s # r
    <3>0. PICK p : p = req[s]  OBVIOUS
    <3>1. req'[s] = p  BY <2>2, <3>0, <1>1, Released
    <3>2. Founded(p) /\ LocksMean(p) /\ Holds(p) /\ StaysSubscribed(p)
      BY <3>0 DEF IInv, Sound
    <3>3. p.org = q.org => p.locks = {}
      <4>1. Compatible(q, p) /\ Compatible(p, q)  BY <2>2, <3>0 DEF IInv
      <4>2. ASSUME p.org = q.org
            PROVE  p.locks \cap {"key", "row", "share"} = {} /\ "sub" \notin p.locks
        <5>1. p.locks \cap {"key", "row", "share"} = {}
          BY <4>1, <4>2, <1>3 DEF Compatible
        <5>2. "sub" \in p.locks => Subscribed(q.org)  BY <4>2, <5>1, <3>2 DEF LocksMean
        <5>3. "sub" \notin p.locks  BY <4>1, <4>2, <5>2, <1>3 DEF Compatible
        <5> QED  BY <5>1, <5>3
      <4>3. p.locks \subseteq Locks  BY <3>0 DEF IInv, TypeOK, Request
      <4> QED  BY <4>2, <4>3 DEF Locks
    <3>4. p.org # q.org => /\ OrgExists(p.org)' <=> OrgExists(p.org)
                           /\ Subscribed(p.org)' <=> Subscribed(p.org)
      BY <1>1, <3>1 DEF OrgExists, Subscribed
    <3>5. p.org = q.org => ~OrgExists(p.org)' /\ ~Subscribed(p.org)'
      BY <1>1, <3>1 DEF OrgExists, Subscribed
    <3>6. orgs' \subseteq orgs  BY <1>1
    <3>7. LocksMean(p)'
      <4>1. CASE p.org = q.org  BY <4>1, <3>3, <3>5 DEF LocksMean
      <4>2. CASE p.org # q.org  BY <4>2, <3>2, <3>4, <3>6 DEF LocksMean
      <4> QED  BY <4>1, <4>2
    <3>8. StaysSubscribed(p)'
      <4>1. CASE p.org = q.org  BY <4>1, <3>2, <3>5 DEF StaysSubscribed
      <4>2. CASE p.org # q.org  BY <4>2, <3>2, <3>4 DEF StaysSubscribed
      <4> QED  BY <4>1, <4>2
    <3>9. Founded(p)' /\ Holds(p)'  BY <1>1, <3>1, <3>2 DEF Founded, Holds
    <3> QED  BY <3>1, <3>7, <3>8, <3>9 DEF Sound, Founded, LocksMean, Holds, StaysSubscribed
  <2> QED  BY <2>1, <2>2
<1>6. IInv'  BY <1>1, <1>4, <1>5, Released DEF IInv
<1> QED  BY <1>2, <1>6

-----------------------------------------------------------------------------
(* What a request that commits relies on: its organization is there, and   *)
(* the customer it writes is nobody else's.                                *)
LEMMA WriterRelies ==
  ASSUME IInv, NEW r \in Requests, req[r].pc = "commit",
         "customer" \in req[r].cols \/ WritesCode(req[r])
  PROVE  /\ req[r].code \in bought /\ OrgOf[req[r].code] = req[r].org
         /\ OrgExists(req[r].org)
         /\ "customer" \in req[r].cols =>
              \A x \in orgs : x.id # req[r].org => x.customer # PayerOf[req[r].code]
<1> DEFINE q == req[r]
<1>q. q \in Request /\ Founded(q) /\ LocksMean(q) /\ Holds(q)  BY DEF IInv, TypeOK, Sound
<1>1. q.op \in {"verify", "create"}  BY <1>q DEF Founded, WritesCode
<1>2. q.code \in bought /\ OrgOf[q.code] = q.org  BY <1>q, <1>1 DEF Founded
<1>3. q.locks # {}  BY <1>q DEF Holds, WritesCode
<1>4. OrgExists(q.org)  BY <1>q, <1>3 DEF LocksMean
<1>5. ASSUME "customer" \in q.cols, NEW x \in orgs, x.id # q.org
      PROVE  x.customer # PayerOf[q.code]
  <2>1. CASE "key" \in q.locks  BY <1>5, <1>q, <2>1 DEF LocksMean
  <2>2. CASE "row" \in q.locks
    <3>1. PICK y \in orgs : y.id = q.org  BY <1>4 DEF OrgExists
    <3>2. y.customer = PayerOf[q.code]  BY <1>5, <1>q, <2>2, <3>1 DEF LocksMean
    <3>3. q.code \in Codes  BY <1>2 DEF IInv, TypeOK, Book!TypeOK
    <3>4. y.customer # None  BY <3>2, <3>3
    <3>5. x # y  BY <1>5, <3>1
    <3> QED  BY <3>2, <3>4, <3>5 DEF IInv, Book!LedgerInv, Book!OneOrgPerCustomer
  <2> QED  BY <1>5, <1>q, <2>1, <2>2 DEF Holds
<1> QED  BY <1>2, <1>4, <1>5

(* The rows after the commit, as sets of the rows before. *)
LEMMA WrittenRows ==
  ASSUME IInv, NEW r \in Requests, CommitWrite(r)
  PROVE  /\ ~("customer" \in req[r].cols \/ WritesCode(req[r])) => UNCHANGED tables
         /\ \A o : (OrgExists(o)' <=> OrgExists(o))
         /\ \A o : (Subscribed(o)' <=> Subscribed(o) \/ (WritesCode(req[r]) /\ o = req[r].org))
         /\ \A y \in orgs' : \E x \in orgs : x.id = y.id /\
              (y = x \/ ("customer" \in req[r].cols /\ x.id = req[r].org
                         /\ y = [x EXCEPT !.customer = PayerOf[req[r].code]]))
<1> DEFINE q == req[r]
           W(x) == IF x.id = q.org /\ "customer" \in q.cols
                     THEN [x EXCEPT !.customer = PayerOf[q.code]] ELSE x
<1>1. orgs' = {W(x) : x \in orgs}  BY DEF CommitWrite
<1>2. subs' = IF WritesCode(q)
                THEN {s \in subs : s.org # q.org} \cup {[org |-> q.org, code |-> q.code]}
                ELSE subs
  BY DEF CommitWrite
<1>3. \A x \in orgs : x \in [id : Orgs, customer : Customers \cup {None}]
  BY DEF IInv, TypeOK, Book!TypeOK, Book!OrgRow
<1>4. \A x \in orgs : W(x).id = x.id  BY <1>3
<1>5. "customer" \notin q.cols => orgs' = orgs  BY <1>1
<1>6. \A o : (OrgExists(o)' <=> OrgExists(o))
  <2> HIDE DEF W
  <2> QED  BY <1>1, <1>4 DEF OrgExists
<1>7. \A o : (Subscribed(o)' <=> Subscribed(o) \/ (WritesCode(q) /\ o = q.org))
  <2>1. CASE ~WritesCode(q)  BY <1>2, <2>1 DEF Subscribed
  <2>2. CASE WritesCode(q)
    <3>1. PICK n : n = [org |-> q.org, code |-> q.code]  OBVIOUS
    <3>2. n.org = q.org  BY <3>1
    <3>3. subs' = {s \in subs : s.org # q.org} \cup {n}  BY <1>2, <2>2, <3>1
    <3> QED  BY <2>2, <3>2, <3>3 DEF Subscribed
  <2> QED  BY <2>1, <2>2
<1>8. \A y \in orgs' : \E x \in orgs : x.id = y.id /\
        (y = x \/ ("customer" \in q.cols /\ x.id = q.org
                   /\ y = [x EXCEPT !.customer = PayerOf[q.code]]))
  <2>1. SUFFICES ASSUME NEW x \in orgs
                 PROVE  x.id = W(x).id /\
                        (W(x) = x \/ ("customer" \in q.cols /\ x.id = q.org
                          /\ W(x) = [x EXCEPT !.customer = PayerOf[q.code]]))
    <3> HIDE DEF W
    <3> QED  BY <1>1
  <2> QED  BY <1>4
<1> QED  BY <1>2, <1>5, <1>6, <1>7, <1>8 DEF tables

(* A commit is a step of the ledger, on the rows as they are. *)
LEMMA WriteSettles ==
  ASSUME IInv, NEW r \in Requests, CommitWrite(r)
  PROVE  UNCHANGED <<tables, bought>> \/ Book!Settle(req[r].code)
<1> DEFINE q == req[r]
<1>1. CASE ~("customer" \in q.cols \/ WritesCode(q))
  BY <1>1, WrittenRows DEF CommitWrite
<1>2. CASE "customer" \in q.cols \/ WritesCode(q)
  <2>c. q.pc = "commit" /\ bought' = bought  BY DEF CommitWrite
  <2>1. /\ q.code \in bought /\ OrgOf[q.code] = q.org /\ OrgExists(q.org)
        /\ "customer" \in q.cols => \A x \in orgs : x.id # q.org => x.customer # PayerOf[q.code]
    BY <1>2, <2>c, WriterRelies
  <2>2. PICK x \in orgs : x.id = q.org  BY <2>1 DEF OrgExists
  <2>3. \A z \in orgs : z # x => z.id # q.org
    BY <2>2 DEF IInv, Book!LedgerInv, Book!Keyed
  <2>4. PICK y : y = IF "customer" \in q.cols THEN [x EXCEPT !.customer = PayerOf[q.code]] ELSE x
    OBVIOUS
  <2>5. orgs' = (orgs \ {x}) \cup {y}
    <3>1. orgs' = {IF z.id = q.org /\ "customer" \in q.cols
                     THEN [z EXCEPT !.customer = PayerOf[q.code]] ELSE z : z \in orgs}
      BY DEF CommitWrite
    <3> QED  BY <2>2, <2>3, <2>4, <3>1
  <2>6. y \in Book!OrgAfter(x, q.code)
    BY <2>1, <2>3, <2>4 DEF Book!OrgAfter
  <2>7. subs' \in Book!SubsAfter(q.code)
    BY <2>1 DEF CommitWrite, Book!SubsAfter
  <2> QED  BY <2>c, <2>1, <2>2, <2>5, <2>6, <2>7 DEF Book!Settle
<1> QED  BY <1>1, <1>2

(* The invariant of the ledger itself. *)
LEMMA SettleKeepsLedger ==
  ASSUME Book!LedgerInv, NEW c \in Codes, Book!Settle(c)
  PROVE  Book!LedgerInv'
<1>0. PICK x \in orgs :
        /\ c \in bought /\ x.id = OrgOf[c]
        /\ \E y \in Book!OrgAfter(x, c) : orgs' = (orgs \ {x}) \cup {y}
        /\ subs' \in Book!SubsAfter(c) /\ bought' = bought
  BY DEF Book!Settle
<1>a. PICK y \in Book!OrgAfter(x, c) : orgs' = (orgs \ {x}) \cup {y}  BY <1>0
<1>1. /\ c \in bought /\ x.id = OrgOf[c] /\ orgs' = (orgs \ {x}) \cup {y}
      /\ subs' \in Book!SubsAfter(c) /\ bought' = bought
  BY <1>0, <1>a
<1>2. orgs \subseteq [id : Orgs, customer : Customers \cup {None}] /\ subs \subseteq Book!SubRow
      /\ bought \subseteq Codes
  BY DEF Book!LedgerInv, Book!TypeOK, Book!OrgRow
<1>3. /\ y.id = x.id /\ y \in Book!OrgRow
      /\ y.customer = x.customer \/ (y.customer = PayerOf[c]
           /\ \A z \in orgs \ {x} : z.customer # PayerOf[c])
  BY <1>1, <1>2 DEF Book!OrgAfter, Book!OrgRow
<1>4. /\ \A s \in subs' : s \in subs \/ s = [org |-> OrgOf[c], code |-> c]
      /\ [org |-> OrgOf[c], code |-> c] \in subs' =>
           subs' = subs \/ \A s \in subs' : s.org = OrgOf[c] => s = [org |-> OrgOf[c], code |-> c]
      /\ [org |-> OrgOf[c], code |-> c] \notin subs' => subs' = subs
  BY <1>1 DEF Book!SubsAfter
<1>5. Book!TypeOK'
  <2>1. orgs' \subseteq Book!OrgRow  BY <1>1, <1>2, <1>3 DEF Book!OrgRow
  <2>2. [org |-> OrgOf[c], code |-> c] \in Book!SubRow  BY DEF Book!SubRow
  <2>3. subs' \subseteq Book!SubRow  BY <1>2, <1>4, <2>2
  <2> QED  BY <1>1, <1>2, <2>1, <2>3 DEF Book!TypeOK
<1>6. Book!Keyed'
  <2>1. \A v, w \in orgs' : v.id = w.id => v = w
    BY <1>1, <1>3 DEF Book!LedgerInv, Book!Keyed
  <2>2. \A s, t \in subs' : s.org = t.org => s = t
    BY <1>4 DEF Book!LedgerInv, Book!Keyed
  <2> QED  BY <2>1, <2>2 DEF Book!Keyed
<1>7. Book!OneOrgPerCustomer'
  BY <1>1, <1>3 DEF Book!LedgerInv, Book!OneOrgPerCustomer
<1>8. Book!NoOrphanSubscription'
  <2>1. \A z \in orgs : \E w \in orgs' : w.id = z.id  BY <1>1, <1>3
  <2> QED  BY <1>1, <1>4, <2>1 DEF Book!LedgerInv, Book!NoOrphanSubscription
<1> QED  BY <1>5, <1>6, <1>7, <1>8 DEF Book!LedgerInv

LEMMA CommitWritePreserves ==
  ASSUME IInv, NEW r \in Requests, CommitWrite(r)
  PROVE  IInv'
<1>0. PICK q : q = req[r]  OBVIOUS
<1>1. q.pc = "commit" /\ Set(r, Idle) /\ bought' = bought  BY <1>0 DEF CommitWrite
<1>q. q \in Request /\ Founded(q) /\ LocksMean(q) /\ Holds(q)  BY <1>0 DEF IInv, TypeOK, Sound
<1>2. /\ \A o : (OrgExists(o)' <=> OrgExists(o))
      /\ \A o : (Subscribed(o)' <=> Subscribed(o) \/ (WritesCode(q) /\ o = q.org))
      /\ \A y \in orgs' : \E x \in orgs : x.id = y.id /\
           (y = x \/ ("customer" \in q.cols /\ x.id = q.org
                      /\ y = [x EXCEPT !.customer = PayerOf[q.code]]))
  BY <1>0, WrittenRows
<1>3. Book!LedgerInv'
  <2>1. CASE UNCHANGED <<tables, bought>>
    BY <2>1 DEF tables, IInv, Book!LedgerInv, Book!TypeOK, Book!Keyed,
       Book!OneOrgPerCustomer, Book!NoOrphanSubscription
  <2>2. CASE Book!Settle(q.code)
    <3>1. q.code \in Codes  BY <2>2 DEF Book!Settle, IInv, TypeOK, Book!TypeOK
    <3> QED  BY <2>2, <3>1, SettleKeepsLedger DEF IInv
  <2> QED  BY <1>0, <2>1, <2>2, WriteSettles
<1>4. TypeOK'  BY <1>1, <1>3, Released DEF TypeOK, Book!LedgerInv
<1>5. WritesCode(q) => "sub" \in q.locks
  BY DEF WritesCode
<1>6. ASSUME NEW s \in Requests  PROVE Sound(req[s])'
  <2>1. CASE s = r
    <3>1. req'[s] = Idle  BY <2>1, <1>1, Released
    <3> QED  BY <3>1 DEF Sound, Founded, LocksMean, Holds, StaysSubscribed, Idle, Ops
  <2>2. CASE s # r
    <3>0. PICK p : p = req[s]  OBVIOUS
    <3>1. req'[s] = p  BY <2>2, <3>0, <1>1, Released
    <3>2. Founded(p) /\ LocksMean(p) /\ Holds(p) /\ StaysSubscribed(p)
      BY <3>0 DEF IInv, Sound
    <3>3. Compatible(q, p) /\ Compatible(p, q)  BY <1>0, <2>2, <3>0 DEF IInv
    <3>4. ASSUME WritesCode(q), p.org = q.org
          PROVE  /\ "sub" \notin p.locks
                 /\ p.op = "delete" /\ p.pc = "commit" => Subscribed(p.org)
      <4>1. "sub" \notin p.locks  BY <1>5, <3>3, <3>4 DEF Compatible
      <4>2. p.op = "delete" /\ p.pc = "commit" => "share" \notin q.locks
        BY <3>2, <3>3, <3>4 DEF Compatible, Holds
      <4>3. "share" \notin q.locks => Subscribed(q.org)
        BY <1>5, <1>q, <3>4 DEF LocksMean
      <4> QED  BY <3>4, <4>1, <4>2, <4>3
    <3>5. ASSUME NEW y \in orgs', "customer" \in p.cols
          PROVE  /\ "key" \in p.locks /\ y.id # p.org => y.customer # PayerOf[p.code]
                 /\ "row" \in p.locks /\ y.id = p.org => y.customer = PayerOf[p.code]
      <4>1. PICK x \in orgs : x.id = y.id /\
              (y = x \/ ("customer" \in q.cols /\ x.id = q.org
                         /\ y = [x EXCEPT !.customer = PayerOf[q.code]]))
        BY <1>2
      <4>2. /\ "key" \in p.locks /\ x.id # p.org => x.customer # PayerOf[p.code]
            /\ "row" \in p.locks /\ x.id = p.org => x.customer = PayerOf[p.code]
        BY <3>2, <3>5 DEF LocksMean
      <4>3. CASE y = x  BY <4>2, <4>3
      <4>4. CASE "customer" \in q.cols /\ x.id = q.org
                 /\ y = [x EXCEPT !.customer = PayerOf[q.code]]
        <5>1. y.customer = PayerOf[q.code]
          <6>1. x \in [id : Orgs, customer : Customers \cup {None}]
            BY DEF IInv, TypeOK, Book!TypeOK, Book!OrgRow
          <6> QED  BY <4>4, <6>1
        <5>2. q.locks \cap {"key", "row"} # {}  BY <1>1, <1>q, <4>4 DEF Holds
        <5>3. "row" \in q.locks => x.customer = PayerOf[q.code]
          BY <1>q, <4>4 DEF LocksMean
        <5>4. "row" \in p.locks => y.id # p.org
          BY <3>3, <4>1, <4>4, <5>2 DEF Compatible
        <5>5. "key" \in p.locks /\ y.id # p.org /\ "key" \in q.locks
               => PayerOf[q.code] # PayerOf[p.code]
          BY <3>3, <3>5, <4>1, <4>4 DEF Compatible
        <5>6. "key" \in p.locks /\ y.id # p.org /\ "row" \in q.locks
               => PayerOf[q.code] # PayerOf[p.code]
          BY <4>1, <4>2, <5>3
        <5> QED  BY <5>1, <5>2, <5>4, <5>5, <5>6
      <4> QED  BY <4>1, <4>3, <4>4
    <3>6. LocksMean(p)'
      <4>1. p.locks # {} => OrgExists(p.org)'  BY <3>2, <1>2 DEF LocksMean
      <4>2. "sub" \in p.locks => (Subscribed(p.org)' <=> "share" \notin p.locks)
        BY <3>2, <3>4, <1>2 DEF LocksMean
      <4>3. p.op = "delete" /\ p.pc = "commit" /\ Subscribed(p.org)' => "sub" \in p.locks
        BY <3>2, <3>4, <1>2 DEF LocksMean
      <4> QED  BY <3>5, <4>1, <4>2, <4>3 DEF LocksMean
    <3>7. StaysSubscribed(p)'
      <4>1. OrgExists(p.org)' <=> OrgExists(p.org)  BY <1>2
      <4>2. Subscribed(p.org) => Subscribed(p.org)'  BY <1>2
      <4> QED  BY <3>2, <4>1, <4>2 DEF StaysSubscribed
    <3>8. Founded(p)' /\ Holds(p)'  BY <1>1, <3>2 DEF Founded, Holds
    <3> QED  BY <3>1, <3>6, <3>7, <3>8 DEF Sound, Founded, LocksMean, Holds, StaysSubscribed
  <2> QED  BY <2>1, <2>2
<1> QED  BY <1>1, <1>3, <1>4, <1>6, Released DEF IInv

-----------------------------------------------------------------------------
LEMMA InitEstablishes == Init => IInv
<1> SUFFICES ASSUME Init PROVE IInv  OBVIOUS
<1>1. orgs = [id : Orgs, customer : {None}] /\ subs = {} /\ bought = {}
  BY DEF Init, Book!Init
<1>2. \A x \in orgs : x.customer = None /\ x = [id |-> x.id, customer |-> None]  BY <1>1
<1>3. Book!LedgerInv
  <2>1. Book!TypeOK  BY <1>1 DEF Book!TypeOK, Book!OrgRow
  <2>2. Book!Keyed  BY <1>1, <1>2 DEF Book!Keyed
  <2>3. Book!OneOrgPerCustomer  BY <1>2 DEF Book!OneOrgPerCustomer
  <2>4. Book!NoOrphanSubscription  BY <1>1 DEF Book!NoOrphanSubscription
  <2> QED  BY <2>1, <2>2, <2>3, <2>4 DEF Book!LedgerInv
<1>4. \A r \in Requests : req[r] = Idle /\ Idle.locks = {}  BY DEF Init, Idle
<1>5. TypeOK  BY <1>3, <1>4, IdleTyped DEF Init, TypeOK, Book!LedgerInv
<1> QED  BY <1>3, <1>4, <1>5, IdleSound, LocklessCompatible DEF IInv

LEMMA ContinuePreserves ==
  ASSUME IInv, NEW r \in Requests, Continue(r)
  PROVE  IInv'
BY LoadOrgPreserves, LoadSubPreserves, LookPreserves, FlushOrgPreserves, FlushSubPreserves,
   CascadePreserves, CommitDeletePreserves, CommitWritePreserves DEF Continue

LEMMA NextPreserves == IInv /\ [Next]_vars => IInv'
<1> SUFFICES ASSUME IInv, [Next]_vars PROVE IInv'  OBVIOUS
<1>1. CASE Buy  BY <1>1, BuyPreserves
<1>2. ASSUME NEW r \in Requests,
             BeginPaid(r) \/ Begin(r) \/ Continue(r) \/ Victim(r) \/ Abort(r)
      PROVE  IInv'
  BY <1>2, BeginPaidPreserves, BeginPreserves, ContinuePreserves, ToIdle DEF Victim, Abort
<1>3. CASE UNCHANGED vars
  BY <1>3 DEF vars, IInv, TypeOK, Book!LedgerInv, Book!TypeOK, Book!Keyed,
       Book!OneOrgPerCustomer, Book!NoOrphanSubscription, Sound, Founded, LocksMean,
       Holds, StaysSubscribed, OrgExists, Subscribed, Compatible
<1> QED  BY <1>1, <1>2, <1>3 DEF Next

(* Whatever overlaps: the ledger is in order, and the locks still stand    *)
(* for what they were taken for (billing_service.py:117-138, 283-330).     *)
THEOREM LocksHold == Spec => []IInv
BY InitEstablishes, NextPreserves, PTL DEF Spec

(* organization.py:37: two organizations never have one customer. *)
THEOREM CustomersApart == Spec => []OneOrgPerCustomer
<1>1. IInv => OneOrgPerCustomer  BY DEF IInv, Book!LedgerInv, OneOrgPerCustomer
<1> QED  BY <1>1, LocksHold, PTL

(* subscription.py:28: no subscription outlives its organization. *)
THEOREM NoneOrphaned == Spec => []NoOrphanSubscription
<1>1. IInv => NoOrphanSubscription  BY DEF IInv, Book!LedgerInv, NoOrphanSubscription
<1> QED  BY <1>1, LocksHold, PTL

-----------------------------------------------------------------------------
LEMMA StepRefines ==
  ASSUME IInv, [Next]_vars
  PROVE  [Book!Next]_<<orgs, subs, bought>>
<1>1. CASE Buy  BY <1>1 DEF Buy, Book!Next
<1>2. ASSUME NEW r \in Requests,
             BeginPaid(r) \/ Begin(r) \/ Continue(r) \/ Victim(r) \/ Abort(r)
      PROVE  [Book!Next]_<<orgs, subs, bought>>
  <2>1. CASE CommitDelete(r)
    <3>1. req[r].org \in Orgs
      BY <2>1 DEF IInv, Sound, Founded, CommitDelete
    <3> QED  BY <2>1, <3>1, CommitDeletePreserves DEF Book!Next
  <2>2. CASE CommitWrite(r)
    <3>1. CASE UNCHANGED <<tables, bought>>  BY <3>1 DEF tables
    <3>2. CASE Book!Settle(req[r].code)
      <4>1. req[r].code \in Codes  BY <3>2 DEF Book!Settle, IInv, TypeOK, Book!TypeOK
      <4> QED  BY <3>2, <4>1 DEF Book!Next
    <3> QED  BY <2>2, <3>1, <3>2, WriteSettles
  <2>3. CASE ~CommitDelete(r) /\ ~CommitWrite(r)
    BY <1>2, <2>3 DEF tables, BeginPaid, Begin, Continue, Victim, Abort, LoadOrg, LoadSub,
         LookForChildren, FlushOrg, FlushSub, Cascade
  <2> QED  BY <2>1, <2>2, <2>3
<1>3. CASE UNCHANGED vars  BY <1>3 DEF vars
<1> QED  BY <1>1, <1>2, <1>3 DEF Next

(* The requests implement Ledger.tla: a commit is one step on the rows as  *)
(* they are, although the handler decided on rows it loaded before.        *)
THEOREM CommitsSettle == Spec => Ledgered
<1>1. Init => Book!Init  BY DEF Init
<1> QED  BY <1>1, LocksHold, StepRefines, PTL DEF Spec, Ledgered, Book!Spec

(* organization.py:48: a subscription is lost only to a deletion that was  *)
(* asked for before there was one.                                         *)
THEOREM DeletionsSpareSubscribed == Spec => SubscribedStays
<1>1. IInv /\ [Next]_vars => [\A s \in Lost : \E r \in Requests :
        /\ req[r].op = "delete" /\ req[r].pc = "commit"
        /\ req[r].org = s.org /\ ~req[r].had]_vars
  <2> SUFFICES ASSUME IInv, [Next]_vars, NEW s \in Lost
               PROVE  \E r \in Requests : /\ req[r].op = "delete" /\ req[r].pc = "commit"
                                          /\ req[r].org = s.org /\ ~req[r].had
    OBVIOUS
  <2>1. s \in subs /\ \A t \in subs' : t.org # s.org  BY DEF Lost
  <2>2. subs' # subs  BY <2>1
  <2>3. PICK r \in Requests :
          BeginPaid(r) \/ Begin(r) \/ Continue(r) \/ Victim(r) \/ Abort(r)
    BY <2>2 DEF Next, vars, Buy, Book!Buy, Book!tables
  <2>4. CommitDelete(r) \/ CommitWrite(r)
    BY <2>2, <2>3 DEF tables, BeginPaid, Begin, Continue, Victim, Abort, LoadOrg, LoadSub,
         LookForChildren, FlushOrg, FlushSub, Cascade
  <2>5. ~CommitWrite(r)
    <3>1. SUFFICES ASSUME CommitWrite(r) PROVE FALSE  OBVIOUS
    <3>2. \A o : (Subscribed(o) => Subscribed(o)')  BY <3>1, WrittenRows
    <3>3. Subscribed(s.org)  BY <2>1 DEF Subscribed
    <3> QED  BY <2>1, <3>2, <3>3 DEF Subscribed
  <2>6. CommitDelete(r)  BY <2>4, <2>5
  <2>7. req[r].op = "delete" /\ req[r].pc = "commit" /\ req[r].org = s.org
    BY <2>1, <2>6 DEF CommitDelete
  <2>8. ~req[r].had  BY <2>7 DEF IInv, Sound, StaysSubscribed, TypeOK, Request
  <2> QED  BY <2>7, <2>8
<1> QED  BY <1>1, LocksHold, PTL DEF Spec, SubscribedStays

=============================================================================
