---------------------------- MODULE SessionsProofs ----------------------------
(***************************************************************************)
(* For any number of requests, any lifetimes of whole seconds and any      *)
(* clock: a blacklist entry lasts as long as its token, and pairs of       *)
(* tokens come from sign-ins.                                              *)
(***************************************************************************)
EXTENDS Sessions, TLAPS

USE SessionAssumption

(* Rounding to whole seconds goes down by less than one. *)
LEMMA WholeBelow ==
  ASSUME NEW n \in Nat
  PROVE  Whole(n) \in Nat /\ Whole(n) <= n
BY DEF Whole

LEMMA TokenTimes ==
  ASSUME NEW t \in Token
  PROVE  Exp(t) \in Nat /\ t.at \in Nat /\ t.at \in Times /\ t.kind \in Kinds
BY DEF Exp, Token, Times

(* What is left of a token, counted from the second that has begun, covers *)
(* what is left of it now.                                                 *)
LEMMA TtlCovers ==
  ASSUME TypeOK, NEW t \in Token
  PROVE  Ttl(t) \in Nat /\ (Ttl(t) > 0 => now + Ttl(t) >= Exp(t))
<1>1. now \in Nat  BY DEF TypeOK, Times
<1>2. Whole(now) \in Nat /\ Whole(now) <= now  BY <1>1, WholeBelow
<1>3. Exp(t) \in Nat  BY TokenTimes
<1> QED  BY <1>1, <1>2, <1>3 DEF Ttl

LEMMA IdleTyped == Idle \in Request
BY DEF Idle, Request, Token, Kinds, Ops, Times

-----------------------------------------------------------------------------
(* The steps of the requests: only the slot r changes, to a request that   *)
(* is again typed and founded.                                             *)
Rest(r) == \A s \in Requests : s # r => req'[s] = req[s]

LEMMA SetSlot ==
  ASSUME TypeOK, NEW r \in Requests, NEW q \in Request, Set(r, q)
  PROVE  /\ req' \in [Requests -> Request] /\ req'[r] = q /\ Rest(r)
         /\ now' = now /\ account' = account
BY DEF Set, TypeOK, Rest

FoundedIn(q, tokens, s) ==
  /\ (q.pc = "load" /\ q.op # "validate") => s
  /\ (q.pc = "answer" /\ q.gives \cap Pair # {}) => s
  /\ q.pc = "decode" => q.token \in tokens

LastingIn(q, n) == q.pc = "store" => q.token.kind = "refresh" /\ n + q.ttl >= Exp(q.token)

(* A step of a request that writes no entry and leaves the invariant of    *)
(* its own slot preserves the invariant.                                   *)
LEMMA SlotStep ==
  ASSUME IInv, NEW r \in Requests, NEW q \in Request, Set(r, q),
         black' = black, issued \subseteq issued', issued' \subseteq Token,
         signed' \in BOOLEAN, signed => signed',
         \A t \in issued' : t.kind \in Pair => signed',
         FoundedIn(q, issued', signed'), LastingIn(q, now)
  PROVE  IInv'
<1>1. TypeOK /\ Lasting /\ PairsAreEarned /\ Founded  BY DEF IInv
<1>2. req' \in [Requests -> Request] /\ req'[r] = q /\ Rest(r) /\ now' = now /\ account' = account
  BY <1>1, SetSlot
<1>3. TypeOK'  BY <1>1, <1>2 DEF TypeOK
<1>4. Lasting'
  <2>1. \A t \in Times : black'[t] # 0 => black'[t] >= t + Life["refresh"]
    BY <1>1 DEF Lasting
  <2>2. ASSUME NEW s \in Requests, req'[s].pc = "store"
        PROVE  req'[s].token.kind = "refresh" /\ now' + req'[s].ttl >= Exp(req'[s].token)
    <3>1. CASE s = r  BY <3>1, <2>2, <1>2 DEF LastingIn
    <3>2. CASE s # r  BY <3>2, <2>2, <1>1, <1>2 DEF Lasting, Rest
    <3> QED  BY <3>1, <3>2
  <2> QED  BY <2>1, <2>2 DEF Lasting, Exp
<1>5. PairsAreEarned'  BY DEF PairsAreEarned
<1>6. Founded'
  <2>1. ASSUME NEW s \in Requests  PROVE FoundedIn(req'[s], issued', signed')
    <3>1. CASE s = r  BY <3>1, <1>2
    <3>2. CASE s # r
      <4>1. req'[s] = req[s]  BY <3>2, <1>2 DEF Rest
      <4>2. FoundedIn(req[s], issued, signed)  BY <1>1 DEF Founded, FoundedIn
      <4> QED  BY <4>1, <4>2 DEF FoundedIn
    <3> QED  BY <3>1, <3>2
  <2> QED  BY <2>1 DEF Founded, FoundedIn
<1> QED  BY <1>3, <1>4, <1>5, <1>6 DEF IInv

(* The same for steps that issue nothing. *)
LEMMA QuietStep ==
  ASSUME IInv, NEW r \in Requests, NEW q \in Request, Set(r, q),
         UNCHANGED <<issued, black>>,
         signed' \in BOOLEAN, signed => signed',
         FoundedIn(q, issued, signed'), LastingIn(q, now)
  PROVE  IInv'
<1>1. issued' \subseteq Token /\ black' = black /\ issued' = issued
  BY DEF IInv, TypeOK
<1>2. \A t \in issued' : t.kind \in Pair => signed'
  BY <1>1 DEF IInv, PairsAreEarned
<1> QED  BY <1>1, <1>2, SlotStep

LEMMA ToIdle ==
  ASSUME IInv, NEW r \in Requests, Set(r, Idle), UNCHANGED <<issued, black, signed>>
  PROVE  IInv'
<1>1. FoundedIn(Idle, issued, signed') /\ LastingIn(Idle, now)
  BY DEF FoundedIn, LastingIn, Idle
<1>2. signed' \in BOOLEAN /\ (signed => signed')  BY DEF IInv, TypeOK
<1> QED  BY <1>1, <1>2, IdleTyped, QuietStep

LEMMA HandlePreserves ==
  ASSUME IInv, NEW r \in Requests, Handle(r)
  PROVE  IInv'
<1> DEFINE q == req[r]
<1>t. TypeOK /\ Lasting /\ PairsAreEarned /\ Founded  BY DEF IInv
<1>q. q \in Request /\ q.token \in Token  BY <1>t DEF TypeOK, Request
<1>s. signed \in BOOLEAN  BY <1>t DEF TypeOK
<1>1. CASE Login(r)
  <2> DEFINE p == [Idle EXCEPT !.op = "login", !.pc = "answer",
                               !.gives = IF account.mfa THEN {"mfa_pending"} ELSE Pair]
  <2>1. Set(r, p) /\ UNCHANGED <<issued, black>> /\ signed' = (signed \/ ~account.mfa)
    BY <1>1 DEF Login, Begin
  <2>2. p \in Request  BY IdleTyped DEF Idle, Request, Ops, Kinds, Pair
  <2>3. p.pc = "answer" /\ (~account.mfa \/ p.gives = {"mfa_pending"})  BY DEF Idle
  <2>4. FoundedIn(p, issued, signed')  BY <2>1, <2>3 DEF FoundedIn, Pair
  <2>5. LastingIn(p, now)  BY <2>3 DEF LastingIn
  <2>6. signed' \in BOOLEAN /\ (signed => signed')  BY <2>1, <1>s
  <2> HIDE DEF p
  <2> QED  BY <2>1, <2>2, <2>4, <2>5, <2>6, QuietStep
<1>2. CASE OAuth(r)
  <2> DEFINE p == [Idle EXCEPT !.op = "oauth", !.pc = "answer", !.gives = Pair]
  <2>1. Set(r, p) /\ UNCHANGED <<issued, black>> /\ signed' = TRUE
    BY <1>2 DEF OAuth, Begin
  <2>2. p \in Request  BY IdleTyped DEF Idle, Request, Ops, Kinds, Pair
  <2>3. p.pc = "answer"  BY DEF Idle
  <2>4. FoundedIn(p, issued, signed') /\ LastingIn(p, now)
    BY <2>1, <2>3 DEF FoundedIn, LastingIn
  <2> HIDE DEF p
  <2> QED  BY <2>1, <2>2, <2>4, QuietStep
<1>3. CASE Validate(r)
  <2>1. PICK t \in issued :
          Begin(r, [Idle EXCEPT !.op = "validate", !.pc = "load", !.token = t, !.gives = Pair])
          /\ UNCHANGED signed
    BY <1>3 DEF Validate
  <2> DEFINE p == [Idle EXCEPT !.op = "validate", !.pc = "load", !.token = t, !.gives = Pair]
  <2>2. Set(r, p) /\ UNCHANGED <<issued, black, signed>>  BY <2>1 DEF Begin
  <2>3. p \in Request  BY <1>t, IdleTyped DEF TypeOK, Idle, Request, Ops, Kinds, Pair
  <2>4. p.pc = "load" /\ p.op = "validate"  BY DEF Idle
  <2>5. FoundedIn(p, issued, signed') /\ LastingIn(p, now)
    BY <2>4 DEF FoundedIn, LastingIn
  <2> HIDE DEF p
  <2> QED  BY <2>2, <2>3, <2>5, <1>s, QuietStep
<1>4. ASSUME NEW op \in {"refresh", "logout"}, NEW g \in SUBSET Kinds, Check(r, op, g)
      PROVE  IInv'
  <2>1. PICK t \in issued, ok \in BOOLEAN :
          Begin(r, [Idle EXCEPT !.op = op, !.pc = "decode", !.token = t, !.asked = ok, !.gives = g])
          /\ UNCHANGED signed
    BY <1>4 DEF Check
  <2> DEFINE p == [Idle EXCEPT !.op = op, !.pc = "decode", !.token = t, !.asked = ok, !.gives = g]
  <2>2. Set(r, p) /\ UNCHANGED <<issued, black, signed>>  BY <2>1 DEF Begin
  <2>3. p \in Request  BY <1>t, IdleTyped DEF TypeOK, Idle, Request, Ops
  <2>4. p.pc = "decode" /\ p.token = t  BY DEF Idle
  <2>5. FoundedIn(p, issued, signed') /\ LastingIn(p, now)
    BY <2>4 DEF FoundedIn, LastingIn
  <2> HIDE DEF p
  <2> QED  BY <2>2, <2>3, <2>5, <1>s, QuietStep
<1>5. CASE Refresh(r) \/ Logout(r)
  BY <1>5, <1>4 DEF Refresh, Logout, Pair, Kinds
<1>6. CASE Decode(r)
  <2>1. UNCHANGED <<issued, black, signed>> /\ q.op = "refresh" /\ q.pc = "decode"
    BY <1>6 DEF Decode
  <2>2. CASE IsRefresh(q.token)
    <3> DEFINE p == [q EXCEPT !.pc = "load"]
    <3>1. Set(r, p)  BY <1>6, <2>2 DEF Decode
    <3>2. p \in Request /\ p.pc = "load"  BY <1>q DEF Request
    <3>3. q.token \in issued /\ q.token.kind \in Pair
      BY <1>t, <2>1, <2>2 DEF Founded, IsRefresh, Pair
    <3>4. signed  BY <1>t, <3>3 DEF PairsAreEarned
    <3>5. FoundedIn(p, issued, signed') /\ LastingIn(p, now)
      BY <3>2, <3>4, <2>1 DEF FoundedIn, LastingIn
    <3> HIDE DEF p
    <3> QED  BY <2>1, <3>1, <3>2, <3>5, <1>s, QuietStep
  <2>3. CASE ~IsRefresh(q.token)
    BY <2>1, <2>3, <1>6, ToIdle DEF Decode
  <2> QED  BY <2>2, <2>3
<1>7. CASE LoadUser(r)
  <2>1. UNCHANGED <<issued, black>> /\ q.pc = "load"
        /\ signed' = (signed \/ (q.op = "validate" /\ Admits(q.op)))
    BY <1>7 DEF LoadUser
  <2>2. signed' \in BOOLEAN /\ (signed => signed')  BY <2>1, <1>s
  <2>3. CASE Admits(q.op)
    <3> DEFINE p == [q EXCEPT !.pc = "answer"]
    <3>1. Set(r, p)  BY <1>7, <2>3 DEF LoadUser
    <3>2. p \in Request /\ p.pc = "answer"  BY <1>q DEF Request
    <3>3. signed'  BY <1>t, <2>1, <2>3 DEF Founded
    <3>4. FoundedIn(p, issued, signed') /\ LastingIn(p, now)
      BY <3>2, <3>3 DEF FoundedIn, LastingIn
    <3> HIDE DEF p
    <3> QED  BY <2>1, <2>2, <3>1, <3>2, <3>4, QuietStep
  <2>4. CASE ~Admits(q.op)
    <3>1. Set(r, Idle) /\ signed' = signed  BY <1>7, <2>1, <2>4, <1>s DEF LoadUser
    <3> QED  BY <2>1, <3>1, ToIdle
  <2> QED  BY <2>3, <2>4
<1>8. CASE Revoke(r)
  <2>1. UNCHANGED <<issued, black, signed>>  BY <1>8 DEF Revoke
  <2>2. CASE IsRefresh(q.token) /\ Ttl(q.token) > 0
    <3> DEFINE p == [q EXCEPT !.pc = "store", !.ttl = Ttl(q.token)]
    <3>1. Set(r, p)  BY <1>8, <2>2 DEF Revoke
    <3>2. Ttl(q.token) \in Nat /\ now + Ttl(q.token) >= Exp(q.token)
      BY <1>t, <1>q, <2>2, TtlCovers
    <3>3. p \in Request  BY <1>q, <3>2 DEF Request
    <3>4. p.pc = "store" /\ p.ttl = Ttl(q.token) /\ p.token = q.token  BY <1>q DEF Request
    <3>5. FoundedIn(p, issued, signed')  BY <3>4 DEF FoundedIn
    <3>6. LastingIn(p, now)  BY <2>2, <3>2, <3>4 DEF LastingIn, IsRefresh
    <3> HIDE DEF p
    <3> QED  BY <2>1, <3>1, <3>3, <3>5, <3>6, <1>s, QuietStep
  <2>3. CASE ~(IsRefresh(q.token) /\ Ttl(q.token) > 0)
    BY <2>1, <2>3, <1>8, ToIdle DEF Revoke
  <2> QED  BY <2>2, <2>3
<1>9. CASE Store(r)
  <2> DEFINE e == now + q.ttl
             a == q.token.at
  <2>1. /\ Set(r, Idle) /\ black' = [black EXCEPT ![a] = e] /\ UNCHANGED <<issued, signed>>
        /\ q.pc = "store"
    BY <1>9 DEF Store
  <2>2. now \in Nat /\ q.ttl \in Nat /\ a \in Times /\ black \in [Times -> Nat]
    BY <1>t, <1>q, TokenTimes DEF TypeOK, Times, Request
  <2>3. e \in Nat /\ e >= a + Life["refresh"]
    BY <1>t, <2>1, <2>2 DEF Lasting, Exp
  <2>4. /\ req' \in [Requests -> Request] /\ req'[r] = Idle /\ Rest(r)
        /\ now' = now /\ account' = account
    BY <1>t, <2>1, IdleTyped, SetSlot
  <2>5. TypeOK'  BY <1>t, <2>1, <2>2, <2>3, <2>4 DEF TypeOK
  <2>6. Lasting'
    <3>1. \A t \in Times : black'[t] # 0 => black'[t] >= t + Life["refresh"]
      BY <1>t, <2>1, <2>2, <2>3 DEF Lasting
    <3>2. ASSUME NEW s \in Requests, req'[s].pc = "store"
          PROVE  req'[s].token.kind = "refresh" /\ now' + req'[s].ttl >= Exp(req'[s].token)
      <4>1. s # r  BY <3>2, <2>4 DEF Idle
      <4> QED  BY <4>1, <3>2, <2>4, <1>t DEF Rest, Lasting
    <3> QED  BY <3>1, <3>2 DEF Lasting, Exp
  <2>7. PairsAreEarned'  BY <1>t, <2>1 DEF PairsAreEarned
  <2>8. Founded'
    <3>1. ASSUME NEW s \in Requests  PROVE FoundedIn(req'[s], issued', signed')
      <4>1. CASE s = r  BY <4>1, <2>4 DEF FoundedIn, Idle
      <4>2. CASE s # r
        <5>1. req'[s] = req[s]  BY <4>2, <2>4 DEF Rest
        <5> QED  BY <5>1, <2>1, <1>t DEF Founded, FoundedIn
      <4> QED  BY <4>1, <4>2
    <3> QED  BY <3>1 DEF Founded, FoundedIn
  <2> QED  BY <2>5, <2>6, <2>7, <2>8 DEF IInv
<1>10. CASE Answer(r)
  <2> DEFINE new == {[kind |-> k, at |-> Whole(now)] : k \in q.gives}
  <2>1. Set(r, Idle) /\ issued' = issued \cup new /\ black' = black /\ signed' = signed
        /\ q.pc = "answer"
    BY <1>10 DEF Answer
  <2>2. Whole(now) \in Times
    <3>1. now \in Nat /\ now <= MaxTime  BY <1>t DEF TypeOK, Times
    <3>2. Whole(now) \in Nat /\ Whole(now) <= now  BY <3>1, WholeBelow
    <3> QED  BY <3>1, <3>2 DEF Times
  <2>3. new \subseteq Token  BY <1>q, <2>2 DEF Request, Token
  <2>4. \A t \in new : t.kind \in Pair => signed
    BY <1>t, <2>1 DEF Founded
  <2>5. \A t \in issued' : t.kind \in Pair => signed'
    BY <1>t, <2>1, <2>4 DEF PairsAreEarned
  <2>6. issued \subseteq issued' /\ issued' \subseteq Token
    BY <1>t, <2>1, <2>3 DEF TypeOK
  <2>7. FoundedIn(Idle, issued', signed') /\ LastingIn(Idle, now)
    BY DEF FoundedIn, LastingIn, Idle
  <2> QED  BY <2>1, <2>5, <2>6, <2>7, <1>s, IdleTyped, SlotStep
<1>11. CASE Abort(r)  BY <1>11, ToIdle DEF Abort
<1> QED  BY <1>1, <1>2, <1>3, <1>5, <1>6, <1>7, <1>8, <1>9, <1>10, <1>11 DEF Handle

-----------------------------------------------------------------------------
LEMMA InitEstablishes == Init => IInv
<1> SUFFICES ASSUME Init PROVE IInv  OBVIOUS
<1>1. TypeOK
  <2>1. now \in Times /\ black \in [Times -> Nat]  BY DEF Init, Times
  <2>2. account \in [active : BOOLEAN, mfa : BOOLEAN]  BY DEF Init
  <2>3. req \in [Requests -> Request]  BY IdleTyped DEF Init
  <2>4. issued \subseteq Token  BY DEF Init, Token, Kinds, Pair, Times
  <2> QED  BY <2>1, <2>2, <2>3, <2>4 DEF Init, TypeOK
<1>2. Lasting /\ PairsAreEarned /\ Founded
  BY DEF Init, Lasting, PairsAreEarned, Founded, Idle, Times, Pair
<1> QED  BY <1>1, <1>2 DEF IInv

LEMMA TickPreserves ==
  ASSUME IInv, Tick
  PROVE  IInv'
<1>t. TypeOK /\ Lasting /\ PairsAreEarned /\ Founded  BY DEF IInv
<1>1. /\ now \in Nat /\ now' = now + 1 /\ now < MaxTime
      /\ UNCHANGED <<account, issued, black, signed, req>>
  BY <1>t DEF Tick, TypeOK, Times
<1>2. TypeOK'  BY <1>t, <1>1 DEF TypeOK, Times
<1>3. Lasting'
  <2>1. ASSUME NEW s \in Requests, req[s].pc = "store"
        PROVE  req[s].token.kind = "refresh" /\ now + 1 + req[s].ttl >= Exp(req[s].token)
    <3>1. req[s].token.kind = "refresh" /\ now + req[s].ttl >= Exp(req[s].token)
      BY <1>t, <2>1 DEF Lasting
    <3>2. req[s].ttl \in Nat /\ req[s].token \in Token  BY <1>t DEF TypeOK, Request
    <3>3. Exp(req[s].token) \in Nat  BY <3>2, TokenTimes
    <3> QED  BY <1>1, <3>1, <3>2, <3>3
  <2> QED  BY <1>t, <1>1, <2>1 DEF Lasting, Exp
<1>4. PairsAreEarned' /\ Founded'  BY <1>t, <1>1 DEF PairsAreEarned, Founded
<1> QED  BY <1>2, <1>3, <1>4 DEF IInv

LEMMA NextPreserves == IInv /\ [Next]_vars => IInv'
<1> SUFFICES ASSUME IInv, [Next]_vars PROVE IInv'  OBVIOUS
<1>1. CASE Tick  BY <1>1, TickPreserves
<1>2. CASE AccountChanges
  <2>1. /\ account' \in [active : BOOLEAN, mfa : BOOLEAN]
        /\ UNCHANGED <<now, issued, black, signed, req>>
    BY <1>2 DEF AccountChanges
  <2> QED  BY <2>1 DEF IInv, TypeOK, Lasting, Exp, PairsAreEarned, Founded
<1>3. CASE \E r \in Requests : Handle(r)  BY <1>3, HandlePreserves
<1>4. CASE UNCHANGED vars
  BY <1>4 DEF vars, IInv, TypeOK, Lasting, Exp, PairsAreEarned, Founded
<1> QED  BY <1>1, <1>2, <1>3, <1>4 DEF Next

(* Entries outlast their tokens, also those still to be written, and every *)
(* pair of tokens, given or about to be, rests on a sign-in.               *)
THEOREM Invariant == Spec => []IInv
BY InitEstablishes, NextPreserves, PTL DEF Spec

(* mfa.py:7: access and refresh tokens exist only after a sign-in that was *)
(* completed.                                                              *)
THEOREM EveryPairIsEarned == Spec => []PairsAreEarned
<1>1. IInv => PairsAreEarned  BY DEF IInv
<1> QED  BY <1>1, Invariant, PTL

-----------------------------------------------------------------------------
(* A request that has just been let through by Redis found no entry.       *)
LEMMA LetThrough ==
  ASSUME IInv, [Next]_vars, NEW r \in Requests,
         req[r].pc = "idle", req'[r].pc = "decode", req'[r].asked
  PROVE  req'[r].token \in issued /\ ~Blacklisted(req'[r].token)
<1>t. TypeOK  BY DEF IInv
<1>1. req' # req  OBVIOUS
<1>2. PICK s \in Requests : Handle(s)  BY <1>1 DEF Next, Tick, AccountChanges, vars
<1>3. \E q : Set(s, q)
  BY <1>2 DEF Handle, Login, OAuth, Validate, Check, Refresh, Logout, Begin, Decode, LoadUser,
              Revoke, Store, Answer, Abort
<1>4. s = r
  BY <1>3, <1>t DEF Set, TypeOK
<1>5. Refresh(r) \/ Logout(r)
  <2>1. req \in [Requests -> Request]  BY <1>t DEF TypeOK
  <2>2. ~Login(r) /\ ~OAuth(r) /\ ~Validate(r)
    BY <2>1 DEF Login, OAuth, Validate, Begin, Set, Idle
  <2>3. ~Decode(r) /\ ~LoadUser(r) /\ ~Revoke(r) /\ ~Store(r) /\ ~Answer(r) /\ ~Abort(r)
    BY DEF Decode, LoadUser, Revoke, Store, Answer, Abort
  <2> QED  BY <1>2, <1>4, <2>2, <2>3 DEF Handle
<1>6. PICK op \in {"refresh", "logout"}, g \in SUBSET Kinds : Check(r, op, g)
  BY <1>5 DEF Refresh, Logout, Pair, Kinds
<1>7. PICK t \in issued, ok \in BOOLEAN :
        /\ ok => ~Blacklisted(t)
        /\ Begin(r, [Idle EXCEPT !.op = op, !.pc = "decode", !.token = t, !.asked = ok, !.gives = g])
  BY <1>6 DEF Check
<1>8. req'[r] = [Idle EXCEPT !.op = op, !.pc = "decode", !.token = t, !.asked = ok, !.gives = g]
  BY <1>7, <1>t DEF Begin, Set, TypeOK
<1>9. req'[r].token = t /\ req'[r].asked = ok  BY <1>8 DEF Idle
<1> QED  BY <1>7, <1>9

(* auth_service.py:120: a token whose revocation is written is refused by  *)
(* Redis until the second it expires in, whatever the delays between       *)
(* computing the time to live, writing the entry and asking for it.        *)
THEOREM RevocationHolds == Spec => RevokedIsRefused
<1>1. IInv /\ [Next]_vars => [\A r \in Requests : LET t == req'[r].token IN
        (/\ req[r].pc = "idle" /\ req'[r].pc = "decode" /\ req'[r].asked
         /\ t.kind = "refresh" /\ black[t.at] # 0) => now >= Exp(t)]_vars
  <2> SUFFICES ASSUME IInv, [Next]_vars, NEW r \in Requests,
                      req[r].pc = "idle", req'[r].pc = "decode", req'[r].asked,
                      req'[r].token.kind = "refresh", black[req'[r].token.at] # 0
               PROVE  now >= Exp(req'[r].token)
    OBVIOUS
  <2> DEFINE t == req'[r].token
  <2>1. t \in issued /\ ~Blacklisted(t)  BY LetThrough
  <2>2. TypeOK /\ Lasting  BY DEF IInv
  <2>3. t \in Token /\ now \in Nat /\ black \in [Times -> Nat]
    BY <2>1, <2>2 DEF TypeOK, Times
  <2>4. t.at \in Times /\ Exp(t) \in Nat  BY <2>3, TokenTimes
  <2>5. black[t.at] >= Exp(t)  BY <2>2, <2>4 DEF Lasting, Exp
  <2>6. now >= black[t.at]  BY <2>1, <2>3, <2>4 DEF Blacklisted
  <2> QED  BY <2>3, <2>4, <2>5, <2>6
<1> QED  BY <1>1, Invariant, PTL DEF Spec, RevokedIsRefused

=============================================================================
