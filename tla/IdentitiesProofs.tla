---------------------------- MODULE IdentitiesProofs ----------------------------
(***************************************************************************)
(* For any providers, users, addresses and number of overlapping sign-ins: *)
(* an account keeps one real identity, and an identity one account.        *)
(***************************************************************************)
EXTENDS Identities, TLAPS

USE IdentityAssumption

LEMMA IdentityTyped == \A i \in Identities \cup {Local} : i \in Pair /\ i # None
<1>1. Local = [provider |-> Local.provider, pid |-> Local.pid]  BY DEF Local
<1> QED  BY <1>1 DEF Pair

LEMMA LocalIsNobody == Local \notin Identities
BY DEF Local

LEMMA IdleTyped == Idle \in Request /\ Carried(Idle) /\ Unheld(Idle)
BY DEF Idle, Request, Carried, Unheld

LEMMA SetSlot ==
  ASSUME IInv, NEW r \in Requests, NEW p \in Request, Set(r, p)
  PROVE  /\ req' \in [Requests -> Request] /\ req'[r] = p
         /\ \A s \in Requests : s # r => req'[s] = req[s]
BY DEF Set, IInv, TypeOK

(* A step of one request that leaves the accounts alone. *)
LEMMA SlotStep ==
  ASSUME IInv, NEW r \in Requests, NEW p \in Request, Set(r, p),
         UNCHANGED <<account, mail, had>>, home' \in [Identities -> Emails \cup {None}],
         Carried(p), Unheld(p),
         \A s \in Requests : s # r /\ req[s].email = p.email =>
           ~(p.pc = "commit" /\ Writes(p) /\ req[s].pc = "commit" /\ Writes(req[s]))
  PROVE  IInv'
<1>1. /\ req' \in [Requests -> Request] /\ req'[r] = p
      /\ \A s \in Requests : s # r => req'[s] = req[s]
  BY SetSlot
<1>2. account' = account /\ mail' = mail /\ had' = had  OBVIOUS
<1>3. TypeOK' /\ AddressesApart' /\ IdentityIsReal' /\ OneAccountPerIdentity'
  BY <1>1, <1>2 DEF IInv, TypeOK, AddressesApart, IdentityIsReal, OneAccountPerIdentity, Real
<1>4. ASSUME NEW s \in Requests  PROVE Carried(req[s])' /\ Unheld(req[s])'
  <2>1. Carried(req'[s]) /\ Unheld(req'[s])  BY <1>1 DEF IInv
  <2> QED  BY <2>1, <1>2 DEF Carried, Unheld, Real
<1>5. OneWriter'
  BY <1>1 DEF IInv, OneWriter, Writes
<1> QED  BY <1>3, <1>4, <1>5 DEF IInv

LEMMA ToIdle ==
  ASSUME IInv, NEW r \in Requests, Set(r, Idle), UNCHANGED <<account, mail, had>>,
         home' \in [Identities -> Emails \cup {None}]
  PROVE  IInv'
<1>1. Idle.pc # "commit"  BY DEF Idle
<1> QED  BY <1>1, IdleTyped, SlotStep

-----------------------------------------------------------------------------
LEMMA InitEstablishes == Init => IInv
<1> SUFFICES ASSUME Init PROVE IInv  OBVIOUS
<1>1. /\ \A e \in Emails : account[e] = None
      /\ \A i \in Identities : mail[i] = None /\ had[i] = {}
      /\ \A r \in Requests : req[r] = Idle
  BY DEF Init
<1>2. TypeOK
  <2>1. account \in [Emails -> Pair \cup {None}]  BY DEF Init
  <2>2. mail \in [Identities -> Emails \cup {None}]  BY DEF Init
  <2>3. had \in [Identities -> SUBSET Emails]  BY DEF Init
  <2>4. home \in [Identities -> Emails \cup {None}]  BY DEF Init
  <2>5. req \in [Requests -> Request]  BY IdleTyped DEF Init
  <2> QED  BY <2>1, <2>2, <2>3, <2>4, <2>5 DEF TypeOK
<1>3. AddressesApart /\ IdentityIsReal /\ OneAccountPerIdentity
  BY <1>1 DEF AddressesApart, IdentityIsReal, OneAccountPerIdentity
<1>4. OneWriter  BY <1>1 DEF OneWriter, Idle
<1> QED  BY <1>1, <1>2, <1>3, <1>4, IdleTyped DEF IInv

LEMMA MovePreserves ==
  ASSUME IInv, Move
  PROVE  IInv'
<1>1. PICK i \in Identities, e \in Emails :
        /\ MayMove(i, e)
        /\ mail' = [mail EXCEPT ![i] = e]
        /\ had' = [had EXCEPT ![i] = @ \cup {e}]
        /\ UNCHANGED <<account, home, req>>
  BY DEF Move
<1>2. /\ mail'[i] = e /\ had'[i] = had[i] \cup {e}
      /\ \A j \in Identities \ {i} : mail'[j] = mail[j] /\ had'[j] = had[j]
      /\ \A j \in Identities : had[j] \subseteq had'[j]
      /\ account' = account /\ req' = req
  BY <1>1 DEF IInv, TypeOK
<1>3. TypeOK'
  <2>1. mail' \in [Identities -> Emails \cup {None}]  BY <1>1 DEF IInv, TypeOK
  <2>2. had' \in [Identities -> SUBSET Emails]  BY <1>1 DEF IInv, TypeOK
  <2> QED  BY <1>1, <2>1, <2>2 DEF IInv, TypeOK
<1>4. AddressesApart'
  <2>1. \A j \in Identities : mail'[j] # None => mail'[j] \in had'[j]
    BY <1>2 DEF IInv, AddressesApart
  <2>2. \A j, k \in Identities : j # k /\ j.provider = k.provider => had'[j] \cap had'[k] = {}
    BY <1>1, <1>2 DEF IInv, AddressesApart, MayMove
  <2> QED  BY <2>1, <2>2 DEF AddressesApart
<1>5. \A p, d : Real(p, d) => Real(p, d)'  BY <1>2 DEF Real
<1>6. IdentityIsReal' /\ OneAccountPerIdentity' /\ OneWriter'
  BY <1>2, <1>5 DEF IInv, IdentityIsReal, OneAccountPerIdentity, OneWriter, Writes
<1>7. ASSUME NEW s \in Requests  PROVE Carried(req[s])' /\ Unheld(req[s])'
  <2>1. PICK q : q = req[s]  OBVIOUS
  <2>2. q \in Request /\ Carried(q) /\ Unheld(q) /\ q.who # i
    BY <1>1, <2>1 DEF IInv, TypeOK, MayMove
  <2>3. q.who # None => q.who \in Identities \ {i}  BY <2>2 DEF Request
  <2>4. Carried(q)'  BY <1>2, <1>5, <2>2, <2>3 DEF Carried
  <2>5. Unheld(q)'  BY <1>2, <2>2 DEF Unheld
  <2> QED  BY <1>2, <2>1, <2>4, <2>5 DEF Carried, Unheld, Real
<1> QED  BY <1>3, <1>4, <1>6, <1>7 DEF IInv

LEMMA BeginPreserves ==
  ASSUME IInv, NEW r \in Requests, Exchange(r) \/ Register(r)
  PROVE  IInv'
<1>h. home' \in [Identities -> Emails \cup {None}]
  BY DEF IInv, TypeOK, Exchange, Register
<1>1. ASSUME NEW i \in Identities, mail[i] # None,
             Set(r, [Idle EXCEPT !.pc = "identity", !.who = i, !.email = mail[i]]),
             UNCHANGED <<account, mail, had>>
      PROVE  IInv'
  <2>1. PICK p : p = [Idle EXCEPT !.pc = "identity", !.who = i, !.email = mail[i]]  OBVIOUS
  <2>2. mail[i] \in Emails  BY <1>1 DEF IInv, TypeOK
  <2>3. p \in Request  BY <2>1, <2>2 DEF Idle, Request
  <2>4. p.pc = "identity" /\ p.who = i /\ p.email = mail[i]  BY <2>1 DEF Idle
  <2>5. Carried(p) /\ Unheld(p)  BY <2>2, <2>4 DEF Carried, Unheld
  <2> QED  BY <1>1, <1>h, <2>1, <2>3, <2>4, <2>5, SlotStep
<1>2. ASSUME NEW e \in Emails, Set(r, [Idle EXCEPT !.pc = "email", !.email = e]),
             UNCHANGED <<account, mail, had>>
      PROVE  IInv'
  <2>1. PICK p : p = [Idle EXCEPT !.pc = "email", !.email = e]  OBVIOUS
  <2>3. p \in Request  BY <2>1 DEF Idle, Request
  <2>4. p.pc = "email" /\ p.who = None /\ p.email = e  BY <2>1 DEF Idle
  <2>5. Carried(p) /\ Unheld(p)  BY <2>4 DEF Carried, Unheld
  <2> QED  BY <1>2, <1>h, <2>1, <2>3, <2>4, <2>5, SlotStep
<1> QED  BY <1>1, <1>2 DEF Exchange, Register

LEMMA LookForIdentityPreserves ==
  ASSUME IInv, NEW r \in Requests, LookForIdentity(r)
  PROVE  IInv'
<1>0. PICK q : q = req[r]  OBVIOUS
<1>q. q \in Request /\ Carried(q) /\ q.pc = "identity" /\ q.who \in Identities
  BY <1>0 DEF IInv, TypeOK, LookForIdentity, Carried
<1>u. UNCHANGED <<account, mail, had>>  BY DEF LookForIdentity
<1>1. CASE \E e \in Holders(q) :
             /\ home' = IF Holders(q) = {e} THEN [home EXCEPT ![q.who] = e] ELSE home
             /\ Set(r, Idle)
  <2>1. home' \in [Identities -> Emails \cup {None}]
    BY <1>1 DEF IInv, TypeOK, Holders
  <2> QED  BY <1>1, <1>u, <2>1, ToIdle
<1>2. CASE Holders(q) = {} /\ Set(r, [q EXCEPT !.pc = "email"]) /\ UNCHANGED home
  <2>1. PICK p : p = [q EXCEPT !.pc = "email"]  OBVIOUS
  <2>2. p \in Request  BY <1>q, <2>1 DEF Request
  <2>3. p.pc = "email" /\ p.who = q.who /\ p.email = q.email  BY <1>q, <2>1 DEF Request
  <2>4. Carried(p)  BY <1>q, <2>3 DEF Carried
  <2>5. Unheld(p)  BY <1>2, <2>3 DEF Unheld, Holders
  <2>6. home' \in [Identities -> Emails \cup {None}]  BY <1>2 DEF IInv, TypeOK
  <2> QED  BY <1>2, <1>u, <2>1, <2>2, <2>3, <2>4, <2>5, <2>6, SlotStep
<1> QED  BY <1>0, <1>1, <1>2 DEF LookForIdentity

LEMMA LookForEmailPreserves ==
  ASSUME IInv, NEW r \in Requests, LookForEmail(r)
  PROVE  IInv'
<1>0. PICK q : q = req[r]  OBVIOUS
<1>q. /\ q \in Request /\ Carried(q) /\ Unheld(q) /\ q.pc = "email" /\ q.email \in Emails
      /\ q.who \in Identities \cup {None}
  BY <1>0 DEF IInv, TypeOK, LookForEmail, Carried, Request
<1>u. UNCHANGED <<account, mail, had>> /\ home' \in [Identities -> Emails \cup {None}]
  BY DEF LookForEmail, IInv, TypeOK
<1>1. CASE Set(r, Idle)  BY <1>1, <1>u, ToIdle
<1>2. CASE /\ ~(q.who = None /\ account[q.email] # None)
           /\ Set(r, [q EXCEPT !.pc = "flush", !.old = account[q.email], !.new = Linked(q)])
  <2>1. PICK a : a = account[q.email]  OBVIOUS
  <2>2. PICK n : n = Linked(q)  OBVIOUS
  <2>3. PICK p : p = [q EXCEPT !.pc = "flush", !.old = a, !.new = n]  OBVIOUS
  <2>4. a \in Pair \cup {None}  BY <1>q, <2>1 DEF IInv, TypeOK
  <2>5. n \in Pair /\ n = IF q.who = None THEN Local ELSE q.who
    BY <1>q, <2>2, IdentityTyped DEF Linked
  <2>6. p \in Request  BY <1>q, <2>3, <2>4, <2>5 DEF Request
  <2>7. p.pc = "flush" /\ p.who = q.who /\ p.email = q.email /\ p.old = a /\ p.new = n
    BY <1>q, <2>3 DEF Request
  <2>8. a # None => Real(a, q.email)  BY <1>q, <2>1 DEF IInv, IdentityIsReal
  <2>9. Carried(p)  BY <1>2, <1>q, <2>1, <2>5, <2>7, <2>8 DEF Carried
  <2>10. Unheld(p)  BY <1>q, <2>7 DEF Unheld
  <2> QED  BY <1>2, <1>u, <2>1, <2>2, <2>3, <2>6, <2>7, <2>9, <2>10, SlotStep
<1> QED  BY <1>0, <1>1, <1>2 DEF LookForEmail

LEMMA FlushPreserves ==
  ASSUME IInv, NEW r \in Requests, Flush(r)
  PROVE  IInv'
<1>0. PICK q : q = req[r]  OBVIOUS
<1>q. q \in Request /\ Carried(q) /\ Unheld(q) /\ q.pc = "flush"
  BY <1>0 DEF IInv, TypeOK, Flush
<1>u. UNCHANGED <<account, mail, had>> /\ home' \in [Identities -> Emails \cup {None}]
  BY DEF Flush, IInv, TypeOK
<1>1. CASE Set(r, Idle)  BY <1>1, <1>u, ToIdle
<1>2. CASE /\ ~(q.old = None /\ account[q.email] # None)
           /\ Set(r, [q EXCEPT !.pc = "commit"])
  <2>1. PICK p : p = [q EXCEPT !.pc = "commit"]  OBVIOUS
  <2>2. p \in Request  BY <1>q, <2>1 DEF Request
  <2>3. /\ p.pc = "commit" /\ p.who = q.who /\ p.email = q.email
        /\ p.old = q.old /\ p.new = q.new
    BY <1>q, <2>1 DEF Request
  <2>4. Carried(p)  BY <1>2, <1>q, <2>3 DEF Carried
  <2>5. Unheld(p)  BY <1>q, <2>3 DEF Unheld
  <2>6. ASSUME NEW s \in Requests, s # r, req[s].email = p.email
        PROVE  ~(Writes(p) /\ req[s].pc = "commit" /\ Writes(req[s]))
    BY <1>0, <2>3, <2>6 DEF Flush, LockFree, Writes
  <2> QED  BY <1>2, <1>u, <2>1, <2>2, <2>4, <2>5, <2>6, SlotStep
<1> QED  BY <1>0, <1>1, <1>2 DEF Flush

-----------------------------------------------------------------------------
(* What a commit stores: the identity of the request, whole, or the pair   *)
(* that is there already.  Two users of one provider never share an        *)
(* address, so an UPDATE that changes one column changes both.             *)
LEMMA MergedWhole ==
  ASSUME IInv, NEW r \in Requests, req[r].pc = "commit"
  PROVE  /\ req[r].email \in Emails
         /\ \/ Merged(req[r]) = req[r].new
            \/ Merged(req[r]) = account[req[r].email] /\ account[req[r].email] # None
         /\ req[r].new \in Identities \cup {Local}
         /\ Real(req[r].new, req[r].email)
         /\ req[r].new = Local => account[req[r].email] = None
<1>0. PICK q : q = req[r]  OBVIOUS
<1>q. /\ q \in Request /\ Carried(q) /\ q.pc = "commit" /\ q.email \in Emails
      /\ q.who \in Identities \cup {None}
  BY <1>0 DEF IInv, TypeOK, Carried, Request
<1>1. /\ q.new = IF q.who = None THEN Local ELSE q.who
      /\ q.old # None => q.who # None /\ Real(q.old, q.email) /\ account[q.email] # None
      /\ q.old = None => account[q.email] = None
      /\ q.who # None => q.email = mail[q.who]
  BY <1>q DEF Carried
<1>2. Real(q.new, q.email)
  <2>1. q.who # None => q.email \in had[q.who]
    BY <1>1, <1>q DEF IInv, AddressesApart
  <2> QED  BY <1>1, <1>q, <2>1 DEF Real
<1>3. q.new = Local => account[q.email] = None  BY <1>1, <1>q, LocalIsNobody
<1>4. Merged(q) = q.new \/ (Merged(q) = account[q.email] /\ account[q.email] # None)
  <2>1. CASE q.old = None  BY <2>1 DEF Merged
  <2>2. CASE q.old # None
    <3>0. q.new = q.who /\ q.who \in Identities /\ q.email \in had[q.who]
      BY <1>1, <1>q, <2>2 DEF IInv, AddressesApart
    <3>1. account[q.email] \in Pair  BY <1>q, <1>1, <2>2 DEF IInv, TypeOK
    <3>2. CASE q.old = Local
      <4>1. q.old.provider = "local" /\ q.old.pid = None  BY <3>2 DEF Local
      <4>2. q.new.provider # q.old.provider /\ q.new.pid # q.old.pid  BY <3>0, <4>1
      <4>3. Merged(q) = [provider |-> q.new.provider, pid |-> q.new.pid]
        BY <2>2, <4>2 DEF Merged
      <4> QED  BY <3>0, <4>3
    <3>3. ASSUME NEW i \in Identities, q.old = i, q.email \in had[i], i # q.new
          PROVE  Merged(q) = q.new
      <4>1. i.provider # q.new.provider  BY <3>0, <3>3 DEF IInv, AddressesApart
      <4>2. i.pid # q.new.pid  BY <3>0, <3>3
      <4>3. Merged(q) = [provider |-> q.new.provider, pid |-> q.new.pid]
        BY <2>2, <3>3, <4>1, <4>2 DEF Merged
      <4> QED  BY <3>0, <4>3
    <3>4. CASE q.old = q.new
      <4>1. Merged(q) = [provider |-> account[q.email].provider, pid |-> account[q.email].pid]
        BY <2>2, <3>4 DEF Merged
      <4> QED  BY <3>1, <4>1, <1>1, <2>2 DEF Pair
    <3> QED  BY <1>1, <2>2, <3>2, <3>3, <3>4 DEF Real
  <2> QED  BY <2>1, <2>2
<1>5. q.new \in Identities \cup {Local}  BY <1>1, <1>q
<1> QED  BY <1>0, <1>q, <1>2, <1>3, <1>4, <1>5

LEMMA CommitPreserves ==
  ASSUME IInv, NEW r \in Requests, Commit(r)
  PROVE  IInv'
<1>0. PICK q : q = req[r]  OBVIOUS
<1>c. /\ q.pc = "commit" /\ account' = [account EXCEPT ![q.email] = Merged(q)]
      /\ Set(r, Idle) /\ mail' = mail /\ had' = had
      /\ home' = IF q.who = None THEN home ELSE [home EXCEPT ![q.who] = q.email]
  BY <1>0 DEF Commit
<1>q. q \in Request /\ Carried(q) /\ Unheld(q)  BY <1>0 DEF IInv, TypeOK
<1>m. /\ q.email \in Emails
      /\ Merged(q) = q.new \/ (Merged(q) = account[q.email] /\ account[q.email] # None)
      /\ q.new \in Identities \cup {Local} /\ Real(q.new, q.email)
      /\ q.new = Local => account[q.email] = None
  BY <1>0, <1>c, MergedWhole
<1>w. q.new = IF q.who = None THEN Local ELSE q.who  BY <1>c, <1>q DEF Carried
<1>1. /\ req' \in [Requests -> Request] /\ req'[r] = Idle
      /\ \A s \in Requests : s # r => req'[s] = req[s]
  BY <1>c, IdleTyped, SetSlot
<1>2. /\ account'[q.email] = q.new \/ (account' = account /\ account[q.email] # None)
      /\ account'[q.email] # None
      /\ \A e \in Emails : e # q.email => account'[e] = account[e]
  <2>1. account \in [Emails -> Pair \cup {None}]  BY DEF IInv, TypeOK
  <2>2. account'[q.email] = Merged(q)  BY <1>c, <1>m, <2>1
  <2>3. Merged(q) = account[q.email] => account' = account  BY <1>c, <2>1
  <2> QED  BY <1>c, <1>m, <2>1, <2>2, <2>3, IdentityTyped
<1>3. TypeOK'
  <2>1. Merged(q) \in Pair
    <3>1. q.new \in Pair  BY <1>m, IdentityTyped
    <3> QED  BY <1>m, <3>1 DEF IInv, TypeOK
  <2>2. account' \in [Emails -> Pair \cup {None}]  BY <1>c, <2>1 DEF IInv, TypeOK
  <2>3. home' \in [Identities -> Emails \cup {None}]
    BY <1>c, <1>m, <1>q DEF IInv, TypeOK, Request
  <2> QED  BY <1>c, <1>1, <2>2, <2>3 DEF IInv, TypeOK
<1>4. AddressesApart'  BY <1>c DEF IInv, AddressesApart
<1>5. IdentityIsReal'
  BY <1>c, <1>2, <1>m DEF IInv, IdentityIsReal, Real
<1>6. OneAccountPerIdentity'
  <2>1. CASE account' = account  BY <2>1 DEF IInv, OneAccountPerIdentity
  <2>2. CASE account'[q.email] = q.new
    <3>1. q.new # Local => \A e \in Emails : account[e] = q.new => e = q.email
      BY <1>c, <1>q, <1>w DEF Unheld
    <3> QED  BY <1>2, <2>2, <3>1 DEF IInv, OneAccountPerIdentity
  <2> QED  BY <1>2, <2>1, <2>2
<1>7. OneWriter'  BY <1>1 DEF IInv, OneWriter, Writes, Idle
<1>8. ASSUME NEW s \in Requests  PROVE Carried(req[s])' /\ Unheld(req[s])'
  <2>1. CASE s = r
    BY <1>1, <2>1 DEF Carried, Unheld, Idle
  <2>2. CASE s # r
    <3>0. PICK t : t = req[s]  OBVIOUS
    <3>1. req'[s] = t /\ t \in Request /\ Carried(t) /\ Unheld(t)
      BY <1>1, <2>2, <3>0 DEF IInv, TypeOK
    <3>2. \A e \in Emails : account[e] # None => account'[e] # None  BY <1>2
    <3>3. ASSUME t.pc = "commit", t.old = None  PROVE account'[t.email] = None
      <4>1. account[t.email] = None /\ t.new # None /\ t.email \in Emails
        <5>1. t.new = IF t.who = None THEN Local ELSE t.who  BY <3>1, <3>3 DEF Carried
        <5>2. t.who \in Identities \cup {None}  BY <3>1 DEF Request
        <5> QED  BY <3>1, <3>3, <5>1, <5>2, IdentityTyped DEF Carried
      <4>2. CASE t.email # q.email  BY <4>1, <4>2, <1>2
      <4>3. CASE t.email = q.email
        <5>1. q.old = None  BY <1>c, <1>q, <4>1, <4>3 DEF Carried
        <5>2. q.new # None  BY <1>m, IdentityTyped
        <5>3. Writes(q) /\ Writes(t)  BY <3>3, <4>1, <5>1, <5>2 DEF Writes
        <5> QED  BY <1>0, <1>c, <2>2, <3>0, <3>3, <4>3, <5>3 DEF IInv, OneWriter
      <4> QED  BY <4>2, <4>3
    <3>4. Carried(t)'  BY <1>c, <3>1, <3>2, <3>3 DEF Carried, Real
    <3>5. Unheld(t)'
      <4>1. SUFFICES ASSUME t.who # None, t.pc \in {"email", "flush", "commit"},
                            NEW e \in Emails, account'[e] = t.who
                     PROVE  e = t.email
        BY DEF Unheld
      <4>2. CASE account[e] = t.who  BY <3>1, <4>1, <4>2 DEF Unheld
      <4>3. CASE account[e] # t.who
        <5>1. e = q.email /\ q.new = t.who  BY <1>2, <4>1, <4>3
        <5>2. t.who \in Identities  BY <3>1, <4>1 DEF Request
        <5>3. q.who = t.who  BY <1>w, <5>1, <5>2, LocalIsNobody
        <5> QED  BY <1>q, <3>1, <4>1, <5>1, <5>3 DEF Carried
      <4> QED  BY <4>2, <4>3
    <3> QED  BY <3>1, <3>4, <3>5 DEF Carried, Unheld, Real
  <2> QED  BY <2>1, <2>2
<1> QED  BY <1>3, <1>4, <1>5, <1>6, <1>7, <1>8 DEF IInv

LEMMA NextPreserves == IInv /\ [Next]_vars => IInv'
<1> SUFFICES ASSUME IInv, [Next]_vars PROVE IInv'  OBVIOUS
<1>1. CASE Move  BY <1>1, MovePreserves
<1>2. ASSUME NEW r \in Requests, Handle(r)  PROVE IInv'
  <2>1. CASE Abort(r)
    <3>1. home' \in [Identities -> Emails \cup {None}]  BY <2>1 DEF Abort, IInv, TypeOK
    <3> QED  BY <2>1, <3>1, ToIdle DEF Abort
  <2> QED  BY <1>2, <2>1, BeginPreserves, LookForIdentityPreserves, LookForEmailPreserves,
             FlushPreserves, CommitPreserves DEF Handle
<1>3. CASE UNCHANGED vars
  BY <1>3 DEF vars, IInv, TypeOK, AddressesApart, IdentityIsReal, OneAccountPerIdentity,
       OneWriter, Writes, Carried, Unheld, Real
<1> QED  BY <1>1, <1>2, <1>3 DEF Next

(* What a callback found out stays true enough until its commit            *)
(* (auth_service.py:190-214).                                              *)
THEOREM SignInsSound == Spec => []IInv
BY InitEstablishes, NextPreserves, PTL DEF Spec

(* auth_service.py:195: the pair of an account is one user of one provider *)
(* who had its address, whoever signs in at the same time.                 *)
THEOREM PairsAreWhole == Spec => []IdentityIsReal
<1>1. IInv => IdentityIsReal  BY DEF IInv
<1> QED  BY <1>1, SignInsSound, PTL

(* user_repo.py:34: get_by_oauth finds one account at most. *)
THEOREM IdentitiesApart == Spec => []OneAccountPerIdentity
<1>1. IInv => OneAccountPerIdentity  BY DEF IInv
<1> QED  BY <1>1, SignInsSound, PTL

-----------------------------------------------------------------------------
(* auth_service.py:190: an identity returns to its account. *)
THEOREM IdentitiesReturn == Spec => SameAccount
<1>1. IInv /\ [Next]_vars => [\A i \in Identities :
        home[i] # None /\ home'[i] # home[i] => account[home[i]] # i]_vars
  <2> SUFFICES ASSUME IInv, [Next]_vars, NEW i \in Identities,
                      home[i] # None, home'[i] # home[i], account[home[i]] = i
               PROVE  FALSE
    OBVIOUS
  <2>0. home \in [Identities -> Emails \cup {None}] /\ home[i] \in Emails
    BY DEF IInv, TypeOK
  <2>1. PICK r \in Requests : LookForIdentity(r) \/ Commit(r)
    BY DEF Next, Move, Handle, Exchange, Register, LookForEmail, Flush, Abort, vars
  <2>2. CASE LookForIdentity(r)
    <3>1. PICK e \in Holders(req[r]) :
            home' = IF Holders(req[r]) = {e} THEN [home EXCEPT ![req[r].who] = e] ELSE home
      BY <2>2 DEF LookForIdentity
    <3>2. req[r].who = i /\ home'[i] = e /\ Holders(req[r]) = {e}
      BY <2>0, <3>1
    <3>3. home[i] \in Holders(req[r])  BY <2>0, <3>2 DEF Holders
    <3> QED  BY <3>2, <3>3
  <2>3. CASE Commit(r)
    <3>1. req[r].pc = "commit" /\ req[r].who = i /\ home'[i] = req[r].email
      BY <2>0, <2>3 DEF Commit
    <3>2. Unheld(req[r]) /\ req[r].who # None  BY <3>1, IdentityTyped DEF IInv
    <3> QED  BY <2>0, <3>1, <3>2 DEF Unheld
  <2> QED  BY <2>1, <2>2, <2>3
<1> QED  BY <1>1, SignInsSound, PTL DEF Spec, SameAccount

(* auth_service.py:199: a registration never takes an identity away. *)
THEOREM LinksLast == Spec => LinkStays
<1>1. IInv /\ [Next]_vars => [\A e \in Emails :
        /\ account[e] # None => account'[e] # None
        /\ account[e] \notin {None, Local} => account'[e] # Local]_vars
  <2> SUFFICES ASSUME IInv, [Next]_vars, account' # account, NEW e \in Emails
               PROVE  /\ account[e] # None => account'[e] # None
                      /\ account[e] \notin {None, Local} => account'[e] # Local
    BY DEF vars
  <2>1. PICK r \in Requests : Commit(r)
    BY DEF Next, Move, Handle, Exchange, Register, LookForIdentity, LookForEmail,
         Flush, Abort, vars
  <2>2. PICK q : q = req[r]  OBVIOUS
  <2>3. /\ q.email \in Emails
        /\ Merged(q) = q.new \/ (Merged(q) = account[q.email] /\ account[q.email] # None)
        /\ q.new \in Identities \cup {Local}
        /\ q.new = Local => account[q.email] = None
    BY <2>1, <2>2, MergedWhole DEF Commit
  <2>4. account' = [account EXCEPT ![q.email] = Merged(q)]  BY <2>1, <2>2 DEF Commit
  <2>5. account \in [Emails -> Pair \cup {None}]  BY DEF IInv, TypeOK
  <2> QED  BY <2>3, <2>4, <2>5, IdentityTyped
<1> QED  BY <1>1, SignInsSound, PTL DEF Spec, LinkStays

=============================================================================
