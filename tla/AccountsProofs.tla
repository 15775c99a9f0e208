---------------------------- MODULE AccountsProofs ----------------------------
(***************************************************************************)
(* Proofs about Accounts.tla for any number of overlapping requests: the    *)
(* invariant of every interleaving and the disjointness of the columns.     *)
(* With one slot for requests: what the handlers' checks are for.           *)
(***************************************************************************)
EXTENDS Accounts, TLAPS

(* A handler's result for a row, when nothing of the request is remembered. *)
LEMMA SetRequest ==
  ASSUME TypeOK, NEW r \in Requests, NEW q \in Request,
         req' = [req EXCEPT ![r] = q]
  PROVE  /\ req' \in [Requests -> Request]
         /\ req'[r] = q
         /\ \A s \in Requests : s # r => req'[s] = req[s]
  BY DEF TypeOK

LEMMA IdleTyped == Idle \in Request /\ Blank \in Row
  BY DEF Idle, Blank, Request, Row, Keys

(* The properties of a request in progress that no other request can touch. *)
Own(q) == Rising(q) /\ Confined(q) /\ Grounded(q)

Base == IInv /\ \A r \in Requests : Grounded(req[r])

(* What every handler does, whatever columns it assigns. *)
LEMMA HandledStep ==
  ASSUME Base, NEW r \in Requests, NEW op \in Ops, NEW key \in Keys,
         NEW old \in Row, NEW new \in Row,
         Handled(r, op, key, old, new),
         Own([op |-> op, pc |-> "flush", key |-> key, old |-> old, new |-> new])
  PROVE  Base'
<1> DEFINE q == [op |-> op, pc |-> "flush", key |-> key, old |-> old, new |-> new]
<1>1. q \in Request
  BY DEF Request
<1>2. /\ req' \in [Requests -> Request] /\ req'[r] = q
      /\ \A s \in Requests : s # r => req'[s] = req[s]
  BY <1>1, SetRequest DEF Handled, Base, IInv
<1>3. TypeOK'
  BY <1>2 DEF Base, IInv, TypeOK, Handled
<1>4. VerifiedOrPending'
  BY DEF Base, IInv, Handled, VerifiedOrPending
<1>5. OneWriter'
  <2>1. q.pc = "flush"
    OBVIOUS
  <2> QED BY <1>2, <2>1 DEF Base, IInv, OneWriter
<1>6. ASSUME NEW s \in Requests
      PROVE  (Rising(req[s]) /\ Confined(req[s]) /\ Grounded(req[s]))'
  <2>1. user' = user
    BY DEF Handled
  <2>2. CASE s = r
    BY <1>2, <2>1, <2>2 DEF Own, Rising, Confined, Grounded, Creates
  <2>3. CASE s # r
    BY <1>2, <2>1, <2>3 DEF Base, IInv, Rising, Confined, Grounded, Creates
  <2> QED BY <2>2, <2>3
<1> QED BY <1>3, <1>4, <1>5, <1>6 DEF Base, IInv

-----------------------------------------------------------------------------
(* One step per endpoint: the handler's assignments, column by column. *)
LEMMA HandleStep ==
  ASSUME Base, NEW r \in Requests, Handle(r)
  PROVE  Base'
<1>0. /\ user # None => user \in Row
      /\ Blank \in Row
      /\ user # None => user.verified \/ user.vtoken # None
  BY IdleTyped DEF Base, IInv, TypeOK, VerifiedOrPending
<1>1. CASE Register(r)
  <2>1. PICK p \in Passwords, t \in Tokens :
        /\ Inserts(r, "register", [Blank EXCEPT !.password = p, !.vtoken = t])
    BY <1>1 DEF Register
  <2> DEFINE new == [Blank EXCEPT !.password = p, !.vtoken = t]
  <2>2. Handled(r, "register", None, Blank, new)
    BY <2>1 DEF Inserts, Changes
  <2>3. new \in Row /\ Blank \in Row /\ None \in Keys /\ "register" \in Ops
    BY <1>0, <2>1 DEF Register, Row, Keys, Ops, Blank, Inserts
  <2>4. Own([op |-> "register", pc |-> "flush", key |-> None, old |-> Blank, new |-> new])
    BY <1>0, <2>1, <2>3, AccountAssumption
       DEF Register, Own, Rising, Confined, Grounded, Creates, Columns, Assigns, Row, Blank
  <2> HIDE DEF new
  <2> QED BY <2>2, <2>3, <2>4, HandledStep
<1>2. CASE Join(r)
  <2>1. PICK i \in Identities : Inserts(r, "join", [Blank EXCEPT !.oauth = i, !.verified = TRUE])
    BY <1>2 DEF Join
  <2> DEFINE new == [Blank EXCEPT !.oauth = i, !.verified = TRUE]
  <2>2. Handled(r, "join", None, Blank, new)
    BY <2>1 DEF Inserts, Changes
  <2>3. new \in Row /\ Blank \in Row /\ None \in Keys /\ "join" \in Ops
    BY <1>0, <2>1 DEF Join, Row, Keys, Ops, Blank, Inserts
  <2>4. Own([op |-> "join", pc |-> "flush", key |-> None, old |-> Blank, new |-> new])
    BY <1>0, <2>1, <2>3, AccountAssumption
       DEF Join, Own, Rising, Confined, Grounded, Creates, Columns, Assigns, Row, Blank
  <2> HIDE DEF new
  <2> QED BY <2>2, <2>3, <2>4, HandledStep
<1>3. CASE Link(r)
  <2>1. PICK i \in Identities :
        /\ user # None
        /\ Changes(r, "link", None, [user EXCEPT !.oauth = i, !.verified = TRUE])
    BY <1>3 DEF Link
  <2> DEFINE new == [user EXCEPT !.oauth = i, !.verified = TRUE]
  <2>2. Handled(r, "link", None, user, new)
    BY <2>1 DEF Inserts, Changes
  <2>3. new \in Row /\ user \in Row /\ None \in Keys /\ "link" \in Ops
    BY <1>0, <2>1 DEF Link, Row, Keys, Ops, Blank, Inserts
  <2>4. DOMAIN user = Columns
    BY <1>0, <2>1 DEF Link, Row, Columns
  <2>5. /\ new.oauth = i /\ new.verified = TRUE
        /\ \A c \in Columns : c \notin {"oauth", "verified"} => new[c] = user[c]
    BY <1>0, <2>1, <2>3, <2>4 DEF Link, Columns
  <2>6. user # None
    BY <2>1 DEF Link
  <2> HIDE DEF new
  <2>8. Own([op |-> "link", pc |-> "flush", key |-> None, old |-> user, new |-> new])
    BY <1>0, <2>3, <2>5, <2>6 DEF Own, Rising, Confined, Grounded, Creates, Columns, Assigns, Row
  <2> QED BY <2>2, <2>3, <2>8, HandledStep
<1>4. CASE VerifyEmail(r)
  <2>1. VerifyEmail(r)
    BY <1>4
  <2> DEFINE new == Verified(user)
  <2>2. Handled(r, "verify_email", user.vtoken, user, new)
    BY <2>1 DEF VerifyEmail, Verified, Inserts, Changes
  <2>3. new \in Row /\ user \in Row /\ user.vtoken \in Keys /\ "verify_email" \in Ops
    BY <1>0, <2>1 DEF VerifyEmail, Verified, Row, Keys, Ops, Blank, Inserts
  <2>4. DOMAIN user = Columns
    BY <1>0, <2>1 DEF VerifyEmail, Verified, Row, Columns
  <2>5. /\ new.verified = TRUE /\ new.vtoken = None
        /\ \A c \in Columns : c \notin {"verified", "vtoken"} => new[c] = user[c]
    BY <1>0, <2>1, <2>3, <2>4 DEF VerifyEmail, Verified, Columns
  <2>6. user # None
    BY <2>1 DEF VerifyEmail, Verified
  <2> HIDE DEF new
  <2>8. Own([op |-> "verify_email", pc |-> "flush", key |-> user.vtoken, old |-> user, new |-> new])
    BY <1>0, <2>3, <2>5, <2>6 DEF Own, Rising, Confined, Grounded, Creates, Columns, Assigns, Row
  <2> QED BY <2>2, <2>3, <2>8, HandledStep
<1>5. CASE RequestReset(r)
  <2>1. PICK t \in Tokens : user # None /\ Changes(r, "forgot", None, [user EXCEPT !.rtoken = t])
    BY <1>5 DEF RequestReset
  <2> DEFINE new == [user EXCEPT !.rtoken = t]
  <2>2. Handled(r, "forgot", None, user, new)
    BY <2>1 DEF Inserts, Changes
  <2>3. new \in Row /\ user \in Row /\ None \in Keys /\ "forgot" \in Ops
    BY <1>0, <2>1 DEF RequestReset, Row, Keys, Ops, Blank, Inserts
  <2>4. Own([op |-> "forgot", pc |-> "flush", key |-> None, old |-> user, new |-> new])
    BY <1>0, <2>1, <2>3, AccountAssumption
       DEF RequestReset, Own, Rising, Confined, Grounded, Creates, Columns, Assigns, Row, Blank
  <2> HIDE DEF new
  <2> QED BY <2>2, <2>3, <2>4, HandledStep
<1>6. CASE ResetPassword(r)
  <2>1. PICK p \in Passwords :
        /\ user # None
        /\ user.rtoken # None
        /\ Changes(r, "reset", user.rtoken, ResetTo(p))
    BY <1>6 DEF ResetPassword, ResetTo
  <2> DEFINE new == ResetTo(p)
  <2>2. Handled(r, "reset", user.rtoken, user, new)
    BY <2>1 DEF Inserts, Changes
  <2>3. new \in Row /\ user \in Row /\ user.rtoken \in Keys /\ "reset" \in Ops
    BY <1>0, <2>1 DEF ResetPassword, ResetTo, Row, Keys, Ops, Blank, Inserts
  <2>4. DOMAIN user = Columns
    BY <1>0, <2>1 DEF ResetPassword, ResetTo, Row, Columns
  <2>5. /\ new.password = p /\ new.rtoken = None
        /\ \A c \in Columns : c \notin {"password", "rtoken"} => new[c] = user[c]
    BY <1>0, <2>1, <2>3, <2>4 DEF ResetPassword, ResetTo, Columns
  <2>6. user # None
    BY <2>1 DEF ResetPassword, ResetTo
  <2>7. user.rtoken # None
    BY <2>1 DEF ResetPassword, ResetTo
  <2> HIDE DEF new
  <2>8. Own([op |-> "reset", pc |-> "flush", key |-> user.rtoken, old |-> user, new |-> new])
    BY <1>0, <2>3, <2>5, <2>6, <2>7
       DEF Own, Rising, Confined, Grounded, Creates, Columns, Assigns, Row
  <2> QED BY <2>2, <2>3, <2>8, HandledStep
<1>7. CASE ChangePassword(r)
  <2>1. PICK p \in Passwords, n \in Passwords :
        /\ user # None
        /\ MayChange(p)
        /\ Changes(r, "change", p, [user EXCEPT !.password = n])
    BY <1>7 DEF ChangePassword, MayChange
  <2> DEFINE new == [user EXCEPT !.password = n]
  <2>2. Handled(r, "change", p, user, new)
    BY <2>1 DEF Inserts, Changes
  <2>3. new \in Row /\ user \in Row /\ p \in Keys /\ "change" \in Ops
    BY <1>0, <2>1 DEF ChangePassword, MayChange, Row, Keys, Ops, Blank, Inserts
  <2>4. Own([op |-> "change", pc |-> "flush", key |-> p, old |-> user, new |-> new])
    BY <1>0, <2>1, <2>3, AccountAssumption
       DEF ChangePassword, MayChange, Own, Rising, Confined, Grounded, Creates, Columns, Assigns,
           Row, Blank
  <2> HIDE DEF new
  <2> QED BY <2>2, <2>3, <2>4, HandledStep
<1>8. CASE Deactivate(r)
  <2>1. Deactivate(r)
    BY <1>8
  <2> DEFINE new == [user EXCEPT !.active = FALSE]
  <2>2. Handled(r, "deactivate", None, user, new)
    BY <2>1 DEF Deactivate, Inserts, Changes
  <2>3. new \in Row /\ user \in Row /\ None \in Keys /\ "deactivate" \in Ops
    BY <1>0, <2>1 DEF Deactivate, Row, Keys, Ops, Blank, Inserts
  <2>4. Own([op |-> "deactivate", pc |-> "flush", key |-> None, old |-> user, new |-> new])
    BY <1>0, <2>1, <2>3, AccountAssumption
       DEF Deactivate, Own, Rising, Confined, Grounded, Creates, Columns, Assigns, Row, Blank
  <2> HIDE DEF new
  <2> QED BY <2>2, <2>3, <2>4, HandledStep
<1>9. CASE Activate(r)
  <2>1. Activate(r)
    BY <1>9
  <2> DEFINE new == [user EXCEPT !.active = TRUE]
  <2>2. Handled(r, "activate", None, user, new)
    BY <2>1 DEF Activate, Inserts, Changes
  <2>3. new \in Row /\ user \in Row /\ None \in Keys /\ "activate" \in Ops
    BY <1>0, <2>1 DEF Activate, Row, Keys, Ops, Blank, Inserts
  <2>4. Own([op |-> "activate", pc |-> "flush", key |-> None, old |-> user, new |-> new])
    BY <1>0, <2>1, <2>3, AccountAssumption
       DEF Activate, Own, Rising, Confined, Grounded, Creates, Columns, Assigns, Row, Blank
  <2> HIDE DEF new
  <2> QED BY <2>2, <2>3, <2>4, HandledStep
<1>10. CASE SetupMfa(r)
  <2>1. PICK n \in Secrets :
        /\ user # None
        /\ MaySetup
        /\ Changes(r, "mfa_setup", None, [user EXCEPT !.secret = n])
    BY <1>10 DEF SetupMfa, MaySetup
  <2> DEFINE new == [user EXCEPT !.secret = n]
  <2>2. Handled(r, "mfa_setup", None, user, new)
    BY <2>1 DEF Inserts, Changes
  <2>3. new \in Row /\ user \in Row /\ None \in Keys /\ "mfa_setup" \in Ops
    BY <1>0, <2>1 DEF SetupMfa, MaySetup, Row, Keys, Ops, Blank, Inserts
  <2>4. Own([op |-> "mfa_setup", pc |-> "flush", key |-> None, old |-> user, new |-> new])
    BY <1>0, <2>1, <2>3, AccountAssumption
       DEF SetupMfa, MaySetup, Own, Rising, Confined, Grounded, Creates, Columns, Assigns, Row,
           Blank
  <2> HIDE DEF new
  <2> QED BY <2>2, <2>3, <2>4, HandledStep
<1>11. CASE VerifyMfa(r)
  <2>1. VerifyMfa(r)
    BY <1>11
  <2> DEFINE new == [user EXCEPT !.mfa = TRUE]
  <2>2. Handled(r, "mfa_verify", user.secret, user, new)
    BY <2>1 DEF VerifyMfa, Inserts, Changes
  <2>3. new \in Row /\ user \in Row /\ user.secret \in Keys /\ "mfa_verify" \in Ops
    BY <1>0, <2>1 DEF VerifyMfa, Row, Keys, Ops, Blank, Inserts
  <2>4. Own([op |-> "mfa_verify", pc |-> "flush", key |-> user.secret, old |-> user, new |-> new])
    BY <1>0, <2>1, <2>3, AccountAssumption
       DEF VerifyMfa, Own, Rising, Confined, Grounded, Creates, Columns, Assigns, Row, Blank
  <2> HIDE DEF new
  <2> QED BY <2>2, <2>3, <2>4, HandledStep
<1>12. CASE DisableMfa(r)
  <2>1. PICK n \in Secrets :
        /\ user # None
        /\ MayDisable(n)
        /\ Changes(r, "mfa_disable", n, Disabled)
    BY <1>12 DEF DisableMfa, MayDisable, Disabled
  <2> DEFINE new == Disabled
  <2>2. Handled(r, "mfa_disable", n, user, new)
    BY <2>1 DEF Inserts, Changes
  <2>3. new \in Row /\ user \in Row /\ n \in Keys /\ "mfa_disable" \in Ops
    BY <1>0, <2>1 DEF DisableMfa, MayDisable, Disabled, Row, Keys, Ops, Blank, Inserts
  <2>4. DOMAIN user = Columns
    BY <1>0, <2>1 DEF DisableMfa, MayDisable, Disabled, Row, Columns
  <2>5. /\ new.mfa = FALSE /\ new.secret = None
        /\ \A c \in Columns : c \notin {"mfa", "secret"} => new[c] = user[c]
    BY <1>0, <2>1, <2>3, <2>4 DEF DisableMfa, MayDisable, Disabled, Columns
  <2>6. user # None
    BY <2>1 DEF DisableMfa, MayDisable, Disabled
  <2>7. n = user.secret
    BY <2>1 DEF DisableMfa, MayDisable, Disabled
  <2> HIDE DEF new
  <2>8. Own([op |-> "mfa_disable", pc |-> "flush", key |-> n, old |-> user, new |-> new])
    BY <1>0, <2>3, <2>5, <2>6, <2>7
       DEF Own, Rising, Confined, Grounded, Creates, Columns, Assigns, Row
  <2> QED BY <2>2, <2>3, <2>8, HandledStep
<1> QED BY <1>1, <1>2, <1>3, <1>4, <1>5, <1>6, <1>7, <1>8, <1>9, <1>10, <1>11, <1>12 DEF Handle

-----------------------------------------------------------------------------
(* A request gives up its locks and is forgotten. *)
LEMMA AbortStep ==
  ASSUME Base, NEW r \in Requests, req' = [req EXCEPT ![r] = Idle], UNCHANGED <<user, aged>>
  PROVE  Base'
<1>1. Idle \in Request /\ Idle.pc = "idle"
  BY IdleTyped DEF Idle
<1>2. /\ req' \in [Requests -> Request] /\ req'[r] = Idle
      /\ \A s \in Requests : s # r => req'[s] = req[s]
  BY <1>1, SetRequest DEF Base, IInv
<1> QED
  BY <1>1, <1>2 DEF Base, IInv, TypeOK, VerifiedOrPending, OneWriter, Rising, Confined,
                    Grounded, Creates

LEMMA FlushStep ==
  ASSUME Base, NEW r \in Requests, Flush(r)
  PROVE  Base'
<1>1. CASE Creates(req[r]) /\ user # None
  BY <1>1, AbortStep DEF Flush
<1>2. CASE ~(Creates(req[r]) /\ user # None)
  <2>1. req[r] \in Request
    BY DEF Base, IInv, TypeOK
  <2>2. PICK q : q = [req[r] EXCEPT !.pc = "commit"]
    OBVIOUS
  <2>3. /\ q \in Request /\ q.pc = "commit" /\ q.op = req[r].op /\ q.key = req[r].key
        /\ q.old = req[r].old /\ q.new = req[r].new
    BY <2>1, <2>2 DEF Request
  <2>4. /\ req' \in [Requests -> Request] /\ req'[r] = q
        /\ \A s \in Requests : s # r => req'[s] = req[s]
    BY <1>2, <2>2, <2>3, SetRequest DEF Flush, Base, IInv
  <2>5. \A s \in Requests : req[s].pc # "commit"
    BY DEF Flush
  <2>6. TypeOK' /\ VerifiedOrPending' /\ OneWriter'
    BY <2>4, <2>5 DEF Flush, Base, IInv, TypeOK, VerifiedOrPending, OneWriter
  <2>7. ASSUME NEW s \in Requests
        PROVE  (Rising(req[s]) /\ Confined(req[s]) /\ Grounded(req[s]))'
    <3>1. Rising(req[s]) /\ Confined(req[s]) /\ Grounded(req[s]) /\ UNCHANGED user
      BY DEF Base, IInv, Flush
    <3>2. CASE s = r
      BY <1>2, <2>3, <2>4, <3>1, <3>2 DEF Flush, Rising, Confined, Grounded, Creates
    <3>3. CASE s # r
      BY <2>4, <3>1, <3>3 DEF Rising, Confined, Grounded, Creates
    <3> QED BY <3>2, <3>3
  <2> QED BY <2>6, <2>7 DEF Base, IInv
<1> QED BY <1>1, <1>2

(* What a commit makes of the row. *)
LEMMA MergedRow ==
  ASSUME Base, NEW r \in Requests, req[r].pc = "commit"
  PROVE  /\ Merged(req[r]) \in Row
         /\ \A c \in Columns : Merged(req[r])[c] = Written(req[r], c)
<1>1. req[r] \in Request /\ (user = None \/ user \in Row)
  BY DEF Base, IInv, TypeOK
<1>2. ~Creates(req[r]) => user \in Row
  BY <1>1 DEF Base, IInv, Rising
<1>3. req[r].new \in Row /\ req[r].old \in Row
  BY <1>1 DEF Request
<1>4. /\ Written(req[r], "active") \in BOOLEAN
      /\ Written(req[r], "verified") \in BOOLEAN
      /\ Written(req[r], "mfa") \in BOOLEAN
      /\ Written(req[r], "password") \in Passwords \cup {None}
      /\ Written(req[r], "vtoken") \in Tokens \cup {None}
      /\ Written(req[r], "rtoken") \in Tokens \cup {None}
      /\ Written(req[r], "oauth") \in Identities \cup {None}
      /\ Written(req[r], "secret") \in Secrets \cup {None}
  BY <1>2, <1>3 DEF Written, Row
<1> QED BY <1>4 DEF Merged, Row, Columns

LEMMA CommitStep ==
  ASSUME Base, NEW r \in Requests, Commit(r)
  PROVE  Base'
<1>1. Idle \in Request /\ Idle.pc = "idle"
  BY IdleTyped DEF Idle
<1>2. /\ req' \in [Requests -> Request] /\ req'[r] = Idle
      /\ \A s \in Requests : s # r => req'[s] = req[s]
  BY <1>1, SetRequest DEF Base, IInv, Commit
<1>3. PICK q : q = req[r]
  OBVIOUS
<1>4. /\ q \in Request /\ q.pc = "commit" /\ Rising(q) /\ Confined(q)
      /\ (user = None \/ user \in Row) /\ VerifiedOrPending
  BY <1>3 DEF Base, IInv, TypeOK, Commit
<1>5. /\ user' \in Row
      /\ \A c \in Columns : user'[c] = Written(q, c)
  BY <1>3, MergedRow DEF Commit
<1>6. user' # None
  BY <1>5, AccountAssumption
<1>7. /\ user'.verified = Written(q, "verified") /\ user'.vtoken = Written(q, "vtoken")
      /\ q.new \in Row /\ q.old \in Row
  BY <1>4, <1>5 DEF Columns, Request
<1>8. ~Creates(q) /\ user.verified => user'.verified
  <2>1. SUFFICES ASSUME ~Creates(q), user.verified PROVE user'.verified
    OBVIOUS
  <2>2. CASE q.new.verified = q.old.verified
    BY <1>7, <2>1, <2>2 DEF Written
  <2>3. CASE q.new.verified # q.old.verified
    <3>1. q.new.verified
      BY <1>4, <1>7, <2>1, <2>3 DEF Rising, Row
    <3> QED BY <1>7, <2>3, <3>1 DEF Written
  <2> QED BY <2>2, <2>3
<1>9. user'.verified \/ user'.vtoken # None
  <2>1. CASE Creates(q)
    BY <1>4, <1>7, <2>1 DEF Written, Rising
  <2>2. CASE ~Creates(q) /\ user.verified
    BY <1>8, <2>2
  <2>3. CASE ~Creates(q) /\ ~user.verified
    <3>1. ~q.old.verified /\ user.vtoken # None
      BY <1>4, <2>3 DEF Rising, VerifiedOrPending
    <3>2. CASE q.new.vtoken = None /\ q.old.vtoken # None
      <4>1. q.new.verified
        BY <1>4, <2>3, <3>2 DEF Rising
      <4>2. CASE q.new.verified = q.old.verified
        BY <3>1, <4>1, <4>2
      <4>3. CASE q.new.verified # q.old.verified
        BY <1>7, <4>1, <4>3 DEF Written
      <4> QED BY <4>2, <4>3
    <3>3. CASE q.new.vtoken # None \/ q.old.vtoken = None
      BY <1>7, <2>3, <3>1, <3>3 DEF Written
    <3> QED BY <3>2, <3>3
  <2> QED BY <2>1, <2>2, <2>3
<1>10. ASSUME NEW s \in Requests
      PROVE  (Rising(req[s]) /\ Confined(req[s]) /\ Grounded(req[s]))'
  <2>1. CASE s = r
    BY <1>1, <1>2, <2>1 DEF Rising, Confined, Grounded
  <2>2. CASE s # r
    <3>1. req'[s] = req[s] /\ req[s].pc # "commit"
      BY <1>2, <1>3, <1>4, <2>2 DEF Base, IInv, OneWriter
    <3>2. Rising(req[s]) /\ Confined(req[s]) /\ Grounded(req[s])
      BY DEF Base, IInv
    <3>3. ~Creates(req[s]) /\ req[s].pc # "idle" => ~Creates(q)
      BY <1>4, <3>2 DEF Rising, Confined
    <3> QED BY <1>6, <1>8, <3>1, <3>2, <3>3 DEF Rising, Confined, Grounded, Creates
  <2> QED BY <2>1, <2>2
<1>11. TypeOK' /\ VerifiedOrPending' /\ OneWriter'
  BY <1>1, <1>2, <1>5, <1>9 DEF Commit, Base, IInv, TypeOK, VerifiedOrPending, OneWriter
<1> QED BY <1>10, <1>11 DEF Base, IInv

LEMMA AgeStep ==
  ASSUME Base, Age \/ UNCHANGED vars
  PROVE  Base'
<1>1. UNCHANGED <<user, req>>
  BY DEF Age, vars
<1>2. aged' \subseteq Tokens
  BY DEF Age, vars, Base, IInv, TypeOK, Row
<1> QED
  BY <1>1, <1>2 DEF Base, IInv, TypeOK, VerifiedOrPending, OneWriter, Rising, Confined,
                    Grounded, Creates

LEMMA BaseStep ==
  ASSUME Base, [Next]_vars
  PROVE  Base'
  BY HandleStep, FlushStep, CommitStep, AbortStep, AgeStep DEF Next, Abort

LEMMA BaseInit == Init => Base
  BY IdleTyped DEF Init, Idle, Base, IInv, TypeOK, VerifiedOrPending, OneWriter, Rising,
                   Confined, Grounded

(* In every interleaving: rows and requests are well formed, at most one   *)
(* request holds the row lock, handlers assign their own columns, and      *)
(* whoever is not verified still holds a token.                            *)
THEOREM Invariant == Spec => []IInv
<1>1. Base => IInv
  BY DEF Base
<1> QED BY <1>1, BaseInit, BaseStep, PTL DEF Spec

THEOREM Typed == Spec => []TypeOK
  BY Invariant, PTL DEF IInv

(* Whoever is not verified can still become so, whatever overlaps. *)
THEOREM AlwaysVerifiable == Spec => []VerifiedOrPending
  BY Invariant, PTL DEF IInv

-----------------------------------------------------------------------------
LEMMA Apart ==
  ASSUME Base, [Next]_vars, user # None, NEW c \in Columns, user'[c] # user[c]
  PROVE  \E r \in Requests, op \in Assigns[c] : Commits(r, op)
<1>1. PICK r \in Requests : Commit(r)
  BY DEF Next, vars, Age, Abort, Flush, Handle, Handled, Changes, Inserts, Register, Join,
         Link, VerifyEmail, RequestReset, ResetPassword, ChangePassword, Deactivate,
         Activate, SetupMfa, VerifyMfa, DisableMfa
<1>2. /\ req[r].pc = "commit" /\ user' = Merged(req[r])
      /\ user'[c] = Written(req[r], c)
  BY <1>1, MergedRow DEF Commit
<1>3. ~Creates(req[r])
  BY <1>2 DEF Base, IInv, Confined
<1>4. req[r].new[c] # req[r].old[c]
  BY <1>2, <1>3 DEF Written
<1>5. req[r].op \in Assigns[c]
  BY <1>2, <1>3, <1>4 DEF Base, IInv, Confined
<1> QED BY <1>2, <1>5 DEF Commits

(* No request in flight undoes what others committed to columns that are   *)
(* not its own, for any number of overlapping requests.                    *)
THEOREM NoLostUpdates == Spec => ColumnsApart
<1>1. Base /\ [Next]_vars => [user # None => \A c \in Columns : user'[c] # user[c] =>
        \E r \in Requests, op \in Assigns[c] : Commits(r, op)]_vars
  BY Apart
<1> QED BY <1>1, BaseInit, BaseStep, PTL DEF Spec, ColumnsApart

-----------------------------------------------------------------------------
(* One request at a time. *)
Serial == \A r, s \in Requests : r = s

(* Only a commit writes the row. *)
LEMMA OnlyCommit ==
  ASSUME [Next]_vars, user' # user
  PROVE  \E r \in Requests : Commit(r)
  BY DEF Next, vars, Age, Abort, Flush, Handle, Handled, Changes, Inserts, Register, Join,
         Link, VerifyEmail, RequestReset, ResetPassword, ChangePassword, Deactivate,
         Activate, SetupMfa, VerifyMfa, DisableMfa

(* The commit of an update that overlaps nothing: the row becomes what the *)
(* handler made of it.                                                     *)
LEMMA SerialCommit ==
  ASSUME SerialInv, NEW r \in Requests, req[r].pc = "commit"
  PROVE  /\ Merged(req[r]) \in Row /\ req[r].new \in Row /\ req[r].old \in Row
         /\ \A c \in Columns : Merged(req[r])[c] = req[r].new[c]
         /\ ~Creates(req[r]) => user = req[r].old
         /\ Creates(req[r]) => user = None
<1>1. Base
  BY DEF SerialInv, Base
<1>2. ~Creates(req[r]) => user = req[r].old
  BY DEF SerialInv, Unchanged
<1>3. Creates(req[r]) => user = None
  BY DEF SerialInv, Unchanged
<1>4. req[r].new \in Row /\ req[r].old \in Row
  BY <1>1 DEF Base, IInv, TypeOK, Request
<1> QED BY <1>1, <1>2, <1>3, <1>4, MergedRow DEF Written

(* As long as nothing is committed, the row is the one a request loaded. *)
LEMMA StillLoaded ==
  ASSUME SerialInv, [Next]_vars, user' = user, NEW r \in Requests
  PROVE  Unchanged(req[r])'
<1>1. Unchanged(req[r]) /\ TypeOK /\ r \in DOMAIN req
  BY DEF SerialInv, IInv, TypeOK
<1>2. CASE req'[r] = req[r]
  BY <1>1, <1>2 DEF Unchanged, Creates
<1>3. CASE req'[r] # req[r]
  <2>1. CASE Handle(r)
    <3>1. \E op \in Ops : \E key, old, new :
            /\ req'[r] = [op |-> op, pc |-> "flush", key |-> key, old |-> old, new |-> new]
            /\ IF op \in {"register", "join"} THEN user = None ELSE user = old
      <4> DEFINE Loaded == \E op \in Ops : \E key, old, new :
            /\ req'[r] = [op |-> op, pc |-> "flush", key |-> key, old |-> old, new |-> new]
            /\ IF op \in {"register", "join"} THEN user = None ELSE user = old
      <4>1. ASSUME NEW op \in {"register", "join"}, NEW new, Inserts(r, op, new)
            PROVE  Loaded
        <5>1. req'[r] = [op |-> op, pc |-> "flush", key |-> None, old |-> Blank,
                         new |-> new]
          BY <1>1, <4>1 DEF Inserts, Handled
        <5>2. user = None /\ op \in Ops
          BY <4>1 DEF Inserts, Ops
        <5> QED BY <5>1, <5>2
      <4>2. ASSUME NEW op \in Ops \ {"register", "join"}, NEW key, NEW new,
                   Changes(r, op, key, new)
            PROVE  Loaded
        <5>1. req'[r] = [op |-> op, pc |-> "flush", key |-> key, old |-> user,
                         new |-> new]
          BY <1>1, <4>2 DEF Changes, Handled
        <5> QED BY <5>1
      <4> HIDE DEF Loaded
      <4>3. ASSUME Register(r) PROVE Loaded
        <5>1. \E new : Inserts(r, "register", new)
          BY <4>3 DEF Register
        <5> QED BY <5>1, <4>1 DEF Ops
      <4>4. ASSUME Join(r) PROVE Loaded
        <5>1. \E new : Inserts(r, "join", new)
          BY <4>4 DEF Join
        <5> QED BY <5>1, <4>1 DEF Ops
      <4>5. ASSUME Link(r) PROVE Loaded
        <5>1. \E key, new : Changes(r, "link", key, new)
          BY <4>5 DEF Link
        <5> QED BY <5>1, <4>2 DEF Ops
      <4>6. ASSUME VerifyEmail(r) PROVE Loaded
        <5>1. \E key, new : Changes(r, "verify_email", key, new)
          BY <4>6 DEF VerifyEmail
        <5> QED BY <5>1, <4>2 DEF Ops
      <4>7. ASSUME RequestReset(r) PROVE Loaded
        <5>1. \E key, new : Changes(r, "forgot", key, new)
          BY <4>7 DEF RequestReset
        <5> QED BY <5>1, <4>2 DEF Ops
      <4>8. ASSUME ResetPassword(r) PROVE Loaded
        <5>1. \E key, new : Changes(r, "reset", key, new)
          BY <4>8 DEF ResetPassword
        <5> QED BY <5>1, <4>2 DEF Ops
      <4>9. ASSUME ChangePassword(r) PROVE Loaded
        <5>1. \E key, new : Changes(r, "change", key, new)
          BY <4>9 DEF ChangePassword
        <5> QED BY <5>1, <4>2 DEF Ops
      <4>10. ASSUME Deactivate(r) PROVE Loaded
        <5>1. \E key, new : Changes(r, "deactivate", key, new)
          BY <4>10 DEF Deactivate
        <5> QED BY <5>1, <4>2 DEF Ops
      <4>11. ASSUME Activate(r) PROVE Loaded
        <5>1. \E key, new : Changes(r, "activate", key, new)
          BY <4>11 DEF Activate
        <5> QED BY <5>1, <4>2 DEF Ops
      <4>12. ASSUME SetupMfa(r) PROVE Loaded
        <5>1. \E key, new : Changes(r, "mfa_setup", key, new)
          BY <4>12 DEF SetupMfa
        <5> QED BY <5>1, <4>2 DEF Ops
      <4>13. ASSUME VerifyMfa(r) PROVE Loaded
        <5>1. \E key, new : Changes(r, "mfa_verify", key, new)
          BY <4>13 DEF VerifyMfa
        <5> QED BY <5>1, <4>2 DEF Ops
      <4>14. ASSUME DisableMfa(r) PROVE Loaded
        <5>1. \E key, new : Changes(r, "mfa_disable", key, new)
          BY <4>14 DEF DisableMfa
        <5> QED BY <5>1, <4>2 DEF Ops
      <4> QED BY <2>1, <4>3, <4>4, <4>5, <4>6, <4>7, <4>8, <4>9, <4>10, <4>11, <4>12, <4>13, <4>14
             DEF Handle, Loaded
    <3> QED BY <3>1 DEF Unchanged, Creates
  <2>2. CASE Flush(r)
    <3>1. req[r] \in Request
      BY <1>1 DEF TypeOK
    <3>2. PICK q : q = [req[r] EXCEPT !.pc = "commit"]
      OBVIOUS
    <3>3. q.op = req[r].op /\ q.old = req[r].old
      BY <3>1, <3>2 DEF Request
    <3>4. req'[r] = q \/ req'[r] = Idle
      BY <1>1, <2>2, <3>2 DEF Flush
    <3> QED BY <1>1, <2>2, <3>3, <3>4 DEF Flush, Unchanged, Creates, Idle
  <2>3. CASE Commit(r) \/ Abort(r)
    <3>1. req'[r] = Idle
      BY <1>1, <2>3 DEF Commit, Abort
    <3> QED BY <3>1 DEF Unchanged, Idle
  <2>4. Handle(r) \/ Flush(r) \/ Commit(r) \/ Abort(r)
    <3>1. PICK s \in Requests : Handle(s) \/ Flush(s) \/ Commit(s) \/ Abort(s)
      BY <1>3 DEF Next, vars, Age
    <3>2. CASE s = r
      BY <3>1, <3>2
    <3>3. CASE s # r
      <4>1. \E q : req' = [req EXCEPT ![s] = q]
        BY <3>1 DEF Flush, Commit, Abort, Handle, Handled, Changes, Inserts, Register, Join,
           Link, VerifyEmail, RequestReset, ResetPassword, ChangePassword, Deactivate,
           Activate, SetupMfa, VerifyMfa, DisableMfa
      <4> QED BY <1>1, <1>3, <3>3, <4>1
    <3> QED BY <3>2, <3>3
  <2> QED BY <2>1, <2>2, <2>3, <2>4
<1> QED BY <1>2, <1>3

LEMMA SerialStep ==
  ASSUME Serial, SerialInv, [Next]_vars
  PROVE  SerialInv'
<1>1. Base /\ TypeOK
  BY DEF SerialInv, Base, IInv
<1>2. Base'
  BY <1>1, BaseStep
<1>3. CASE user' = user
  <2>1. MfaUsable'
    BY <1>3 DEF SerialInv, MfaUsable
  <2>2. \A r \in Requests : Unchanged(req[r])'
    BY <1>3, StillLoaded
  <2> QED BY <1>2, <2>1, <2>2 DEF Base, SerialInv
<1>4. CASE user' # user
  <2>1. PICK r \in Requests : Commit(r)
    BY <1>4, OnlyCommit
  <2>2. \A s \in Requests : req'[s] = Idle
    BY <1>1, <2>1, IdleTyped, SetRequest DEF Commit, Serial
  <2>3. \A s \in Requests : Unchanged(req[s])'
    BY <2>2 DEF Unchanged, Idle
  <2>4. PICK q : q = req[r]
    OBVIOUS
  <2>5. /\ q.new \in Row /\ q.old \in Row /\ q.pc = "commit"
        /\ user' \in Row /\ user'.mfa = q.new.mfa /\ user'.secret = q.new.secret
        /\ ~Creates(q) => user = q.old
        /\ Creates(q) => user = None
        /\ Confined(q) /\ Grounded(q) /\ MfaUsable
        /\ ~Creates(q) => user # None
    BY <1>1, <2>1, <2>4, SerialCommit DEF Commit, Columns, Base, IInv, SerialInv, Rising
  <2>6. MfaUsable'
    <3>1. SUFFICES ASSUME q.new.mfa PROVE q.new.secret # None
      BY <2>5 DEF MfaUsable
    <3>2. ~Creates(q)
      BY <2>5, <3>1 DEF Grounded
    <3>3. /\ q.new.mfa # q.old.mfa => q.op \in {"mfa_verify", "mfa_disable"}
          /\ q.new.secret # q.old.secret => q.op \in {"mfa_setup", "mfa_disable"}
      BY <2>5, <3>2 DEF Confined, Columns, Assigns
    <3>4. q.op # "mfa_disable"
      BY <2>5, <3>1 DEF Grounded
    <3>5. CASE q.op = "mfa_verify"
      BY <2>5, <3>3, <3>5 DEF Grounded
    <3>6. CASE q.op # "mfa_verify"
      <4>1. q.new.mfa = q.old.mfa
        BY <3>3, <3>4, <3>6
      <4>2. q.old.mfa
        BY <3>1, <4>1
      <4>3. q.op # "mfa_setup"
        BY <2>5, <4>2 DEF Grounded
      <4>4. q.old.secret # None
        BY <2>5, <3>2, <4>2 DEF MfaUsable
      <4> QED BY <3>3, <3>4, <4>3, <4>4
    <3> QED BY <3>5, <3>6
  <2> QED BY <1>2, <2>3, <2>6 DEF Base, SerialInv
<1> QED BY <1>3, <1>4

(* What the commit of a request leaves, column by column. *)
LEMMA CommitFacts ==
  ASSUME SerialInv, NEW r \in Requests, req[r].pc = "commit", user' = Merged(req[r])
  PROVE  /\ \A c \in Columns : user'[c] = req[r].new[c]
         /\ Grounded(req[r]) /\ Confined(req[r]) /\ req[r].pc # "idle"
         /\ ~Creates(req[r]) => user = req[r].old
         /\ Creates(req[r]) => user = None
  BY SerialCommit DEF SerialInv, IInv

LEMMA ResetFacts ==
  ASSUME SerialInv, NEW r \in Requests, Commits(r, "reset")
  PROVE  user.rtoken = req[r].key /\ user'.rtoken # req[r].key
<1>1. user'.rtoken = req[r].new.rtoken
  BY CommitFacts DEF Commits, Columns
<1> QED BY <1>1, CommitFacts DEF Commits, Grounded, Creates

(* MFA goes on, stays on with its secret, or goes off as the handlers say. *)
LEMMA MfaFacts ==
  ASSUME SerialInv, [Next]_vars, user # None
  PROVE  /\ user'.mfa =>
              \/ user.mfa /\ user'.secret = user.secret
              \/ \E r \in Requests :
                    Commits(r, "mfa_verify") /\ user'.secret = req[r].key
         /\ user.mfa /\ ~user'.mfa =>
              \E r \in Requests : Commits(r, "mfa_disable") /\ user.secret = req[r].key
<1>1. CASE user' = user
  BY <1>1
<1>2. CASE user' # user
  <2>1. PICK r \in Requests : Commit(r)
    BY <1>2, OnlyCommit
  <2>2. req[r].pc = "commit" /\ user' = Merged(req[r])
    BY <2>1 DEF Commit
  <2>3. PICK q : q = req[r]
    OBVIOUS
  <2>4. /\ user'.mfa = q.new.mfa /\ user'.secret = q.new.secret
        /\ Grounded(q) /\ Confined(q) /\ q.pc # "idle"
        /\ ~Creates(q) /\ user = q.old
    BY <2>2, <2>3, CommitFacts DEF Columns
  <2>5. /\ q.new.mfa # q.old.mfa => q.op \in {"mfa_verify", "mfa_disable"}
        /\ q.new.secret # q.old.secret => q.op \in {"mfa_setup", "mfa_disable"}
    BY <2>4 DEF Confined, Columns, Assigns
  <2>6. CASE q.op = "mfa_verify"
    <3>1. Commits(r, "mfa_verify")
      BY <2>2, <2>3, <2>6 DEF Commits
    <3>2. user'.secret = q.key
      BY <2>4, <2>5, <2>6 DEF Grounded
    <3>3. user'.mfa
      BY <2>4, <2>6 DEF Grounded
    <3> QED BY <2>3, <3>1, <3>2, <3>3
  <2>7. CASE q.op = "mfa_disable"
    <3>1. Commits(r, "mfa_disable")
      BY <2>2, <2>3, <2>7 DEF Commits
    <3>2. user.secret = q.key /\ ~user'.mfa
      BY <2>4, <2>7 DEF Grounded
    <3> QED BY <2>3, <3>1, <3>2
  <2>8. CASE q.op \notin {"mfa_verify", "mfa_disable"}
    <3>1. user'.mfa = user.mfa
      BY <2>4, <2>5, <2>8
    <3>2. user.mfa => user'.secret = user.secret
      BY <2>4, <2>5, <2>8 DEF Grounded
    <3> QED BY <3>1, <3>2
  <2> QED BY <2>6, <2>7, <2>8
<1> QED BY <1>1, <1>2

(* With one request at a time the row a handler has loaded is still the    *)
(* row when it commits.                                                    *)
THEOREM SerialInvariant == ASSUME Serial PROVE Spec => []SerialInv
<1>1. Init => SerialInv
  <2>1. Init => MfaUsable /\ \A r \in Requests : Unchanged(req[r])
    BY DEF Init, MfaUsable, Unchanged, Idle
  <2> QED BY <2>1, BaseInit DEF Base, SerialInv
<1>2. SerialInv /\ [Next]_vars => SerialInv'
  BY SerialStep
<1> QED BY <1>1, <1>2, PTL DEF Spec

(* When the requests for an account come one after the other, an account   *)
(* with MFA can be logged in to.                                           *)
THEOREM SerialMfaUsable == ASSUME Serial PROVE Spec => []MfaUsable
<1>1. SerialInv => MfaUsable
  BY DEF SerialInv
<1> QED BY <1>1, SerialInvariant, PTL

(* Then the handlers' checks also hold at the commit: a reset spends the   *)
(* token of the row it replaces, and the row it writes no longer has it.   *)
THEOREM SerialReset == ASSUME Serial PROVE Spec => ResetOnce
<1>1. SerialInv /\ [Next]_vars => [\A r \in Requests : Commits(r, "reset") =>
        user.rtoken = req[r].key /\ user'.rtoken # req[r].key]_vars
  BY ResetFacts
<1> QED BY <1>1, SerialInvariant, PTL DEF Spec, ResetOnce

(* No secret is in force before its user has verified it: not after a      *)
(* setup alone, nor by a setup while another secret is in force.           *)
THEOREM SerialActivation == ASSUME Serial PROVE Spec => ActiveIsVerified
<1>1. SerialInv /\ [Next]_vars => [user # None /\ user'.mfa =>
        \/ user.mfa /\ user'.secret = user.secret
        \/ \E r \in Requests : Commits(r, "mfa_verify") /\ user'.secret = req[r].key]_vars
  BY MfaFacts
<1> QED BY <1>1, SerialInvariant, PTL DEF Spec, ActiveIsVerified

(* MFA goes off only by a code for the secret that is in force then.       *)
THEOREM SerialDisabling == ASSUME Serial PROVE Spec => DisabledWithCode
<1>1. SerialInv /\ [Next]_vars => [user # None /\ user.mfa /\ ~user'.mfa =>
        \E r \in Requests : Commits(r, "mfa_disable") /\ user.secret = req[r].key]_vars
  BY MfaFacts
<1> QED BY <1>1, SerialInvariant, PTL DEF Spec, DisabledWithCode

=============================================================================
