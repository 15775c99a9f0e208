------------------------------- MODULE Sessions -------------------------------
(***************************************************************************)
(* The tokens of one user: login, the MFA step, OAuth, refresh and logout  *)
(* against a clock, the account's row and the blacklist in Redis, any call *)
(* of which may fail.  Tokens are JWTs: nothing on the server knows them,  *)
(* and two of a kind that are issued in one second are the same token.     *)
(***************************************************************************)
EXTENDS Naturals

CONSTANTS
  Requests,  \* slots for requests in progress at the same time
  Life,      \* the lifetime of each kind of token
  MaxTime    \* the clock stops; a bound of the model

Kinds == {"access", "refresh", "mfa_pending"}

Ops == {"login", "oauth", "validate", "refresh", "logout"}

(* The clock counts half seconds: JWTs know whole ones, Redis does not.    *)
Times == 0..MaxTime

Whole(n) == n - (n % 2)

ASSUME SessionAssumption ==
  /\ MaxTime \in Nat
  /\ Life \in [Kinds -> Nat]
  /\ \A k \in Kinds : Life[k] % 2 = 0

VARIABLES
  now,
  account,  \* the committed columns is_active and mfa_enabled
  issued,   \* the tokens clients were given
  black,    \* when the blacklist entry of a refresh token ends, 0 if it has none
  signed,   \* ghost: the user has completed a sign-in
  req

vars == <<now, account, issued, black, signed, req>>

Token == [kind : Kinds, at : Times]

Exp(t) == t.at + Life[t.kind]

Request == [op : Ops \cup {"none"}, pc : {"idle", "decode", "load", "store", "answer"},
            token : Token,
            asked : BOOLEAN,        \* Redis has answered for the token
            gives : SUBSET Kinds,   \* the tokens of its answer
            ttl   : Nat]            \* of the blacklist entry to be written

Idle == [op |-> "none", pc |-> "idle", token |-> [kind |-> "access", at |-> 0],
         asked |-> FALSE, gives |-> {}, ttl |-> 0]

Pair == {"access", "refresh"}

(* POST /register has answered with a pair, or the account is older.      *)
Init ==
  /\ now = 0
  /\ account \in [active : {TRUE}, mfa : BOOLEAN]
  /\ signed \in BOOLEAN
  /\ issued = {[kind |-> k, at |-> 0] : k \in IF signed THEN Pair ELSE {}}
  /\ black = [t \in Times |-> 0]
  /\ req = [r \in Requests |-> Idle]

Set(r, q) == req' = [req EXCEPT ![r] = q] /\ UNCHANGED <<now, account>>

Begin(r, q) == req[r].pc = "idle" /\ Set(r, q) /\ UNCHANGED <<issued, black>>

(* python-jose refuses a token from the second after the one it expires in. *)
Alive(t) == Whole(now) <= Exp(t)

-----------------------------------------------------------------------------
(* POST /login with the password. *)
Login(r) ==
  /\ account.active
  /\ Begin(r, [Idle EXCEPT !.op = "login", !.pc = "answer",
                           !.gives = IF account.mfa THEN {"mfa_pending"} ELSE Pair])
  /\ signed' = (signed \/ ~account.mfa)

(* The callback of a provider asks neither for is_active nor for a code. *)
OAuth(r) ==
  /\ Begin(r, [Idle EXCEPT !.op = "oauth", !.pc = "answer", !.gives = Pair])
  /\ signed' = TRUE

(* POST /mfa/validate with a good code. *)
Validate(r) == \E t \in issued :
  /\ t.kind = "mfa_pending" /\ Alive(t)
  /\ Begin(r, [Idle EXCEPT !.op = "validate", !.pc = "load", !.token = t, !.gives = Pair])
  /\ UNCHANGED signed

(* is_token_blacklisted: a call that fails finds nothing. *)
Blacklisted(t) == t.kind = "refresh" /\ now < black[t.at]

Check(r, op, gives) == \E t \in issued, ok \in BOOLEAN :
  /\ ok => ~Blacklisted(t)
  /\ Begin(r, [Idle EXCEPT !.op = op, !.pc = "decode", !.token = t, !.asked = ok,
                           !.gives = gives])
  /\ UNCHANGED signed

Refresh(r) == Check(r, "refresh", Pair)

Logout(r) == Check(r, "logout", {})

(* Mutant: the type of the token is not looked at. *)
AnyKind(t) == Alive(t)

IsRefresh(t) == Alive(t) /\ t.kind = "refresh"

(* The handler goes on when Redis has answered or failed. *)
Decode(r) == LET q == req[r] IN
  /\ q.op = "refresh" /\ q.pc = "decode"
  /\ Set(r, IF IsRefresh(q.token) THEN [q EXCEPT !.pc = "load"] ELSE Idle)
  /\ UNCHANGED <<issued, black, signed>>

(* What the handlers ask of the row. *)
Admits(op) == account.active /\ (op = "validate" => account.mfa)

LoadUser(r) == LET q == req[r] IN
  /\ q.pc = "load"
  /\ Set(r, IF Admits(q.op) THEN [q EXCEPT !.pc = "answer"] ELSE Idle)
  /\ signed' = (signed \/ (q.op = "validate" /\ Admits(q.op)))
  /\ UNCHANGED <<issued, black>>

(* Mutant: what is left is rounded down to seconds. *)
TtlRounded(t) == IF now < Exp(t) THEN Whole(Exp(t) - now) ELSE 0

Ttl(t) == IF Whole(now) < Exp(t) THEN Exp(t) - Whole(now) ELSE 0

(* A token of another kind, too old, or without a second left: nothing is  *)
(* written and the answer is the same.                                     *)
Revoke(r) == LET q == req[r] IN
  /\ q.op = "logout" /\ q.pc = "decode"
  /\ Set(r, IF IsRefresh(q.token) /\ Ttl(q.token) > 0
              THEN [q EXCEPT !.pc = "store", !.ttl = Ttl(q.token)] ELSE Idle)
  /\ UNCHANGED <<issued, black, signed>>

(* SET with EX; if it fails (Abort) the error is logged and forgotten. *)
Store(r) == LET q == req[r] IN
  /\ q.pc = "store"
  /\ Set(r, Idle)
  /\ black' = [black EXCEPT ![q.token.at] = now + q.ttl]
  /\ UNCHANGED <<issued, signed>>

Answer(r) == LET q == req[r] IN
  /\ q.pc = "answer"
  /\ Set(r, Idle)
  /\ issued' = issued \cup {[kind |-> k, at |-> Whole(now)] : k \in q.gives}
  /\ UNCHANGED <<black, signed>>

(* A disconnect, an error of Redis or the database, a crash. *)
Abort(r) ==
  /\ req[r].pc # "idle"
  /\ Set(r, Idle)
  /\ UNCHANGED <<issued, black, signed>>

-----------------------------------------------------------------------------
Tick ==
  /\ now < MaxTime
  /\ now' = now + 1
  /\ UNCHANGED <<account, issued, black, signed, req>>

(* Requests of Accounts.tla commit. *)
AccountChanges ==
  /\ account' \in [active : BOOLEAN, mfa : BOOLEAN]
  /\ UNCHANGED <<now, issued, black, signed, req>>

Handle(r) ==
  \/ Login(r) \/ OAuth(r) \/ Validate(r) \/ Refresh(r) \/ Decode(r) \/ LoadUser(r)
  \/ Logout(r) \/ Revoke(r) \/ Store(r) \/ Answer(r) \/ Abort(r)

Next == Tick \/ AccountChanges \/ \E r \in Requests : Handle(r)

Spec == Init /\ [][Next]_vars

-----------------------------------------------------------------------------
(* Tokens, entries and requests are well formed. *)
TypeOK ==
  /\ now \in Times
  /\ account \in [active : BOOLEAN, mfa : BOOLEAN]
  /\ issued \subseteq Token
  /\ black \in [Times -> Nat]
  /\ signed \in BOOLEAN
  /\ req \in [Requests -> Request]

(* auth_service.py:120: once a logout has written its entry, no request    *)
(* whose question Redis answers passes with the token before the second it *)
(* expires in, however late the entry was written.                         *)
RevokedIsRefused == [][\A r \in Requests : LET t == req'[r].token IN
  (/\ req[r].pc = "idle" /\ req'[r].pc = "decode" /\ req'[r].asked
   /\ t.kind = "refresh" /\ black[t.at] # 0) => now >= Exp(t)]_vars

(* mfa.py:7: an access or refresh token exists only if the user has        *)
(* completed a sign-in: with the password while MFA was off, with a code   *)
(* after the password, or with a provider.  No chain of pending tokens,    *)
(* refreshes and changes of the account leads around that.                 *)
PairsAreEarned == \A t \in issued : t.kind \in Pair => signed

(* An entry lasts until its token expires, also one that is not written    *)
(* yet: the inductive invariant.                                           *)
Lasting ==
  /\ \A t \in Times : black[t] # 0 => black[t] >= t + Life["refresh"]
  /\ \A r \in Requests : req[r].pc = "store" =>
       /\ req[r].token.kind = "refresh"
       /\ now + req[r].ttl >= Exp(req[r].token)

(* What a request in progress rests on. *)
Founded == \A r \in Requests : LET q == req[r] IN
  /\ (q.pc = "load" /\ q.op # "validate") => signed
  /\ (q.pc = "answer" /\ q.gives \cap Pair # {}) => signed
  /\ q.pc = "decode" => q.token \in issued

IInv == TypeOK /\ Lasting /\ PairsAreEarned /\ Founded

=============================================================================
