------------------------------- MODULE Accounts -------------------------------
(***************************************************************************)
(* One row of the table users and the requests that load, check and write  *)
(* it: registration, e-mail verification, password reset and change,       *)
(* deactivation, OAuth linking and MFA.  Accounts meet only in the unique  *)
(* e-mail address, so the module follows one address.                      *)
(*                                                                         *)
(* A handler checks the row as its session loaded it and assigns columns;  *)
(* the flush sends the columns that differ from the loaded ones and takes  *)
(* the row lock; get_db commits after the response went out.               *)
(***************************************************************************)
EXTENDS Naturals, FiniteSets

CONSTANTS
  Requests,    \* slots for requests in progress at the same time
  Endpoints,   \* the endpoints clients call; a bound of the model
  Passwords,
  Tokens,      \* one-time tokens, as the links in mails carry them
  Secrets,     \* TOTP secrets
  Identities,  \* what OAuth providers know this address by: one per provider
  None         \* NULL

Ops == {"register", "join", "link", "verify_email", "forgot", "reset", "change",
        "deactivate", "activate", "mfa_setup", "mfa_verify", "mfa_disable"}

VARIABLES
  user,  \* the committed row, None until somebody registers
  aged,  \* tokens whose link is older than the mail says it lives
  req    \* the requests in progress

vars == <<user, aged, req>>

Columns == {"active", "verified", "password", "vtoken", "rtoken", "oauth", "mfa", "secret"}

Row == [active   : BOOLEAN,                 \* is_active
        verified : BOOLEAN,                 \* is_verified
        password : Passwords \cup {None},   \* hashed_password
        vtoken   : Tokens \cup {None},      \* verification_token
        rtoken   : Tokens \cup {None},      \* reset_token
        oauth    : Identities \cup {None},  \* oauth_provider, oauth_provider_id
        mfa      : BOOLEAN,                 \* mfa_enabled
        secret   : Secrets \cup {None}]     \* mfa_secret

ASSUME AccountAssumption ==
  /\ Endpoints \subseteq Ops \cup {"age"}
  /\ None \notin Passwords \cup Tokens \cup Secrets \cup Identities \cup Ops \cup Row

Blank == [active |-> TRUE, verified |-> FALSE, password |-> None, vtoken |-> None,
          rtoken |-> None, oauth |-> None, mfa |-> FALSE, secret |-> None]

(* key is what the client proves itself with: a token, a password, the      *)
(* secret its authenticator computes codes from.                           *)
Keys == Passwords \cup Tokens \cup Secrets \cup {None}

Request == [op : Ops \cup {None}, pc : {"idle", "flush", "commit"}, key : Keys,
            old : Row,   \* the row the session loaded
            new : Row]   \* the row with the handler's assignments

Idle == [op |-> None, pc |-> "idle", key |-> None, old |-> Blank, new |-> Blank]

Init == user = None /\ aged = {} /\ req = [r \in Requests |-> Idle]

-----------------------------------------------------------------------------
(* secrets.token_urlsafe and pyotp.random_base32 never repeat. *)
InUse == UNION {{x.vtoken, x.rtoken, x.secret} : x \in
  (IF user = None THEN {} ELSE {user})
    \cup {req[r].new : r \in Requests} \cup {req[r].old : r \in Requests}}

FreshToken(t) == t \notin InUse \cup aged

FreshSecret(s) == s \notin InUse

(* The handler has run up to its save(): it has changed the row it loaded. *)
Handled(r, op, key, old, new) ==
  /\ req[r].pc = "idle"
  /\ op \in Endpoints
  /\ new # old
  /\ req' = [req EXCEPT ![r] =
       [op |-> op, pc |-> "flush", key |-> key, old |-> old, new |-> new]]
  /\ UNCHANGED <<user, aged>>

Changes(r, op, key, new) == Handled(r, op, key, user, new)

Inserts(r, op, new) == user = None /\ Handled(r, op, None, Blank, new)

-----------------------------------------------------------------------------
Register(r) == \E p \in Passwords, t \in Tokens :
  /\ FreshToken(t)
  /\ Inserts(r, "register", [Blank EXCEPT !.password = p, !.vtoken = t])

(* An OAuth callback for an address without and with an account. *)
Join(r) == \E i \in Identities :
  Inserts(r, "join", [Blank EXCEPT !.oauth = i, !.verified = TRUE])

Link(r) == \E i \in Identities :
  /\ user # None
  /\ user.oauth # i
  /\ Changes(r, "link", None, [user EXCEPT !.oauth = i, !.verified = TRUE])

(* Mutant: the token is spent, the flag is forgotten. *)
Spent(row) == [row EXCEPT !.vtoken = None]

Verified(row) == [row EXCEPT !.verified = TRUE, !.vtoken = None]

VerifyEmail(r) ==
  /\ user # None
  /\ user.vtoken # None
  /\ Changes(r, "verify_email", user.vtoken, Verified(user))

RequestReset(r) == \E t \in Tokens :
  /\ user # None
  /\ FreshToken(t)
  /\ Changes(r, "forgot", None, [user EXCEPT !.rtoken = t])

(* Mutant: the token stays valid. *)
ResetToAgain(p) == [user EXCEPT !.password = p]

ResetTo(p) == [user EXCEPT !.password = p, !.rtoken = None]

ResetPassword(r) == \E p \in Passwords :
  /\ user # None
  /\ user.rtoken # None
  /\ Changes(r, "reset", user.rtoken, ResetTo(p))

MayChange(p) == user.active /\ user.password # None /\ p = user.password

ChangePassword(r) == \E p, q \in Passwords :
  /\ user # None
  /\ MayChange(p)
  /\ q # user.password
  /\ Changes(r, "change", p, [user EXCEPT !.password = q])

(* By an administrator or, as DELETE /users/me, by the user. *)
Deactivate(r) ==
  /\ user # None
  /\ Changes(r, "deactivate", None, [user EXCEPT !.active = FALSE])

Activate(r) ==
  /\ user # None
  /\ Changes(r, "activate", None, [user EXCEPT !.active = TRUE])

(* Mutant: setup does not look whether MFA is on. *)
MaySetupAgain == user.active

MaySetup == user.active /\ ~user.mfa

SetupMfa(r) == \E s \in Secrets :
  /\ user # None
  /\ MaySetup
  /\ FreshSecret(s)
  /\ Changes(r, "mfa_setup", None, [user EXCEPT !.secret = s])

VerifyMfa(r) ==
  /\ user # None
  /\ user.active /\ ~user.mfa /\ user.secret # None
  /\ Changes(r, "mfa_verify", user.secret, [user EXCEPT !.mfa = TRUE])

(* Mutants: any code will do; the flag is not reset. *)
MayDisableAny(s) == user.active /\ user.mfa /\ user.secret # None

SecretDropped == [user EXCEPT !.secret = None]

MayDisable(s) == user.active /\ user.mfa /\ s = user.secret

Disabled == [user EXCEPT !.mfa = FALSE, !.secret = None]

DisableMfa(r) == \E s \in Secrets :
  /\ user # None
  /\ MayDisable(s)
  /\ Changes(r, "mfa_disable", s, Disabled)

-----------------------------------------------------------------------------
Creates(q) == q.op \in {"register", "join"}

(* Mutant: the address is not unique, the second account takes the place. *)
FlushUnconstrained(r) ==
  /\ req[r].pc = "flush"
  /\ \A s \in Requests : req[s].pc # "commit"
  /\ req' = [req EXCEPT ![r].pc = "commit"]
  /\ UNCHANGED <<user, aged>>

(* The UPDATE waits for the row lock, the INSERT for the unique address;   *)
(* an INSERT fails if the address has an account by now.                   *)
Flush(r) ==
  /\ req[r].pc = "flush"
  /\ \A s \in Requests : req[s].pc # "commit"
  /\ req' = [req EXCEPT ![r] =
       IF Creates(req[r]) /\ user # None THEN Idle ELSE [req[r] EXCEPT !.pc = "commit"]]
  /\ UNCHANGED <<user, aged>>

(* Mutant: the UPDATE sends every column, as loaded or assigned. *)
WrittenWhole(q, c) == q.new[c]

Written(q, c) ==
  IF Creates(q) \/ q.new[c] # q.old[c] THEN q.new[c] ELSE user[c]

Merged(q) ==
  [active |-> Written(q, "active"), verified |-> Written(q, "verified"),
   password |-> Written(q, "password"), vtoken |-> Written(q, "vtoken"),
   rtoken |-> Written(q, "rtoken"), oauth |-> Written(q, "oauth"),
   mfa |-> Written(q, "mfa"), secret |-> Written(q, "secret")]

Commit(r) ==
  /\ req[r].pc = "commit"
  /\ user' = Merged(req[r])
  /\ req' = [req EXCEPT ![r] = Idle]
  /\ UNCHANGED aged

(* An exception after the load, a mail that cannot be sent, a crash. *)
Abort(r) ==
  /\ req[r].pc # "idle"
  /\ req' = [req EXCEPT ![r] = Idle]
  /\ UNCHANGED <<user, aged>>

(* The hours pass that the mail with the link names. *)
Age ==
  /\ user # None
  /\ "age" \in Endpoints
  /\ aged' = aged \cup ({user.vtoken, user.rtoken} \ {None})
  /\ UNCHANGED <<user, req>>

Handle(r) ==
  \/ Register(r) \/ Join(r) \/ Link(r) \/ VerifyEmail(r) \/ RequestReset(r)
  \/ ResetPassword(r) \/ ChangePassword(r) \/ Deactivate(r) \/ Activate(r)
  \/ SetupMfa(r) \/ VerifyMfa(r) \/ DisableMfa(r)

Next == \/ Age
        \/ \E r \in Requests : Handle(r) \/ Flush(r) \/ Commit(r) \/ Abort(r)

Spec == Init /\ [][Next]_vars

-----------------------------------------------------------------------------
(* The row has the columns' types; requests remember well-formed rows. *)
TypeOK ==
  /\ user \in Row \cup {None}
  /\ aged \subseteq Tokens
  /\ req \in [Requests -> Request]

(* Whoever is not verified can still become so: no interleaving of an OAuth *)
(* callback and verify_email spends the token without setting the flag.    *)
VerifiedOrPending == user # None => user.verified \/ user.vtoken # None

(* The step of request r that makes its write visible. *)
Commits(r, op) == req[r].pc = "commit" /\ req[r].op = op /\ user' = Merged(req[r])

Assigns == [active   |-> {"deactivate", "activate"},
            verified |-> {"verify_email", "link"},
            password |-> {"reset", "change"},
            vtoken   |-> {"verify_email"},
            rtoken   |-> {"forgot", "reset"},
            oauth    |-> {"link"},
            mfa      |-> {"mfa_verify", "mfa_disable"},
            secret   |-> {"mfa_setup", "mfa_disable"}]

(* No request that loaded the row earlier undoes what others committed to  *)
(* columns its handler does not assign: a deactivation survives a profile  *)
(* or password request in flight, and a second registration of the address *)
(* does not replace the account.                                           *)
ColumnsApart == [][user # None => \A c \in Columns : user'[c] # user[c] =>
  \E r \in Requests, op \in Assigns[c] : Commits(r, op)]_vars

(* The rest is what the handlers' checks are for.  They look at the row as *)
(* it was loaded, so it holds only while requests come one after the other. *)

(* security.py:141: a reset token works once, and it is the one in the row. *)
ResetOnce == [][\A r \in Requests : Commits(r, "reset") =>
  user.rtoken = req[r].key /\ user'.rtoken # req[r].key]_vars

(* users.py:37: a password is changed by someone who knows the current one. *)
(* Not so when a reset commits after the change has loaded the row.        *)
CurrentPassword == [][\A r \in Requests : Commits(r, "change") =>
  user.password = req[r].key]_vars

(* mfa.py:7: while MFA is on there is a secret a code can be checked       *)
(* against; without one neither login nor /mfa/disable ever succeeds.      *)
MfaUsable == user # None /\ user.mfa => user.secret # None

(* mfa.py:37: a secret is not active before the user has verified it.      *)
ActiveIsVerified == [][user # None /\ user'.mfa =>
  \/ user.mfa /\ user'.secret = user.secret
  \/ \E r \in Requests : Commits(r, "mfa_verify") /\ user'.secret = req[r].key]_vars

(* mfa.py:68: MFA goes off only with a code for the secret in force.       *)
DisabledWithCode == [][user # None /\ user.mfa /\ ~user'.mfa =>
  \E r \in Requests : Commits(r, "mfa_disable") /\ user.secret = req[r].key]_vars

(* email.py:44 and 56: the links in mails expire.                          *)
LinksExpire == [][\A r \in Requests :
  req[r].pc = "idle" /\ req'[r].op \in {"verify_email", "reset"} =>
    req'[r].key \notin aged]_vars

-----------------------------------------------------------------------------
(* What of the columns verified and vtoken survives any interleaving: the  *)
(* flag only ever rises, and who spends the token raises it.               *)
Rising(q) == q.pc # "idle" =>
  /\ ~Creates(q) => /\ user # None
                    /\ q.old.verified => user.verified /\ q.new.verified
                    /\ q.old.vtoken # None /\ q.new.vtoken = None => q.new.verified
  /\ Creates(q) => q.new.verified \/ q.new.vtoken # None

(* A request assigns the columns of its endpoint only, and an account that *)
(* exists keeps others from being created once they have flushed.          *)
Confined(q) == q.pc # "idle" =>
  /\ ~Creates(q) => \A c \in Columns : q.new[c] # q.old[c] => q.op \in Assigns[c]
  /\ q.pc = "commit" /\ Creates(q) => user = None

OneWriter == \A r, s \in Requests :
  r # s => ~(req[r].pc = "commit" /\ req[s].pc = "commit")

(* The inductive invariant of the properties that hold in every            *)
(* interleaving.                                                           *)
IInv ==
  /\ TypeOK /\ VerifiedOrPending /\ OneWriter
  /\ \A r \in Requests : Rising(req[r]) /\ Confined(req[r])

(* What a handler had checked when it assigned the columns. *)
Grounded(q) == q.pc # "idle" =>
  /\ q.op = "reset" => q.key = q.old.rtoken /\ q.key # None /\ q.new.rtoken = None
  /\ q.op = "change" => q.key = q.old.password
  /\ q.op = "mfa_setup" => ~q.old.mfa
  /\ q.op = "mfa_verify" => q.key = q.old.secret /\ q.key # None /\ q.new.mfa
  /\ q.op = "mfa_disable" => q.key = q.old.secret /\ ~q.new.mfa
  /\ Creates(q) => ~q.new.mfa

(* With one request at a time the row is still the one it loaded. *)
Unchanged(q) == q.pc # "idle" => IF Creates(q) THEN user = None ELSE user = q.old

(* The inductive invariant of the properties that need requests to come    *)
(* one after the other.                                                    *)
SerialInv ==
  /\ IInv /\ MfaUsable
  /\ \A r \in Requests : Grounded(req[r]) /\ Unchanged(req[r])

=============================================================================
