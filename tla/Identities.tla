------------------------------- MODULE Identities -------------------------------
(***************************************************************************)
(* All accounts and the identities OAuth providers know their owners by.   *)
(* An account is found by its address, which is unique and never changes,  *)
(* or by the pair (oauth_provider, oauth_provider_id), which has an index  *)
(* but no unique constraint.  Accounts.tla follows one account with all    *)
(* its columns; here it is only the pair, of every account.                *)
(*                                                                         *)
(* A callback asks the provider who signs in, then looks for the pair,     *)
(* then for the address, links or creates the account, and commits.        *)
(***************************************************************************)
EXTENDS FiniteSets

CONSTANTS
  Emails,      \* addresses; an account is named by its address
  Identities,  \* users of the providers, as records of provider and pid
  Requests,    \* slots for requests in progress at the same time
  None

Local == [provider |-> "local", pid |-> None]

ASSUME IdentityAssumption ==
  /\ \A i \in Identities : i = [provider |-> i.provider, pid |-> i.pid]
  /\ \A i, j \in Identities : i.pid = j.pid => i = j
  /\ \A i \in Identities : i.provider # "local" /\ i.pid # None
  /\ None \notin Emails \cup Identities \cup {Local}

VARIABLES
  account,  \* the committed rows: the pair of each address, None for no account
  mail,     \* the address each provider has verified for its user
  had,      \* history: all of them
  home,     \* history: the account each identity has signed in to last
  req       \* the requests in progress

vars == <<account, mail, had, home, req>>

Pair == [provider : {i.provider : i \in Identities \cup {Local}},
         pid      : {i.pid : i \in Identities \cup {Local}}]

Request == [pc    : {"idle", "identity", "email", "flush", "commit"},
            who   : Identities \cup {None},  \* None for a registration
            email : Emails \cup {None},
            old   : Pair \cup {None},        \* the row loaded, None for none
            new   : Pair \cup {None}]        \* the row assigned

Idle == [pc |-> "idle", who |-> None, email |-> None, old |-> None, new |-> None]

Init ==
  /\ account = [e \in Emails |-> None]
  /\ mail = [i \in Identities |-> None]
  /\ had = [i \in Identities |-> {}]
  /\ home = [i \in Identities |-> None]
  /\ req = [r \in Requests |-> Idle]

Set(r, q) == req' = [req EXCEPT ![r] = q]

-----------------------------------------------------------------------------
(* What the code takes for granted of a provider: an address belongs to    *)
(* one of its users for good, and nobody changes it while signing in.      *)
MayMove(i, e) ==
  /\ \A j \in Identities \ {i} : j.provider = i.provider => e \notin had[j]
  /\ \A r \in Requests : req[r].who # i

Move == \E i \in Identities, e \in Emails :
  /\ mail[i] # e
  /\ MayMove(i, e)
  /\ mail' = [mail EXCEPT ![i] = e]
  /\ had' = [had EXCEPT ![i] = @ \cup {e}]
  /\ UNCHANGED <<account, home, req>>

-----------------------------------------------------------------------------
(* The callback exchanges the code: the provider says who it is.           *)
Exchange(r) == \E i \in Identities :
  /\ req[r].pc = "idle"
  /\ mail[i] # None
  /\ Set(r, [Idle EXCEPT !.pc = "identity", !.who = i, !.email = mail[i]])
  /\ UNCHANGED <<account, mail, had, home>>

Register(r) == \E e \in Emails :
  /\ req[r].pc = "idle"
  /\ Set(r, [Idle EXCEPT !.pc = "email", !.email = e])
  /\ UNCHANGED <<account, mail, had, home>>

(* Mutants: the account is looked for by address only; the pair counts only *)
(* if the address has no account.                                          *)
HoldersIgnored(q) == {}

HoldersUnlessEmail(q) == {e \in Emails : account[e] = q.who /\ account[q.email] = None}

Holders(q) == {e \in Emails : account[e] = q.who}

(* get_by_oauth: scalar_one_or_none raises if there are two.               *)
LookForIdentity(r) == LET q == req[r] IN
  /\ q.pc = "identity"
  /\ \/ \E e \in Holders(q) :
          /\ home' = IF Holders(q) = {e} THEN [home EXCEPT ![q.who] = e] ELSE home
          /\ Set(r, Idle)
     \/ Holders(q) = {} /\ Set(r, [q EXCEPT !.pc = "email"]) /\ UNCHANGED home
  /\ UNCHANGED <<account, mail, had>>

(* Mutant: the provider's id is left as it was. *)
LinkedHalf(q) ==
  IF q.who = None THEN Local
  ELSE IF account[q.email] = None THEN q.who
  ELSE [account[q.email] EXCEPT !.provider = q.who.provider]

Linked(q) == IF q.who = None THEN Local ELSE q.who

(* get_by_email: a registration is refused if there is an account.         *)
LookForEmail(r) == LET q == req[r] IN
  /\ q.pc = "email"
  /\ Set(r, IF q.who = None /\ account[q.email] # None THEN Idle
            ELSE [q EXCEPT !.pc = "flush", !.old = account[q.email], !.new = Linked(q)])
  /\ UNCHANGED <<account, mail, had, home>>

Writes(q) == q.new # q.old

(* Mutant: a write does not wait for the one before it. *)
NoLock(r) == TRUE

(* Row lock and unique address: a write waits for one of the same account. *)
LockFree(r) == Writes(req[r]) => \A s \in Requests \ {r} :
  ~(req[s].pc = "commit" /\ Writes(req[s]) /\ req[s].email = req[r].email)

(* Mutant: the address is not unique, the second account takes the place. *)
FlushAnyway(r) ==
  /\ req[r].pc = "flush"
  /\ LockFree(r)
  /\ Set(r, [req[r] EXCEPT !.pc = "commit"])
  /\ UNCHANGED <<account, mail, had, home>>

Flush(r) == LET q == req[r] IN
  /\ q.pc = "flush"
  /\ LockFree(r)
  /\ Set(r, IF q.old = None /\ account[q.email] # None THEN Idle
            ELSE [q EXCEPT !.pc = "commit"])
  /\ UNCHANGED <<account, mail, had, home>>

(* An UPDATE sends the columns that differ from the row loaded.            *)
Merged(q) ==
  IF q.old = None THEN q.new ELSE
    [provider |-> IF q.new.provider # q.old.provider THEN q.new.provider
                                                     ELSE account[q.email].provider,
     pid      |-> IF q.new.pid # q.old.pid THEN q.new.pid ELSE account[q.email].pid]

Commit(r) == LET q == req[r] IN
  /\ q.pc = "commit"
  /\ account' = [account EXCEPT ![q.email] = Merged(q)]
  /\ home' = IF q.who = None THEN home ELSE [home EXCEPT ![q.who] = q.email]
  /\ Set(r, Idle)
  /\ UNCHANGED <<mail, had>>

(* The provider does not answer, the client goes away, a crash. *)
Abort(r) ==
  /\ req[r].pc # "idle"
  /\ Set(r, Idle)
  /\ UNCHANGED <<account, mail, had, home>>

Handle(r) ==
  \/ Exchange(r) \/ Register(r) \/ LookForIdentity(r) \/ LookForEmail(r)
  \/ Flush(r) \/ Commit(r) \/ Abort(r)

Next == Move \/ \E r \in Requests : Handle(r)

Spec == Init /\ [][Next]_vars

-----------------------------------------------------------------------------
(* Rows, histories and requests are well formed. *)
TypeOK ==
  /\ account \in [Emails -> Pair \cup {None}]
  /\ mail \in [Identities -> Emails \cup {None}]
  /\ had \in [Identities -> SUBSET Emails]
  /\ home \in [Identities -> Emails \cup {None}]
  /\ req \in [Requests -> Request]

(* auth_service.py:195: two providers sign in to one account at once, and  *)
(* the pair is one of them: not the provider of one with the id of the     *)
(* other, and of somebody whom the provider vouched for at that address.   *)
Real(p, e) == p = Local \/ \E i \in Identities : p = i /\ e \in had[i]

IdentityIsReal == \A e \in Emails : account[e] # None => Real(account[e], e)

(* user_repo.py:34: get_by_oauth expects one account at most, and nothing  *)
(* in the database says so.                                                *)
OneAccountPerIdentity == \A d, e \in Emails :
  account[d] = account[e] /\ account[d] \notin {None, Local} => d = e

(* auth_service.py:190: whoever changes the address at the provider comes  *)
(* back to the same account, as long as that account has their identity.   *)
SameAccount == [][\A i \in Identities :
  home[i] # None /\ home'[i] # home[i] => account[home[i]] # i]_vars

(* auth_service.py:199: a registration that overlaps a first sign-in does  *)
(* not take the identity from the account again.                           *)
LinkStays == [][\A e \in Emails :
  /\ account[e] # None => account'[e] # None
  /\ account[e] \notin {None, Local} => account'[e] # Local]_vars

-----------------------------------------------------------------------------
(* The inductive invariant: what requests carry is as real as the rows.    *)

(* An address is known to a provider as one user's. *)
AddressesApart ==
  /\ \A i \in Identities : mail[i] # None => mail[i] \in had[i]
  /\ \A i, j \in Identities : i # j /\ i.provider = j.provider => had[i] \cap had[j] = {}

Carried(q) ==
  /\ q.pc # "idle" => q.email \in Emails
  /\ q.pc = "identity" => q.who \in Identities
  /\ q.who # None => q.email = mail[q.who]
  /\ q.pc \in {"flush", "commit"} =>
       /\ q.new = IF q.who = None THEN Local ELSE q.who
       /\ q.old # None => q.who # None /\ Real(q.old, q.email) /\ account[q.email] # None
  /\ q.pc = "commit" /\ q.old = None => account[q.email] = None

(* A callback that found nobody with its identity: since then at most the  *)
(* account of its own address has got it.                                  *)
Unheld(q) == q.who # None /\ q.pc \in {"email", "flush", "commit"} =>
  \A e \in Emails : account[e] = q.who => e = q.email

OneWriter == \A r, s \in Requests : r # s /\ req[r].email = req[s].email
  => ~(req[r].pc = "commit" /\ Writes(req[r]) /\ req[s].pc = "commit" /\ Writes(req[s]))

IInv ==
  /\ TypeOK /\ AddressesApart /\ IdentityIsReal /\ OneAccountPerIdentity /\ OneWriter
  /\ \A r \in Requests : Carried(req[r]) /\ Unheld(req[r])

=============================================================================
