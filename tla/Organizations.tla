---------------------------- MODULE Organizations ----------------------------
(***************************************************************************)
(* The organization endpoints as the requests that execute them.  A request *)
(* is one database transaction (get_db): it loads what it needs, checks it, *)
(* flushes its write, which takes the row and key locks, and commits when   *)
(* the handler has returned.  Requests interleave between those steps, and  *)
(* each step reads the rows committed by then (READ COMMITTED), except that *)
(* a row the session has loaded keeps the attributes it was loaded with.    *)
(***************************************************************************)
EXTENDS Naturals, FiniteSets

CONSTANTS
  Users, Orgs, MemberIds, Invitations, Founder, MaxSlug,
  Requests,   \* slots for requests that are in progress at the same time
  Endpoints,  \* the endpoints clients call; a bound of the model
  Grantable,  \* the roles clients send; a bound of the model
  MemberLimit, \* members the free plan allows (plan_limits.FREE.max_members)
  None        \* the value of a field the endpoint does not use

Ops == {"create", "invite", "accept", "expire", "revoke", "role", "remove", "delete"}

VARIABLES
  orgs, members, invites,  \* the committed rows
  expired,                 \* invitations whose expires_at has passed
  req                      \* the requests in progress

vars == <<orgs, members, invites, expired, req>>

(* The refinement: the committed rows are the tables of Tenancy.tla, what   *)
(* is in progress is not seen there.                                       *)
Committed == INSTANCE Tenancy WITH orgs <- orgs, members <- members, invites <- invites

tables == <<orgs, members, invites>>

Roles == Committed!Roles

ASSUME OrgAssumption ==
  /\ Endpoints \subseteq Ops
  /\ Grantable \subseteq Roles
  /\ None \notin Users \cup Orgs \cup MemberIds \cup Invitations \cup Ops
  /\ Founder \notin Invitations
  /\ MaxSlug \in Nat

Rank == [viewer |-> 0, member |-> 1, admin |-> 2, owner |-> 3]

Phases == {"idle", "slug", "check", "flush", "commit"}

Request == [op    : Ops \cup {None},
            pc    : Phases,
            actor : Users \cup {None},        \* the authenticated user
            org   : Orgs \cup {None},
            user  : Users \cup {None},        \* target member or addressee
            role  : Roles \cup {None},
            inv   : Invitations \cup {None},
            mid   : MemberIds \cup {None},    \* membership row written
            slug  : Committed!Slugs,
            seen  : SUBSET Committed!MemberRow] \* membership rows in the session

Idle == [op |-> None, pc |-> "idle", actor |-> None, org |-> None, user |-> None,
         role |-> None, inv |-> None, mid |-> None, slug |-> 0, seen |-> {}]

Init ==
  /\ Committed!Init
  /\ expired = {}
  /\ req = [r \in Requests |-> Idle]

-----------------------------------------------------------------------------
(* ULIDs are never reused while a row or a request still refers to them. *)
FreshOrg(o) ==
  /\ \A x \in orgs : x.id # o
  /\ \A r \in Requests : req[r].org # o

FreshMember(k) ==
  /\ \A m \in members : m.id # k
  /\ \A r \in Requests : req[r].mid # k /\ \A m \in req[r].seen : m.id # k

FreshInvitation(n) ==
  /\ n \notin expired
  /\ \A i \in invites : i.id # n
  /\ \A m \in members : m.via # n
  /\ \A r \in Requests : req[r].inv # n

(* The role the session sees in a membership row the database returns: the *)
(* one it loaded first, if it has loaded the row before.                   *)
RoleSeen(q, m) ==
  IF \E s \in q.seen : s.id = m.id
    THEN (CHOOSE s \in q.seen : s.id = m.id).role
    ELSE m.role

(* _require_role with MembershipPolicy.ensure_role *)
HasRole(q, minimum) == \E m \in members :
  /\ m.user = q.actor /\ m.org = q.org
  /\ Rank[RoleSeen(q, m)] >= Rank[minimum]

Set(r, q) == req' = [req EXCEPT ![r] = q]

-----------------------------------------------------------------------------
(* A request arrives: get_current_user loads the actor's memberships, the   *)
(* endpoint loads the organization with its members.                       *)
InOrg(op, u, o, target) ==
  [Idle EXCEPT !.op = op, !.pc = "check", !.actor = u, !.org = o, !.user = target,
               !.seen = {m \in members : m.org = o /\ m.user \in {u, target}}]

Receive(r, op) ==
  /\ req[r].pc = "idle"
  /\ op \in Endpoints
  /\ UNCHANGED <<tables, expired>>

BeginInvite(r) == \E u, e \in Users, x \in orgs, g \in Grantable, n \in Invitations :
  /\ Receive(r, "invite")
  /\ FreshInvitation(n)
  /\ Set(r, [InOrg("invite", u, x.id, e) EXCEPT !.role = g, !.inv = n])

BeginRevoke(r) == \E u \in Users, x \in orgs, i \in invites :
  /\ Receive(r, "revoke")
  /\ Set(r, [InOrg("revoke", u, x.id, None) EXCEPT !.inv = i.id])

BeginRole(r) == \E u, t \in Users, x \in orgs, g \in Grantable :
  /\ Receive(r, "role")
  /\ Set(r, [InOrg("role", u, x.id, t) EXCEPT !.role = g])

BeginRemove(r) == \E u, t \in Users, x \in orgs :
  /\ Receive(r, "remove")
  /\ Set(r, InOrg("remove", u, x.id, t))

BeginDelete(r) == \E u \in Users, x \in orgs :
  /\ Receive(r, "delete")
  /\ Set(r, InOrg("delete", u, x.id, None))

BeginCreate(r) == \E u \in Users, o \in Orgs, k \in MemberIds :
  /\ Receive(r, "create")
  /\ FreshOrg(o) /\ FreshMember(k)
  /\ Set(r, [Idle EXCEPT !.op = "create", !.pc = "slug", !.actor = u, !.user = u,
                         !.org = o, !.mid = k, !.role = "owner"])

(* Mutants of Redeemable: the status is not tested, or the address is not. *)
RedeemableAgain(i, u)  == i.id \notin expired /\ i.email = u
RedeemableByAny(i, u)  == i.status = "pending" /\ i.id \notin expired

Redeemable(i, u) == i.status = "pending" /\ i.id \notin expired /\ i.email = u

(* accept_invitation reads the invitation once and trusts what it read.    *)
BeginAccept(r) == \E u \in Users, i \in invites, k \in MemberIds :
  /\ Receive(r, "accept")
  /\ Redeemable(i, u)
  /\ FreshMember(k)
  /\ Set(r, [Idle EXCEPT !.op = "accept", !.pc = "flush", !.actor = u, !.user = u,
                         !.org = i.org, !.role = i.role, !.inv = i.id, !.mid = k])

(* The branch for an expired invitation: it writes the status, then raises. *)
BeginExpire(r) == \E u \in Users, i \in invites :
  /\ Receive(r, "expire")
  /\ i.status = "pending" /\ i.id \in expired
  /\ Set(r, [Idle EXCEPT !.op = "expire", !.pc = "flush", !.actor = u, !.inv = i.id,
                         !.org = i.org])

-----------------------------------------------------------------------------
(* _unique_slug: one SELECT per turn of the loop. *)
ProbeSlug(r) ==
  /\ req[r].pc = "slug"
  /\ IF \E x \in orgs : x.slug = req[r].slug
       THEN /\ req[r].slug < MaxSlug
            /\ Set(r, [req[r] EXCEPT !.slug = @ + 1])
       ELSE Set(r, [req[r] EXCEPT !.pc = "flush"])
  /\ UNCHANGED <<tables, expired>>

Checking(r, op) ==
  /\ req[r].pc = "check" /\ req[r].op = op
  /\ UNCHANGED <<tables, expired>>

(* What is left of a request once its checks are done: the session no      *)
(* longer matters.                                                         *)
Passed(r) == [req[r] EXCEPT !.pc = "flush", !.seen = {}]

(* Mutant: no look for a pending invitation. *)
MayInviteAgain(q) == HasRole(q, "admin") /\ ~Committed!SeatTaken(q.user, q.org)

MayInvite(q) ==
  /\ HasRole(q, "admin")
  /\ ~\E i \in invites : i.email = q.user /\ i.org = q.org /\ i.status = "pending"
  /\ ~Committed!SeatTaken(q.user, q.org)

CheckInvite(r) ==
  /\ Checking(r, "invite")
  /\ MayInvite(req[r])
  /\ Set(r, Passed(r))

(* Mutant: the status is not looked at. *)
MayRevokeAny(q) == HasRole(q, "admin") /\ \E i \in invites : i.id = q.inv /\ i.org = q.org

MayRevoke(q) ==
  /\ HasRole(q, "admin")
  /\ \E i \in invites : i.id = q.inv /\ i.org = q.org /\ i.status = "pending"

CheckRevoke(r) ==
  /\ Checking(r, "revoke")
  /\ MayRevoke(req[r])
  /\ Set(r, Passed(r))

(* Mutant: no second check for the role of an owner. *)
MaySetAnyRole(q, m) ==
  /\ m.user = q.user /\ m.org = q.org
  /\ HasRole(q, "admin") /\ RoleSeen(q, m) # q.role

(* A row with its own role again is not dirty: nothing is written. *)
MaySetRole(q, m) ==
  /\ m.user = q.user /\ m.org = q.org
  /\ HasRole(q, "admin")
  /\ RoleSeen(q, m) = "owner" => HasRole(q, "owner")
  /\ RoleSeen(q, m) # q.role

CheckRole(r) == \E m \in members :
  /\ Checking(r, "role")
  /\ MaySetRole(req[r], m)
  /\ Set(r, [Passed(r) EXCEPT !.mid = m.id])

MayRemove(q) == q.actor # q.user => HasRole(q, "admin")

CheckRemove(r) ==
  /\ Checking(r, "remove")
  /\ MayRemove(req[r])
  /\ Set(r, Passed(r))

MayDelete(q) == HasRole(q, "owner")

CheckDelete(r) ==
  /\ Checking(r, "delete")
  /\ MayDelete(req[r])
  /\ Set(r, Passed(r))

(* A check fails, or there is nothing to write: the request ends. *)
Refuse(r) ==
  /\ req[r].pc = "check"
  /\ LET q == req[r] IN
       /\ q.op = "invite" => ~MayInvite(q)
       /\ q.op = "revoke" => ~MayRevoke(q)
       /\ q.op = "role"   => ~\E m \in members : MaySetRole(q, m)
       /\ q.op = "remove" => ~MayRemove(q)
       /\ q.op = "delete" => ~MayDelete(q)
  /\ Set(r, Idle)
  /\ UNCHANGED <<tables, expired>>

-----------------------------------------------------------------------------
(* The write as the database sees it.  DELETE ... WHERE user and org finds *)
(* its row only now; every other write names its row.                      *)
Aimed(r) ==
  IF req[r].op = "remove" /\ Committed!SeatTaken(req[r].user, req[r].org)
    THEN [req[r] EXCEPT !.mid =
           (CHOOSE m \in members : m.user = req[r].user /\ m.org = req[r].org).id]
    ELSE req[r]

(* Mutant: deleting an organization does not wait for writes that refer to it. *)
ConflictOnRows(p, q) ==
  \/ p.inv # None /\ p.inv = q.inv
  \/ p.mid # None /\ p.mid = q.mid
  \/ p.op = "create" /\ q.op = "create" /\ p.slug = q.slug

(* Two writes that cannot both be uncommitted: same row, same unique key,   *)
(* or one of them deletes the organization the other refers to.  A removal *)
(* that found no row holds no lock.                                        *)
Conflict(p, q) ==
  \/ p.inv # None /\ p.inv = q.inv
  \/ p.mid # None /\ p.mid = q.mid
  \/ p.op = "create" /\ q.op = "create" /\ p.slug = q.slug
  \/ p.org = q.org /\ "delete" \in {p.op, q.op}
  \/ /\ p.user = q.user /\ p.org = q.org
     /\ p.mid # None /\ q.mid # None
     /\ "accept" \in {p.op, q.op} /\ {p.op, q.op} \subseteq {"accept", "remove"}

LockFree(r, q) == \A s \in Requests \ {r} :
  req[s].pc = "commit" => ~Conflict(q, req[s])

(* Mutant: the tables lack a unique constraint. *)
NoUniqueConstraint(q) ==
  /\ q.op = "invite" => Committed!OrgExists(q.org)
  /\ q.op \in {"accept", "revoke", "expire"} => \E i \in invites : i.id = q.inv
  /\ q.op = "role" => \E m \in members : m.id = q.mid

(* Unique and foreign keys, and SQLAlchemy's count of the rows an UPDATE    *)
(* matched (StaleDataError).                                               *)
ConstraintsHold(q) ==
  /\ q.op = "create" => \A x \in orgs : x.slug # q.slug
  /\ q.op = "invite" => Committed!OrgExists(q.org)
  /\ q.op = "accept" => ~Committed!SeatTaken(q.user, q.org)
  /\ q.op \in {"accept", "revoke", "expire"} => \E i \in invites : i.id = q.inv
  /\ q.op = "role" => \E m \in members : m.id = q.mid

Flush(r) ==
  /\ req[r].pc = "flush"
  /\ LockFree(r, Aimed(r))
  /\ Set(r, IF ConstraintsHold(Aimed(r)) THEN [Aimed(r) EXCEPT !.pc = "commit"] ELSE Idle)
  /\ UNCHANGED <<tables, expired>>

-----------------------------------------------------------------------------
(* get_db commits when the handler has returned, and the locks go. *)
Committing(r, op) ==
  /\ req[r].pc = "commit" /\ req[r].op = op
  /\ Set(r, Idle)
  /\ UNCHANGED expired

CommitCreate(r) ==
  /\ Committing(r, "create")
  /\ orgs' = orgs \cup {[id |-> req[r].org, slug |-> req[r].slug]}
  /\ members' = members \cup
       {[id |-> req[r].mid, user |-> req[r].user, org |-> req[r].org,
         role |-> req[r].role, via |-> Founder]}
  /\ UNCHANGED invites

CommitInvite(r) ==
  /\ Committing(r, "invite")
  /\ invites' = invites \cup
       {[id |-> req[r].inv, org |-> req[r].org, email |-> req[r].user,
         role |-> req[r].role, status |-> "pending"]}
  /\ UNCHANGED <<orgs, members>>

SetStatus(n, status) == invites' =
  {IF i.id = n THEN [i EXCEPT !.status = status] ELSE i : i \in invites}

CommitAccept(r) ==
  /\ Committing(r, "accept")
  /\ members' = members \cup
       {[id |-> req[r].mid, user |-> req[r].user, org |-> req[r].org,
         role |-> req[r].role, via |-> req[r].inv]}
  /\ SetStatus(req[r].inv, "accepted")
  /\ UNCHANGED orgs

CommitRevoke(r) ==
  /\ Committing(r, "revoke")
  /\ SetStatus(req[r].inv, "revoked")
  /\ UNCHANGED <<orgs, members>>

(* Mutant: get_db commits although the handler raised. *)
CommitExpire(r) ==
  /\ Committing(r, "expire")
  /\ SetStatus(req[r].inv, "expired")
  /\ UNCHANGED <<orgs, members>>

(* The handler raised after the flush: get_db rolls back. *)
RollBackExpire(r) ==
  /\ Committing(r, "expire")
  /\ UNCHANGED tables

CommitRole(r) ==
  /\ Committing(r, "role")
  /\ members' = {IF m.id = req[r].mid THEN [m EXCEPT !.role = req[r].role] ELSE m :
                   m \in members}
  /\ UNCHANGED <<orgs, invites>>

CommitRemove(r) ==
  /\ Committing(r, "remove")
  /\ members' = {m \in members : m.id # req[r].mid}
  /\ UNCHANGED <<orgs, invites>>

(* ORM and database cascades: nothing of the organization stays. *)
CommitDelete(r) ==
  /\ Committing(r, "delete")
  /\ orgs' = {x \in orgs : x.id # req[r].org}
  /\ members' = {m \in members : m.org # req[r].org}
  /\ invites' = {i \in invites : i.org # req[r].org}

-----------------------------------------------------------------------------
(* The client disconnects, the process dies, the database gives up on a    *)
(* deadlock: whatever was flushed is rolled back.                          *)
Abort(r) ==
  /\ req[r].pc # "idle"
  /\ Set(r, Idle)
  /\ UNCHANGED <<tables, expired>>

(* invitation_days pass. *)
Expire == \E i \in invites :
  /\ "expire" \in Endpoints
  /\ expired' = expired \cup {i.id}
  /\ UNCHANGED <<tables, req>>

Begin(r) ==
  \/ BeginCreate(r) \/ BeginInvite(r) \/ BeginAccept(r) \/ BeginExpire(r)
  \/ BeginRevoke(r) \/ BeginRole(r) \/ BeginRemove(r) \/ BeginDelete(r)

Check(r) ==
  \/ ProbeSlug(r) \/ CheckInvite(r) \/ CheckRevoke(r) \/ CheckRole(r)
  \/ CheckRemove(r) \/ CheckDelete(r) \/ Refuse(r)

Commit(r) ==
  \/ CommitCreate(r) \/ CommitInvite(r) \/ CommitAccept(r) \/ RollBackExpire(r)
  \/ CommitRevoke(r) \/ CommitRole(r) \/ CommitRemove(r) \/ CommitDelete(r)

Next == \/ Expire
        \/ \E r \in Requests : Begin(r) \/ Check(r) \/ Flush(r) \/ Commit(r) \/ Abort(r)

Spec == Init /\ [][Next]_vars

-----------------------------------------------------------------------------
(* Rows have the columns' types and requests the fields of their endpoint. *)
TypeOK ==
  /\ Committed!TypeOK
  /\ expired \subseteq Invitations
  /\ req \in [Requests -> Request]

-----------------------------------------------------------------------------
(* The inductive invariant: what holds of each request q, given the tables, *)
(* and of two requests p and q in progress.                                *)

(* A request that will write has filled in what it writes. *)
Filled(q) ==
  /\ q.pc = "slug" => q.op = "create"
  /\ q.op \in {"create", "invite", "accept"} =>
       q.org \in Orgs /\ q.user \in Users /\ q.role \in Roles
  /\ q.op = "create" => q.role = "owner"
  /\ q.op \in {"create", "accept"} => q.mid \in MemberIds
  /\ q.op \in {"invite", "accept"} => q.inv \in Invitations
  /\ q.op = "role" => q.role \in Roles

(* The ids it was handed out are in no table yet. *)
Unused(q) ==
  /\ q.op = "create" => \A x \in orgs : x.id # q.org
  /\ q.op \in {"create", "accept"} => \A m \in members : m.id # q.mid
  /\ q.op = "invite" => /\ \A i \in invites : i.id # q.inv
                        /\ \A m \in members : m.via # q.inv

(* A row it names, once it has passed its checks, is still the row it was, *)
(* or gone.                                                                *)
SameRow(q) == q.pc \in {"flush", "commit"} =>
  /\ q.op \in {"accept", "revoke", "expire"} =>
       \A i \in invites : i.id = q.inv => i.org = q.org
  /\ q.op = "accept" =>
       \A i \in invites : i.id = q.inv => i.email = q.user /\ i.role = q.role
  /\ q.op = "role" => \A m \in members : m.id = q.mid => m.org = q.org

(* What the database found when it took the write holds until the commit. *)
StillHolds(q) == q.pc = "commit" => ConstraintsHold(q)

(* The ids handed out to p are its own, and the locks keep p and q apart. *)
Apart(p, q) ==
  /\ p.op = "create" => q.org # p.org
  /\ p.op \in {"create", "accept"} => q.mid # p.mid
  /\ p.op = "invite" => q.inv # p.inv
  /\ p.pc = "commit" /\ q.pc = "commit" => ~Conflict(p, q)

(* All of it: what a handler relied on when it flushed holds at the commit. *)
IInv ==
  /\ TypeOK /\ Committed!Keyed /\ Committed!NoOrphans
  /\ \A r \in Requests :
       Filled(req[r]) /\ Unused(req[r]) /\ SameRow(req[r]) /\ StillHolds(req[r])
  /\ \A r, s \in Requests : r # s => Apart(req[r], req[s])

-----------------------------------------------------------------------------
(* Every commit is one of the steps Tenancy.tla allows, taken at once on    *)
(* the rows as they are then, although the handler decided on older rows:  *)
(* the locks, the keys and the matched-row count see to it.                *)
AtomicCommits == Committed!Spec

(* uq_membership_user_org holds however two acceptances interleave. *)
UniqueSeat == Committed!UniqueSeat

(* Two creations that probe the same free slug do not both get it. *)
OneOrgPerSlug == Committed!OneOrgPerSlug

(* Invitations issued and accepted while the organization is deleted. *)
NoOrphans == Committed!NoOrphans

(* Nobody is a member who was not invited to this organization by address, *)
(* although accept_invitation decides on a row it read before its write.   *)
MembershipOrigin == Committed!MembershipOrigin

(* What accept_invitation writes before it raises never becomes visible. *)
ExpiryNotStored == Committed!ExpiryNotStored

(* The rest is what the handlers' checks are for.  It holds while requests *)
(* come one after the other; the checks and the writes they guard are not  *)
(* one step, so it is at risk as soon as two requests overlap.             *)

(* org_service.py:151: one pending invitation per address and organization *)
OnePendingInvitation == \A i, j \in invites :
  i.email = j.email /\ i.org = j.org /\ i.status = "pending" /\ j.status = "pending"
    => i = j

(* org_service.py:190: an invitation somebody redeemed is not revoked later *)
RedeemedIsAccepted == \A m \in members, i \in invites :
  i.id = m.via => i.status = "accepted"

(* security.py:141: an invitation token works once, and not after it was    *)
(* revoked.                                                                *)
Admitted == {m \in members' : m.via # Founder /\ \A n \in members : n.id # m.id}

SingleUse == [][\A m \in Admitted :
  \E i \in invites : i.id = m.via /\ i.status = "pending"]_vars

(* org_service.py:108: only an owner changes the role of an owner *)
Demoted == {m \in members : m.role = "owner" /\
              \E n \in members' : n.id = m.id /\ n.role # "owner"}

OwnersOnlyByOwners == [][\A m \in Demoted : \E r \in Requests, n \in members :
  /\ req[r].op = "role" /\ req[r].pc = "commit" /\ req[r].mid = m.id
  /\ n.user = req[r].actor /\ n.org = m.org /\ n.role = "owner"]_vars

(* CONTEXT.md:21: an admin manages all members except owners, so a member  *)
(* who goes while owner either leaves or is removed by another owner, or    *)
(* the organization goes.                                                  *)
Removed == {m \in members : m.role = "owner" /\ \A n \in members' : n.id # m.id}

OwnersNotRemovedByAdmins == [][\A m \in Removed :
  \/ \A x \in orgs' : x.id # m.org
  \/ \E r \in Requests, n \in members :
       /\ req[r].op = "remove" /\ req[r].pc = "commit" /\ req[r].mid = m.id
       /\ n.user = req[r].actor /\ n.org = m.org
       /\ n.role = "owner" \/ n.user = m.user]_vars

(* CONTEXT.md:29 and 48: the number of members is limited by the plan.     *)
(* MemberLimit stands for the 5 of the free plan.                          *)
WithinMemberLimit == \A x \in orgs :
  Cardinality({m \in members : m.org = x.id}) <= MemberLimit

-----------------------------------------------------------------------------
(* One request at a time. *)
Alone == \A r, s \in Requests : r = s

(* Then the session has the rows as they are, and what a handler checked is *)
(* so when it writes.                                                      *)
SerialSound(q) ==
  /\ q.seen \subseteq members
  /\ q.pc \in {"flush", "commit"} =>
       /\ q.op = "invite" =>
            ~\E i \in invites : i.email = q.user /\ i.org = q.org /\ i.status = "pending"
       /\ q.op \in {"accept", "revoke"} =>
            \A i \in invites : i.id = q.inv => i.status = "pending"
       /\ q.op = "role" => \A m \in members : m.id = q.mid /\ m.role = "owner" =>
            \E n \in members : n.user = q.actor /\ n.org = m.org /\ n.role = "owner"

(* The inductive invariant of the proofs about requests that come one after *)
(* the other.                                                              *)
SerialInv ==
  /\ IInv /\ OnePendingInvitation /\ RedeemedIsAccepted
  /\ \A r \in Requests : SerialSound(req[r])

=============================================================================
