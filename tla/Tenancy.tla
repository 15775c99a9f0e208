------------------------------- MODULE Tenancy -------------------------------
(***************************************************************************)
(* What the organization service promises about the three tables it keeps: *)
(* organizations, memberships and invitations.  Every committed request    *)
(* takes effect at once, on the rows as they are at that moment.  Who may   *)
(* make a change, and what the request had read before, is not said here:  *)
(* Organizations.tla models the requests and implements this module.       *)
(***************************************************************************)
EXTENDS Naturals

CONSTANTS
  Users,        \* users; an e-mail address belongs to exactly one user
  Orgs,         \* organization ids
  MemberIds,    \* membership row ids
  Invitations,  \* invitation ids
  Founder,      \* the origin of a membership no invitation was redeemed for
  MaxSlug       \* bound on the counter that makes a slug unique

VARIABLES
  orgs,     \* rows of "organizations"
  members,  \* rows of "memberships"; "via" is history, not a column
  invites   \* rows of "invitations"

tables == <<orgs, members, invites>>

Roles == {"viewer", "member", "admin", "owner"}

(* All organizations of a model have the same name; a slug is the counter  *)
(* that was appended to it, 0 for none.                                    *)
Slugs == 0 .. MaxSlug

OrgRow == [id : Orgs, slug : Slugs]

MemberRow == [id : MemberIds, user : Users, org : Orgs, role : Roles,
              via : Invitations \cup {Founder}]

InviteRow == [id : Invitations, org : Orgs, email : Users, role : Roles,
              status : {"pending", "accepted", "revoked", "expired"}]

Init == orgs = {} /\ members = {} /\ invites = {}

OrgExists(o) == \E x \in orgs : x.id = o

SeatTaken(u, o) == \E m \in members : m.user = u /\ m.org = o

-----------------------------------------------------------------------------
(* A user founds an organization and becomes its owner. *)
Found == \E o \in Orgs, s \in Slugs, k \in MemberIds, u \in Users :
  /\ \A x \in orgs : x.id # o /\ x.slug # s
  /\ \A m \in members : m.id # k
  /\ orgs' = orgs \cup {[id |-> o, slug |-> s]}
  /\ members' = members \cup
       {[id |-> k, user |-> u, org |-> o, role |-> "owner", via |-> Founder]}
  /\ UNCHANGED invites

Invite == \E n \in Invitations, o \in Orgs, e \in Users, g \in Roles :
  /\ OrgExists(o)
  /\ \A i \in invites : i.id # n
  /\ \A m \in members : m.via # n
  /\ invites' = invites \cup
       {[id |-> n, org |-> o, email |-> e, role |-> g, status |-> "pending"]}
  /\ UNCHANGED <<orgs, members>>

(* The addressee of an invitation takes the free seat it offers. *)
Join == \E i \in invites, k \in MemberIds :
  /\ ~SeatTaken(i.email, i.org)
  /\ \A m \in members : m.id # k
  /\ members' = members \cup
       {[id |-> k, user |-> i.email, org |-> i.org, role |-> i.role, via |-> i.id]}
  /\ invites' = (invites \ {i}) \cup {[i EXCEPT !.status = "accepted"]}
  /\ UNCHANGED orgs

Revoke == \E i \in invites :
  /\ invites' = (invites \ {i}) \cup {[i EXCEPT !.status = "revoked"]}
  /\ UNCHANGED <<orgs, members>>

SetRole == \E m \in members, g \in Roles :
  /\ members' = (members \ {m}) \cup {[m EXCEPT !.role = g]}
  /\ UNCHANGED <<orgs, invites>>

Leave == \E m \in members :
  /\ members' = members \ {m}
  /\ UNCHANGED <<orgs, invites>>

(* An organization goes, and everything that belongs to it goes with it. *)
Dissolve == \E o \in Orgs :
  /\ orgs' = {x \in orgs : x.id # o}
  /\ members' = {m \in members : m.org # o}
  /\ invites' = {i \in invites : i.org # o}

Next == Found \/ Invite \/ Join \/ Revoke \/ SetRole \/ Leave \/ Dissolve

Spec == Init /\ [][Next]_tables

-----------------------------------------------------------------------------
TypeOK ==
  /\ orgs \subseteq OrgRow
  /\ members \subseteq MemberRow
  /\ invites \subseteq InviteRow

(* Primary keys. *)
Keyed ==
  /\ \A x, y \in orgs : x.id = y.id => x = y
  /\ \A m, n \in members : m.id = n.id => m = n
  /\ \A i, j \in invites : i.id = j.id => i = j

(* No two organizations share a slug: the lookup in get_by_slug and the     *)
(* loop in _unique_slug rely on it, two simultaneous creations race for it. *)
OneOrgPerSlug == \A x, y \in orgs : x.slug = y.slug => x = y

(* A user has at most one membership in an organization; every             *)
(* scalar_one_or_none() of the role checks would raise if there were two.  *)
UniqueSeat == \A m, n \in members : m.user = n.user /\ m.org = n.org => m = n

(* Memberships and invitations belong to an organization that exists, also *)
(* when it is deleted while a request is about to add one.                 *)
NoOrphans ==
  /\ \A m \in members : OrgExists(m.org)
  /\ \A i \in invites : OrgExists(i.org)

(* Whoever is a member was either the founder or redeemed an invitation    *)
(* that was addressed to them, for this organization, and that invitation  *)
(* is never left open for a second use.                                    *)
MembershipOrigin == \A m \in members :
  m.via # Founder => \E i \in invites :
    /\ i.id = m.via /\ i.email = m.user /\ i.org = m.org
    /\ i.status \in {"accepted", "revoked"}

(* The service marks an expired invitation and then raises, so the mark is *)
(* rolled back: no committed row ever has the status.                      *)
ExpiryNotStored == \A i \in invites : i.status # "expired"

=============================================================================
