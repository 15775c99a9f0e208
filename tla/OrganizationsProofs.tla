------------------------- MODULE OrganizationsProofs -------------------------
(***************************************************************************)
(* For any number of users, organizations, invitations and simultaneous    *)
(* requests: the steps of Tenancy.tla keep its tables consistent, IInv is  *)
(* an invariant of Organizations.tla, and with it every committed request  *)
(* is one step of Tenancy.tla.  At the end, what the handlers' checks      *)
(* achieve while requests come one after the other.                        *)
(***************************************************************************)
EXTENDS Organizations, TLAPS

OfRequest(q) == Filled(q) /\ Unused(q) /\ SameRow(q) /\ StillHolds(q)

(* A new state q of request r is compatible with every other request. *)
Alongside(r, q) == \A s \in Requests \ {r} : Apart(q, req[s]) /\ Apart(req[s], q)

-----------------------------------------------------------------------------
(* The steps of Tenancy.tla, for any sets of users, organizations, row ids *)
(* and invitations.                                                        *)
TablesInv == /\ Committed!TypeOK
             /\ Committed!Keyed
             /\ Committed!OneOrgPerSlug
             /\ Committed!UniqueSeat
             /\ Committed!NoOrphans
             /\ Committed!MembershipOrigin
             /\ Committed!ExpiryNotStored

(* Every step keeps the tables well formed, and no two rows of a table     *)
(* have the same id.                                                       *)
LEMMA StepTypes ==
  ASSUME Committed!TypeOK, [Committed!Next]_tables
  PROVE  Committed!TypeOK'
<1> USE DEF Committed!TypeOK, Committed!OrgRow, Committed!MemberRow, Committed!InviteRow,
            Committed!Roles
<1>1. CASE Committed!Found BY <1>1 DEF Committed!Found
<1>2. CASE Committed!Invite BY <1>2 DEF Committed!Invite
<1>3. CASE Committed!Join BY <1>3 DEF Committed!Join
<1>4. CASE Committed!Revoke BY <1>4 DEF Committed!Revoke
<1>5. CASE Committed!SetRole BY <1>5 DEF Committed!SetRole
<1>6. CASE Committed!Leave BY <1>6 DEF Committed!Leave
<1>7. CASE Committed!Dissolve BY <1>7 DEF Committed!Dissolve
<1>8. CASE UNCHANGED tables BY <1>8 DEF tables
<1> QED BY <1>1, <1>2, <1>3, <1>4, <1>5, <1>6, <1>7, <1>8 DEF Committed!Next

LEMMA StepKeyed ==
  ASSUME Committed!TypeOK, Committed!Keyed, [Committed!Next]_tables
  PROVE  Committed!Keyed'
<1> USE DEF Committed!TypeOK, Committed!OrgRow, Committed!MemberRow, Committed!InviteRow,
            Committed!Keyed
<1>1. CASE Committed!Found BY <1>1 DEF Committed!Found
<1>2. CASE Committed!Invite BY <1>2 DEF Committed!Invite
<1>3. CASE Committed!Join BY <1>3 DEF Committed!Join
<1>4. CASE Committed!Revoke BY <1>4 DEF Committed!Revoke
<1>5. CASE Committed!SetRole BY <1>5 DEF Committed!SetRole
<1>6. CASE Committed!Leave BY <1>6 DEF Committed!Leave
<1>7. CASE Committed!Dissolve BY <1>7 DEF Committed!Dissolve
<1>8. CASE UNCHANGED tables BY <1>8 DEF tables
<1> QED BY <1>1, <1>2, <1>3, <1>4, <1>5, <1>6, <1>7, <1>8 DEF Committed!Next

(* Slugs change only when an organization comes or goes. *)
LEMMA StepSlugs ==
  ASSUME Committed!OneOrgPerSlug, [Committed!Next]_tables
  PROVE  Committed!OneOrgPerSlug'
<1> USE DEF Committed!OneOrgPerSlug
<1>1. CASE Committed!Found BY <1>1 DEF Committed!Found
<1>2. CASE UNCHANGED orgs BY <1>2
<1>3. CASE Committed!Dissolve BY <1>3 DEF Committed!Dissolve
<1> QED BY <1>1, <1>2, <1>3
        DEF Committed!Next, Committed!Invite, Committed!Join, Committed!Revoke,
            Committed!SetRole, Committed!Leave, tables

(* A foreign key needs the organization to be there when the row comes,    *)
(* and the rows to go when the organization does.                          *)
LEMMA StepOrphans ==
  ASSUME Committed!TypeOK, Committed!NoOrphans, [Committed!Next]_tables
  PROVE  Committed!NoOrphans'
<1> USE DEF Committed!TypeOK, Committed!OrgRow, Committed!MemberRow, Committed!InviteRow,
            Committed!NoOrphans, Committed!OrgExists
<1>1. CASE Committed!Found
  <2>1. PICK o \in Orgs, s \in Committed!Slugs, k \in MemberIds, u \in Users :
          /\ orgs' = orgs \cup {[id |-> o, slug |-> s]}
          /\ members' = members \cup
               {[id |-> k, user |-> u, org |-> o, role |-> "owner", via |-> Founder]}
          /\ UNCHANGED invites
    BY <1>1 DEF Committed!Found
  <2>2. \A p : Committed!OrgExists(p) => Committed!OrgExists(p)'
    BY <2>1
  <2>3. Committed!OrgExists(o)'
    <3>1. [id |-> o, slug |-> s] \in orgs' /\ [id |-> o, slug |-> s].id = o
      BY <2>1
    <3> QED BY <3>1
  <2>4. \A m \in members' : Committed!OrgExists(m.org)'
    BY <2>1, <2>2, <2>3
  <2> QED BY <2>1, <2>2, <2>4
<1>2. CASE Committed!Invite BY <1>2 DEF Committed!Invite
<1>3. CASE Committed!Join BY <1>3 DEF Committed!Join
<1>4. CASE Committed!Revoke BY <1>4 DEF Committed!Revoke
<1>5. CASE Committed!SetRole BY <1>5 DEF Committed!SetRole
<1>6. CASE Committed!Leave BY <1>6 DEF Committed!Leave
<1>7. CASE Committed!Dissolve BY <1>7 DEF Committed!Dissolve
<1>8. CASE UNCHANGED tables BY <1>8 DEF tables
<1> QED BY <1>1, <1>2, <1>3, <1>4, <1>5, <1>6, <1>7, <1>8 DEF Committed!Next

(* A founder's seat is free because nobody can be a member of an            *)
(* organization that does not exist yet.                                   *)
LEMMA StepSeats ==
  ASSUME Committed!TypeOK, Committed!NoOrphans, Committed!UniqueSeat,
         [Committed!Next]_tables
  PROVE  Committed!UniqueSeat'
<1> USE DEF Committed!TypeOK, Committed!MemberRow, Committed!UniqueSeat
<1>1. CASE Committed!Found BY <1>1 DEF Committed!Found, Committed!NoOrphans,
                                       Committed!OrgExists
<1>2. CASE Committed!Join BY <1>2 DEF Committed!Join, Committed!SeatTaken
<1>3. CASE Committed!SetRole BY <1>3 DEF Committed!SetRole
<1>4. CASE Committed!Leave BY <1>4 DEF Committed!Leave
<1>5. CASE Committed!Dissolve BY <1>5 DEF Committed!Dissolve
<1>6. CASE UNCHANGED members BY <1>6
<1> QED BY <1>1, <1>2, <1>3, <1>4, <1>5, <1>6 DEF Committed!Next, Committed!Invite,
                                                  Committed!Revoke, tables

(* The invitation a member redeemed is never open again, and it goes only  *)
(* together with the member.                                               *)
LEMMA StepOrigin ==
  ASSUME Committed!TypeOK, Committed!Keyed, Committed!MembershipOrigin,
         [Committed!Next]_tables
  PROVE  Committed!MembershipOrigin'
<1> USE DEF Committed!TypeOK, Committed!MemberRow, Committed!InviteRow, Committed!Keyed,
            Committed!MembershipOrigin
<1>1. CASE Committed!Found BY <1>1 DEF Committed!Found
<1>2. CASE Committed!Invite BY <1>2 DEF Committed!Invite
<1> DEFINE Redeemed(m) == \E i \in invites :
             /\ i.id = m.via /\ i.email = m.user /\ i.org = m.org
             /\ i.status \in {"accepted", "revoked"}
<1>3. CASE Committed!Join
  <2>1. PICK i \in invites, k \in MemberIds :
          /\ members' = members \cup {[id |-> k, user |-> i.email, org |-> i.org,
                                        role |-> i.role, via |-> i.id]}
          /\ invites' = (invites \ {i}) \cup {[i EXCEPT !.status = "accepted"]}
    BY <1>3 DEF Committed!Join
  <2> DEFINE j == [i EXCEPT !.status = "accepted"]
  <2>2. /\ j \in invites' /\ j.status = "accepted"
        /\ j.id = i.id /\ j.email = i.email /\ j.org = i.org
    BY <2>1
  <2>3. ASSUME NEW m \in members, Redeemed(m)
        PROVE  Redeemed(m)'
    BY <2>1, <2>2, <2>3
  <2>4. Redeemed([id |-> k, user |-> i.email, org |-> i.org,
                  role |-> i.role, via |-> i.id])'
    BY <2>2
  <2> QED BY <2>1, <2>3, <2>4
<1>4. CASE Committed!Revoke
  <2>1. PICK i \in invites :
          /\ invites' = (invites \ {i}) \cup {[i EXCEPT !.status = "revoked"]}
          /\ UNCHANGED members
    BY <1>4 DEF Committed!Revoke
  <2> DEFINE j == [i EXCEPT !.status = "revoked"]
  <2>2. /\ j \in invites' /\ j.status = "revoked"
        /\ j.id = i.id /\ j.email = i.email /\ j.org = i.org
    BY <2>1
  <2>3. ASSUME NEW m \in members, Redeemed(m)
        PROVE  Redeemed(m)'
    BY <2>1, <2>2, <2>3
  <2> QED BY <2>1, <2>3
<1>5. CASE Committed!SetRole BY <1>5 DEF Committed!SetRole
<1>6. CASE Committed!Leave BY <1>6 DEF Committed!Leave
<1>7. CASE Committed!Dissolve BY <1>7 DEF Committed!Dissolve
<1>8. CASE UNCHANGED tables BY <1>8 DEF tables
<1> QED BY <1>1, <1>2, <1>3, <1>4, <1>5, <1>6, <1>7, <1>8 DEF Committed!Next

(* No step of the abstract service writes the status "expired". *)
LEMMA StepExpiry ==
  ASSUME Committed!TypeOK, Committed!ExpiryNotStored, [Committed!Next]_tables
  PROVE  Committed!ExpiryNotStored'
<1> USE DEF Committed!TypeOK, Committed!InviteRow, Committed!ExpiryNotStored
<1>1. CASE Committed!Invite BY <1>1 DEF Committed!Invite
<1>2. CASE Committed!Join BY <1>2 DEF Committed!Join
<1>3. CASE Committed!Revoke BY <1>3 DEF Committed!Revoke
<1>4. CASE Committed!Dissolve BY <1>4 DEF Committed!Dissolve
<1>5. CASE UNCHANGED invites BY <1>5
<1> QED BY <1>1, <1>2, <1>3, <1>4, <1>5 DEF Committed!Next, Committed!Found,
                                            Committed!SetRole, Committed!Leave, tables

-----------------------------------------------------------------------------
LEMMA ConflictSymmetric ==
  ASSUME NEW p, NEW q, Conflict(p, q)
  PROVE  Conflict(q, p)
BY DEF Conflict

(* A step that only moves one request on keeps IInv if the new state of the *)
(* request fits the tables and the other requests.                         *)
LEMMA RequestStep ==
  ASSUME IInv, NEW r \in Requests, NEW q \in Request, Set(r, q),
         UNCHANGED <<tables, expired>>, OfRequest(q), Alongside(r, q)
  PROVE  IInv'
<1> USE DEF IInv
<1>1. req' = [req EXCEPT ![r] = q] /\ req \in [Requests -> Request]
  BY DEF Set, TypeOK
<1>2. req'[r] = q /\ \A s \in Requests \ {r} : req'[s] = req[s]
  BY <1>1
<1>3. TypeOK'
  BY <1>1 DEF TypeOK, tables, Committed!TypeOK, Committed!OrgRow, Committed!MemberRow,
              Committed!InviteRow, Request
<1>4. Committed!Keyed' /\ Committed!NoOrphans'
  BY DEF tables, Committed!Keyed, Committed!NoOrphans, Committed!OrgExists
<1>5. ASSUME NEW s \in Requests PROVE OfRequest(req[s])'
  <2>1. \A p : OfRequest(p) => OfRequest(p)'
    BY DEF OfRequest, Filled, Unused, SameRow, StillHolds, ConstraintsHold, tables,
           Committed!SeatTaken, Committed!OrgExists
  <2> QED BY <1>2, <2>1 DEF OfRequest
<1>6. ASSUME NEW s \in Requests, NEW t \in Requests, s # t
      PROVE  Apart(req[s], req[t])'
  BY <1>2, <1>6 DEF Alongside
<1> QED BY <1>3, <1>4, <1>5, <1>6 DEF OfRequest

-----------------------------------------------------------------------------
LEMMA IdleTyped == Idle \in Request
BY OrgAssumption DEF Idle, Request, Phases, Committed!Slugs, Ops

(* A request that ends, with or without a result, leaves nothing behind. *)
LEMMA EndStep ==
  ASSUME IInv, NEW r \in Requests, Set(r, Idle), UNCHANGED <<tables, expired>>
  PROVE  IInv'
<1>1. OfRequest(Idle)
  BY OrgAssumption DEF Idle, OfRequest, Filled, Unused, SameRow, StillHolds, Ops
<1>2. Alongside(r, Idle)
  BY OrgAssumption DEF Alongside, Apart, Idle, IInv, Filled, Ops
<1> QED BY <1>1, <1>2, IdleTyped, RequestStep

-----------------------------------------------------------------------------
(* A request that arrives for an organization names rows that exist, or an  *)
(* invitation id nobody else has.                                          *)
LEMMA Arrival ==
  ASSUME IInv, NEW r \in Requests, NEW q \in Request,
         q.pc = "check", q.op \in {"invite", "revoke", "role", "remove", "delete"},
         Filled(q), q.mid = None,
         \E x \in orgs : x.id = q.org,
         \/ q.op = "invite" /\ FreshInvitation(q.inv)
         \/ q.op # "invite" /\ (q.inv = None \/ \E i \in invites : i.id = q.inv),
         Set(r, q), UNCHANGED <<tables, expired>>
  PROVE  IInv'
<1>1. OfRequest(q)
  BY DEF OfRequest, Unused, SameRow, StillHolds, FreshInvitation
<1>2. ASSUME NEW s \in Requests \ {r}
      PROVE  Apart(q, req[s]) /\ Apart(req[s], q)
  <2>1. Filled(req[s]) /\ Unused(req[s])
    BY DEF IInv
  <2>2. Apart(q, req[s])
    BY DEF Apart, FreshInvitation
  <2>3. req[s].op = "create" => q.org # req[s].org
    BY <2>1 DEF Unused
  <2>4. req[s].op \in {"create", "accept"} => q.mid # req[s].mid
    BY <2>1, OrgAssumption DEF Filled
  <2>5. req[s].op = "invite" => q.inv # req[s].inv
    BY <2>1, OrgAssumption DEF Filled, Unused, FreshInvitation
  <2> QED BY <2>2, <2>3, <2>4, <2>5 DEF Apart
<1> QED BY <1>1, <1>2, RequestStep DEF Alongside

LEMMA InOrgTyped ==
  ASSUME TypeOK, NEW op \in Ops, NEW u \in Users, NEW x \in orgs,
         NEW t \in Users \cup {None}
  PROVE  InOrg(op, u, x.id, t) \in Request
<1> DEFINE loaded == {m \in members : m.org = x.id /\ m.user \in {u, t}}
<1>1. x.id \in Orgs /\ loaded \in SUBSET Committed!MemberRow
  BY DEF TypeOK, Committed!TypeOK, Committed!OrgRow
<1> HIDE DEF loaded
<1>2. [Idle EXCEPT !.op = op, !.pc = "check", !.actor = u, !.org = x.id, !.user = t,
                   !.seen = loaded] \in Request
  BY <1>1, IdleTyped DEF Request, Phases
<1> QED BY <1>2 DEF InOrg, loaded

LEMMA BeginStep ==
  ASSUME IInv, NEW r \in Requests, Begin(r)
  PROVE  IInv'
<1>0. TypeOK /\ Grantable \subseteq Roles
  BY OrgAssumption DEF IInv
<1>1. CASE BeginInvite(r)
  <2>1. PICK u \in Users, e \in Users, x \in orgs, g \in Grantable, n \in Invitations :
          /\ FreshInvitation(n)
          /\ Set(r, [InOrg("invite", u, x.id, e) EXCEPT !.role = g, !.inv = n])
          /\ UNCHANGED <<tables, expired>>
    BY <1>1 DEF BeginInvite, Receive
  <2>2. InOrg("invite", u, x.id, e) \in Request
    BY <1>0, InOrgTyped DEF Ops
  <2>3. PICK q : q = [InOrg("invite", u, x.id, e) EXCEPT !.role = g, !.inv = n]
    OBVIOUS
  <2>4. q \in Request
    BY <1>0, <2>2, <2>3 DEF Request
  <2>5. /\ q.pc = "check" /\ q.op = "invite" /\ q.mid = None /\ q.org = x.id
        /\ q.inv = n /\ q.user = e /\ q.role = g
    BY <2>3 DEF InOrg, Idle
  <2>6. Filled(q)
    BY <1>0, <2>5 DEF Filled, TypeOK, Committed!TypeOK, Committed!OrgRow
  <2> QED BY <2>1, <2>3, <2>4, <2>5, <2>6, Arrival
<1>2. CASE BeginRevoke(r)
  <2>1. PICK u \in Users, x \in orgs, i \in invites :
          /\ Set(r, [InOrg("revoke", u, x.id, None) EXCEPT !.inv = i.id])
          /\ UNCHANGED <<tables, expired>>
    BY <1>2 DEF BeginRevoke, Receive
  <2>2. InOrg("revoke", u, x.id, None) \in Request /\ i.id \in Invitations
    BY <1>0, InOrgTyped DEF Ops, TypeOK, Committed!TypeOK, Committed!InviteRow
  <2>3. PICK q : q = [InOrg("revoke", u, x.id, None) EXCEPT !.inv = i.id]
    OBVIOUS
  <2>4. q \in Request
    BY <2>2, <2>3 DEF Request
  <2>5. q.pc = "check" /\ q.op = "revoke" /\ q.mid = None /\ q.org = x.id /\ q.inv = i.id
    BY <2>3 DEF InOrg, Idle
  <2>6. Filled(q)
    BY <2>5 DEF Filled
  <2> QED BY <2>1, <2>3, <2>4, <2>5, <2>6, Arrival
<1>3. CASE BeginRole(r)
  <2>1. PICK u \in Users, t \in Users, x \in orgs, g \in Grantable :
          /\ Set(r, [InOrg("role", u, x.id, t) EXCEPT !.role = g])
          /\ UNCHANGED <<tables, expired>>
    BY <1>3 DEF BeginRole, Receive
  <2>2. InOrg("role", u, x.id, t) \in Request
    BY <1>0, InOrgTyped DEF Ops
  <2>3. PICK q : q = [InOrg("role", u, x.id, t) EXCEPT !.role = g]
    OBVIOUS
  <2>4. q \in Request
    BY <1>0, <2>2, <2>3 DEF Request
  <2>5. /\ q.pc = "check" /\ q.op = "role" /\ q.mid = None /\ q.org = x.id
        /\ q.inv = None /\ q.role = g
    BY <2>3 DEF InOrg, Idle
  <2>6. Filled(q)
    BY <1>0, <2>5 DEF Filled
  <2> QED BY <2>1, <2>3, <2>4, <2>5, <2>6, Arrival
<1>4. CASE BeginRemove(r)
  <2>1. PICK u \in Users, t \in Users, x \in orgs :
          /\ Set(r, InOrg("remove", u, x.id, t))
          /\ UNCHANGED <<tables, expired>>
    BY <1>4 DEF BeginRemove, Receive
  <2>2. PICK q : q = InOrg("remove", u, x.id, t)
    OBVIOUS
  <2>3. q \in Request
    BY <1>0, <2>2, InOrgTyped DEF Ops
  <2>4. q.pc = "check" /\ q.op = "remove" /\ q.mid = None /\ q.org = x.id /\ q.inv = None
    BY <2>2 DEF InOrg, Idle
  <2>5. Filled(q)
    BY <2>4 DEF Filled
  <2> QED BY <2>1, <2>2, <2>3, <2>4, <2>5, Arrival
<1>5. CASE BeginDelete(r)
  <2>1. PICK u \in Users, x \in orgs :
          /\ Set(r, InOrg("delete", u, x.id, None))
          /\ UNCHANGED <<tables, expired>>
    BY <1>5 DEF BeginDelete, Receive
  <2>2. PICK q : q = InOrg("delete", u, x.id, None)
    OBVIOUS
  <2>3. q \in Request
    BY <1>0, <2>2, InOrgTyped DEF Ops
  <2>4. q.pc = "check" /\ q.op = "delete" /\ q.mid = None /\ q.org = x.id /\ q.inv = None
    BY <2>2 DEF InOrg, Idle
  <2>5. Filled(q)
    BY <2>4 DEF Filled
  <2> QED BY <2>1, <2>2, <2>3, <2>4, <2>5, Arrival
<1>6. CASE BeginCreate(r)
  <2>1. PICK u \in Users, o \in Orgs, k \in MemberIds :
          /\ FreshOrg(o) /\ FreshMember(k)
          /\ Set(r, [Idle EXCEPT !.op = "create", !.pc = "slug", !.actor = u, !.user = u,
                                 !.org = o, !.mid = k, !.role = "owner"])
          /\ UNCHANGED <<tables, expired>>
    BY <1>6 DEF BeginCreate, Receive
  <2>2. PICK q : q = [Idle EXCEPT !.op = "create", !.pc = "slug", !.actor = u, !.user = u,
                                  !.org = o, !.mid = k, !.role = "owner"]
    OBVIOUS
  <2>3. q \in Request
    BY <2>2, IdleTyped DEF Request, Ops, Phases, Roles, Committed!Roles
  <2>4. /\ q.pc = "slug" /\ q.op = "create" /\ q.mid = k /\ q.org = o /\ q.inv = None
        /\ q.user = u /\ q.role = "owner"
    BY <2>2 DEF Idle
  <2>5. OfRequest(q)
    BY <2>1, <2>4 DEF OfRequest, Filled, Unused, SameRow, StillHolds, FreshOrg, FreshMember,
                      Roles, Committed!Roles
  <2>6. Alongside(r, q)
    BY <2>1, <2>4, OrgAssumption DEF Alongside, Apart, FreshOrg, FreshMember, IInv, Filled
  <2> QED BY <2>1, <2>2, <2>3, <2>5, <2>6, RequestStep
<1>7. CASE BeginAccept(r)
  <2>1. PICK u \in Users, i \in invites, k \in MemberIds :
          /\ FreshMember(k) /\ i.email = u
          /\ Set(r, [Idle EXCEPT !.op = "accept", !.pc = "flush", !.actor = u, !.user = u,
                         !.org = i.org, !.role = i.role, !.inv = i.id, !.mid = k])
          /\ UNCHANGED <<tables, expired>>
    BY <1>7 DEF BeginAccept, Redeemable, Receive
  <2>2. PICK q : q = [Idle EXCEPT !.op = "accept", !.pc = "flush", !.actor = u, !.user = u,
                         !.org = i.org, !.role = i.role, !.inv = i.id, !.mid = k]
    OBVIOUS
  <2>3. i \in Committed!InviteRow
    BY <1>0 DEF TypeOK, Committed!TypeOK
  <2>4. q \in Request
    BY <2>2, <2>3, IdleTyped DEF Request, Ops, Phases, Roles, Committed!InviteRow
  <2>5. /\ q.pc = "flush" /\ q.op = "accept" /\ q.mid = k /\ q.org = i.org /\ q.inv = i.id
        /\ q.user = u /\ q.role = i.role
    BY <2>2 DEF Idle
  <2>6. OfRequest(q)
    BY <2>1, <2>3, <2>5 DEF OfRequest, Filled, Unused, SameRow, StillHolds, FreshMember,
                            IInv, Committed!Keyed, Committed!InviteRow, Roles
  <2>7. Alongside(r, q)
    BY <2>1, <2>5 DEF Alongside, Apart, FreshMember, IInv, Unused,
                      Committed!NoOrphans, Committed!OrgExists
  <2> QED BY <2>1, <2>2, <2>4, <2>6, <2>7, RequestStep
<1>8. CASE BeginExpire(r)
  <2>1. PICK u \in Users, i \in invites :
          /\ Set(r, [Idle EXCEPT !.op = "expire", !.pc = "flush", !.actor = u, !.inv = i.id,
                                 !.org = i.org])
          /\ UNCHANGED <<tables, expired>>
    BY <1>8 DEF BeginExpire, Receive
  <2>2. PICK q : q = [Idle EXCEPT !.op = "expire", !.pc = "flush", !.actor = u, !.inv = i.id,
                                  !.org = i.org]
    OBVIOUS
  <2>3. q \in Request
    BY <1>0, <2>2, IdleTyped DEF Request, Ops, Phases, TypeOK, Committed!TypeOK,
                                 Committed!InviteRow
  <2>4. q.pc = "flush" /\ q.op = "expire" /\ q.mid = None /\ q.org = i.org /\ q.inv = i.id
    BY <2>2 DEF Idle
  <2>5. OfRequest(q)
    BY <2>4 DEF OfRequest, Filled, Unused, SameRow, StillHolds, IInv, Committed!Keyed
  <2>6. Alongside(r, q)
    BY <2>4, OrgAssumption DEF Alongside, Apart, IInv, Filled, Unused,
                               Committed!NoOrphans, Committed!OrgExists
  <2> QED BY <2>1, <2>2, <2>3, <2>5, <2>6, RequestStep
<1> QED BY <1>1, <1>2, <1>3, <1>4, <1>5, <1>6, <1>7, <1>8 DEF Begin

-----------------------------------------------------------------------------
(* The loop of _unique_slug and the validation of a request change nothing *)
(* but its phase and, for a role change, the row it names.                 *)
LEMMA ProbeStep ==
  ASSUME IInv, NEW r \in Requests, ProbeSlug(r)
  PROVE  IInv'
<1>1. PICK p : p = req[r]
  OBVIOUS
<1>2. p \in Request /\ OfRequest(p) /\ Alongside(r, p)
  BY <1>1 DEF IInv, TypeOK, OfRequest, Alongside
<1>3. CASE \E x \in orgs : x.slug = p.slug
  <2>1. PICK q : q = [p EXCEPT !.slug = @ + 1]
    OBVIOUS
  <2>2. /\ Set(r, q) /\ p.slug < MaxSlug /\ p.pc = "slug"
        /\ UNCHANGED <<tables, expired>>
    BY <1>1, <1>3, <2>1 DEF ProbeSlug
  <2>3. p.slug + 1 \in Committed!Slugs
    BY <1>2, <2>2, OrgAssumption DEF Request, Committed!Slugs
  <2>4. q \in Request
    BY <1>2, <2>1, <2>3 DEF Request
  <2>5. /\ q.op = p.op /\ q.pc = p.pc /\ q.org = p.org /\ q.user = p.user
        /\ q.role = p.role /\ q.inv = p.inv /\ q.mid = p.mid
    BY <1>2, <2>1 DEF Request
  <2>6. OfRequest(q)
    BY <1>2, <2>2, <2>5 DEF OfRequest, Filled, Unused, SameRow, StillHolds
  <2>7. Alongside(r, q)
    BY <1>2, <2>2, <2>5 DEF Alongside, Apart
  <2> QED BY <2>2, <2>4, <2>6, <2>7, RequestStep
<1>4. CASE ~ \E x \in orgs : x.slug = p.slug
  <2>1. PICK q : q = [p EXCEPT !.pc = "flush"]
    OBVIOUS
  <2>2. Set(r, q) /\ p.pc = "slug" /\ UNCHANGED <<tables, expired>>
    BY <1>1, <1>4, <2>1 DEF ProbeSlug
  <2>3. q \in Request
    BY <1>2, <2>1 DEF Request, Phases
  <2>4. /\ q.op = p.op /\ q.pc = "flush" /\ q.org = p.org /\ q.user = p.user
        /\ q.role = p.role /\ q.inv = p.inv /\ q.mid = p.mid
    BY <1>2, <2>1 DEF Request
  <2>5. OfRequest(q)
    BY <1>2, <2>2, <2>4 DEF OfRequest, Filled, Unused, SameRow, StillHolds
  <2>6. Alongside(r, q)
    BY <1>2, <2>2, <2>4 DEF Alongside, Apart
  <2> QED BY <2>2, <2>3, <2>5, <2>6, RequestStep
<1> QED BY <1>3, <1>4

(* A request that passes its checks names rows of its organization. *)
LEMMA Passing ==
  ASSUME IInv, NEW r \in Requests, NEW q \in Request,
         req[r].pc = "check", q.pc = "flush",
         q.op = req[r].op, q.org = req[r].org, q.user = req[r].user,
         q.role = req[r].role, q.inv = req[r].inv,
         q.mid = req[r].mid \/ (q.op = "role" /\ \E m \in members : m.id = q.mid),
         SameRow(q), Set(r, q), UNCHANGED <<tables, expired>>
  PROVE  IInv'
<1>1. OfRequest(req[r]) /\ Alongside(r, req[r])
  BY DEF IInv, OfRequest, Alongside
<1>2. OfRequest(q)
  BY <1>1 DEF OfRequest, Filled, Unused, StillHolds
<1>3. ASSUME NEW s \in Requests \ {r}
      PROVE  Apart(q, req[s]) /\ Apart(req[s], q)
  BY <1>1 DEF Alongside, Apart, IInv, Unused
<1> QED BY <1>2, <1>3, RequestStep DEF Alongside

LEMMA CheckStep ==
  ASSUME IInv, NEW r \in Requests, Check(r)
  PROVE  IInv'
<1>1. PICK p : p = req[r]
  OBVIOUS
<1>2. p \in Request
  BY <1>1 DEF IInv, TypeOK
<1>3. PICK q : q = [p EXCEPT !.pc = "flush", !.seen = {}]
  OBVIOUS
<1>4. q \in Request
  BY <1>2, <1>3 DEF Request, Phases
<1>5. /\ q.op = p.op /\ q.pc = "flush" /\ q.org = p.org /\ q.user = p.user
      /\ q.role = p.role /\ q.inv = p.inv /\ q.mid = p.mid
  BY <1>2, <1>3 DEF Request
<1>6. CASE ProbeSlug(r)
  BY <1>6, ProbeStep
<1>7. CASE CheckInvite(r) \/ CheckRemove(r) \/ CheckDelete(r)
  <2>1. /\ p.pc = "check" /\ p.op \in {"invite", "remove", "delete"}
        /\ Set(r, q) /\ UNCHANGED <<tables, expired>>
    BY <1>1, <1>3, <1>7 DEF CheckInvite, CheckRemove, CheckDelete, Checking, Passed
  <2>2. SameRow(q)
    BY <1>5, <2>1 DEF SameRow
  <2> QED BY <1>1, <1>4, <1>5, <2>1, <2>2, Passing
<1>8. CASE CheckRevoke(r)
  <2>1. /\ p.pc = "check" /\ p.op = "revoke" /\ MayRevoke(p)
        /\ Set(r, q) /\ UNCHANGED <<tables, expired>>
    BY <1>1, <1>3, <1>8 DEF CheckRevoke, Checking, Passed
  <2>2. SameRow(q)
    BY <1>5, <2>1 DEF SameRow, MayRevoke, IInv, Committed!Keyed
  <2> QED BY <1>1, <1>4, <1>5, <2>1, <2>2, Passing
<1>9. CASE CheckRole(r)
  <2>1. PICK m \in members :
          /\ p.pc = "check" /\ p.op = "role" /\ MaySetRole(p, m)
          /\ Set(r, [q EXCEPT !.mid = m.id]) /\ UNCHANGED <<tables, expired>>
    BY <1>1, <1>3, <1>9 DEF CheckRole, Checking, Passed
  <2>2. PICK t : t = [q EXCEPT !.mid = m.id]
    OBVIOUS
  <2>3. m.id \in MemberIds
    BY DEF IInv, TypeOK, Committed!TypeOK, Committed!MemberRow
  <2>4. t \in Request
    BY <1>4, <2>2, <2>3 DEF Request
  <2>5. /\ t.op = p.op /\ t.pc = "flush" /\ t.org = p.org /\ t.user = p.user
        /\ t.role = p.role /\ t.inv = p.inv /\ t.mid = m.id
    BY <1>4, <1>5, <2>2 DEF Request
  <2>6. SameRow(t)
    BY <2>1, <2>5 DEF SameRow, MaySetRole, IInv, Committed!Keyed
  <2> QED BY <1>1, <2>1, <2>2, <2>4, <2>5, <2>6, Passing
<1>10. CASE Refuse(r)
  BY <1>10, EndStep DEF Refuse
<1> QED BY <1>6, <1>7, <1>8, <1>9, <1>10 DEF Check

-----------------------------------------------------------------------------
(* The database takes a write: the locks are free and the constraints hold. *)
LEMMA FlushStep ==
  ASSUME IInv, NEW r \in Requests, Flush(r)
  PROVE  IInv'
<1>1. CASE ~ConstraintsHold(Aimed(r))
  BY <1>1, EndStep DEF Flush
<1>2. CASE ConstraintsHold(Aimed(r))
  <2>1. PICK p, a, q : p = req[r] /\ a = Aimed(r) /\ q = [a EXCEPT !.pc = "commit"]
    OBVIOUS
  <2>2. /\ p.pc = "flush" /\ LockFree(r, a) /\ ConstraintsHold(a)
        /\ Set(r, q) /\ UNCHANGED <<tables, expired>>
    BY <1>2, <2>1 DEF Flush
  <2>3. p \in Request /\ OfRequest(p) /\ Alongside(r, p)
    BY <2>1 DEF IInv, TypeOK, OfRequest, Alongside
  <2>4. /\ a \in Request /\ a.op = p.op /\ a.pc = p.pc /\ a.org = p.org
        /\ a.user = p.user /\ a.role = p.role /\ a.inv = p.inv /\ a.slug = p.slug
        /\ a.mid = p.mid \/ (p.op = "remove" /\ \E m \in members : m.id = a.mid)
    <3>1. CASE p.op = "remove" /\ Committed!SeatTaken(p.user, p.org)
      <4>1. PICK m \in members : m = CHOOSE n \in members : n.user = p.user /\ n.org = p.org
        BY <3>1 DEF Committed!SeatTaken
      <4>2. a = [p EXCEPT !.mid = m.id]
        BY <2>1, <3>1, <4>1 DEF Aimed
      <4>3. m.id \in MemberIds
        BY DEF IInv, TypeOK, Committed!TypeOK, Committed!MemberRow
      <4> QED BY <2>3, <3>1, <4>2, <4>3 DEF Request
    <3>2. CASE ~(p.op = "remove" /\ Committed!SeatTaken(p.user, p.org))
      BY <2>1, <2>3, <3>2 DEF Aimed
    <3> QED BY <3>1, <3>2
  <2>5. /\ q \in Request /\ q.op = a.op /\ q.pc = "commit" /\ q.org = a.org
        /\ q.user = a.user /\ q.role = a.role /\ q.inv = a.inv /\ q.slug = a.slug
        /\ q.mid = a.mid
    BY <2>1, <2>4 DEF Request, Phases
  <2>6. OfRequest(q)
    BY <2>2, <2>3, <2>4, <2>5 DEF OfRequest, Filled, Unused, SameRow, StillHolds,
                                  ConstraintsHold
  <2>7. ASSUME NEW s \in Requests \ {r}
        PROVE  Apart(q, req[s]) /\ Apart(req[s], q)
    <3>1. req[s].pc = "commit" => ~Conflict(q, req[s])
      BY <2>2, <2>5 DEF LockFree, Conflict
    <3>2. req[s].pc = "commit" => ~Conflict(req[s], q)
      BY <3>1, ConflictSymmetric
    <3>3. Unused(req[s])
      BY DEF IInv
    <3> QED BY <2>3, <2>4, <2>5, <3>1, <3>2, <3>3 DEF Alongside, Apart, Unused
  <2> QED BY <2>2, <2>5, <2>6, <2>7, RequestStep DEF Alongside
<1> QED BY <1>1, <1>2

-----------------------------------------------------------------------------
(* Setting the status of the row with a given id replaces that row only. *)
LEMMA StatusOfOneRow ==
  ASSUME IInv, NEW i \in invites, NEW status, SetStatus(i.id, status)
  PROVE  invites' = (invites \ {i}) \cup {[i EXCEPT !.status = status]}
BY DEF SetStatus, IInv, Committed!Keyed

LEMMA StatusOnly ==
  ASSUME IInv, NEW n, NEW status, SetStatus(n, status)
  PROVE  /\ \A j \in invites' : \E i \in invites :
              i.id = j.id /\ i.org = j.org /\ i.email = j.email /\ i.role = j.role
         /\ \A i \in invites : \E j \in invites' : j.id = i.id
<1>1. \A i \in invites : i \in Committed!InviteRow
  BY DEF IInv, TypeOK, Committed!TypeOK
<1>2. ASSUME NEW i \in invites
      PROVE  LET j == [i EXCEPT !.status = status]
             IN  i.id = j.id /\ i.org = j.org /\ i.email = j.email /\ i.role = j.role
  BY <1>1 DEF Committed!InviteRow
<1> DEFINE Row(i) == IF i.id = n THEN [i EXCEPT !.status = status] ELSE i
<1>3. invites' = {Row(i) : i \in invites}
  BY DEF SetStatus
<1>4. ASSUME NEW i \in invites
      PROVE  /\ i.id = Row(i).id /\ i.org = Row(i).org
             /\ i.email = Row(i).email /\ i.role = Row(i).role
  BY <1>2
<1> HIDE DEF Row
<1> QED BY <1>3, <1>4

(* A commit is a step of Tenancy.tla, on the tables as they are. *)
LEMMA CommitIsAtomic ==
  ASSUME IInv, NEW r \in Requests, Commit(r)
  PROVE  [Committed!Next]_tables
<1>1. PICK p : p = req[r]
  OBVIOUS
<1>2. p \in Request /\ Filled(p) /\ Unused(p) /\ SameRow(p)
  BY <1>1 DEF IInv, TypeOK
<1>3. p.pc = "commit" /\ ConstraintsHold(p)
  BY <1>1 DEF Commit, CommitCreate, CommitInvite, CommitAccept, RollBackExpire, CommitRevoke,
              CommitRole, CommitRemove, CommitDelete, Committing, IInv, StillHolds
<1>4. CASE CommitCreate(r)
  <2>1. /\ p.op = "create"
        /\ orgs' = orgs \cup {[id |-> p.org, slug |-> p.slug]}
        /\ members' = members \cup {[id |-> p.mid, user |-> p.user, org |-> p.org,
                                     role |-> p.role, via |-> Founder]}
        /\ UNCHANGED invites
    BY <1>1, <1>4 DEF CommitCreate, Committing
  <2>2. p.org \in Orgs /\ p.slug \in Committed!Slugs /\ p.mid \in MemberIds
        /\ p.user \in Users /\ p.role = "owner"
    BY <1>2, <2>1 DEF Request, Filled
  <2>3. \A x \in orgs : x.id # p.org /\ x.slug # p.slug
    BY <1>2, <1>3, <2>1 DEF Unused, ConstraintsHold
  <2>4. \A m \in members : m.id # p.mid
    BY <1>2, <2>1 DEF Unused
  <2>5. Committed!Found
    BY <2>1, <2>2, <2>3, <2>4 DEF Committed!Found
  <2> QED BY <2>5 DEF Committed!Next
<1>5. CASE CommitInvite(r)
  <2>1. /\ p.op = "invite"
        /\ invites' = invites \cup {[id |-> p.inv, org |-> p.org, email |-> p.user,
                                     role |-> p.role, status |-> "pending"]}
        /\ UNCHANGED <<orgs, members>>
    BY <1>1, <1>5 DEF CommitInvite, Committing
  <2>2. Committed!Invite
    BY <1>2, <1>3, <2>1 DEF Committed!Invite, Filled, Unused, ConstraintsHold, Roles
  <2> QED BY <2>2 DEF Committed!Next
<1>6. CASE CommitAccept(r)
  <2>1. /\ p.op = "accept"
        /\ members' = members \cup {[id |-> p.mid, user |-> p.user, org |-> p.org,
                                     role |-> p.role, via |-> p.inv]}
        /\ SetStatus(p.inv, "accepted")
        /\ UNCHANGED orgs
    BY <1>1, <1>6 DEF CommitAccept, Committing
  <2>2. PICK i \in invites : i.id = p.inv
    BY <1>3, <2>1 DEF ConstraintsHold
  <2>3. i.org = p.org /\ i.email = p.user /\ i.role = p.role
    BY <1>2, <1>3, <2>1, <2>2 DEF SameRow
  <2>4. invites' = (invites \ {i}) \cup {[i EXCEPT !.status = "accepted"]}
    BY <2>1, <2>2, StatusOfOneRow
  <2>5. ~Committed!SeatTaken(i.email, i.org)
    BY <1>3, <2>1, <2>3 DEF ConstraintsHold
  <2>6. p.mid \in MemberIds /\ \A m \in members : m.id # p.mid
    BY <1>2, <2>1 DEF Filled, Unused
  <2>7. Committed!Join
    BY <2>1, <2>2, <2>3, <2>4, <2>5, <2>6 DEF Committed!Join
  <2> QED BY <2>7 DEF Committed!Next
<1>7. CASE RollBackExpire(r)
  BY <1>7 DEF RollBackExpire
<1>8. CASE CommitRevoke(r)
  <2>1. p.op = "revoke" /\ SetStatus(p.inv, "revoked") /\ UNCHANGED <<orgs, members>>
    BY <1>1, <1>8 DEF CommitRevoke, Committing
  <2>2. PICK i \in invites : i.id = p.inv
    BY <1>3, <2>1 DEF ConstraintsHold
  <2>3. invites' = (invites \ {i}) \cup {[i EXCEPT !.status = "revoked"]}
    BY <2>1, <2>2, StatusOfOneRow
  <2>4. Committed!Revoke
    BY <2>1, <2>2, <2>3 DEF Committed!Revoke
  <2> QED BY <2>4 DEF Committed!Next
<1>9. CASE CommitRole(r)
  <2>1. /\ p.op = "role"
        /\ members' = {IF m.id = p.mid THEN [m EXCEPT !.role = p.role] ELSE m : m \in members}
        /\ UNCHANGED <<orgs, invites>>
    BY <1>1, <1>9 DEF CommitRole, Committing
  <2>2. PICK m \in members : m.id = p.mid
    BY <1>3, <2>1 DEF ConstraintsHold
  <2>3. members' = (members \ {m}) \cup {[m EXCEPT !.role = p.role]}
    BY <2>1, <2>2 DEF IInv, Committed!Keyed
  <2>4. Committed!SetRole
    BY <1>2, <2>1, <2>2, <2>3 DEF Committed!SetRole, Filled, Roles
  <2> QED BY <2>4 DEF Committed!Next
<1>10. CASE CommitRemove(r)
  <2>1. members' = {m \in members : m.id # p.mid} /\ UNCHANGED <<orgs, invites>>
    BY <1>1, <1>10 DEF CommitRemove
  <2>2. CASE \E m \in members : m.id = p.mid
    <3>1. PICK m \in members : m.id = p.mid
      BY <2>2
    <3>2. members' = members \ {m}
      BY <2>1, <3>1 DEF IInv, Committed!Keyed
    <3>3. Committed!Leave
      BY <2>1, <3>1, <3>2 DEF Committed!Leave
    <3> QED BY <3>3 DEF Committed!Next
  <2>3. CASE \A m \in members : m.id # p.mid
    <3>1. members' = members
      BY <2>1, <2>3
    <3> QED BY <2>1, <3>1 DEF tables
  <2> QED BY <2>2, <2>3
<1>11. CASE CommitDelete(r)
  <2>1. /\ p.op = "delete"
        /\ orgs' = {x \in orgs : x.id # p.org}
        /\ members' = {m \in members : m.org # p.org}
        /\ invites' = {i \in invites : i.org # p.org}
    BY <1>1, <1>11 DEF CommitDelete, Committing
  <2>2. CASE p.org \in Orgs
    BY <2>1, <2>2 DEF Committed!Dissolve, Committed!Next
  <2>3. CASE p.org \notin Orgs
    <3>1. UNCHANGED tables
      BY <2>1, <2>3 DEF tables, IInv, TypeOK, Committed!TypeOK, Committed!OrgRow,
                        Committed!MemberRow, Committed!InviteRow
    <3> QED BY <3>1
  <2> QED BY <2>2, <2>3
<1> QED BY <1>4, <1>5, <1>6, <1>7, <1>8, <1>9, <1>10, <1>11 DEF Commit

(* What a commit does to the tables leaves the other requests sound: the    *)
(* rows and keys they rely on are locked, their ids are their own.         *)
LEMMA CommitSparesOthers ==
  ASSUME IInv, NEW r \in Requests, NEW s \in Requests, r # s, Commit(r)
  PROVE  OfRequest(req[s])'
<1>1. PICK p, q : p = req[r] /\ q = req[s]
  OBVIOUS
<1>2. /\ p \in Request /\ Filled(p) /\ SameRow(p)
      /\ q \in Request /\ OfRequest(q)
      /\ Apart(p, q) /\ Apart(q, p)
  BY <1>1 DEF IInv, TypeOK, OfRequest
<1>3. p.pc = "commit" /\ Set(r, Idle)
  BY <1>1 DEF Commit, CommitCreate, CommitInvite, CommitAccept, RollBackExpire, CommitRevoke,
              CommitRole, CommitRemove, CommitDelete, Committing
<1>4. req'[s] = q
  BY <1>1, <1>3 DEF Set, IInv, TypeOK
<1>5. Filled(q)
  BY <1>2 DEF OfRequest
<1> USE DEF OfRequest, Unused, SameRow, StillHolds, ConstraintsHold, Apart, Conflict,
            Committed!SeatTaken, Committed!OrgExists
<1>6. ASSUME CommitCreate(r) PROVE OfRequest(q)'
  <2>1. /\ p.op = "create"
        /\ orgs' = orgs \cup {[id |-> p.org, slug |-> p.slug]}
        /\ members' = members \cup {[id |-> p.mid, user |-> p.user, org |-> p.org,
                                     role |-> p.role, via |-> Founder]}
        /\ UNCHANGED invites
    BY <1>1, <1>6 DEF CommitCreate, Committing
  <2> QED BY <1>2, <1>3, <1>5, <2>1, OrgAssumption DEF Filled
<1>7. ASSUME CommitInvite(r) PROVE OfRequest(q)'
  <2>1. /\ p.op = "invite"
        /\ invites' = invites \cup {[id |-> p.inv, org |-> p.org, email |-> p.user,
                                     role |-> p.role, status |-> "pending"]}
        /\ UNCHANGED <<orgs, members>>
    BY <1>1, <1>7 DEF CommitInvite, Committing
  <2> QED BY <1>2, <1>3, <1>5, <2>1, OrgAssumption DEF Filled
<1>8. ASSUME CommitAccept(r) PROVE OfRequest(q)'
  <2>1. /\ p.op = "accept"
        /\ members' = members \cup {[id |-> p.mid, user |-> p.user, org |-> p.org,
                                     role |-> p.role, via |-> p.inv]}
        /\ SetStatus(p.inv, "accepted")
        /\ UNCHANGED orgs
    BY <1>1, <1>8 DEF CommitAccept, Committing
  <2>2. UNCHANGED orgs /\ \A m \in members : m \in members'
    BY <2>1
  <2> QED BY <1>2, <1>3, <1>5, <2>1, <2>2, StatusOnly, OrgAssumption DEF Filled
<1>9. ASSUME RollBackExpire(r) PROVE OfRequest(q)'
  BY <1>2, <1>9 DEF RollBackExpire, tables
<1>10. ASSUME CommitRevoke(r) PROVE OfRequest(q)'
  <2>1. p.op = "revoke" /\ SetStatus(p.inv, "revoked") /\ UNCHANGED <<orgs, members>>
    BY <1>1, <1>10 DEF CommitRevoke, Committing
  <2> QED BY <1>2, <1>3, <1>5, <2>1, StatusOnly, OrgAssumption DEF Filled
<1>11. ASSUME CommitRole(r) PROVE OfRequest(q)'
  <2>1. /\ p.op = "role"
        /\ members' = {IF m.id = p.mid THEN [m EXCEPT !.role = p.role] ELSE m : m \in members}
        /\ UNCHANGED <<orgs, invites>>
    BY <1>1, <1>11 DEF CommitRole, Committing
  <2>2. ASSUME NEW m \in members
        PROVE  LET n == [m EXCEPT !.role = p.role]
               IN  n.id = m.id /\ n.user = m.user /\ n.org = m.org /\ n.via = m.via
    BY DEF IInv, TypeOK, Committed!TypeOK, Committed!MemberRow
  <2>3. /\ \A n \in members' : \E m \in members :
             n.id = m.id /\ n.user = m.user /\ n.org = m.org /\ n.via = m.via
        /\ \A m \in members : \E n \in members' : n.id = m.id
    BY <2>1, <2>2
  <2>4. UNCHANGED <<orgs, invites>>
    BY <2>1
  <2>5. (~Committed!SeatTaken(q.user, q.org) => ~Committed!SeatTaken(q.user, q.org)')
    BY <2>3
  <2>6. Filled(q)' /\ Unused(q)' /\ SameRow(q)'
    BY <1>2, <1>5, <2>3, <2>4 DEF Filled
  <2>7. StillHolds(q)'
    BY <1>2, <2>3, <2>4, <2>5
  <2> QED BY <2>6, <2>7
<1>12. ASSUME CommitRemove(r) PROVE OfRequest(q)'
  <2>1. /\ members' = {m \in members : m.id # p.mid} /\ UNCHANGED <<orgs, invites>>
    BY <1>1, <1>12 DEF CommitRemove
  <2>2. \A m \in members : m.id # None
    BY OrgAssumption DEF IInv, TypeOK, Committed!TypeOK, Committed!MemberRow
  <2> QED BY <1>2, <1>3, <1>5, <2>1, <2>2, OrgAssumption DEF Filled
<1>13. ASSUME CommitDelete(r) PROVE OfRequest(q)'
  <2>1. /\ p.op = "delete"
        /\ orgs' = {x \in orgs : x.id # p.org}
        /\ members' = {m \in members : m.org # p.org}
        /\ invites' = {i \in invites : i.org # p.org}
    BY <1>1, <1>13 DEF CommitDelete, Committing
  <2> QED BY <1>2, <1>3, <1>5, <2>1, OrgAssumption DEF Filled
<1>14. OfRequest(q)'
  BY <1>6, <1>7, <1>8, <1>9, <1>10, <1>11, <1>12, <1>13 DEF Commit
<1> QED BY <1>4, <1>14

LEMMA CommitStep ==
  ASSUME IInv, NEW r \in Requests, Commit(r)
  PROVE  IInv'
<1>1. Set(r, Idle) /\ UNCHANGED expired
  BY DEF Commit, CommitCreate, CommitInvite, CommitAccept, RollBackExpire, CommitRevoke,
         CommitRole, CommitRemove, CommitDelete, Committing
<1>2. req'[r] = Idle /\ \A s \in Requests \ {r} : req'[s] = req[s]
  BY <1>1 DEF Set, IInv, TypeOK
<1>3. Committed!TypeOK' /\ Committed!Keyed' /\ Committed!NoOrphans'
  BY CommitIsAtomic, StepTypes, StepKeyed, StepOrphans DEF IInv, TypeOK
<1>4. TypeOK'
  BY <1>1, <1>3, IdleTyped DEF Set, IInv, TypeOK
<1>5. OfRequest(Idle)'
  BY OrgAssumption DEF Idle, OfRequest, Filled, Unused, SameRow, StillHolds, Ops
<1>6. Alongside(r, Idle)
  BY OrgAssumption DEF Alongside, Apart, Idle, IInv, Filled, Ops
<1>7. ASSUME NEW s \in Requests PROVE OfRequest(req[s])'
  <2>1. CASE s = r
    BY <1>2, <1>5, <2>1 DEF OfRequest, Filled, Unused, SameRow, StillHolds, ConstraintsHold
  <2>2. CASE s # r
    BY <2>2, CommitSparesOthers
  <2> QED BY <2>1, <2>2
<1>8. ASSUME NEW s \in Requests, NEW t \in Requests, s # t
      PROVE  Apart(req[s], req[t])'
  BY <1>2, <1>6, <1>8 DEF Alongside, IInv
<1> QED BY <1>3, <1>4, <1>7, <1>8 DEF IInv, OfRequest

(* Time passing and steps outside the service touch no request. *)
LEMMA QuietStep ==
  ASSUME IInv, Expire \/ UNCHANGED vars
  PROVE  IInv'
<1>1. UNCHANGED <<tables, req>> /\ expired' \subseteq Invitations
  BY DEF Expire, vars, tables, IInv, TypeOK, Committed!TypeOK, Committed!InviteRow
<1>2. TypeOK' /\ Committed!Keyed' /\ Committed!NoOrphans'
  BY <1>1 DEF IInv, TypeOK, tables, Committed!TypeOK, Committed!Keyed, Committed!NoOrphans,
              Committed!OrgExists
<1>3. \A q : OfRequest(q) => OfRequest(q)'
  BY <1>1 DEF OfRequest, Filled, Unused, SameRow, StillHolds, ConstraintsHold, tables,
              Committed!SeatTaken, Committed!OrgExists
<1>4. \A r \in Requests : OfRequest(req[r])'
  <2> TAKE r \in Requests
  <2>1. OfRequest(req[r])
    BY DEF IInv, OfRequest
  <2>2. PICK q : q = req[r]
    OBVIOUS
  <2>3. OfRequest(q)' /\ req'[r] = q
    BY <1>1, <1>3, <2>1, <2>2
  <2> QED BY <2>3 DEF OfRequest, Filled, Unused, SameRow, StillHolds, ConstraintsHold
<1>5. (\A r, s \in Requests : r # s => Apart(req[r], req[s]))'
  BY <1>1 DEF IInv
<1> QED BY <1>2, <1>4, <1>5 DEF IInv, OfRequest

LEMMA Inductive ==
  ASSUME IInv, [Next]_vars
  PROVE  IInv'
<1>1. CASE Expire \/ UNCHANGED vars
  BY <1>1, QuietStep
<1>2. CASE \E r \in Requests : Begin(r) \/ Check(r) \/ Flush(r) \/ Commit(r) \/ Abort(r)
  <2>1. PICK r \in Requests : Begin(r) \/ Check(r) \/ Flush(r) \/ Commit(r) \/ Abort(r)
    BY <1>2
  <2>2. Abort(r) => Set(r, Idle) /\ UNCHANGED <<tables, expired>>
    BY DEF Abort
  <2> QED BY <2>1, <2>2, BeginStep, CheckStep, FlushStep, CommitStep, EndStep
<1> QED BY <1>1, <1>2 DEF Next

LEMMA Initially == Init => IInv
<1> SUFFICES ASSUME Init PROVE IInv
  OBVIOUS
<1>1. orgs = {} /\ members = {} /\ invites = {} /\ expired = {}
  BY DEF Init, Committed!Init
<1>2. \A r \in Requests : req[r] = Idle
  BY DEF Init
<1>3. TypeOK
  BY <1>1, IdleTyped DEF Init, TypeOK, Committed!TypeOK
<1>4. Committed!Keyed /\ Committed!NoOrphans
  BY <1>1 DEF Committed!Keyed, Committed!NoOrphans
<1>5. OfRequest(Idle)
  BY OrgAssumption DEF Idle, OfRequest, Filled, Unused, SameRow, StillHolds, Ops
<1>6. Apart(Idle, Idle)
  BY OrgAssumption DEF Apart, Idle, Ops
<1> QED BY <1>2, <1>3, <1>4, <1>5, <1>6 DEF IInv, OfRequest

-----------------------------------------------------------------------------
(* The reservations of ids and the locks hold what a request relied on, in *)
(* every interleaving of any number of requests.                           *)
THEOREM LocksHold == Spec => []IInv
BY Initially, Inductive, PTL DEF Spec

(* Tables and requests are well formed. *)
THEOREM Typed == Spec => []TypeOK
<1>1. IInv => TypeOK
  BY DEF IInv
<1> QED BY <1>1, LocksHold, PTL

(* Every step of the requests is a step of Tenancy.tla or does not touch    *)
(* the tables: the organization endpoints implement it.                    *)
THEOREM CommitsAreAtomic == Spec => AtomicCommits
<1>1. Init => Committed!Init
  BY DEF Init
<1>2. IInv /\ [Next]_vars => [Committed!Next]_tables
  <2> SUFFICES ASSUME IInv, [Next]_vars PROVE [Committed!Next]_tables
    OBVIOUS
  <2>1. CASE Expire \/ UNCHANGED vars
    BY <2>1 DEF Expire, vars, tables
  <2>2. CASE \E r \in Requests : Begin(r) \/ Check(r) \/ Flush(r) \/ Commit(r) \/ Abort(r)
    <3>1. PICK r \in Requests : Begin(r) \/ Check(r) \/ Flush(r) \/ Commit(r) \/ Abort(r)
      BY <2>2
    <3>2. CASE Begin(r)
      BY <3>2 DEF Begin, BeginCreate, BeginInvite, BeginAccept, BeginExpire, BeginRevoke,
                  BeginRole, BeginRemove, BeginDelete, Receive
    <3>3. CASE Check(r)
      BY <3>3 DEF Check, ProbeSlug, CheckInvite, CheckRevoke, CheckRole, CheckRemove,
                  CheckDelete, Refuse, Checking
    <3>4. CASE Flush(r) \/ Abort(r)
      BY <3>4 DEF Flush, Abort
    <3>5. CASE Commit(r)
      BY <3>5, CommitIsAtomic
    <3> QED BY <3>1, <3>2, <3>3, <3>4, <3>5
  <2> QED BY <2>1, <2>2 DEF Next
<1> QED BY <1>1, <1>2, LocksHold, PTL DEF Spec, AtomicCommits, Committed!Spec, tables,
                                          Committed!tables

(* The three tables are consistent after every committed request, and      *)
(* whatever the requests in between have read or flushed.                  *)
THEOREM TablesConsistent == AtomicCommits => []TablesInv
<1> USE DEF TablesInv
<1>1. Committed!Init => TablesInv
  BY DEF Committed!Init, Committed!TypeOK, Committed!Keyed, Committed!OneOrgPerSlug,
         Committed!UniqueSeat, Committed!NoOrphans, Committed!MembershipOrigin,
         Committed!ExpiryNotStored
<1>2. TablesInv /\ [Committed!Next]_tables => TablesInv'
  BY StepTypes, StepKeyed, StepSlugs, StepSeats, StepOrphans, StepOrigin, StepExpiry
<1> QED BY <1>1, <1>2, PTL DEF AtomicCommits, Committed!Spec, tables, Committed!tables

(* The service keeps what Tenancy.tla promises: one membership per user and  *)
(* organization, one organization per slug, no row without its            *)
(* organization, every member a founder or let in by an invitation.        *)
THEOREM TenancySafe ==
  Spec => [](UniqueSeat /\ OneOrgPerSlug /\ NoOrphans /\ MembershipOrigin /\ ExpiryNotStored)
<1>1. TablesInv =>
        UniqueSeat /\ OneOrgPerSlug /\ NoOrphans /\ MembershipOrigin /\ ExpiryNotStored
  BY DEF TablesInv, UniqueSeat, OneOrgPerSlug, NoOrphans, MembershipOrigin, ExpiryNotStored
<1> QED BY <1>1, CommitsAreAtomic, TablesConsistent, PTL

-----------------------------------------------------------------------------
(* What the handlers' checks achieve while requests come one after the     *)
(* other, for any number of users, organizations and invitations.  The     *)
(* rows a request has checked are then the rows it changes: SerialInv.     *)

(* A step that moves the one request on and leaves the tables alone. *)
LEMMA SerialStep ==
  ASSUME SerialInv, IInv', Alone, NEW r \in Requests, NEW q, Set(r, q),
         UNCHANGED tables, SerialSound(q)
  PROVE  SerialInv'
<1>1. \A s \in Requests : req'[s] = q
  BY DEF Set, SerialInv, IInv, TypeOK, Alone
<1>2. \A s \in Requests : SerialSound(req[s])'
  BY <1>1 DEF SerialSound, tables
<1> QED BY <1>2 DEF SerialInv, OnePendingInvitation, RedeemedIsAccepted, tables

LEMMA SerialIdle == SerialSound(Idle)
BY DEF SerialSound, Idle

-----------------------------------------------------------------------------
(* A request starts with the rows as they are. *)
LEMMA SerialBegin ==
  ASSUME SerialInv, IInv', Alone, NEW r \in Requests, Begin(r)
  PROVE  SerialInv'
<1>1. \A op, u, o, t : LET q == InOrg(op, u, o, t) IN q.pc = "check" /\ q.seen \subseteq members
  BY DEF InOrg, Idle
<1>2. ASSUME NEW q, Set(r, q), UNCHANGED tables, q.pc = "check", q.seen \subseteq members
      PROVE  SerialInv'
  BY <1>2, SerialStep DEF SerialSound
<1>3. CASE BeginInvite(r)
  <2>1. PICK u \in Users, e \in Users, x \in orgs, g \in Grantable, n \in Invitations :
          Set(r, [InOrg("invite", u, x.id, e) EXCEPT !.role = g, !.inv = n])
    BY <1>3 DEF BeginInvite
  <2>2. PICK q : q = [InOrg("invite", u, x.id, e) EXCEPT !.role = g, !.inv = n]
    OBVIOUS
  <2>3. q.pc = "check" /\ q.seen \subseteq members
    BY <2>2 DEF InOrg, Idle
  <2> QED BY <1>2, <1>3, <2>1, <2>2, <2>3 DEF BeginInvite, Receive
<1>4. CASE BeginRevoke(r)
  <2>1. PICK u \in Users, x \in orgs, i \in invites :
          Set(r, [InOrg("revoke", u, x.id, None) EXCEPT !.inv = i.id])
    BY <1>4 DEF BeginRevoke
  <2>2. PICK q : q = [InOrg("revoke", u, x.id, None) EXCEPT !.inv = i.id]
    OBVIOUS
  <2>3. q.pc = "check" /\ q.seen \subseteq members
    BY <2>2 DEF InOrg, Idle
  <2> QED BY <1>2, <1>4, <2>1, <2>2, <2>3 DEF BeginRevoke, Receive
<1>5. CASE BeginRole(r)
  <2>1. PICK u \in Users, t \in Users, x \in orgs, g \in Grantable :
          Set(r, [InOrg("role", u, x.id, t) EXCEPT !.role = g])
    BY <1>5 DEF BeginRole
  <2>2. PICK q : q = [InOrg("role", u, x.id, t) EXCEPT !.role = g]
    OBVIOUS
  <2>3. q.pc = "check" /\ q.seen \subseteq members
    BY <2>2 DEF InOrg, Idle
  <2> QED BY <1>2, <1>5, <2>1, <2>2, <2>3 DEF BeginRole, Receive
<1>6. CASE BeginRemove(r) \/ BeginDelete(r)
  BY <1>1, <1>2, <1>6 DEF BeginRemove, BeginDelete, Receive
<1>7. CASE BeginCreate(r)
  <2>1. PICK u \in Users, o \in Orgs, k \in MemberIds :
          Set(r, [Idle EXCEPT !.op = "create", !.pc = "slug", !.actor = u, !.user = u,
                              !.org = o, !.mid = k, !.role = "owner"])
    BY <1>7 DEF BeginCreate
  <2>2. PICK q : q = [Idle EXCEPT !.op = "create", !.pc = "slug", !.actor = u, !.user = u,
                                  !.org = o, !.mid = k, !.role = "owner"]
    OBVIOUS
  <2>3. SerialSound(q)
    BY <2>2 DEF SerialSound, Idle
  <2> QED BY <1>7, <2>1, <2>2, <2>3, SerialStep DEF BeginCreate, Receive
<1>8. CASE BeginAccept(r)
  <2>1. PICK u \in Users, i \in invites, k \in MemberIds :
          /\ Redeemable(i, u)
          /\ Set(r, [Idle EXCEPT !.op = "accept", !.pc = "flush", !.actor = u, !.user = u,
                       !.org = i.org, !.role = i.role, !.inv = i.id, !.mid = k])
    BY <1>8 DEF BeginAccept
  <2>2. PICK q : q = [Idle EXCEPT !.op = "accept", !.pc = "flush", !.actor = u, !.user = u,
                        !.org = i.org, !.role = i.role, !.inv = i.id, !.mid = k]
    OBVIOUS
  <2>3. q.op = "accept" /\ q.inv = i.id /\ q.seen = {}
    BY <2>2 DEF Idle
  <2>4. \A j \in invites : j.id = i.id => j.status = "pending"
    BY <2>1 DEF Redeemable, SerialInv, IInv, Committed!Keyed
  <2>5. SerialSound(q)
    BY <2>3, <2>4 DEF SerialSound
  <2> QED BY <1>8, <2>1, <2>2, <2>5, SerialStep DEF BeginAccept, Receive
<1>9. CASE BeginExpire(r)
  <2>1. PICK u \in Users, i \in invites :
          Set(r, [Idle EXCEPT !.op = "expire", !.pc = "flush", !.actor = u, !.inv = i.id,
                       !.org = i.org])
    BY <1>9 DEF BeginExpire
  <2>2. PICK q : q = [Idle EXCEPT !.op = "expire", !.pc = "flush", !.actor = u, !.inv = i.id,
                        !.org = i.org]
    OBVIOUS
  <2>3. SerialSound(q)
    BY <2>2 DEF SerialSound, Idle
  <2> QED BY <1>9, <2>1, <2>2, <2>3, SerialStep DEF BeginExpire, Receive
<1> QED BY <1>3, <1>4, <1>5, <1>6, <1>7, <1>8, <1>9 DEF Begin

-----------------------------------------------------------------------------
(* The session has every row as it is, so the roles seen are the roles.    *)
LEMMA RolesAreSeen ==
  ASSUME SerialInv, NEW r \in Requests, NEW m \in members
  PROVE  RoleSeen(req[r], m) = m.role
<1>1. req[r].seen \subseteq members
  BY DEF SerialInv, SerialSound
<1>2. \A s \in req[r].seen : s.id = m.id => s = m
  BY <1>1 DEF SerialInv, IInv, Committed!Keyed
<1> QED BY <1>2 DEF RoleSeen

LEMMA OwnerActs ==
  ASSUME SerialInv, NEW r \in Requests, HasRole(req[r], "owner")
  PROVE  \E n \in members : n.user = req[r].actor /\ n.org = req[r].org /\ n.role = "owner"
<1>1. PICK n \in members : /\ n.user = req[r].actor /\ n.org = req[r].org
                           /\ Rank[RoleSeen(req[r], n)] >= Rank["owner"]
  BY DEF HasRole
<1>2. RoleSeen(req[r], n) = n.role
  BY RolesAreSeen
<1>3. n.role \in Roles
  BY DEF SerialInv, IInv, TypeOK, Committed!TypeOK, Committed!MemberRow, Roles
<1>4. n.role = "owner"
  BY <1>1, <1>2, <1>3 DEF Rank, Roles, Committed!Roles
<1> QED BY <1>1, <1>4

LEMMA SerialCheck ==
  ASSUME SerialInv, IInv', Alone, NEW r \in Requests, Check(r)
  PROVE  SerialInv'
<1>1. PICK p : p = req[r]
  OBVIOUS
<1>2. p \in Request /\ SerialSound(p)
  BY <1>1 DEF SerialInv, IInv, TypeOK
<1>3. ASSUME NEW q, Set(r, q), UNCHANGED tables, q.seen \subseteq members,
             q.op \notin {"invite", "accept", "revoke", "role"}
      PROVE  SerialInv'
  BY <1>3, SerialStep DEF SerialSound
<1>4. PICK q : q = Passed(r)
  OBVIOUS
<1>5. q.op = p.op /\ q.org = p.org /\ q.user = p.user /\ q.inv = p.inv /\ q.actor = p.actor
      /\ q.seen = {}
  BY <1>1, <1>2, <1>4 DEF Passed, Request
<1>6. CASE ProbeSlug(r)
  <2>1. p.op = "create"
    BY <1>1, <1>6 DEF ProbeSlug, SerialInv, IInv, Filled
  <2>2. PICK t : Set(r, t) /\ (t = [p EXCEPT !.slug = @ + 1] \/ t = [p EXCEPT !.pc = "flush"])
    BY <1>1, <1>6 DEF ProbeSlug
  <2>3. t.op = p.op /\ t.seen = p.seen
    BY <1>2, <2>2 DEF Request
  <2> QED BY <1>2, <1>3, <1>6, <2>1, <2>2, <2>3 DEF ProbeSlug, SerialSound
<1>7. CASE CheckInvite(r)
  <2>1. SerialSound(q)
    BY <1>1, <1>5, <1>7 DEF CheckInvite, Checking, MayInvite, SerialSound
  <2> QED BY <1>4, <1>7, <2>1, SerialStep DEF CheckInvite, Checking
<1>8. CASE CheckRevoke(r)
  <2>1. \A i \in invites : i.id = q.inv => i.status = "pending"
    BY <1>1, <1>5, <1>8 DEF CheckRevoke, MayRevoke, SerialInv, IInv, Committed!Keyed
  <2>2. SerialSound(q)
    BY <1>1, <1>5, <1>8, <2>1 DEF CheckRevoke, Checking, SerialSound
  <2> QED BY <1>4, <1>8, <2>2, SerialStep DEF CheckRevoke, Checking
<1>9. CASE CheckRole(r)
  <2>1. PICK m \in members : MaySetRole(p, m) /\ Set(r, [q EXCEPT !.mid = m.id])
    BY <1>1, <1>4, <1>9 DEF CheckRole
  <2>2. PICK t : t = [q EXCEPT !.mid = m.id]
    OBVIOUS
  <2>3. t.op = "role" /\ t.mid = m.id /\ t.actor = p.actor /\ t.seen = {}
    BY <1>1, <1>2, <1>4, <1>9, <2>2 DEF CheckRole, Checking, Passed, Request
  <2>4. ASSUME NEW n \in members, n.id = t.mid, n.role = "owner"
        PROVE  \E o \in members : o.user = t.actor /\ o.org = n.org /\ o.role = "owner"
    <3>1. n = m
      BY <2>3, <2>4 DEF SerialInv, IInv, Committed!Keyed
    <3>2. HasRole(p, "owner") /\ m.org = p.org
      BY <1>1, <2>1, <2>4, <3>1, RolesAreSeen DEF MaySetRole
    <3> QED BY <1>1, <2>3, <3>1, <3>2, OwnerActs
  <2>5. SerialSound(t)
    BY <2>3, <2>4 DEF SerialSound
  <2> QED BY <1>9, <2>1, <2>2, <2>5, SerialStep DEF CheckRole, Checking
<1>10. CASE CheckRemove(r) \/ CheckDelete(r)
  BY <1>1, <1>3, <1>4, <1>5, <1>10 DEF CheckRemove, CheckDelete, Checking
<1>11. CASE Refuse(r)
  BY <1>11, SerialIdle, SerialStep DEF Refuse
<1> QED BY <1>6, <1>7, <1>8, <1>9, <1>10, <1>11 DEF Check

(* The flush changes nothing of what was checked. *)
LEMMA SerialFlush ==
  ASSUME SerialInv, IInv', Alone, NEW r \in Requests, Flush(r)
  PROVE  SerialInv'
<1>1. PICK p, a, q : p = req[r] /\ a = Aimed(r) /\ q = [a EXCEPT !.pc = "commit"]
  OBVIOUS
<1>2. p \in Request /\ SerialSound(p) /\ p.pc = "flush"
  BY <1>1 DEF SerialInv, IInv, TypeOK, Flush
<1>3. /\ a.op = p.op /\ a.org = p.org /\ a.user = p.user /\ a.inv = p.inv /\ a.actor = p.actor
      /\ a.seen = p.seen /\ (p.op # "remove" => a.mid = p.mid)
      /\ DOMAIN a = DOMAIN p
  BY <1>1, <1>2 DEF Aimed, Request
<1>4. /\ q.op = p.op /\ q.org = p.org /\ q.user = p.user /\ q.inv = p.inv /\ q.actor = p.actor
      /\ q.seen = p.seen /\ (p.op # "remove" => q.mid = p.mid)
  BY <1>1, <1>2, <1>3 DEF Request
<1>5. SerialSound(q)
  BY <1>2, <1>4 DEF SerialSound
<1>6. Set(r, q) \/ Set(r, Idle)
  BY <1>1 DEF Flush
<1> QED BY <1>5, <1>6, SerialIdle, SerialStep DEF Flush

-----------------------------------------------------------------------------
(* What a commit writes, by name. *)
LEMMA OldInvitations ==
  ASSUME SerialInv, NEW n, NEW status, SetStatus(n, status), NEW j \in invites'
  PROVE  \E i \in invites :
           /\ i.id = j.id /\ i.email = j.email /\ i.org = j.org
           /\ (j = i /\ i.id # n) \/ (i.id = n /\ j.status = status)
<1>1. PICK i \in invites : j = IF i.id = n THEN [i EXCEPT !.status = status] ELSE i
  BY DEF SetStatus
<1>2. i \in Committed!InviteRow
  BY DEF SerialInv, IInv, TypeOK, Committed!TypeOK
<1>3. CASE i.id = n
  <2>1. j.id = i.id /\ j.email = i.email /\ j.org = i.org /\ j.status = status
    BY <1>1, <1>2, <1>3 DEF Committed!InviteRow
  <2> QED BY <1>3, <2>1
<1>4. CASE i.id # n
  BY <1>1, <1>4
<1> QED BY <1>3, <1>4

LEMMA PendingKept ==
  ASSUME SerialInv, NEW r \in Requests, Commit(r)
  PROVE  OnePendingInvitation'
<1>1. PICK p : p = req[r]
  OBVIOUS
<1>2. SerialSound(p) /\ p.pc = "commit"
  BY <1>1 DEF SerialInv, Commit, CommitCreate, CommitInvite, CommitAccept, RollBackExpire,
              CommitRevoke, CommitRole, CommitRemove, CommitDelete, Committing
<1>3. CASE invites' \subseteq invites
  BY <1>3 DEF SerialInv, OnePendingInvitation
<1>4. CASE CommitInvite(r)
  <2>1. PICK n : n = [id |-> p.inv, org |-> p.org, email |-> p.user, role |-> p.role,
                      status |-> "pending"]
    OBVIOUS
  <2>2. invites' = invites \cup {n} /\ n.email = p.user /\ n.org = p.org /\ p.op = "invite"
    BY <1>1, <1>4, <2>1 DEF CommitInvite, Committing
  <2>3. ~\E i \in invites : i.email = n.email /\ i.org = n.org /\ i.status = "pending"
    BY <1>2, <2>2 DEF SerialSound
  <2> QED BY <2>2, <2>3 DEF SerialInv, OnePendingInvitation
<1>5. ASSUME NEW status \in {"accepted", "revoked"}, SetStatus(p.inv, status)
      PROVE  OnePendingInvitation'
  <2>1. \A j \in invites' : j.status = "pending" => j \in invites
    BY <1>5, OldInvitations
  <2> QED BY <2>1 DEF SerialInv, OnePendingInvitation
<1>6. CASE CommitAccept(r) \/ CommitRevoke(r)
  BY <1>1, <1>5, <1>6 DEF CommitAccept, CommitRevoke
<1>7. CASE CommitCreate(r) \/ RollBackExpire(r) \/ CommitRole(r) \/ CommitRemove(r)
           \/ CommitDelete(r)
  BY <1>3, <1>7 DEF CommitCreate, RollBackExpire, CommitRole, CommitRemove, CommitDelete, tables
<1> QED BY <1>4, <1>6, <1>7 DEF Commit

(* Changing a role keeps where a membership comes from. *)
LEMMA RoleOnly ==
  ASSUME SerialInv, NEW r \in Requests, CommitRole(r), NEW n \in members'
  PROVE  \E m \in members : m.id = n.id /\ m.via = n.via
<1>1. PICK m \in members : n = IF m.id = req[r].mid THEN [m EXCEPT !.role = req[r].role] ELSE m
  BY DEF CommitRole
<1>2. m \in Committed!MemberRow
  BY DEF SerialInv, IInv, TypeOK, Committed!TypeOK
<1>3. n.id = m.id /\ n.via = m.via
  BY <1>1, <1>2 DEF Committed!MemberRow
<1> QED BY <1>3

LEMMA RedeemedKept ==
  ASSUME SerialInv, NEW r \in Requests, Commit(r)
  PROVE  RedeemedIsAccepted'
<1>1. PICK p : p = req[r]
  OBVIOUS
<1>2. /\ SerialSound(p) /\ p.pc = "commit" /\ Unused(p) /\ Filled(p)
      /\ \A i \in invites : i.id \in Invitations
  BY <1>1 DEF SerialInv, IInv, TypeOK, Committed!TypeOK, Committed!InviteRow,
              Commit, CommitCreate, CommitInvite, CommitAccept, RollBackExpire,
              CommitRevoke, CommitRole, CommitRemove, CommitDelete, Committing
<1>3. CASE members' \subseteq members /\ invites' \subseteq invites
  BY <1>3 DEF SerialInv, RedeemedIsAccepted
<1>4. CASE CommitCreate(r)
  <2>1. PICK n : n = [id |-> p.mid, user |-> p.user, org |-> p.org, role |-> p.role,
                      via |-> Founder]
    OBVIOUS
  <2>2. members' = members \cup {n} /\ invites' = invites /\ n.via = Founder
    BY <1>1, <1>4, <2>1 DEF CommitCreate
  <2> QED BY <1>2, <2>2, OrgAssumption DEF SerialInv, RedeemedIsAccepted
<1>5. CASE CommitInvite(r)
  <2>1. PICK n : n = [id |-> p.inv, org |-> p.org, email |-> p.user, role |-> p.role,
                      status |-> "pending"]
    OBVIOUS
  <2>2. invites' = invites \cup {n} /\ members' = members /\ n.id = p.inv /\ p.op = "invite"
    BY <1>1, <1>5, <2>1 DEF CommitInvite, Committing
  <2>3. \A m \in members : m.via # n.id
    BY <1>2, <2>2 DEF Unused
  <2> QED BY <2>2, <2>3 DEF SerialInv, RedeemedIsAccepted
<1>6. CASE CommitAccept(r)
  <2>1. PICK n : n = [id |-> p.mid, user |-> p.user, org |-> p.org, role |-> p.role,
                      via |-> p.inv]
    OBVIOUS
  <2>2. members' = members \cup {n} /\ SetStatus(p.inv, "accepted") /\ n.via = p.inv
    BY <1>1, <1>6, <2>1 DEF CommitAccept
  <2>3. ASSUME NEW m \in members', NEW j \in invites', j.id = m.via
        PROVE  j.status = "accepted"
    <3>1. PICK i \in invites : /\ i.id = j.id
                               /\ (j = i /\ i.id # p.inv) \/ j.status = "accepted"
      BY <2>2, OldInvitations
    <3> QED BY <2>2, <2>3, <3>1 DEF SerialInv, RedeemedIsAccepted
  <2> QED BY <2>3 DEF RedeemedIsAccepted
<1>7. CASE CommitRevoke(r)
  <2>1. members' = members /\ SetStatus(p.inv, "revoked") /\ p.op = "revoke"
    BY <1>1, <1>7 DEF CommitRevoke, Committing
  <2>2. ASSUME NEW m \in members, NEW j \in invites', j.id = m.via
        PROVE  j.status = "accepted"
    <3>1. PICK i \in invites : /\ i.id = j.id
                               /\ (j = i /\ i.id # p.inv) \/ i.id = p.inv
      BY <2>1, OldInvitations
    <3>2. i.status = "accepted"
      BY <2>2, <3>1 DEF SerialInv, RedeemedIsAccepted
    <3>3. i.id # p.inv
      BY <1>2, <2>1, <3>2 DEF SerialSound
    <3> QED BY <3>1, <3>2, <3>3
  <2> QED BY <2>1, <2>2 DEF RedeemedIsAccepted
<1>8. CASE CommitRole(r)
  <2>1. invites' = invites
    BY <1>8 DEF CommitRole
  <2> QED BY <1>8, <2>1, RoleOnly DEF SerialInv, RedeemedIsAccepted
<1>9. CASE RollBackExpire(r) \/ CommitRemove(r) \/ CommitDelete(r)
  BY <1>3, <1>9 DEF RollBackExpire, CommitRemove, CommitDelete, tables
<1> QED BY <1>4, <1>5, <1>6, <1>7, <1>8, <1>9 DEF Commit

LEMMA SerialCommit ==
  ASSUME SerialInv, IInv', Alone, NEW r \in Requests, Commit(r)
  PROVE  SerialInv'
<1>1. Set(r, Idle)
  BY DEF Commit, CommitCreate, CommitInvite, CommitAccept, RollBackExpire, CommitRevoke,
         CommitRole, CommitRemove, CommitDelete, Committing
<1>2. \A s \in Requests : req'[s] = Idle
  BY <1>1 DEF Set, SerialInv, IInv, TypeOK, Alone
<1>3. \A s \in Requests : SerialSound(req[s])'
  BY <1>2 DEF SerialSound, Idle
<1> QED BY <1>3, PendingKept, RedeemedKept DEF SerialInv

LEMMA SerialInductive ==
  ASSUME Alone, SerialInv, [Next]_vars
  PROVE  SerialInv'
<1>1. IInv'
  BY Inductive DEF SerialInv
<1>2. CASE Expire \/ UNCHANGED vars
  <2>1. UNCHANGED <<tables, req>>
    BY <1>2 DEF Expire, vars, tables
  <2>2. \A r \in Requests : SerialSound(req[r])'
    BY <2>1 DEF SerialInv, SerialSound, tables
  <2> QED BY <1>1, <2>1, <2>2 DEF SerialInv, OnePendingInvitation, RedeemedIsAccepted, tables
<1>3. CASE \E r \in Requests : Begin(r) \/ Check(r) \/ Flush(r) \/ Commit(r) \/ Abort(r)
  <2>1. PICK r \in Requests : Begin(r) \/ Check(r) \/ Flush(r) \/ Commit(r) \/ Abort(r)
    BY <1>3
  <2>2. CASE Abort(r)
    BY <1>1, <2>2, SerialIdle, SerialStep DEF Abort
  <2> QED BY <1>1, <2>1, <2>2, SerialBegin, SerialCheck, SerialFlush, SerialCommit
<1> QED BY <1>2, <1>3 DEF Next

-----------------------------------------------------------------------------
(* Steps that are no commit touch no table. *)
LEMMA OnlyCommits ==
  ASSUME [Next]_vars
  PROVE  UNCHANGED tables \/ \E r \in Requests : Commit(r)
<1>1. ASSUME NEW r \in Requests, Begin(r) PROVE UNCHANGED tables
  BY <1>1 DEF Begin, BeginCreate, BeginInvite, BeginAccept, BeginExpire, BeginRevoke,
              BeginRole, BeginRemove, BeginDelete, Receive
<1>2. ASSUME NEW r \in Requests, Check(r) PROVE UNCHANGED tables
  BY <1>2 DEF Check, ProbeSlug, CheckInvite, CheckRevoke, CheckRole, CheckRemove,
              CheckDelete, Checking, Refuse
<1>3. ASSUME NEW r \in Requests, Flush(r) \/ Abort(r) PROVE UNCHANGED tables
  BY <1>3 DEF Flush, Abort
<1>4. ASSUME Expire \/ UNCHANGED vars PROVE UNCHANGED tables
  BY <1>4 DEF Expire, vars, tables
<1> QED BY <1>1, <1>2, <1>3, <1>4 DEF Next

(* Who becomes a member comes with an invitation that is pending. *)
LEMMA AdmittedOnce ==
  ASSUME SerialInv, [Next]_vars, NEW m \in Admitted
  PROVE  \E i \in invites : i.id = m.via /\ i.status = "pending"
<1>1. m \in members' /\ m.via # Founder /\ \A n \in members : n.id # m.id
  BY DEF Admitted
<1>2. PICK r \in Requests : Commit(r)
  BY <1>1, OnlyCommits DEF tables
<1>3. PICK p : p = req[r]
  OBVIOUS
<1>4. CASE CommitCreate(r)
  <2>1. members' = members \cup {[id |-> p.mid, user |-> p.user, org |-> p.org,
                                  role |-> p.role, via |-> Founder]}
    BY <1>3, <1>4 DEF CommitCreate
  <2> QED BY <1>1, <2>1
<1>5. CASE CommitAccept(r)
  <2>1. /\ members' = members \cup {[id |-> p.mid, user |-> p.user, org |-> p.org,
                                     role |-> p.role, via |-> p.inv]}
        /\ p.pc = "commit" /\ p.op = "accept"
    BY <1>3, <1>5 DEF CommitAccept, Committing
  <2>2. m.via = p.inv
    BY <1>1, <2>1
  <2>3. PICK i \in invites : i.id = p.inv
    BY <1>3, <2>1 DEF SerialInv, IInv, StillHolds, ConstraintsHold
  <2>4. i.status = "pending"
    BY <1>3, <2>1, <2>3 DEF SerialInv, SerialSound
  <2> QED BY <2>2, <2>3, <2>4
<1>6. CASE CommitRole(r)
  BY <1>1, <1>6, RoleOnly
<1>7. CASE CommitInvite(r) \/ CommitRevoke(r) \/ RollBackExpire(r) \/ CommitRemove(r)
           \/ CommitDelete(r)
  BY <1>1, <1>7 DEF CommitInvite, CommitRevoke, RollBackExpire, CommitRemove, CommitDelete, tables
<1> QED BY <1>2, <1>4, <1>5, <1>6, <1>7 DEF Commit

(* Who takes the role of an owner away is one when doing it. *)
LEMMA DemotedByOwner ==
  ASSUME SerialInv, [Next]_vars, NEW m \in Demoted
  PROVE  \E r \in Requests, n \in members :
           /\ req[r].op = "role" /\ req[r].pc = "commit" /\ req[r].mid = m.id
           /\ n.user = req[r].actor /\ n.org = m.org /\ n.role = "owner"
<1>1. m \in members /\ m.role = "owner"
  BY DEF Demoted
<1>2. PICK n \in members' : n.id = m.id /\ n.role # "owner"
  BY DEF Demoted
<1>3. n \notin members
  BY <1>1, <1>2 DEF SerialInv, IInv, Committed!Keyed
<1>4. PICK r \in Requests : Commit(r)
  BY <1>3, OnlyCommits DEF tables
<1>5. PICK p : p = req[r]
  OBVIOUS
<1>6. Unused(p)
  BY <1>5 DEF SerialInv, IInv
<1>7. CASE CommitCreate(r)
  <2>1. /\ members' = members \cup {[id |-> p.mid, user |-> p.user, org |-> p.org,
                                     role |-> p.role, via |-> Founder]}
        /\ p.op = "create"
    BY <1>5, <1>7 DEF CommitCreate, Committing
  <2>2. n.id = p.mid
    BY <1>3, <2>1
  <2> QED BY <1>1, <1>2, <1>6, <2>1, <2>2 DEF Unused
<1>8. CASE CommitAccept(r)
  <2>1. /\ members' = members \cup {[id |-> p.mid, user |-> p.user, org |-> p.org,
                                     role |-> p.role, via |-> p.inv]}
        /\ p.op = "accept"
    BY <1>5, <1>8 DEF CommitAccept, Committing
  <2>2. n.id = p.mid
    BY <1>3, <2>1
  <2> QED BY <1>1, <1>2, <1>6, <2>1, <2>2 DEF Unused
<1>9. CASE CommitRole(r)
  <2>1. PICK k \in members : n = IF k.id = p.mid THEN [k EXCEPT !.role = p.role] ELSE k
    BY <1>5, <1>9 DEF CommitRole
  <2>2. k.id = p.mid /\ k \in Committed!MemberRow
    BY <1>3, <2>1 DEF SerialInv, IInv, TypeOK, Committed!TypeOK
  <2>3. n.id = k.id
    BY <2>1, <2>2 DEF Committed!MemberRow
  <2>4. p.mid = m.id /\ p.op = "role" /\ p.pc = "commit"
    BY <1>2, <1>5, <1>9, <2>2, <2>3 DEF CommitRole, Committing
  <2>5. \E o \in members : o.user = p.actor /\ o.org = m.org /\ o.role = "owner"
    BY <1>1, <1>5, <2>4 DEF SerialInv, SerialSound
  <2> QED BY <1>5, <2>4, <2>5
<1>10. CASE CommitInvite(r) \/ CommitRevoke(r) \/ RollBackExpire(r) \/ CommitRemove(r)
            \/ CommitDelete(r)
  BY <1>3, <1>10 DEF CommitInvite, CommitRevoke, RollBackExpire, CommitRemove, CommitDelete,
                     tables
<1> QED BY <1>4, <1>7, <1>8, <1>9, <1>10 DEF Commit

-----------------------------------------------------------------------------
(* While requests do not overlap, a handler writes what it has checked.    *)
THEOREM ChecksHold == ASSUME Alone PROVE Spec => []SerialInv
<1>1. Init => SerialInv
  <2> SUFFICES ASSUME Init PROVE SerialInv
    OBVIOUS
  <2>1. members = {} /\ invites = {} /\ \A r \in Requests : req[r] = Idle
    BY DEF Init, Committed!Init
  <2>2. \A r \in Requests : SerialSound(req[r])
    BY <2>1, SerialIdle
  <2> QED BY <2>1, <2>2, Initially DEF SerialInv, OnePendingInvitation, RedeemedIsAccepted
<1>2. SerialInv /\ [Next]_vars => SerialInv'
  BY SerialInductive
<1> QED BY <1>1, <1>2, PTL DEF Spec

(* Then no address has two pending invitations to an organization. *)
THEOREM InvitationsPendOnce == ASSUME Alone PROVE Spec => []OnePendingInvitation
<1>1. SerialInv => OnePendingInvitation
  BY DEF SerialInv
<1> QED BY <1>1, ChecksHold, PTL

(* An invitation that admitted somebody ends as accepted. *)
THEOREM RedeemedForGood == ASSUME Alone PROVE Spec => []RedeemedIsAccepted
<1>1. SerialInv => RedeemedIsAccepted
  BY DEF SerialInv
<1> QED BY <1>1, ChecksHold, PTL

(* A token admits once, and only while its invitation is pending. *)
THEOREM TokensWorkOnce == ASSUME Alone PROVE Spec => SingleUse
<1>1. SerialInv /\ [Next]_vars =>
        [\A m \in Admitted : \E i \in invites : i.id = m.via /\ i.status = "pending"]_vars
  BY AdmittedOnce
<1> QED BY <1>1, ChecksHold, PTL DEF Spec, SingleUse

(* The role of an owner is taken away by an owner. *)
THEOREM OwnersDemoteOwners == ASSUME Alone PROVE Spec => OwnersOnlyByOwners
<1>1. SerialInv /\ [Next]_vars =>
        [\A m \in Demoted : \E r \in Requests, n \in members :
           /\ req[r].op = "role" /\ req[r].pc = "commit" /\ req[r].mid = m.id
           /\ n.user = req[r].actor /\ n.org = m.org /\ n.role = "owner"]_vars
  BY DemotedByOwner
<1> QED BY <1>1, ChecksHold, PTL DEF Spec, OwnersOnlyByOwners

=============================================================================
