------------------------------ MODULE SchemaProofs ------------------------------
(***************************************************************************)
(* For any number of processes that migrate and seed, and whatever rows    *)
(* the application stores meanwhile: stored rows keep their values, a seed *)
(* leaves all its rows or none, no subscription is ever stored, and the    *)
(* tables are those of the revision that alembic has noted.                *)
(*                                                                         *)
(* The first part is about who has locked and copied what (IInv), the      *)
(* second about what the scripts make of the tables, one by one (After),   *)
(* and the third about processes on their way from revision to revision    *)
(* (RevInv).                                                               *)
(***************************************************************************)
EXTENDS Schema, TLAPS

Status == "subscriptionstatus"

Fields == {"cols", "null", "refs", "enums", "index", "filled", "rows"}

Seeded == {"users", "organizations", "memberships"}

(* The operations of an upgrade, of the second revision, and of leaving the *)
(* first one.                                                               *)
Renaming == {"index", "dropIndex", "rename", "stamp"}
Building == Renaming \cup {"create"}
Clearing == {"drop", "dropType", "stamp"}

-----------------------------------------------------------------------------
(* What a statement of the scripts is. *)
Sound(s) ==
  /\ s.op \in {"create", "index", "dropIndex", "rename", "drop", "insert"} => s.t \in Tables
  /\ s.op = "create" =>
       /\ DOMAIN s.table = Fields /\ s.table.rows = {}
       /\ Targets(s.table) \subseteq Tables /\ TypesOf(s.table) \subseteq DOMAIN Labels
       /\ Status \in TypesOf(s.table) <=> s.t = "subscriptions"
  /\ s.op = "dropType" => s.t \in DOMAIN Labels
  /\ s.op = "stamp" => s.t = "alembic_version"
  /\ s.op = "insert" => s.t \in Seeded

(* A script of sound statements of certain kinds. *)
Script(a, ops) ==
  /\ a \in Seq({a[i] : i \in 1 .. Len(a)})
  /\ \A i \in 1 .. Len(a) : Sound(a[i]) /\ a[i].op \in ops

Has(a, op, t) == \E i \in 1 .. Len(a) : a[i].op = op /\ a[i].t = t

Starts(a, s) == Len(a) >= 1 /\ a[1] = s

LEMMA Joined ==
  ASSUME NEW a, NEW b, NEW ops, Script(a, ops), Script(b, ops)
  PROVE  /\ Script(a \o b, ops)
         /\ \A op, t : Has(a, op, t) \/ Has(b, op, t) => Has(a \o b, op, t)
         /\ \A s : Starts(a, s) => Starts(a \o b, s)
<1> DEFINE A == {a[i] : i \in 1 .. Len(a)}
           B == {b[i] : i \in 1 .. Len(b)}
           c == a \o b
<1>1. a \in Seq(A \cup B) /\ b \in Seq(A \cup B)
  BY DEF Script
<1>2. /\ c \in Seq(A \cup B) /\ Len(c) = Len(a) + Len(b)
      /\ \A i \in 1 .. Len(c) : c[i] = IF i <= Len(a) THEN a[i] ELSE b[i - Len(a)]
      /\ \A i \in 1 .. Len(a) : c[i] = a[i]
      /\ \A i \in 1 .. Len(b) : c[i + Len(a)] = b[i]
  BY <1>1
<1>3. Len(a) \in Nat /\ Len(b) \in Nat
  BY <1>1
<1> HIDE DEF c
<1>4. c \in Seq({c[i] : i \in 1 .. Len(c)})
  BY <1>2
<1>5. \A i \in 1 .. Len(c) : Sound(c[i]) /\ c[i].op \in ops
  <2> TAKE i \in 1 .. Len(c)
  <2>1. CASE i <= Len(a)
    <3>1. i \in 1 .. Len(a) /\ c[i] = a[i]
      BY <1>2, <1>3, <2>1
    <3> QED BY <3>1 DEF Script
  <2>2. CASE ~ i <= Len(a)
    <3>1. i - Len(a) \in 1 .. Len(b) /\ c[i] = b[i - Len(a)]
      BY <1>2, <1>3, <2>2
    <3> QED BY <3>1 DEF Script
  <2> QED BY <2>1, <2>2
<1>6. ASSUME NEW op, NEW t, Has(a, op, t) \/ Has(b, op, t) PROVE Has(c, op, t)
  <2>1. CASE Has(a, op, t)
    BY <1>2, <1>3, <2>1 DEF Has
  <2>2. CASE Has(b, op, t)
    <3>1. PICK i \in 1 .. Len(b) : b[i].op = op /\ b[i].t = t
      BY <2>2 DEF Has
    <3>2. i + Len(a) \in 1 .. Len(c) /\ c[i + Len(a)] = b[i]
      BY <1>2, <1>3
    <3> QED BY <3>1, <3>2 DEF Has
  <2> QED BY <1>6, <2>1, <2>2
<1>7. ASSUME NEW s, Starts(a, s) PROVE Starts(c, s)
  <2>1. Len(a) >= 1 /\ a[1] = s
    BY <1>7 DEF Starts
  <2>2. 1 \in 1 .. Len(a)
    BY <1>3, <2>1
  <2> QED BY <1>2, <1>3, <2>1, <2>2 DEF Starts
<1> QED BY <1>4, <1>5, <1>6, <1>7 DEF Script, c

LEMMA Listed ==
  ASSUME NEW a, NEW S, a \in Seq(S), NEW ops,
         \A i \in 1 .. Len(a) : Sound(a[i]) /\ a[i].op \in ops
  PROVE  Script(a, ops)
BY DEF Script

LEMMA TableNames ==
  Tables = {"users", "organizations", "memberships", "invitations", "subscriptions",
            "notifications", "audit_logs"}
BY DEF Tables, Models

LEMMA TableFields ==
  ASSUME NEW cols, NEW null, NEW refs, NEW enums, NEW uniques
  PROVE  LET table == Table(cols, null, refs, enums, uniques)
         IN  DOMAIN table = Fields /\ table.rows = {} /\ table.refs = refs /\
                          table.enums = enums
BY DEF Table, Fields

LEMMA CreatesSound ==
  ASSUME NEW t \in Tables, NEW cols, NEW null, NEW refs, NEW enums, NEW uniques,
         {refs[c][1] : c \in DOMAIN refs} \subseteq Tables,
         {enums[c] : c \in DOMAIN enums} \subseteq DOMAIN Labels,
         Status \in {enums[c] : c \in DOMAIN enums} <=> t = "subscriptions"
  PROVE  LET s == Create(t, cols, null, refs, enums, uniques)
         IN  Sound(s) /\ s.op = "create" /\ s.t = t
BY TableFields DEF Sound, Create, Targets, TypesOf

LEMMA IndexesSound ==
  ASSUME NEW t \in Tables, NEW col, NEW unique
  PROVE  LET s == Index(t, col, unique) IN Sound(s) /\ s.op = "index"
BY DEF Sound, Index

LEMMA CreateUsers_Script ==
  /\ Script(CreateUsers, Building) /\ Has(CreateUsers, "create", "users")
  /\ Starts(CreateUsers, CreateUsers[1])
<1>1. Sound(CreateUsers[1]) /\ CreateUsers[1].op = "create" /\ CreateUsers[1].t = "users"
  BY CreatesSound, TableNames DEF CreateUsers, Nothing, Status, Labels
<1>2. Sound(CreateUsers[2]) /\ CreateUsers[2].op = "index"
  BY IndexesSound, TableNames DEF CreateUsers
<1>3. Sound(CreateUsers[3]) /\ CreateUsers[3].op = "index"
  BY IndexesSound, TableNames DEF CreateUsers
<1>4. CreateUsers \in Seq({CreateUsers[1], CreateUsers[2], CreateUsers[3]}) /\
                          Len(CreateUsers) = 3
  BY DEF CreateUsers
<1> QED BY <1>1, <1>2, <1>3, <1>4, Listed DEF Has, Building, Renaming, Starts

LEMMA CreateOrganizations_Script ==
  Script(CreateOrganizations, Building) /\ Has(CreateOrganizations, "create",
                          "organizations")
<1>1. Sound(CreateOrganizations[1]) /\ CreateOrganizations[1].op = "create" /\
                          CreateOrganizations[1].t = "organizations"
  BY CreatesSound, TableNames DEF CreateOrganizations, Nothing, Status, Labels
<1>2. Sound(CreateOrganizations[2]) /\ CreateOrganizations[2].op = "index"
  BY IndexesSound, TableNames DEF CreateOrganizations
<1>3. Sound(CreateOrganizations[3]) /\ CreateOrganizations[3].op = "index"
  BY IndexesSound, TableNames DEF CreateOrganizations
<1>4. CreateOrganizations \in Seq({CreateOrganizations[1], CreateOrganizations[2],
                          CreateOrganizations[3]}) /\ Len(CreateOrganizations) = 3
  BY DEF CreateOrganizations
<1> QED BY <1>1, <1>2, <1>3, <1>4, Listed DEF Has, Building, Renaming

LEMMA CreateMemberships_Script ==
  Script(CreateMemberships, Building) /\ Has(CreateMemberships, "create", "memberships")
<1>1. Sound(CreateMemberships[1]) /\ CreateMemberships[1].op = "create" /\
                          CreateMemberships[1].t = "memberships"
  BY CreatesSound, TableNames DEF CreateMemberships, Nothing, Status, Labels
<1>2. Sound(CreateMemberships[2]) /\ CreateMemberships[2].op = "index"
  BY IndexesSound, TableNames DEF CreateMemberships
<1>3. Sound(CreateMemberships[3]) /\ CreateMemberships[3].op = "index"
  BY IndexesSound, TableNames DEF CreateMemberships
<1>4. CreateMemberships \in Seq({CreateMemberships[1], CreateMemberships[2],
                          CreateMemberships[3]}) /\ Len(CreateMemberships) = 3
  BY DEF CreateMemberships
<1> QED BY <1>1, <1>2, <1>3, <1>4, Listed DEF Has, Building, Renaming

LEMMA CreateInvitations_Script ==
  Script(CreateInvitations, Building)
<1>1. Sound(CreateInvitations[1]) /\ CreateInvitations[1].op = "create" /\
                          CreateInvitations[1].t = "invitations"
  BY CreatesSound, TableNames DEF CreateInvitations, Nothing, Status, Labels
<1>2. Sound(CreateInvitations[2]) /\ CreateInvitations[2].op = "index"
  BY IndexesSound, TableNames DEF CreateInvitations
<1>3. Sound(CreateInvitations[3]) /\ CreateInvitations[3].op = "index"
  BY IndexesSound, TableNames DEF CreateInvitations
<1>4. Sound(CreateInvitations[4]) /\ CreateInvitations[4].op = "index"
  BY IndexesSound, TableNames DEF CreateInvitations
<1>5. /\ CreateInvitations \in Seq({CreateInvitations[1], CreateInvitations[2],
                                  CreateInvitations[3], CreateInvitations[4]})
      /\ Len(CreateInvitations) = 4
  BY DEF CreateInvitations
<1> QED BY <1>1, <1>2, <1>3, <1>4, <1>5, Listed DEF Has, Building, Renaming

LEMMA CreateSubscriptions_Script ==
  Script(CreateSubscriptions, Building)
<1>1. Sound(CreateSubscriptions[1]) /\ CreateSubscriptions[1].op = "create" /\
                          CreateSubscriptions[1].t = "subscriptions"
  BY CreatesSound, TableNames DEF CreateSubscriptions, Nothing, Status, Labels
<1>2. Sound(CreateSubscriptions[2]) /\ CreateSubscriptions[2].op = "index"
  BY IndexesSound, TableNames DEF CreateSubscriptions
<1>3. Sound(CreateSubscriptions[3]) /\ CreateSubscriptions[3].op = "index"
  BY IndexesSound, TableNames DEF CreateSubscriptions
<1>4. CreateSubscriptions \in Seq({CreateSubscriptions[1], CreateSubscriptions[2],
                          CreateSubscriptions[3]}) /\ Len(CreateSubscriptions) = 3
  BY DEF CreateSubscriptions
<1> QED BY <1>1, <1>2, <1>3, <1>4, Listed DEF Has, Building, Renaming

LEMMA CreateLogs_Script ==
  Script(CreateLogs, Building)
<1>1. Sound(CreateLogs[1]) /\ CreateLogs[1].op = "create" /\ CreateLogs[1].t =
                          "notifications"
  BY CreatesSound, TableNames DEF CreateLogs, Nothing, Status, Labels
<1>2. Sound(CreateLogs[2]) /\ CreateLogs[2].op = "index"
  BY IndexesSound, TableNames DEF CreateLogs
<1>3. Sound(CreateLogs[3]) /\ CreateLogs[3].op = "create" /\ CreateLogs[3].t = "audit_logs"
  BY CreatesSound, TableNames DEF CreateLogs, Nothing, Status, Labels
<1>4. Sound(CreateLogs[4]) /\ CreateLogs[4].op = "index"
  BY IndexesSound, TableNames DEF CreateLogs
<1>5. Sound(CreateLogs[5]) /\ CreateLogs[5].op = "index"
  BY IndexesSound, TableNames DEF CreateLogs
<1>6. Sound(CreateLogs[6]) /\ CreateLogs[6].op = "index"
  BY IndexesSound, TableNames DEF CreateLogs
<1>7. CreateLogs \in Seq({CreateLogs[1], CreateLogs[2], CreateLogs[3], CreateLogs[4],
                          CreateLogs[5], CreateLogs[6]}) /\ Len(CreateLogs) = 6
  BY DEF CreateLogs
<1> QED BY <1>1, <1>2, <1>3, <1>4, <1>5, <1>6, <1>7, Listed DEF Has, Building, Renaming

LEMMA Upgrade2_Script == Script(Upgrade2, Renaming)
<1>1. Sound(Upgrade2[1]) /\ Upgrade2[1].op = "rename"
  BY TableNames DEF Upgrade2, Sound, Rename
<1>2. Sound(Upgrade2[2]) /\ Upgrade2[2].op = "dropIndex"
  BY TableNames DEF Upgrade2, Sound, DropIndex
<1>3. Sound(Upgrade2[3]) /\ Upgrade2[3].op = "index"
  BY IndexesSound, TableNames DEF Upgrade2
<1>4. Sound(Upgrade2[4]) /\ Upgrade2[4].op = "rename"
  BY TableNames DEF Upgrade2, Sound, Rename
<1>5. Sound(Upgrade2[5]) /\ Upgrade2[5].op = "dropIndex"
  BY TableNames DEF Upgrade2, Sound, DropIndex
<1>6. Sound(Upgrade2[6]) /\ Upgrade2[6].op = "index"
  BY IndexesSound, TableNames DEF Upgrade2
<1>7. Sound(Upgrade2[7]) /\ Upgrade2[7].op = "rename"
  BY TableNames DEF Upgrade2, Sound, Rename
<1>8. Sound(Upgrade2[8]) /\ Upgrade2[8].op = "stamp"
  BY TableNames DEF Upgrade2, Sound, Stamp
<1>9. Upgrade2 \in Seq({Upgrade2[1], Upgrade2[2], Upgrade2[3], Upgrade2[4],
                          Upgrade2[5], Upgrade2[6], Upgrade2[7], Upgrade2[8]})
     /\ Len(Upgrade2) = 8
  BY DEF Upgrade2
<1>10. \A i \in 1 .. 8 : i = 1 \/ i = 2 \/ i = 3 \/ i = 4 \/ i = 5 \/ i = 6 \/ i = 7 \/
                          i = 8
  OBVIOUS
<1> QED BY <1>1, <1>2, <1>3, <1>4, <1>5, <1>6, <1>7, <1>8, <1>9, <1>10, Listed DEF Renaming

LEMMA Downgrade2_Script == Script(Downgrade2, Renaming)
<1>1. Sound(Downgrade2[1]) /\ Downgrade2[1].op = "rename"
  BY TableNames DEF Downgrade2, Sound, Rename
<1>2. Sound(Downgrade2[2]) /\ Downgrade2[2].op = "dropIndex"
  BY TableNames DEF Downgrade2, Sound, DropIndex
<1>3. Sound(Downgrade2[3]) /\ Downgrade2[3].op = "rename"
  BY TableNames DEF Downgrade2, Sound, Rename
<1>4. Sound(Downgrade2[4]) /\ Downgrade2[4].op = "index"
  BY IndexesSound, TableNames DEF Downgrade2
<1>5. Sound(Downgrade2[5]) /\ Downgrade2[5].op = "dropIndex"
  BY TableNames DEF Downgrade2, Sound, DropIndex
<1>6. Sound(Downgrade2[6]) /\ Downgrade2[6].op = "rename"
  BY TableNames DEF Downgrade2, Sound, Rename
<1>7. Sound(Downgrade2[7]) /\ Downgrade2[7].op = "index"
  BY IndexesSound, TableNames DEF Downgrade2
<1>8. Sound(Downgrade2[8]) /\ Downgrade2[8].op = "stamp"
  BY TableNames DEF Downgrade2, Sound, Stamp
<1>9. Downgrade2 \in Seq({Downgrade2[1], Downgrade2[2], Downgrade2[3], Downgrade2[4],
                          Downgrade2[5], Downgrade2[6], Downgrade2[7], Downgrade2[8]})
     /\ Len(Downgrade2) = 8
  BY DEF Downgrade2
<1>10. \A i \in 1 .. 8 : i = 1 \/ i = 2 \/ i = 3 \/ i = 4 \/ i = 5 \/ i = 6 \/ i = 7 \/
                          i = 8
  OBVIOUS
<1> QED BY <1>1, <1>2, <1>3, <1>4, <1>5, <1>6, <1>7, <1>8, <1>9, <1>10, Listed DEF Renaming

LEMMA Seed_Script == Script(Seed, {"insert"})
<1>1. Sound(Seed[1]) /\ Seed[1].op = "insert"
  BY TableNames DEF Seed, Sound, Insert, Seeded
<1>2. Sound(Seed[2]) /\ Seed[2].op = "insert"
  BY TableNames DEF Seed, Sound, Insert, Seeded
<1>3. Sound(Seed[3]) /\ Seed[3].op = "insert"
  BY TableNames DEF Seed, Sound, Insert, Seeded
<1>4. Seed \in Seq({Seed[1], Seed[2], Seed[3]})
     /\ Len(Seed) = 3
  BY DEF Seed
<1>5. \A i \in 1 .. 3 : i = 1 \/ i = 2 \/ i = 3
  OBVIOUS
<1> QED BY <1>1, <1>2, <1>3, <1>4, <1>5, Listed DEF Seeded

LEMMA Upgrade1_Script ==
  /\ Script(Upgrade1, Building) /\ \A t \in Seeded : Has(Upgrade1, "create", t)
  /\ Starts(Upgrade1, CreateUsers[1])
<1> DEFINE a == CreateUsers \o CreateOrganizations
           b == a \o CreateMemberships
           c == b \o CreateInvitations
           d == c \o CreateSubscriptions
           e == d \o CreateLogs
           f == <<Stamp("base", "0001")>>
           Users(x) == Starts(x, CreateUsers[1])
<1>1. /\ Users(a) /\ Script(a, Building)
      /\ Has(a, "create", "users") /\ Has(a, "create", "organizations")
  BY CreateUsers_Script, CreateOrganizations_Script, Joined
<1>2. Users(b) /\ Script(b, Building) /\ \A t \in Seeded : Has(b, "create", t)
  <2> HIDE DEF a
  <2> QED BY <1>1, CreateMemberships_Script, Joined DEF Seeded
<1>3. Users(c) /\ Script(c, Building) /\ \A t \in Seeded : Has(c, "create", t)
  <2> HIDE DEF b
  <2> QED BY <1>2, CreateInvitations_Script, Joined
<1>4. Users(d) /\ Script(d, Building) /\ \A t \in Seeded : Has(d, "create", t)
  <2> HIDE DEF c
  <2> QED BY <1>3, CreateSubscriptions_Script, Joined
<1>5. Users(e) /\ Script(e, Building) /\ \A t \in Seeded : Has(e, "create", t)
  <2> HIDE DEF d
  <2> QED BY <1>4, CreateLogs_Script, Joined
<1>6. Script(f, Building)
  <2>1. f \in Seq({f[1]}) /\ Len(f) = 1
    OBVIOUS
  <2>2. Sound(f[1]) /\ f[1].op \in Building
    BY DEF Sound, Stamp, Building, Renaming
  <2>3. \A i \in 1 .. Len(f) : i = 1
    BY <2>1
  <2> HIDE DEF f
  <2> QED BY <2>1, <2>2, <2>3, Listed
<1>7. Upgrade1 = e \o f
  BY DEF Upgrade1
<1> HIDE DEF e, f
<1> QED BY <1>5, <1>6, <1>7, Joined

(* Leaving 0001 drops a table before the type of its column. *)
LEMMA Downgrade1_Script ==
  /\ Script(Downgrade1, Clearing)
  /\ \A t \in Seeded : Has(Downgrade1, "drop", t)
  /\ \A i \in 1 .. Len(Downgrade1) : Downgrade1[i].t = Status =>
       \E j \in 1 .. i - 1 : Downgrade1[j].op = "drop" /\ Downgrade1[j].t = "subscriptions"
<1>1. /\ Len(Downgrade1) = 13
      /\ Downgrade1 \in Seq({Downgrade1[1], Downgrade1[2], Downgrade1[3],
            Downgrade1[4], Downgrade1[5], Downgrade1[6], Downgrade1[7], Downgrade1[8],
            Downgrade1[9], Downgrade1[10], Downgrade1[11], Downgrade1[12], Downgrade1[13]})
      /\ Downgrade1[1].op = "drop" /\ Downgrade1[1].t = "audit_logs"
      /\ Downgrade1[2].op = "drop" /\ Downgrade1[2].t = "notifications"
      /\ Downgrade1[3].op = "drop" /\ Downgrade1[3].t = "subscriptions"
      /\ Downgrade1[4].op = "drop" /\ Downgrade1[4].t = "invitations"
      /\ Downgrade1[5].op = "drop" /\ Downgrade1[5].t = "memberships"
      /\ Downgrade1[6].op = "drop" /\ Downgrade1[6].t = "organizations"
      /\ Downgrade1[7].op = "drop" /\ Downgrade1[7].t = "users"
      /\ Downgrade1[8].op = "dropType" /\ Downgrade1[8].t = "oauthprovider"
      /\ Downgrade1[9].op = "dropType" /\ Downgrade1[9].t = "plantier"
      /\ Downgrade1[10].op = "dropType" /\ Downgrade1[10].t = "memberrole"
      /\ Downgrade1[11].op = "dropType" /\ Downgrade1[11].t = "invitationstatus"
      /\ Downgrade1[12].op = "dropType" /\ Downgrade1[12].t = "subscriptionstatus"
      /\ Downgrade1[13].op = "stamp" /\ Downgrade1[13].t = "alembic_version"
  BY DEF Downgrade1, DropTables, Drop, DropType, Stamp
<1>2. \A i \in 1 .. 13 : Sound(Downgrade1[i]) /\ Downgrade1[i].op \in Clearing
  <2> TAKE i \in 1 .. 13
  <2>1. CASE i \in 1 .. 7
    <3>1. Downgrade1[i].op = "drop" /\ Downgrade1[i].t \in Tables
      BY <1>1, <2>1, TableNames
    <3> QED BY <3>1 DEF Sound, Clearing
  <2>2. CASE i \in 8 .. 12
    <3>1. Downgrade1[i].op = "dropType" /\ Downgrade1[i].t \in DOMAIN Labels
      BY <1>1, <2>2 DEF Labels
    <3> QED BY <3>1 DEF Sound, Clearing
  <2>3. CASE i = 13
    BY <1>1, <2>3 DEF Sound, Clearing
  <2> QED BY <2>1, <2>2, <2>3
<1>3. Script(Downgrade1, Clearing)
  BY <1>1, <1>2, Listed
<1>4. \A t \in Seeded : Has(Downgrade1, "drop", t)
  <2>1. 5 \in 1 .. 13 /\ 6 \in 1 .. 13 /\ 7 \in 1 .. 13
    OBVIOUS
  <2> QED BY <1>1, <2>1 DEF Has, Seeded
<1>5. \A i \in 1 .. 13 : Downgrade1[i].t = Status => i = 12
  BY <1>1 DEF Status
<1> QED BY <1>1, <1>3, <1>4, <1>5

-----------------------------------------------------------------------------
(* The inductive invariant.  A process holds the locks of all it has        *)
(* changed, so that what it has copied is what the database still has.     *)
Steps(p) == Plans[p.plan][p.rev]

Done(p) == {Steps(p)[i] : i \in 1 .. p.at - 1}

(* The only scripts that make and drop tables. *)
Makes(p) == p.plan = "up" /\ p.rev = "base"
Drops(p) == p.plan = "down" /\ p.rev = "0001"

Running(p) ==
  /\ DOMAIN p = {"plan", "rev", "at", "locks", "mine"}
  /\ p.plan \in DOMAIN Plans /\ p.rev \in DOMAIN Plans[p.plan]
  /\ p.at \in 1 .. Len(Steps(p)) + 1
  /\ DOMAIN p.mine \subseteq p.locks

(* In a catalog rows have all their columns, and no subscription has one   *)
(* of its own, as the labels of its type are not those the ORM writes.     *)
WellFormed(v) ==
  /\ \A t \in Tables \cap DOMAIN v :
       /\ DOMAIN v[t] = Fields /\ Targets(v[t]) \subseteq Tables
       /\ v[t].rows # {} => v[t].filled = v[t].cols
  /\ "subscriptions" \in DOMAIN v =>
       v["subscriptions"].rows = {} /\ Status \in TypesOf(v["subscriptions"])
  /\ Status \in DOMAIN v => v[Status] = Labels[Status]

(* The type of the status is there as long as its table is, and locked      *)
(* only together with it.                                                  *)
TypeStays(p) ==
  /\ Status \in p.locks => "subscriptions" \in p.locks
  /\ "subscriptions" \in DOMAIN p.mine => Status \in DOMAIN View(p)

(* What the statements so far have locked, made and dropped. *)
Held(p) ==
  /\ \A s \in Done(p) :
       /\ s.t \in p.locks
       /\ s.op = "create" => s.t \in DOMAIN p.mine
       /\ s.op = "drop" => s.t \notin DOMAIN p.mine
  /\ ~Drops(p) => Tables \cap p.locks \cap DOMAIN db \subseteq DOMAIN p.mine
  /\ ~Makes(p) => Tables \cap DOMAIN p.mine \subseteq DOMAIN db

(* A migration has copied the rows as they are; a seed has added its own    *)
(* to tables that had none of them.                                        *)
RowsOf(w, p) ==
  /\ p.plan # "seed" => \A t \in Tables \cap DOMAIN p.mine :
       p.mine[t].rows = IF t \in DOMAIN db THEN db[t].rows ELSE {}
  /\ p.plan = "seed" =>
       /\ p.locks = {s.t : s \in Done(p)}
       /\ \A s \in Done(p) :
            /\ s.t \in DOMAIN p.mine \cap DOMAIN db
            /\ p.mine[s.t].rows = db[s.t].rows \cup {<<k, w>> : k \in s.keys}
            /\ \A k : <<k, w>> \notin db[s.t].rows

Sane(w, p) == Running(p) /\ WellFormed(p.mine) /\ TypeStays(p) /\ Held(p) /\ RowsOf(w, p)

(* The three tables of the seed come and go together. *)
Together == \A t, u \in Seeded : t \in DOMAIN db <=> u \in DOMAIN db

Committed == /\ WellFormed(db)
             /\ "subscriptions" \in DOMAIN db => Status \in DOMAIN db
             /\ Together
             /\ SeedWhole

Apart == \A u, w \in Workers : u # w => proc[u].locks \cap proc[w].locks = {}

IInv == /\ Committed
        /\ Apart
        /\ DOMAIN proc = Workers
        /\ \A w \in Workers : proc[w] # Idle => Sane(w, proc[w])

-----------------------------------------------------------------------------
(* The script of a process that runs. *)
LEMMA Scripts ==
  ASSUME NEW p, Running(p)
  PROVE  /\ Script(Steps(p), Building \cup Clearing \cup {"insert"})
         /\ \A i \in 1 .. Len(Steps(p)) :
              LET s == Steps(p)[i]
              IN  /\ s.op = "create" => Makes(p)
                  /\ s.op \in {"drop", "dropType"} => Drops(p)
                  /\ s.op = "insert" <=> p.plan = "seed"
                  /\ Drops(p) /\ s.t = Status => \E j \in 1 .. i - 1 :
                       Steps(p)[j].op = "drop" /\ Steps(p)[j].t = "subscriptions"
         /\ Makes(p) => \A t \in Seeded : Has(Steps(p), "create", t)
         /\ Drops(p) => \A t \in Seeded : Has(Steps(p), "drop", t)
<1> DEFINE All == Building \cup Clearing \cup {"insert"}
<1>1. p.plan \in {"seed", "up", "down"} /\ p.rev \in DOMAIN Plans[p.plan]
  BY DEF Running, Plans
<1>2. CASE p.plan = "seed"
  <2>1. Steps(p) = Seed /\ ~Makes(p) /\ ~Drops(p)
    BY <1>1, <1>2 DEF Steps, Plans, Makes, Drops
  <2>2. Script(Seed, All)
    BY Seed_Script DEF Script
  <2> QED BY <1>2, <2>1, <2>2, Seed_Script DEF Script
<1>3. CASE p.plan = "up" /\ p.rev = "base"
  <2>1. Steps(p) = Upgrade1 \o Upgrade2 /\ Makes(p) /\ ~Drops(p)
    BY <1>1, <1>3 DEF Steps, Plans, Makes, Drops
  <2>2. Script(Upgrade2, Building)
    BY Upgrade2_Script DEF Script, Building
  <2>3. Script(Steps(p), Building) /\ \A t \in Seeded : Has(Steps(p), "create", t)
    BY <2>1, <2>2, Upgrade1_Script, Joined
  <2> QED BY <1>3, <2>1, <2>3 DEF Script, Building, Renaming
<1>4. CASE p.plan = "up" /\ p.rev # "base"
  <2>1. Steps(p) = Upgrade2 /\ ~Makes(p) /\ ~Drops(p)
    BY <1>1, <1>4 DEF Steps, Plans, Makes, Drops
  <2> QED BY <1>4, <2>1, Upgrade2_Script DEF Script, Building, Renaming
<1>5. CASE p.plan = "down" /\ p.rev = "0001"
  <2>1. Steps(p) = Downgrade1 /\ ~Makes(p) /\ Drops(p)
    BY <1>1, <1>5 DEF Steps, Plans, Makes, Drops
  <2> QED BY <1>5, <2>1, Downgrade1_Script DEF Script, Clearing
<1>6. CASE p.plan = "down" /\ p.rev # "0001"
  <2>1. Steps(p) = Downgrade2 /\ ~Makes(p) /\ ~Drops(p)
    BY <1>1, <1>6 DEF Steps, Plans, Makes, Drops
  <2> QED BY <1>6, <2>1, Downgrade2_Script DEF Script, Building, Renaming
<1> QED BY <1>1, <1>2, <1>3, <1>4, <1>5, <1>6

(* What a process sees of an object. *)
LEMMA Seen ==
  ASSUME NEW p, DOMAIN p.mine \subseteq p.locks, NEW x
  PROVE  /\ x \in p.locks => /\ x \in DOMAIN View(p) <=> x \in DOMAIN p.mine
                             /\ x \in DOMAIN p.mine => View(p)[x] = p.mine[x]
         /\ x \notin p.locks => /\ x \in DOMAIN View(p) <=> x \in DOMAIN db
                                /\ x \in DOMAIN db => View(p)[x] = db[x]
<1>1. DOMAIN View(p) = DOMAIN p.mine \cup (DOMAIN db \ p.locks)
  BY DEF View, Over, Only
<1>2. \A y \in DOMAIN View(p) :
        View(p)[y] = IF y \in DOMAIN p.mine THEN p.mine[y] ELSE db[y]
  BY DEF View, Over, Only
<1> QED BY <1>1, <1>2

LEMMA SeenWellFormed ==
  ASSUME NEW p, DOMAIN p.mine \subseteq p.locks, WellFormed(p.mine), WellFormed(db)
  PROVE  WellFormed(View(p))
<1>1. \A x \in DOMAIN View(p) :
        \/ x \in DOMAIN p.mine /\ View(p)[x] = p.mine[x]
        \/ x \in DOMAIN db /\ View(p)[x] = db[x]
  BY Seen
<1> QED BY <1>1 DEF WellFormed

-----------------------------------------------------------------------------
(* What a legal statement makes of a catalog v: the catalog e.             *)
Spares(s, v, e) == \A t \in Tables : t # s.t =>
  /\ t \in DOMAIN e <=> t \in DOMAIN v
  /\ t \in DOMAIN v => e[t] = v[t]

Adds(s, v, e) ==
  /\ s.t \notin DOMAIN v /\ s.t \in DOMAIN e /\ e[s.t] = s.table
  /\ s.t = "subscriptions" => Status \in DOMAIN e /\ e[Status] = Labels[Status]
  /\ s.t # "subscriptions" => /\ Status \in DOMAIN e <=> Status \in DOMAIN v
                              /\ Status \in DOMAIN v => e[Status] = v[Status]

Removes(s, v, e) ==
  /\ DOMAIN e = DOMAIN v \ {s.t}
  /\ \A x \in DOMAIN e : e[x] = v[x]

Alters(s, v, e, who) ==
  /\ s.t \in DOMAIN v /\ DOMAIN e = DOMAIN v
  /\ \A x \in DOMAIN v : x # s.t => e[x] = v[x]
  /\ DOMAIN e[s.t] = Fields
  /\ e[s.t].refs = v[s.t].refs /\ e[s.t].enums = v[s.t].enums
  /\ e[s.t].rows # {} => e[s.t].filled = e[s.t].cols
  /\ s.op = "insert" =>
       /\ e[s.t].rows = v[s.t].rows \cup {<<k, who>> : k \in s.keys}
       /\ s.keys \cap Keys(v[s.t]) = {}
  /\ s.op # "insert" => e[s.t].rows = v[s.t].rows

Stamps(v, e) ==
  DOMAIN e = DOMAIN v /\ \A x \in DOMAIN v : x # "alembic_version" => e[x] = v[x]

LEMMA OthersStay ==
  ASSUME NEW s, NEW v, NEW who, Sound(s)
  PROVE  Spares(s, v, Effect(s, v, who))
<1>1. Tables \cap DOMAIN Labels = {}
  BY TableNames DEF Labels
<1>2. "alembic_version" \notin Tables
  BY TableNames
<1> QED BY <1>1, <1>2 DEF Effect, Over, Only, Spares

LEMMA CreateDoes ==
  ASSUME NEW s, NEW v, NEW who, Sound(s), Legal(s, v), s.op = "create"
  PROVE  Adds(s, v, Effect(s, v, who))
<1>1. s.t \in Tables /\ Status \notin Tables /\ Status \in DOMAIN Labels
  BY TableNames DEF Sound, Labels, Status
<1>2. Effect(s, v, who) =
        Over([o \in {s.t} |-> s.table], Over(Only(Labels, TypesOf(s.table)), v))
  BY DEF Effect
<1> QED BY <1>1, <1>2 DEF Legal, Over, Only, Sound, Adds

LEMMA DropDoes ==
  ASSUME NEW s, NEW v, NEW who, s.op = "drop" \/ s.op = "dropType"
  PROVE  Removes(s, v, Effect(s, v, who))
BY DEF Effect, Only, Removes

LEMMA StampDoes ==
  ASSUME NEW s, NEW v, NEW who, Sound(s), s.op = "stamp"
  PROVE  Stamps(v, Effect(s, v, who))
<1>1. s.t = "alembic_version" /\ Effect(s, v, who) = [v EXCEPT ![s.t] = s.to]
  BY DEF Sound, Effect
<1> QED BY <1>1 DEF Stamps

LEMMA ChangeDoes ==
  ASSUME NEW s, NEW v, NEW who, Sound(s), Legal(s, v), WellFormed(v),
         s.op \in {"index", "dropIndex", "rename", "insert"}
  PROVE  Alters(s, v, Effect(s, v, who), who)
<1> DEFINE e == Effect(s, v, who)
<1>1. s.t \in Tables
  BY DEF Sound
<1>2. s.t \in DOMAIN v
  BY DEF Legal, Storable
<1>3. e = [v EXCEPT ![s.t] = Changed(s, v[s.t], who)]
  BY DEF Effect
<1>4. DOMAIN e = DOMAIN v /\ e[s.t] = Changed(s, v[s.t], who)
      /\ \A x \in DOMAIN v : x # s.t => e[x] = v[x]
  BY <1>2, <1>3
<1>5. PICK table : table = v[s.t]
  OBVIOUS
<1>6. DOMAIN table = Fields /\ (table.rows # {} => table.filled = table.cols)
  BY <1>1, <1>2, <1>5 DEF WellFormed
<1> DEFINE c == Changed(s, table, who)
<1>7. /\ DOMAIN c = Fields
      /\ c.refs = table.refs /\ c.enums = table.enums
      /\ c.rows # {} => c.filled = c.cols
      /\ s.op = "insert" => c.rows = table.rows \cup {<<k, who>> : k \in s.keys}
      /\ s.op # "insert" => c.rows = table.rows
  <2>1. CASE s.op = "index" \/ s.op = "dropIndex"
    BY <1>6, <2>1 DEF Changed, Fields
  <2>2. CASE s.op = "rename"
    BY <1>6, <2>2 DEF Changed, Renamed, Fields
  <2>3. CASE s.op = "insert"
    BY <1>6, <2>3 DEF Changed, Stored, Fields
  <2> QED BY <2>1, <2>2, <2>3
<1>8. s.op = "insert" => s.keys \cap Keys(v[s.t]) = {}
  BY DEF Legal
<1> HIDE DEF e, c
<1>9. e[s.t] = c
  BY <1>4, <1>5 DEF c
<1>10. Alters(s, v, e, who)
  BY <1>2, <1>4, <1>5, <1>7, <1>8, <1>9 DEF Alters
<1> QED BY <1>10 DEF e

LEMMA EffectWellFormed ==
  ASSUME NEW s, NEW v, NEW who, Sound(s), Legal(s, v), WellFormed(v),
         s.op \in Building \cup Clearing \cup {"insert"}
  PROVE  WellFormed(Effect(s, v, who))
<1> DEFINE e == Effect(s, v, who)
<1>1. Status \notin Tables /\ "alembic_version" \notin Tables /\ "subscriptions" \in Tables
      /\ Status # "alembic_version"
  BY TableNames DEF Status
<1>2. CASE s.op = "create"
  <2>1. s.t \in Tables /\ Status # s.t /\ DOMAIN s.table = Fields /\ s.table.rows = {}
        /\ Targets(s.table) \subseteq Tables
        /\ (Status \in TypesOf(s.table) <=> s.t = "subscriptions")
    BY <1>1, <1>2 DEF Sound
  <2>2. Adds(s, v, e) /\ Spares(s, v, e)
    BY <1>2, CreateDoes, OthersStay, Zenon
  <2> HIDE DEF e
  <2>3. \A t \in Tables \cap DOMAIN e :
          /\ DOMAIN e[t] = Fields /\ Targets(e[t]) \subseteq Tables
          /\ e[t].rows # {} => e[t].filled = e[t].cols
    <3> TAKE t \in Tables \cap DOMAIN e
    <3>1. CASE t = s.t
      BY <2>1, <2>2, <3>1 DEF Adds
    <3>2. CASE t # s.t
      BY <2>2, <3>2 DEF WellFormed, Spares
    <3> QED BY <3>1, <3>2
  <2>4. "subscriptions" \in DOMAIN e =>
          e["subscriptions"].rows = {} /\ Status \in TypesOf(e["subscriptions"])
    BY <1>1, <2>1, <2>2 DEF WellFormed, Adds, Spares
  <2>5. Status \in DOMAIN e => e[Status] = Labels[Status]
    BY <2>2 DEF WellFormed, Adds
  <2>6. WellFormed(e)
    BY <2>3, <2>4, <2>5 DEF WellFormed
  <2> QED BY <2>6 DEF e
<1>3. CASE s.op = "drop" \/ s.op = "dropType"
  <2>1. Removes(s, v, e)
    BY <1>3, DropDoes, Zenon
  <2> HIDE DEF e
  <2>2. WellFormed(e)
    BY <1>1, <2>1 DEF WellFormed, Removes
  <2> QED BY <2>2 DEF e
<1>4. CASE s.op = "stamp"
  <2>1. Stamps(v, e)
    BY <1>4, StampDoes, Zenon
  <2> HIDE DEF e
  <2>2. WellFormed(e)
    BY <1>1, <2>1 DEF WellFormed, Stamps
  <2> QED BY <2>2 DEF e
<1>5. CASE s.op \in {"index", "dropIndex", "rename", "insert"}
  <2>1. Alters(s, v, e, who)
    BY <1>5, ChangeDoes, Zenon
  <2>2. s.t \in Tables /\ s.t # Status /\ (s.op = "insert" => s.t # "subscriptions")
    BY <1>1, <1>5 DEF Sound, Seeded
  <2> HIDE DEF e
  <2>3. /\ Targets(e[s.t]) = Targets(v[s.t])
        /\ TypesOf(e[s.t]) = TypesOf(v[s.t])
    BY <2>1 DEF Targets, TypesOf, Alters
  <2>4. \A t \in Tables \cap DOMAIN e :
          /\ DOMAIN e[t] = Fields /\ Targets(e[t]) \subseteq Tables
          /\ e[t].rows # {} => e[t].filled = e[t].cols
    BY <2>1, <2>3 DEF WellFormed, Alters
  <2>5. "subscriptions" \in DOMAIN e =>
          e["subscriptions"].rows = {} /\ Status \in TypesOf(e["subscriptions"])
    BY <2>1, <2>2, <2>3 DEF WellFormed, Alters
  <2>6. Status \in DOMAIN e => e[Status] = Labels[Status]
    BY <2>1, <2>2 DEF WellFormed, Alters
  <2>7. WellFormed(e)
    BY <2>4, <2>5, <2>6 DEF WellFormed
  <2> QED BY <2>7 DEF e
<1> QED BY <1>2, <1>3, <1>4, <1>5 DEF Building, Renaming, Clearing

(* What a process keeps of it. *)
LEMMA KeptWellFormed ==
  ASSUME NEW v, NEW S, WellFormed(v)
  PROVE  WellFormed(Only(v, S))
<1>1. DOMAIN Only(v, S) \subseteq DOMAIN v /\ \A x \in DOMAIN Only(v, S) : Only(v, S)[x] = v[x]
  BY DEF Only
<1> QED BY <1>1 DEF WellFormed

-----------------------------------------------------------------------------
(* Process p of worker w does its next statement s and becomes q, which has *)
(* made of what it sees, v, the catalog e.                                 *)
Advances(w, p, q, s, v, e) ==
  /\ Sane(w, p) /\ p.at <= Len(Steps(p)) /\ s = Steps(p)[p.at]
  /\ v = View(p) /\ Legal(s, v) /\ e = Effect(s, v, w)
  /\ DOMAIN q = DOMAIN p /\ q.plan = p.plan /\ q.rev = p.rev
  /\ q.at = p.at + 1 /\ q.locks = p.locks \cup Locks(s, v)
  /\ q.mine = Only(e, q.locks)

(* What the script says of the statement. *)
LEMMA Scripted ==
  ASSUME NEW w, NEW p, NEW q, NEW s, NEW v, NEW e, Advances(w, p, q, s, v, e)
  PROVE  /\ Sound(s) /\ s.op \in Building \cup Clearing \cup {"insert"}
         /\ s.op = "create" => Makes(p)
         /\ s.op = "drop" \/ s.op = "dropType" => Drops(p)
         /\ s.op = "insert" <=> p.plan = "seed"
         /\ s.t \in q.locks /\ p.at \in 1 .. Len(Steps(p))
         /\ Steps(q) = Steps(p) /\ Done(q) = Done(p) \cup {s}
         /\ Running(q)
<1> USE DEF Advances, Sane, Running
<1>1. Len(Steps(p)) \in Nat /\ p.at \in 1 .. Len(Steps(p))
  BY Scripts DEF Script
<1>2. Sound(s) /\ s.op \in Building \cup Clearing \cup {"insert"}
  BY <1>1, Scripts DEF Script
<1>3. /\ s.op = "create" => Makes(p)
      /\ s.op = "drop" \/ s.op = "dropType" => Drops(p)
      /\ s.op = "insert" <=> p.plan = "seed"
  BY <1>1, Scripts
<1>4. Steps(q) = Steps(p)
  BY DEF Steps
<1>5. 1 .. q.at - 1 = (1 .. p.at - 1) \cup {p.at}
  BY <1>1
<1>6. Done(q) = Done(p) \cup {s}
  BY <1>4, <1>5 DEF Done
<1>7. DOMAIN q.mine \subseteq q.locks
  BY DEF Only
<1>8. Running(q)
  <2>1. /\ DOMAIN q = {"plan", "rev", "at", "locks", "mine"}
        /\ q.plan \in DOMAIN Plans /\ q.rev \in DOMAIN Plans[q.plan]
    OBVIOUS
  <2>2. q.at \in 1 .. Len(Steps(q)) + 1
    BY <1>1, <1>4
  <2> QED BY <1>7, <2>1, <2>2
<1>9. s.t \in q.locks
  BY DEF Locks
<1> QED BY <1>1, <1>2, <1>3, <1>4, <1>6, <1>8, <1>9

(* What it keeps of e, and what v was.                                     *)
LEMMA Copied ==
  ASSUME NEW w, NEW p, NEW q, NEW s, NEW v, NEW e, Advances(w, p, q, s, v, e), NEW x
  PROVE  /\ x \in q.locks => /\ x \in DOMAIN q.mine <=> x \in DOMAIN e
                             /\ x \in DOMAIN e => q.mine[x] = e[x]
         /\ x \in p.locks => /\ x \in DOMAIN v <=> x \in DOMAIN p.mine
                             /\ x \in DOMAIN p.mine => v[x] = p.mine[x]
         /\ x \notin p.locks => /\ x \in DOMAIN v <=> x \in DOMAIN db
                                /\ x \in DOMAIN db => v[x] = db[x]
         /\ x \in DOMAIN q.mine => x \in q.locks
         /\ x \in p.locks => x \in q.locks
<1>1. DOMAIN p.mine \subseteq p.locks /\ v = View(p)
  BY DEF Advances, Sane, Running
<1>2. q.mine = Only(e, q.locks) /\ p.locks \subseteq q.locks
  BY DEF Advances
<1> QED BY <1>1, <1>2, Seen DEF Only

LEMMA StaysWellFormed ==
  ASSUME WellFormed(db),
         NEW w, NEW p, NEW q, NEW s, NEW v, NEW e, Advances(w, p, q, s, v, e)
  PROVE  WellFormed(v) /\ WellFormed(q.mine)
<1>1. WellFormed(v)
  BY SeenWellFormed DEF Advances, Sane, Running
<1>2. Sound(s) /\ Legal(s, v) /\ s.op \in Building \cup Clearing \cup {"insert"}
  BY Scripted DEF Advances
<1>3. WellFormed(Effect(s, v, w))
  BY <1>1, <1>2, EffectWellFormed, Zenon
<1> QED BY <1>1, <1>3, KeptWellFormed DEF Advances

(* By cases, what happened to the tables and to the type of the status.    *)
LEMMA TableMoves ==
  ASSUME WellFormed(db),
         NEW w, NEW p, NEW q, NEW s, NEW v, NEW e, Advances(w, p, q, s, v, e)
  PROVE  /\ Spares(s, v, e)
         /\ s.op = "create" => Adds(s, v, e)
         /\ s.op = "drop" \/ s.op = "dropType" => Removes(s, v, e)
         /\ s.op = "stamp" => Stamps(v, e)
         /\ s.op \in {"index", "dropIndex", "rename", "insert"} => Alters(s, v, e, w)
<1>1. Sound(s) /\ Legal(s, v) /\ WellFormed(v) /\ e = Effect(s, v, w)
  BY Scripted, StaysWellFormed DEF Advances
<1>2. Spares(s, v, e)
  BY <1>1, OthersStay
<1>3. ASSUME s.op = "create" PROVE Adds(s, v, e)
  BY <1>1, <1>3, CreateDoes, Zenon
<1>4. ASSUME s.op = "drop" \/ s.op = "dropType" PROVE Removes(s, v, e)
  BY <1>1, <1>4, DropDoes, Zenon
<1>5. ASSUME s.op = "stamp" PROVE Stamps(v, e)
  BY <1>1, <1>5, StampDoes, Zenon
<1>6. ASSUME s.op \in {"index", "dropIndex", "rename", "insert"} PROVE Alters(s, v, e, w)
  BY <1>1, <1>6, ChangeDoes, Zenon
<1> QED BY <1>2, <1>3, <1>4, <1>5, <1>6

(* Tables come and go by the statements for it only.                       *)
LEMMA Appears ==
  ASSUME WellFormed(db),
         NEW w, NEW p, NEW q, NEW s, NEW v, NEW e, Advances(w, p, q, s, v, e),
         NEW t \in Tables
  PROVE  /\ t \in DOMAIN e /\ t \notin DOMAIN v => s.op = "create" /\ s.t = t
         /\ t \notin DOMAIN e /\ t \in DOMAIN v => s.op = "drop" /\ s.t = t
<1>1. Sound(s) /\ s.op \in Building \cup Clearing \cup {"insert"} /\ Spares(s, v, e)
  BY Scripted, TableMoves
<1>2. t \notin DOMAIN Labels /\ t # "alembic_version"
  BY TableNames DEF Labels
<1>3. CASE s.op = "create"
  BY <1>1, <1>3, TableMoves DEF Adds, Spares
<1>4. CASE s.op = "drop" \/ s.op = "dropType"
  <2>1. Removes(s, v, e)
    BY <1>4, TableMoves
  <2>2. s.op = "dropType" => s.t # t
    BY <1>1, <1>2 DEF Sound
  <2> QED BY <1>4, <2>1, <2>2 DEF Removes
<1>5. CASE s.op = "stamp"
  BY <1>5, TableMoves DEF Stamps
<1>6. CASE s.op \in {"index", "dropIndex", "rename", "insert"}
  BY <1>6, TableMoves DEF Alters
<1> QED BY <1>1, <1>3, <1>4, <1>5, <1>6 DEF Building, Renaming, Clearing

-----------------------------------------------------------------------------
(* The parts of Sane after the statement. *)
LEMMA StillTyped ==
  ASSUME Committed, NEW w, NEW p, NEW q, NEW s, NEW v, NEW e, Advances(w, p, q, s, v, e)
  PROVE  TypeStays(q)
<1> DEFINE Sub == "subscriptions"
<1>1. WellFormed(v) /\ WellFormed(q.mine)
  BY StaysWellFormed DEF Committed
<1>2. TypeStays(p) /\ Held(p) /\ Running(p) /\ Legal(s, v)
  BY DEF Advances, Sane
<1>3. Status \notin Tables /\ Sub \in Tables /\ Status # "alembic_version" /\ Sub # Status
      /\ Sub # "alembic_version"
  BY TableNames DEF Status
<1>4. Status \in q.locks => Sub \in q.locks
  <2>1. SUFFICES ASSUME Status \in Locks(s, v), Status \notin p.locks
                 PROVE  Sub \in q.locks
    BY <1>2, Copied DEF Advances, TypeStays
  <2>2. Sound(s) /\ s.op \in Building \cup Clearing \cup {"insert"} /\ s.t \in q.locks
    BY Scripted
  <2>3. CASE s.op = "create"
    <3>1. s.t \in Tables /\ Targets(s.table) \subseteq Tables
          /\ (Status \in TypesOf(s.table) => s.t = Sub)
      BY <2>2, <2>3 DEF Sound
    <3>2. Locks(s, v) = {s.t} \cup Targets(s.table) \cup TypesOf(s.table)
      BY <2>3 DEF Locks
    <3> QED BY <1>3, <2>1, <2>2, <3>1, <3>2
  <2>4. CASE s.op = "drop"
    <3>1. s.t \in Tables /\ s.t \in DOMAIN v /\ Targets(v[s.t]) \subseteq Tables
      BY <1>1, <1>2, <2>2, <2>4 DEF Sound, Legal, WellFormed
    <3>2. Locks(s, v) = {s.t} \cup Targets(v[s.t])
      BY <2>4, <3>1 DEF Locks
    <3> QED BY <1>3, <2>1, <3>1, <3>2
  <2>5. CASE s.op \notin {"create", "drop"}
    <3>1. s.t = Status
      BY <2>1, <2>5 DEF Locks
    <3>2. s.op = "dropType"
      BY <1>3, <2>2, <2>5, <3>1 DEF Sound, Building, Renaming, Clearing
    <3>3. Drops(p) /\ s = Steps(p)[p.at] /\ p.at \in 1 .. Len(Steps(p))
      BY <3>2, Scripted DEF Advances
    <3>4. PICK j \in 1 .. p.at - 1 : Steps(p)[j].op = "drop" /\ Steps(p)[j].t = Sub
      BY <1>2, <3>1, <3>3, Scripts
    <3>5. Steps(p)[j] \in Done(p)
      BY DEF Done
    <3>6. Sub \in p.locks
      BY <1>2, <3>4, <3>5 DEF Held
    <3> QED BY <3>6, Copied
  <2> QED BY <2>3, <2>4, <2>5
<1>5. ASSUME Sub \in DOMAIN q.mine PROVE Status \in DOMAIN View(q)
  <2>1. Sub \in DOMAIN e /\ Sub \in q.locks
    BY <1>5, Copied
  <2>2. Sub \in DOMAIN v => Status \in DOMAIN v
    <3>1. CASE Sub \in p.locks
      <4>1. Sub \in DOMAIN v => Sub \in DOMAIN p.mine
        BY <3>1, Copied
      <4>2. v = View(p)
        BY DEF Advances
      <4> QED BY <1>2, <4>1, <4>2 DEF TypeStays
    <3>2. CASE Sub \notin p.locks
      <4>1. Status \notin p.locks
        BY <1>2, <3>2 DEF TypeStays
      <4> QED BY <3>2, <4>1, Copied DEF Committed
    <3> QED BY <3>1, <3>2
  <2>3. Status \in DOMAIN e
    <3>1. Sound(s) /\ s.op \in Building \cup Clearing \cup {"insert"}
      BY Scripted
    <3>2. CASE s.op = "create"
      BY <2>1, <2>2, <1>3, <3>2, TableMoves DEF Adds, Spares, Committed
    <3>3. CASE s.op = "drop" \/ s.op = "dropType"
      <4>1. Removes(s, v, e)
        BY <3>3, TableMoves DEF Committed
      <4>2. Sub \in DOMAIN v /\ Status \in DOMAIN v
        BY <2>1, <2>2, <4>1 DEF Removes
      <4>3. s.t # Status
        BY <1>1, <1>2, <1>3, <3>1, <3>3, <4>2 DEF Sound, Legal, WellFormed
      <4> QED BY <4>1, <4>2, <4>3 DEF Removes
    <3>4. CASE s.op = "stamp"
      BY <2>1, <2>2, <3>4, TableMoves DEF Stamps, Committed
    <3>5. CASE s.op \in {"index", "dropIndex", "rename", "insert"}
      BY <2>1, <2>2, <3>5, TableMoves DEF Alters, Committed
    <3> QED BY <3>1, <3>2, <3>3, <3>4, <3>5 DEF Building, Renaming, Clearing
  <2>4. CASE Status \in q.locks
    BY <2>3, <2>4, Copied, Seen DEF Only, Advances
  <2>5. CASE Status \notin q.locks
    <3>1. DOMAIN q.mine \subseteq q.locks /\ Status \notin p.locks
      BY <2>5, Copied
    <3>2. Status \in DOMAIN db
      <4>1. CASE Sub \in DOMAIN v
        BY <2>2, <3>1, <4>1, Copied
      <4>2. CASE Sub \notin DOMAIN v
        <5>1. s.op = "create" /\ s.t = Sub
          BY <1>3, <2>1, <4>2, Appears DEF Committed
        <5>2. Status \in TypesOf(s.table)
          BY <5>1, Scripted DEF Sound
        <5>3. Status \in q.locks
          BY <5>1, <5>2 DEF Advances, Locks
        <5> QED BY <2>5, <5>3
      <4> QED BY <4>1, <4>2
    <3> QED BY <2>5, <3>1, <3>2, Seen
  <2> QED BY <2>4, <2>5
<1> QED BY <1>4, <1>5 DEF TypeStays

LEMMA StillHeld ==
  ASSUME Committed, NEW w, NEW p, NEW q, NEW s, NEW v, NEW e, Advances(w, p, q, s, v, e)
  PROVE  Held(q)
<1>1. Held(p) /\ Done(q) = Done(p) \cup {s} /\ (Makes(q) <=> Makes(p)) /\ (Drops(q) <=> Drops(p))
  <2>1. Held(p) /\ q.plan = p.plan /\ q.rev = p.rev
    BY DEF Advances, Sane
  <2>2. Done(q) = Done(p) \cup {s}
    BY Scripted
  <2> QED BY <2>1, <2>2 DEF Makes, Drops
<1>2. ~(Makes(p) /\ Drops(p))
  BY DEF Makes, Drops
<1>3. ASSUME NEW r \in Done(p)
      PROVE  /\ r.t \in q.locks
             /\ r.op = "create" => r.t \in DOMAIN q.mine
             /\ r.op = "drop" => r.t \notin DOMAIN q.mine
  <2>1. r.t \in p.locks /\ r.t \in q.locks
    BY <1>1, Copied DEF Held
  <2>2. /\ r.op = "create" => Makes(p) /\ r.t \in Tables
        /\ r.op = "drop" => Drops(p) /\ r.t \in Tables
    <3>1. PICK i \in 1 .. p.at - 1 : r = Steps(p)[i]
      BY DEF Done
    <3>2. i \in 1 .. Len(Steps(p)) /\ Running(p)
      BY Scripts DEF Advances, Sane, Running, Script
    <3> QED BY <3>1, <3>2, Scripts DEF Script, Sound
  <2>3. ASSUME r.op = "create" PROVE r.t \in DOMAIN q.mine
    <3>1. r.t \in DOMAIN v
      BY <1>1, <2>1, <2>3, Copied DEF Held
    <3>2. r.t \in DOMAIN e
      BY <1>2, <2>2, <2>3, <3>1, Appears, Scripted DEF Committed
    <3> QED BY <2>1, <3>2, Copied
  <2>4. ASSUME r.op = "drop" PROVE r.t \notin DOMAIN q.mine
    <3>1. r.t \notin DOMAIN v
      BY <1>1, <2>1, <2>4, Copied DEF Held
    <3>2. r.t \notin DOMAIN e
      BY <1>2, <2>2, <2>4, <3>1, Appears, Scripted DEF Committed
    <3> QED BY <2>1, <3>2, Copied
  <2> QED BY <2>1, <2>3, <2>4
<1>4. /\ s.t \in q.locks
      /\ s.op = "create" => s.t \in DOMAIN q.mine
      /\ s.op = "drop" => s.t \notin DOMAIN q.mine
  <2>1. s.t \in q.locks
    BY Scripted
  <2>2. ASSUME s.op = "create" PROVE s.t \in DOMAIN e
    BY <2>2, TableMoves DEF Adds, Committed
  <2>3. ASSUME s.op = "drop" PROVE s.t \notin DOMAIN e
    <3>1. Removes(s, v, e)
      BY <2>3, TableMoves DEF Committed
    <3> QED BY <3>1 DEF Removes
  <2> QED BY <2>1, <2>2, <2>3, Copied
<1>5. ASSUME ~Drops(p), NEW t \in Tables \cap q.locks \cap DOMAIN db
      PROVE  t \in DOMAIN q.mine
  <2>1. t \in DOMAIN v
    BY <1>1, <1>5, Copied DEF Held
  <2>2. t \in DOMAIN e
    BY <1>5, <2>1, Appears, Scripted DEF Committed
  <2> QED BY <2>2, Copied
<1>6. ASSUME ~Makes(p), NEW t \in Tables \cap DOMAIN q.mine
      PROVE  t \in DOMAIN db
  <2>1. t \in DOMAIN e
    BY Copied
  <2>2. t \in DOMAIN v
    BY <1>6, <2>1, Appears, Scripted DEF Committed
  <2> QED BY <1>1, <1>6, <2>2, Copied DEF Held
<1> QED BY <1>1, <1>3, <1>4, <1>5, <1>6 DEF Held

(* A migration copies the rows of the tables it locks.                     *)
LEMMA StillCopies ==
  ASSUME Committed, NEW w, NEW p, NEW q, NEW s, NEW v, NEW e, Advances(w, p, q, s, v, e),
         p.plan # "seed"
  PROVE  RowsOf(w, q)
<1>1. Held(p) /\ RowsOf(w, p) /\ q.plan # "seed"
  BY DEF Advances, Sane
<1>2. ASSUME NEW t \in Tables \cap DOMAIN q.mine
      PROVE  q.mine[t].rows = IF t \in DOMAIN db THEN db[t].rows ELSE {}
  <2>1. t \in DOMAIN e /\ q.mine[t] = e[t] /\ t \in q.locks
    BY Copied
  <2>2. CASE t \in DOMAIN v
    <3>1. v[t].rows = IF t \in DOMAIN db THEN db[t].rows ELSE {}
      BY <1>1, <2>2, Copied DEF RowsOf
    <3>2. e[t].rows = v[t].rows
      <4>1. Sound(s) /\ s.op # "insert" /\ s.op \in Building \cup Clearing \cup {"insert"}
        BY Scripted
      <4>2. CASE t # s.t
        BY <2>2, <4>2, TableMoves DEF Spares, Committed
      <4>3. CASE t = s.t /\ s.op \in {"index", "dropIndex", "rename"}
        BY <4>1, <4>3, TableMoves DEF Alters, Committed
      <4>4. CASE t = s.t /\ s.op \in {"create", "drop", "dropType", "stamp"}
        <5>1. s.op # "create"
          BY <2>2, <4>4, TableMoves DEF Adds, Committed
        <5>2. ~(s.op = "drop" \/ s.op = "dropType")
          <6>1. s.op = "drop" \/ s.op = "dropType" => Removes(s, v, e)
            BY TableMoves DEF Committed
          <6> QED BY <2>1, <4>4, <6>1 DEF Removes
        <5>3. s.op # "stamp"
          BY <4>1, <4>4, TableNames DEF Sound
        <5> QED BY <4>4, <5>1, <5>2, <5>3
      <4> QED BY <4>1, <4>2, <4>3, <4>4 DEF Building, Renaming, Clearing
    <3> QED BY <2>1, <3>1, <3>2
  <2>3. CASE t \notin DOMAIN v
    <3>1. s.op = "create" /\ s.t = t /\ Makes(p) /\ Sound(s)
      BY <2>1, <2>3, Appears, Scripted DEF Committed
    <3>2. e[t].rows = {}
      BY <3>1, TableMoves DEF Adds, Sound, Committed
    <3>3. t \notin DOMAIN db
      <4>1. ~Drops(p)
        BY <3>1 DEF Makes, Drops
      <4> QED BY <1>1, <2>3, <4>1, Copied DEF Held
    <3> QED BY <2>1, <3>2, <3>3
  <2> QED BY <2>2, <2>3
<1> QED BY <1>1, <1>2 DEF RowsOf

(* The statements of the seed. *)
LEMMA SeedStatements ==
  ASSUME NEW p, Running(p), p.plan = "seed"
  PROVE  /\ Steps(p) = Seed /\ Len(Seed) = 3
         /\ Seed[1].t = "users" /\ Seed[1].keys = {"admin", "member"}
         /\ Seed[2].t = "organizations" /\ Seed[2].keys = {"acme"}
         /\ Seed[3].t = "memberships" /\ Seed[3].keys = {"owner", "member"}
         /\ \A i \in 1 .. 3 : Seed[i].op = "insert" /\ Seed[i].t \in Seeded
         /\ \A i, j \in 1 .. 3 : Seed[i].t = Seed[j].t => i = j
<1>1. Steps(p) = Seed
  <2>1. p.rev \in {"base", "0001", "0002"}
    BY DEF Running, Plans
  <2> QED BY <2>1 DEF Steps, Plans
<1>2. /\ Len(Seed) = 3
      /\ Seed[1].op = "insert" /\ Seed[2].op = "insert" /\ Seed[3].op = "insert"
      /\ Seed[1].t = "users" /\ Seed[1].keys = {"admin", "member"}
      /\ Seed[2].t = "organizations" /\ Seed[2].keys = {"acme"}
      /\ Seed[3].t = "memberships" /\ Seed[3].keys = {"owner", "member"}
  BY DEF Seed, Insert
<1>3. \A i \in 1 .. 3 : i = 1 \/ i = 2 \/ i = 3
  OBVIOUS
<1>4. \A i \in 1 .. 3 : Seed[i].op = "insert" /\ Seed[i].t \in Seeded
  BY <1>2, <1>3 DEF Seeded
<1>5. \A i, j \in 1 .. 3 : Seed[i].t = Seed[j].t => i = j
  BY <1>2, <1>3
<1> QED BY <1>1, <1>2, <1>4, <1>5

(* The keys a worker has seeded are those of its rows.                     *)
LEMMA SeededKeys ==
  ASSUME NEW w, NEW t, NEW k
  PROVE  k \in SeededBy(w, t) <=> <<k, w>> \in db[t].rows
<1>1. <<k, w>> \in db[t].rows => k \in Keys(db[t])
  <2> SUFFICES ASSUME <<k, w>> \in db[t].rows PROVE k \in Keys(db[t])
    OBVIOUS
  <2>1. <<k, w>>[1] = k
    OBVIOUS
  <2> QED BY <2>1 DEF Keys
<1> QED BY <1>1 DEF SeededBy

(* Whether a seed of the worker is in the database, by a row of any table. *)
LEMMA SeedMissing ==
  ASSUME Together, SeedWhole, NEW w \in Workers, NEW p, Running(p), p.plan = "seed",
         NEW i \in 1 .. 3, Seed[i].t \in DOMAIN db, NEW k \in Seed[i].keys,
         <<k, w>> \notin db[Seed[i].t].rows
  PROVE  \A j \in 1 .. 3 : \A x : <<x, w>> \notin db[Seed[j].t].rows
<1>1. "memberships" \in DOMAIN db
  BY SeedStatements DEF Together, Seeded
<1>2. ~ (/\ SeededBy(w, "users") = {"admin", "member"}
         /\ SeededBy(w, "organizations") = {"acme"}
         /\ SeededBy(w, "memberships") = {"owner", "member"})
  <2>1. k \notin SeededBy(w, Seed[i].t)
    BY SeededKeys
  <2>2. i = 1 \/ i = 2 \/ i = 3
    OBVIOUS
  <2> QED BY <2>1, <2>2, SeedStatements
<1>3. /\ SeededBy(w, "users") = {} /\ SeededBy(w, "organizations") = {}
      /\ SeededBy(w, "memberships") = {}
  BY <1>1, <1>2 DEF SeedWhole
<1>4. \A j \in 1 .. 3 : \/ Seed[j].t = "users" \/ Seed[j].t = "organizations"
                       \/ Seed[j].t = "memberships"
  BY SeedStatements DEF Seeded
<1>5. \A j \in 1 .. 3 : SeededBy(w, Seed[j].t) = {}
  BY <1>3, <1>4
<1> QED BY <1>5, SeededKeys

(* A flush of the seed adds its rows to a table that had none of them.     *)
LEMMA StillSeeds ==
  ASSUME Committed, NEW w \in Workers, NEW p, NEW q, NEW s, NEW v, NEW e,
         Advances(w, p, q, s, v, e), p.plan = "seed"
  PROVE  RowsOf(w, q)
<1>1. Running(p) /\ RowsOf(w, p) /\ q.plan = "seed"
  BY DEF Advances, Sane
<1>2. p.at \in 1 .. 3 /\ s = Seed[p.at] /\ s.op = "insert" /\ s.t \in Seeded
  <2>1. p.at \in 1 .. Len(Steps(p)) /\ s = Steps(p)[p.at]
    BY Scripted DEF Advances
  <2> QED BY <1>1, <2>1, SeedStatements
<1>3. p.locks = {r.t : r \in Done(p)} /\ q.locks = p.locks \cup {s.t}
  BY <1>1, <1>2 DEF RowsOf, Advances, Locks
<1>4. ASSUME NEW r \in Done(p) PROVE r.t # s.t /\ r.t \in Seeded
  <2>1. PICK i \in 1 .. p.at - 1 : r = Seed[i]
    BY <1>1, SeedStatements DEF Done
  <2>2. i \in 1 .. 3 /\ i # p.at
    BY <1>2
  <2> QED BY <1>1, <1>2, <2>1, <2>2, SeedStatements
<1>5. s.t \notin p.locks
  BY <1>3, <1>4
<1>6. s.t \in DOMAIN db /\ s.t \in DOMAIN q.mine
      /\ q.mine[s.t].rows = db[s.t].rows \cup {<<k, w>> : k \in s.keys}
      /\ s.keys \cap Keys(db[s.t]) = {}
  <2>1. Alters(s, v, e, w)
    BY <1>2, TableMoves DEF Committed
  <2>2. s.t \in DOMAIN db /\ v[s.t] = db[s.t] /\ s.t \in DOMAIN e
    BY <1>5, <2>1, Copied DEF Alters
  <2>3. s.t \in DOMAIN q.mine /\ q.mine[s.t] = e[s.t]
    BY <1>3, <2>2, Copied
  <2> QED BY <1>2, <2>1, <2>2, <2>3 DEF Alters
<1>7. \A k : <<k, w>> \notin db[s.t].rows
  <2>1. PICK k : k \in s.keys
    <3>1. p.at = 1 \/ p.at = 2 \/ p.at = 3
      BY <1>2
    <3> QED BY <1>1, <1>2, <3>1, SeedStatements
  <2>2. <<k, w>> \notin db[s.t].rows
    BY <1>6, <2>1, SeededKeys DEF SeededBy
  <2> QED BY <1>1, <1>2, <1>6, <2>1, <2>2, SeedMissing DEF Committed
<1>8. ASSUME NEW r \in Done(p)
      PROVE  /\ r.t \in DOMAIN q.mine \cap DOMAIN db
             /\ q.mine[r.t].rows = db[r.t].rows \cup {<<k, w>> : k \in r.keys}
             /\ \A k : <<k, w>> \notin db[r.t].rows
  <2>1. /\ r.t \in DOMAIN p.mine \cap DOMAIN db
        /\ p.mine[r.t].rows = db[r.t].rows \cup {<<k, w>> : k \in r.keys}
        /\ \A k : <<k, w>> \notin db[r.t].rows
    BY <1>1 DEF RowsOf, Advances
  <2>2. r.t \in p.locks /\ r.t \in Tables
    BY <1>3, <1>4, TableNames DEF Seeded
  <2>3. r.t \in DOMAIN v /\ v[r.t] = p.mine[r.t]
    BY <2>1, <2>2, Copied
  <2>4. r.t \in DOMAIN e /\ e[r.t] = v[r.t]
    BY <1>4, <2>2, <2>3, TableMoves DEF Spares, Committed
  <2>5. r.t \in DOMAIN q.mine /\ q.mine[r.t] = e[r.t]
    BY <1>3, <2>2, <2>4, Copied
  <2> QED BY <2>1, <2>3, <2>4, <2>5
<1>9. Done(q) = Done(p) \cup {s}
  BY Scripted
<1>10. q.locks = {r.t : r \in Done(q)}
  BY <1>3, <1>9
<1>11. ASSUME NEW r \in Done(q)
      PROVE  /\ r.t \in DOMAIN q.mine \cap DOMAIN db
             /\ q.mine[r.t].rows = db[r.t].rows \cup {<<k, w>> : k \in r.keys}
             /\ \A k : <<k, w>> \notin db[r.t].rows
  <2>1. CASE r = s
    BY <1>6, <1>7, <2>1
  <2>2. CASE r \in Done(p)
    BY <1>8, <2>2
  <2> QED BY <1>9, <2>1, <2>2
<1> QED BY <1>1, <1>10, <1>11 DEF RowsOf

LEMMA StillSane ==
  ASSUME Committed, NEW w \in Workers, NEW p, NEW q, NEW s, NEW v, NEW e,
         Advances(w, p, q, s, v, e)
  PROVE  Sane(w, q)
<1>1. Running(q) /\ WellFormed(q.mine)
  BY Scripted, StaysWellFormed DEF Committed
<1>2. TypeStays(q) /\ Held(q)
  BY StillTyped, StillHeld
<1>3. RowsOf(w, q)
  BY StillCopies, StillSeeds
<1> QED BY <1>1, <1>2, <1>3 DEF Sane

-----------------------------------------------------------------------------
(* The steps of the whole.  First: one process moves on, the database      *)
(* stays as it is.                                                         *)
LEMMA OneMoves ==
  ASSUME IInv, NEW w \in Workers, NEW q, Set(w, q), UNCHANGED db,
         q # Idle => Sane(w, q),
         \A u \in Workers \ {w} : proc[u].locks \cap q.locks = {}
  PROVE  IInv'
<1>1. proc'[w] = q /\ DOMAIN proc' = Workers /\ \A u \in Workers \ {w} : proc'[u] = proc[u]
  BY DEF Set, IInv
<1>2. Committed'
  BY DEF IInv, Committed, WellFormed, Together, SeedWhole, SeededBy
<1>3. Apart'
  BY <1>1 DEF IInv, Apart
<1>4. ASSUME NEW u \in Workers, proc'[u] # Idle PROVE Sane(u, proc[u])'
  <2>1. PICK r : r = proc'[u]
    OBVIOUS
  <2>2. Sane(u, r)
    BY <1>1, <1>4, <2>1 DEF IInv
  <2>3. Sane(u, r)'
    BY <2>2 DEF Sane, Running, TypeStays, Held, RowsOf, View
  <2> QED BY <2>1, <2>3 DEF Sane, Running, WellFormed, TypeStays, Held, RowsOf, View, Steps,
                            Done, Makes, Drops
<1> QED BY <1>1, <1>2, <1>3, <1>4 DEF IInv

LEMMA IdleHolds == Idle.locks = {} /\ Idle.plan = "none" /\ DOMAIN Idle.mine = {}
BY DEF Idle, Nothing

LEMMA EndStep ==
  ASSUME IInv, NEW w \in Workers, Set(w, Idle), UNCHANGED db
  PROVE  IInv'
BY IdleHolds, OneMoves

LEMMA BeginStep ==
  ASSUME IInv, NEW w \in Workers, Begin(w)
  PROVE  IInv'
<1>1. PICK plan \in DOMAIN Plans :
        /\ db["alembic_version"] \in DOMAIN Plans[plan]
        /\ Set(w, [Idle EXCEPT !.plan = plan, !.rev = db["alembic_version"], !.at = 1])
        /\ UNCHANGED db
  BY DEF Begin
<1>2. PICK q : q = [Idle EXCEPT !.plan = plan, !.rev = db["alembic_version"], !.at = 1]
  OBVIOUS
<1>3. /\ DOMAIN q = {"plan", "rev", "at", "locks", "mine"}
      /\ q.plan = plan /\ q.rev = db["alembic_version"] /\ q.at = 1
      /\ q.locks = {} /\ DOMAIN q.mine = {}
  BY <1>2 DEF Idle, Nothing
<1>4. Done(q) = {}
  BY <1>3 DEF Done
<1>5. 1 \in 1 .. Len(Steps(q)) + 1
  <2>1. plan \in {"seed", "up", "down"}
    BY DEF Plans
  <2>2. Len(Steps(q)) \in Nat
    <3>1. Steps(q) = Plans[plan][db["alembic_version"]]
      BY <1>3 DEF Steps
    <3>2. Steps(q) \in {Seed, Upgrade1 \o Upgrade2, Upgrade2, Downgrade1, Downgrade2}
      <4>1. CASE plan = "seed"
        BY <1>1, <3>1, <4>1 DEF Plans
      <4>2. CASE plan = "up"
        BY <1>1, <3>1, <4>2 DEF Plans
      <4>3. CASE plan = "down"
        BY <1>1, <3>1, <4>3 DEF Plans
      <4> QED BY <2>1, <4>1, <4>2, <4>3
    <3>3. Script(Upgrade1 \o Upgrade2, Building)
      <4>1. Script(Upgrade2, Building)
        BY Upgrade2_Script DEF Script, Building
      <4> QED BY <4>1, Upgrade1_Script, Joined
    <3> QED BY <3>2, <3>3, Seed_Script, Upgrade2_Script, Downgrade1_Script, Downgrade2_Script
            DEF Script
  <2> QED BY <2>2
<1>6. Sane(w, q)
  <2>1. Running(q)
    BY <1>1, <1>3, <1>5 DEF Running
  <2>2. WellFormed(q.mine) /\ TypeStays(q) /\ Held(q) /\ RowsOf(w, q)
    BY <1>3, <1>4 DEF WellFormed, TypeStays, Held, RowsOf
  <2> QED BY <2>1, <2>2 DEF Sane
<1> QED BY <1>1, <1>2, <1>3, <1>6, OneMoves

(* A process at work loses all it did, or does its next statement and locks *)
(* nothing that another has locked.                                         *)
LEMMA RunDoes ==
  ASSUME IInv, NEW w \in Workers, Run(w)
  PROVE  /\ UNCHANGED db
         /\ \/ Set(w, Idle)
            \/ \E q, s, v, e : /\ Set(w, q) /\ Advances(w, proc[w], q, s, v, e)
                              /\ \A u \in Workers \ {w} : proc[u].locks \cap q.locks = {}
<1> DEFINE p == proc[w]
           s == Statement(p)
           v == View(p)
           locks == p.locks \cup Locks(s, v)
           q == [p EXCEPT !.at = @ + 1, !.locks = locks, !.mine = Only(Effect(s, v, w), locks)]
<1>1. /\ p # Idle /\ ~Finished(p) /\ Free(w, Locks(s, v))
      /\ Set(w, IF Legal(s, v) THEN q ELSE Idle) /\ UNCHANGED db
  BY DEF Run
<1>2. Committed /\ Sane(w, p)
  BY <1>1 DEF IInv
<1>3. CASE ~Legal(s, v)
  BY <1>1, <1>3
<1>4. CASE Legal(s, v)
  <2>1. Len(Steps(p)) \in Nat /\ p.at \in 1 .. Len(Steps(p)) + 1
    BY <1>2, Scripts DEF Sane, Running, Script
  <2>2. p.at <= Len(Steps(p)) /\ s = Steps(p)[p.at]
    <3>1. (Finished(p) <=> p.at > Len(Steps(p))) /\ s = Steps(p)[p.at]
      BY DEF Finished, Steps, Statement
    <3>2. ~(p.at > Len(Steps(p)))
      BY <1>1, <3>1
    <3>3. p.at <= Len(Steps(p))
      BY <2>1, <3>2
    <3> QED BY <3>1, <3>3
  <2>3. DOMAIN p = {"plan", "rev", "at", "locks", "mine"}
    BY <1>2 DEF Sane, Running
  <2>4. Advances(w, p, q, s, v, Effect(s, v, w))
    BY <1>2, <1>4, <2>2, <2>3 DEF Advances
  <2>5. q.locks = locks
    BY <2>3
  <2>6. \A u \in Workers \ {w} : proc[u].locks \cap q.locks = {}
    BY <1>1, <2>5 DEF Free, IInv, Apart
  <2> HIDE DEF q
  <2> QED BY <1>1, <1>4, <2>4, <2>6
<1> QED BY <1>3, <1>4

LEMMA RunStep ==
  ASSUME IInv, NEW w \in Workers, Run(w)
  PROVE  IInv'
<1>1. UNCHANGED db
  BY RunDoes
<1>2. CASE Set(w, Idle)
  BY <1>1, <1>2, EndStep
<1>3. ASSUME NEW q, NEW s, NEW v, NEW e, Set(w, q), Advances(w, proc[w], q, s, v, e),
             \A u \in Workers \ {w} : proc[u].locks \cap q.locks = {}
      PROVE  IInv'
  <2>1. PICK p : p = proc[w]
    OBVIOUS
  <2>2. Sane(w, q)
    BY <1>3, <2>1, StillSane DEF IInv
  <2> QED BY <1>1, <1>3, <2>2, OneMoves
<1> QED BY <1>2, <1>3, RunDoes

(* What another process or the application commits leaves alone the        *)
(* objects that a process has locked.                                      *)
LEMMA Undisturbed ==
  ASSUME NEW w, NEW p, Sane(w, p),
         \A x \in p.locks : /\ x \in DOMAIN db' <=> x \in DOMAIN db
                            /\ x \in DOMAIN db => db'[x] = db[x],
         "subscriptions" \in p.locks /\ Status \in DOMAIN db => Status \in DOMAIN db'
  PROVE  Sane(w, p)'
<1>1. DOMAIN p.mine \subseteq p.locks /\ Running(p)'
  BY DEF Sane, Running, Steps
<1>2. TypeStays(p)'
  <2>1. ASSUME "subscriptions" \in DOMAIN p.mine PROVE Status \in DOMAIN View(p)'
    <3>1. Status \in DOMAIN View(p) /\ "subscriptions" \in p.locks
      BY <1>1, <2>1 DEF Sane, TypeStays
    <3>2. DOMAIN View(p)' = DOMAIN p.mine \cup (DOMAIN db' \ p.locks)
      BY DEF View, Over, Only
    <3>3. DOMAIN View(p) = DOMAIN p.mine \cup (DOMAIN db \ p.locks)
      BY DEF View, Over, Only
    <3> QED BY <3>1, <3>2, <3>3
  <2> QED BY <2>1 DEF Sane, TypeStays
<1>3. Held(p)'
  BY <1>1 DEF Sane, Held, Done, Steps, Makes, Drops
<1>4. RowsOf(w, p)'
  <2>1. ASSUME p.plan # "seed", NEW t \in Tables \cap DOMAIN p.mine
        PROVE  p.mine[t].rows = IF t \in DOMAIN db' THEN db'[t].rows ELSE {}
    BY <1>1, <2>1 DEF Sane, RowsOf
  <2>2. ASSUME p.plan = "seed", NEW s \in Done(p)
        PROVE  /\ s.t \in DOMAIN p.mine \cap DOMAIN db'
               /\ p.mine[s.t].rows = db'[s.t].rows \cup {<<k, w>> : k \in s.keys}
               /\ \A k : <<k, w>> \notin db'[s.t].rows
    <3>1. /\ s.t \in DOMAIN p.mine \cap DOMAIN db
          /\ p.mine[s.t].rows = db[s.t].rows \cup {<<k, w>> : k \in s.keys}
          /\ \A k : <<k, w>> \notin db[s.t].rows
      BY <2>2 DEF Sane, RowsOf
    <3>2. s.t \in DOMAIN db' /\ db'[s.t] = db[s.t]
      BY <1>1, <3>1
    <3> QED BY <3>1, <3>2
  <2>3. Done(p)' = Done(p)
    BY DEF Done, Steps
  <2> QED BY <2>1, <2>2, <2>3 DEF Sane, RowsOf
<1> QED BY <1>1, <1>2, <1>3, <1>4 DEF Sane, WellFormed

(* A catalog that has all rows of a worker's seed or none of them.         *)
Whole(v, w) ==
  \/ \A t \in Seeded : \A k : <<k, w>> \notin v[t].rows
  \/ /\ \A k : <<k, w>> \in v["users"].rows <=> k \in {"admin", "member"}
     /\ \A k : <<k, w>> \in v["organizations"].rows <=> k \in {"acme"}
     /\ \A k : <<k, w>> \in v["memberships"].rows <=> k \in {"owner", "member"}

LEMMA WholeSeeds ==
  ASSUME NEW v, NEW w
  PROVE  LET By(t) == {k \in Keys(v[t]) : <<k, w>> \in v[t].rows}
         IN  Whole(v, w) <=>
               \/ By("users") = {} /\ By("organizations") = {} /\ By("memberships") = {}
               \/ By("users") = {"admin", "member"} /\ By("organizations") = {"acme"}
                  /\ By("memberships") = {"owner", "member"}
<1> DEFINE By(t) == {k \in Keys(v[t]) : <<k, w>> \in v[t].rows}
<1>1. ASSUME NEW t, NEW k PROVE k \in By(t) <=> <<k, w>> \in v[t].rows
  <2>1. <<k, w>> \in v[t].rows => k \in Keys(v[t])
    <3> SUFFICES ASSUME <<k, w>> \in v[t].rows PROVE k \in Keys(v[t])
      OBVIOUS
    <3>1. <<k, w>>[1] = k
      OBVIOUS
    <3> QED BY <3>1 DEF Keys
  <2> QED BY <2>1
<1> HIDE DEF By
<1>2. (\A t \in Seeded : \A k : <<k, w>> \notin v[t].rows) <=>
         By("users") = {} /\ By("organizations") = {} /\ By("memberships") = {}
  BY <1>1 DEF Seeded
<1>3. \A t, S : (\A k : <<k, w>> \in v[t].rows <=> k \in S) <=> By(t) = S
  BY <1>1
<1>4. /\ (\A k : <<k, w>> \in v["users"].rows <=> k \in {"admin", "member"})
           <=> By("users") = {"admin", "member"}
      /\ (\A k : <<k, w>> \in v["organizations"].rows <=> k \in {"acme"})
           <=> By("organizations") = {"acme"}
      /\ (\A k : <<k, w>> \in v["memberships"].rows <=> k \in {"owner", "member"})
           <=> By("memberships") = {"owner", "member"}
  BY <1>3, Zenon
<1>5. Whole(v, w) <=>
        \/ By("users") = {} /\ By("organizations") = {} /\ By("memberships") = {}
        \/ By("users") = {"admin", "member"} /\ By("organizations") = {"acme"}
           /\ By("memberships") = {"owner", "member"}
  BY <1>2, <1>4, Zenon DEF Whole
<1> QED BY <1>5 DEF By

(* A process at the end of its script has done all its statements.         *)
LEMMA AllDone ==
  ASSUME NEW p, Running(p), Finished(p)
  PROVE  /\ \A i \in 1 .. Len(Steps(p)) : Steps(p)[i] \in Done(p)
         /\ \A op, t : Has(Steps(p), op, t) => \E s \in Done(p) : s.op = op /\ s.t = t
<1>1. Len(Steps(p)) \in Nat /\ p.at \in 1 .. Len(Steps(p)) + 1 /\ p.at > Len(Steps(p))
  BY Scripts DEF Running, Script, Finished, Steps
<1>2. \A i \in 1 .. Len(Steps(p)) : i \in 1 .. p.at - 1
  BY <1>1
<1>3. \A i \in 1 .. Len(Steps(p)) : Steps(p)[i] \in Done(p)
  BY <1>2 DEF Done
<1> QED BY <1>3 DEF Has

(* Only a migration to or from the base makes and drops tables, and it     *)
(* makes or drops those of the seed together.                              *)
LEMMA EndsTogether ==
  ASSUME Committed, NEW w, NEW p, Sane(w, p), Finished(p)
  PROVE  /\ ~Makes(p) /\ ~Drops(p) =>
              \A t \in Tables : t \in DOMAIN View(p) <=> t \in DOMAIN db
         /\ \A t, u \in Seeded : t \in DOMAIN View(p) <=> u \in DOMAIN View(p)
<1>1. Running(p) /\ Held(p) /\ DOMAIN p.mine \subseteq p.locks /\ Together
  BY DEF Sane, Running, Committed
<1>2. CASE Makes(p)
  <2>1. \A t \in Seeded : t \in DOMAIN View(p)
    <3> TAKE t \in Seeded
    <3>1. PICK s \in Done(p) : s.op = "create" /\ s.t = t
      BY <1>1, <1>2, Scripts, AllDone
    <3>2. t \in p.locks /\ t \in DOMAIN p.mine
      BY <1>1, <3>1 DEF Held
    <3> QED BY <1>1, <3>2, Seen
  <2> QED BY <1>2, <2>1
<1>3. CASE Drops(p)
  <2>1. \A t \in Seeded : t \notin DOMAIN View(p)
    <3> TAKE t \in Seeded
    <3>1. PICK s \in Done(p) : s.op = "drop" /\ s.t = t
      BY <1>1, <1>3, Scripts, AllDone
    <3>2. t \in p.locks /\ t \notin DOMAIN p.mine
      BY <1>1, <3>1 DEF Held
    <3> QED BY <1>1, <3>2, Seen
  <2> QED BY <1>3, <2>1
<1>4. CASE ~Makes(p) /\ ~Drops(p)
  <2>1. \A t \in Tables : t \in DOMAIN View(p) <=> t \in DOMAIN db
    <3> TAKE t \in Tables
    <3>1. t \in p.locks => (t \in DOMAIN p.mine <=> t \in DOMAIN db)
      BY <1>1, <1>4 DEF Held
    <3> QED BY <1>1, <3>1, Seen
  <2>2. Seeded \subseteq Tables
    BY TableNames DEF Seeded
  <2> QED BY <1>1, <2>1, <2>2 DEF Together
<1> QED BY <1>2, <1>3, <1>4

LEMMA SeedWholeMeans ==
  SeedWhole <=> ("memberships" \in DOMAIN db => \A w \in Workers : Whole(db, w))
<1>1. ASSUME NEW w \in Workers
      PROVE  Whole(db, w) <=>
               \/ SeededBy(w, "users") = {} /\ SeededBy(w, "organizations") = {}
                  /\ SeededBy(w, "memberships") = {}
               \/ SeededBy(w, "users") = {"admin", "member"}
                  /\ SeededBy(w, "organizations") = {"acme"}
                  /\ SeededBy(w, "memberships") = {"owner", "member"}
  BY WholeSeeds DEF SeededBy
<1> QED BY <1>1 DEF SeedWhole

(* A finished process leaves every seed as whole as it was, its own too.   *)
LEMMA EndsWhole ==
  ASSUME Committed, NEW w \in Workers, NEW p, Sane(w, p), Finished(p),
         "memberships" \in DOMAIN View(p), NEW u \in Workers
  PROVE  Whole(View(p), u)
<1> DEFINE e == View(p)
<1>1. /\ Running(p) /\ RowsOf(w, p) /\ DOMAIN p.mine \subseteq p.locks
      /\ Together /\ SeedWhole
  BY DEF Sane, Running, Committed
<1>2. \A t \in Seeded : t \in DOMAIN e /\ t \in Tables
  BY EndsTogether, TableNames DEF Seeded
<1>3. (\A t \in Seeded : t \in DOMAIN db) \/ (\A t \in Seeded : t \notin DOMAIN db)
  BY <1>1 DEF Together
<1>4. (\A t \in Seeded : t \in DOMAIN db) => Whole(db, u)
  BY <1>1, SeedWholeMeans DEF Seeded
<1>5. CASE p.plan # "seed"
  <2>1. \A t \in Seeded : e[t].rows = IF t \in DOMAIN db THEN db[t].rows ELSE {}
    <3> TAKE t \in Seeded
    <3>1. CASE t \in p.locks
      <4>1. t \in DOMAIN p.mine /\ e[t] = p.mine[t]
        BY <1>1, <1>2, <3>1, Seen
      <4> QED BY <1>1, <1>2, <1>5, <4>1 DEF RowsOf
    <3>2. CASE t \notin p.locks
      BY <1>1, <1>2, <3>2, Seen
    <3> QED BY <3>1, <3>2
  <2> QED BY <1>3, <1>4, <2>1 DEF Whole, Seeded
<1>6. CASE p.plan = "seed"
  <2>1. \A t \in Seeded : t \in DOMAIN db
    BY <1>2, <1>6, EndsTogether DEF Makes, Drops
  <2>2. ASSUME NEW i \in 1 .. 3
        PROVE  /\ e[Seed[i].t].rows = db[Seed[i].t].rows \cup {<<k, w>> : k \in Seed[i].keys}
               /\ \A k : <<k, w>> \notin db[Seed[i].t].rows
    <3>1. Seed[i] \in Done(p)
      BY <1>1, <1>6, AllDone, SeedStatements
    <3>2. /\ Seed[i].t \in DOMAIN p.mine
          /\ p.mine[Seed[i].t].rows = db[Seed[i].t].rows \cup {<<k, w>> : k \in Seed[i].keys}
          /\ \A k : <<k, w>> \notin db[Seed[i].t].rows
      BY <1>1, <1>6, <3>1 DEF RowsOf
    <3> QED BY <1>1, <3>2, Seen
  <2>3. ASSUME NEW i \in 1 .. 3, NEW k
        PROVE  <<k, u>> \in e[Seed[i].t].rows <=>
                 IF u = w THEN k \in Seed[i].keys ELSE <<k, u>> \in db[Seed[i].t].rows
    BY <2>2
  <2>4. /\ Seed[1].t = "users" /\ Seed[1].keys = {"admin", "member"}
        /\ Seed[2].t = "organizations" /\ Seed[2].keys = {"acme"}
        /\ Seed[3].t = "memberships" /\ Seed[3].keys = {"owner", "member"}
    BY <1>1, <1>6, SeedStatements
  <2>5. \A k :
          /\ <<k, u>> \in e["users"].rows <=>
               IF u = w THEN k \in {"admin", "member"} ELSE <<k, u>> \in db["users"].rows
          /\ <<k, u>> \in e["organizations"].rows <=>
               IF u = w THEN k \in {"acme"} ELSE <<k, u>> \in db["organizations"].rows
          /\ <<k, u>> \in e["memberships"].rows <=>
               IF u = w THEN k \in {"owner", "member"}
                        ELSE <<k, u>> \in db["memberships"].rows
    <3> TAKE k
    <3>1. 1 \in 1 .. 3 /\ 2 \in 1 .. 3 /\ 3 \in 1 .. 3
      OBVIOUS
    <3> QED BY <2>3, <2>4, <3>1
  <2> QED BY <1>4, <2>1, <2>5 DEF Whole, Seeded
<1> QED BY <1>5, <1>6

LEMMA CommitStep ==
  ASSUME IInv, NEW w \in Workers, Commit(w)
  PROVE  IInv'
<1> PICK p : p = proc[w]
  OBVIOUS
<1> PICK e : e = View(p)
  OBVIOUS
<1>1. /\ p # Idle /\ Finished(p) /\ db' = e
      /\ proc'[w] = Idle /\ DOMAIN proc' = Workers
      /\ \A u \in Workers \ {w} : proc'[u] = proc[u]
  BY DEF Commit, Set, IInv
<1>2. Committed /\ Apart /\ Sane(w, p)
  BY <1>1 DEF IInv
<1>3. DOMAIN p.mine \subseteq p.locks /\ WellFormed(p.mine) /\ WellFormed(db)
  BY <1>2 DEF Sane, Running, Committed
<1>4. WellFormed(e)
  BY <1>3, SeenWellFormed
<1>5. "subscriptions" \in DOMAIN e => Status \in DOMAIN e
  <2>1. CASE "subscriptions" \in p.locks
    BY <1>2, <1>3, <2>1, Seen DEF Sane, TypeStays
  <2>2. CASE "subscriptions" \notin p.locks
    <3>1. Status \notin p.locks
      BY <1>2, <2>2 DEF Sane, TypeStays
    <3> QED BY <1>2, <1>3, <2>2, <3>1, Seen DEF Committed
  <2> QED BY <2>1, <2>2
<1>6. \A t, u \in Seeded : t \in DOMAIN e <=> u \in DOMAIN e
  BY <1>1, <1>2, EndsTogether
<1>7. SeedWhole'
  <2>1. ASSUME "memberships" \in DOMAIN e, NEW u \in Workers PROVE Whole(e, u)
    BY <1>1, <1>2, <2>1, EndsWhole
  <2> QED BY <1>1, <2>1, WholeSeeds DEF SeedWhole, SeededBy
<1>8. Committed'
  BY <1>1, <1>4, <1>5, <1>6, <1>7 DEF Committed, WellFormed, Together
<1>9. Apart'
  BY <1>1, <1>2, IdleHolds DEF Apart
<1>10. ASSUME NEW u \in Workers, proc'[u] # Idle PROVE Sane(u, proc[u])'
  <2>1. u # w /\ proc'[u] = proc[u]
    BY <1>1, <1>10
  <2>2. PICK r : r = proc[u]
    OBVIOUS
  <2>3. Sane(u, r) /\ r.locks \cap p.locks = {}
    BY <1>2, <1>10, <2>1, <2>2 DEF IInv, Apart
  <2>4. \A x \in r.locks : /\ x \in DOMAIN db' <=> x \in DOMAIN db
                           /\ x \in DOMAIN db => db'[x] = db[x]
    BY <1>1, <1>3, <2>3, Seen
  <2>5. "subscriptions" \in r.locks /\ Status \in DOMAIN db => Status \in DOMAIN db'
    <3>1. "subscriptions" \in r.locks => Status \notin p.locks
      BY <1>2, <2>3 DEF Sane, TypeStays
    <3> QED BY <1>1, <1>3, <3>1, Seen
  <2>6. Sane(u, r)'
    BY <2>3, <2>4, <2>5, Undisturbed
  <2> QED BY <2>1, <2>2, <2>6 DEF Sane, Running, WellFormed, TypeStays, Held, RowsOf, View,
                                  Steps, Done, Makes, Drops
<1> QED BY <1>1, <1>8, <1>9, <1>10 DEF IInv

(* A row of the application fills its table and is no worker's, and it is   *)
(* not one of subscriptions.                                               *)
LEMMA StoreDoes ==
  ASSUME IInv, NEW t \in Tables, NEW k, Store(t, k)
  PROVE  /\ t \in DOMAIN db /\ t # "subscriptions" /\ \A w \in Workers : t \notin proc[w].locks
         /\ UNCHANGED proc /\ DOMAIN db' = DOMAIN db
         /\ \A x \in DOMAIN db \ {t} : db'[x] = db[x]
         /\ DOMAIN db'[t] = Fields /\ db'[t].refs = db[t].refs
         /\ db'[t].cols = db[t].cols /\ db'[t].filled = db[t].cols
         /\ db'[t].rows = db[t].rows \cup {<<k, "app">>}
<1>1. PICK table : table = Stored(db[t], {k}, "app")
  OBVIOUS
<1>2. /\ t \in DOMAIN db /\ \A w \in Workers : t \notin proc[w].locks
      /\ \A e \in TypesOf(db[t]) : Written[e] \subseteq db[e]
      /\ UNCHANGED proc /\ db' = [db EXCEPT ![t] = table]
  BY <1>1 DEF Store, Storable
<1>3. DOMAIN db[t] = Fields
  BY <1>2 DEF IInv, Committed, WellFormed
<1>4. /\ DOMAIN table = Fields /\ table.refs = db[t].refs
      /\ table.cols = db[t].cols /\ table.filled = db[t].cols
      /\ table.rows = db[t].rows \cup {<<k, "app">>}
  BY <1>1, <1>3 DEF Stored, Fields
<1>5. t # "subscriptions"
  <2> SUFFICES ASSUME t = "subscriptions" PROVE FALSE
    OBVIOUS
  <2>1. Written[Status] \subseteq Labels[Status]
    BY <1>2 DEF IInv, Committed, WellFormed
  <2> QED BY <2>1 DEF Written, Labels, Status
<1> QED BY <1>2, <1>4, <1>5

LEMMA StoreStep ==
  ASSUME IInv, NEW t \in Tables, NEW k, Store(t, k)
  PROVE  IInv'
<1>1. /\ t \in DOMAIN db /\ t # "subscriptions" /\ \A w \in Workers : t \notin proc[w].locks
      /\ UNCHANGED proc /\ DOMAIN db' = DOMAIN db
      /\ \A x \in DOMAIN db \ {t} : db'[x] = db[x]
      /\ DOMAIN db'[t] = Fields /\ db'[t].refs = db[t].refs
      /\ db'[t].cols = db[t].cols /\ db'[t].filled = db[t].cols
      /\ db'[t].rows = db[t].rows \cup {<<k, "app">>}
  BY StoreDoes
<1>2. Committed
  BY DEF IInv
<1>3. WellFormed(db)'
  <2>1. t # Status
    BY TableNames DEF Status
  <2>2. Targets(db'[t]) \subseteq Tables
    BY <1>1, <1>2 DEF Committed, WellFormed, Targets
  <2>3. \A x \in Tables \cap DOMAIN db' :
          /\ DOMAIN db'[x] = Fields /\ Targets(db'[x]) \subseteq Tables
          /\ db'[x].rows # {} => db'[x].filled = db'[x].cols
    BY <1>1, <1>2, <2>2 DEF Committed, WellFormed
  <2> QED BY <1>1, <1>2, <2>1, <2>3 DEF Committed, WellFormed
<1>4. SeedWhole'
  <2>1. PICK e : e = db'
    OBVIOUS
  <2>2. ASSUME NEW w \in Workers, "memberships" \in DOMAIN e PROVE Whole(e, w)
    <3>1. Whole(db, w) /\ \A u \in Seeded : u \in DOMAIN db
      BY <1>1, <1>2, <2>1, <2>2, SeedWholeMeans DEF Committed, Together, Seeded
    <3>2. ASSUME NEW u \in Seeded, NEW x
          PROVE  <<x, w>> \in e[u].rows <=> <<x, w>> \in db[u].rows
      <4>1. w # "app"
        BY SchemaAssumption
      <4>2. <<x, w>> # <<k, "app">>
        BY <4>1
      <4> QED BY <1>1, <2>1, <3>1, <4>2
    <3> QED BY <3>1, <3>2 DEF Whole, Seeded
  <2> QED BY <2>1, <2>2, WholeSeeds DEF SeedWhole, SeededBy
<1>5. Committed'
  BY <1>1, <1>2, <1>3, <1>4 DEF Committed, Together
<1>6. ASSUME NEW u \in Workers, proc'[u] # Idle PROVE Sane(u, proc[u])'
  <2>1. PICK r : r = proc[u]
    OBVIOUS
  <2>2. Sane(u, r) /\ t \notin r.locks
    BY <1>1, <1>6, <2>1 DEF IInv
  <2>3. Sane(u, r)'
    BY <1>1, <2>2, Undisturbed
  <2> QED BY <1>1, <2>1, <2>3 DEF Sane, Running, WellFormed, TypeStays, Held, RowsOf, View,
                                  Steps, Done, Makes, Drops
<1> QED BY <1>1, <1>5, <1>6 DEF IInv, Apart

LEMMA Initially == Init => IInv
<1> SUFFICES ASSUME Init PROVE IInv
  OBVIOUS
<1>1. DOMAIN db = {"alembic_version"} /\ proc = [w \in Workers |-> Idle]
  BY DEF Init
<1>2. \A t \in Tables : t \notin DOMAIN db
  BY <1>1, TableNames
<1>3. Status \notin DOMAIN db
  BY <1>1 DEF Status
<1>4. WellFormed(db) /\ Together /\ SeedWhole /\ "subscriptions" \notin DOMAIN db
  BY <1>2, <1>3, TableNames DEF WellFormed, Together, SeedWhole, Seeded
<1> QED BY <1>1, <1>4, IdleHolds DEF IInv, Committed, Apart

LEMMA Inductive == IInv /\ [Next]_vars => IInv'
<1> SUFFICES ASSUME IInv, [Next]_vars PROVE IInv'
  OBVIOUS
<1>1. CASE \E w \in Workers : Begin(w)
  BY <1>1, BeginStep
<1>2. CASE \E w \in Workers : Run(w)
  BY <1>2, RunStep
<1>3. CASE \E w \in Workers : Commit(w)
  BY <1>3, CommitStep
<1>4. CASE \E w \in Workers : Crash(w)
  BY <1>4, EndStep DEF Crash
<1>5. CASE \E row \in Rows : Store(row[1], row[2])
  BY <1>5, SchemaAssumption, StoreStep
<1>6. CASE UNCHANGED vars
  <2>1. UNCHANGED <<db, proc>>
    BY <1>6 DEF vars
  <2>2. Committed' /\ Apart' /\ DOMAIN proc' = Workers
    BY <2>1 DEF IInv, Committed, WellFormed, Together, SeedWhole, SeededBy, Apart
  <2>3. ASSUME NEW u \in Workers, proc'[u] # Idle PROVE Sane(u, proc[u])'
    <3>1. Sane(u, proc[u])
      BY <2>1, <2>3 DEF IInv
    <3> QED BY <2>1, <3>1 DEF Sane, Running, WellFormed, TypeStays, Held, RowsOf, View, Steps,
                              Done, Makes, Drops
  <2> QED BY <2>2, <2>3 DEF IInv
<1> QED BY <1>1, <1>2, <1>3, <1>4, <1>5, <1>6 DEF Next

(* What processes have copied and locked is what the database has.         *)
THEOREM Invariant == Spec => []IInv
BY Initially, Inductive, PTL DEF Spec

(* subscription.py:40: no webhook's subscription is ever in a database that *)
(* the migrations made.                                                    *)
THEOREM NoSubscriptions == Spec => []SubscriptionsNeverStored
<1>1. IInv => SubscriptionsNeverStored
  BY DEF IInv, Committed, WellFormed, SubscriptionsNeverStored
<1> QED BY <1>1, Invariant, PTL

(* seed.py:46: a seed leaves all its rows or none.                         *)
THEOREM SeedsAreWhole == Spec => []SeedWhole
<1>1. IInv => SeedWhole
  BY DEF IInv, Committed
<1> QED BY <1>1, Invariant, PTL

(* What a finished process commits still has the rows, with all their      *)
(* columns.                                                                *)
LEMMA CommitKeeps ==
  ASSUME IInv, NEW w \in Workers, Commit(w), NEW t \in Tables, t \in DOMAIN db, t \in DOMAIN db',
         db[t].rows # {}
  PROVE  db[t].rows \subseteq db'[t].rows /\ db'[t].filled = db'[t].cols
<1> PICK p : p = proc[w]
  OBVIOUS
<1>1. /\ Sane(w, p) /\ Finished(p) /\ db' = View(p)
      /\ WellFormed(db) /\ DOMAIN p.mine \subseteq p.locks
  BY DEF Commit, IInv, Committed, Sane, Running
<1>2. WellFormed(View(p))
  BY <1>1, SeenWellFormed DEF Sane
<1>3. db[t].rows \subseteq View(p)[t].rows
  <2>1. CASE t \notin p.locks
    BY <1>1, <2>1, Seen
  <2>2. CASE t \in p.locks
    <3>1. t \in DOMAIN p.mine /\ View(p)[t] = p.mine[t]
      BY <1>1, <2>2, Seen
    <3>2. p.plan = "seed" => \E s \in Done(p) : s.t = t
      BY <1>1, <2>2 DEF Sane, RowsOf
    <3> QED BY <1>1, <3>1, <3>2 DEF Sane, RowsOf
  <2> QED BY <2>1, <2>2
<1> QED BY <1>1, <1>2, <1>3 DEF WellFormed

(* 0002_stripe_to_paystack.py:20: a table that stays keeps its rows and     *)
(* their values, whichever process commits and whatever is stored.         *)
THEOREM RowsStay == Spec => RowsKept
<1>1. IInv /\ [Next]_vars =>
        [\A t \in Tables \cap DOMAIN db \cap DOMAIN db' : db[t].rows # {} =>
           db[t].rows \subseteq db'[t].rows /\ db'[t].filled = db'[t].cols]_vars
  <2> SUFFICES ASSUME IInv, Next, NEW t \in Tables, t \in DOMAIN db, t \in DOMAIN db',
                      db[t].rows # {}
               PROVE  db[t].rows \subseteq db'[t].rows /\ db'[t].filled = db'[t].cols
    BY DEF vars
  <2>1. CASE \E w \in Workers : Commit(w)
    BY <2>1, CommitKeeps
  <2>2. CASE \E row \in Rows : Store(row[1], row[2])
    <3> PICK row \in Rows : Store(row[1], row[2])
      BY <2>2
    <3>1. row[1] \in Tables
      BY SchemaAssumption
    <3>2. t # row[1] => db'[t] = db[t]
      BY <3>1, StoreDoes
    <3>3. t = row[1] => /\ db[t].rows \subseteq db'[t].rows
                        /\ db'[t].filled = db'[t].cols
      BY <3>1, StoreDoes
    <3> QED BY <3>2, <3>3 DEF IInv, Committed, WellFormed
  <2>3. CASE UNCHANGED db
    BY <2>3 DEF IInv, Committed, WellFormed
  <2> QED BY <2>1, <2>2, <2>3 DEF Next, Begin, Run, Crash
<1> QED BY <1>1, Invariant, PTL DEF Spec, RowsKept

-----------------------------------------------------------------------------
(* The second part: what scripts make of tables.                           *)

(* What a table is made of, without its rows. *)
Bare(table) == [table EXCEPT !.filled = {}, !.rows = {}]

Rec(cols, null, refs, enums, index) ==
  [cols |-> cols, null |-> null, refs |-> refs, enums |-> enums, index |-> index,
   filled |-> {}, rows |-> {}]

UniqueIx(col) == [name |-> {col}, on |-> {col}, unique |-> TRUE]
PlainIx(col)  == [name |-> {col}, on |-> {col}, unique |-> FALSE]

(* The definition of a table, or the version, after a statement. *)
After(s, x, y) ==
  IF s.t # x THEN y
  ELSE CASE s.op = "create" -> Bare(s.table)
         [] s.op = "drop"   -> Nothing
         [] s.op = "stamp"  -> s.to
         [] OTHER           -> Changed(s, y, "app")

(* The statements of a script after the n-th lead from y to z. *)
Leads(a, n, x, y, z) == \E h :
  h[n] = y /\ h[Len(a)] = z /\ \A i \in n + 1 .. Len(a) : h[i] = After(a[i], x, h[i - 1])

LEMMA LeadsOn ==
  ASSUME NEW a, Len(a) \in Nat, NEW n \in Nat, n < Len(a), NEW x, NEW y, NEW z,
         Leads(a, n, x, y, z)
  PROVE  Leads(a, n + 1, x, After(a[n + 1], x, y), z)
<1>1. PICK h : /\ h[n] = y /\ h[Len(a)] = z
               /\ \A i \in n + 1 .. Len(a) : h[i] = After(a[i], x, h[i - 1])
  BY DEF Leads
<1>2. n + 1 \in n + 1 .. Len(a) /\ (n + 1) - 1 = n
  OBVIOUS
<1>3. h[n + 1] = After(a[n + 1], x, y)
  BY <1>1, <1>2
<1>4. \A i \in (n + 1) + 1 .. Len(a) : i \in n + 1 .. Len(a)
  OBVIOUS
<1> QED BY <1>1, <1>3, <1>4 DEF Leads

LEMMA LeadsJoin ==
  ASSUME NEW a, NEW b, NEW A, NEW B, a \in Seq(A), b \in Seq(B), NEW x, NEW y, NEW z, NEW u,
         Leads(a, 0, x, y, z), Leads(b, 0, x, z, u)
  PROVE  Leads(a \o b, 0, x, y, u)
<1>1. PICK f : /\ f[0] = y /\ f[Len(a)] = z
               /\ \A i \in 0 + 1 .. Len(a) : f[i] = After(a[i], x, f[i - 1])
  BY DEF Leads
<1>2. PICK g : /\ g[0] = z /\ g[Len(b)] = u
               /\ \A i \in 0 + 1 .. Len(b) : g[i] = After(b[i], x, g[i - 1])
  BY DEF Leads
<1> DEFINE c == a \o b
           h == [i \in 0 .. Len(a) + Len(b) |-> IF i <= Len(a) THEN f[i] ELSE g[i - Len(a)]]
<1>3. a \in Seq(A \cup B) /\ b \in Seq(A \cup B) /\ Len(a) \in Nat /\ Len(b) \in Nat
  OBVIOUS
<1>4. /\ Len(c) = Len(a) + Len(b)
      /\ \A i \in 1 .. Len(c) : c[i] = IF i <= Len(a) THEN a[i] ELSE b[i - Len(a)]
  BY <1>3
<1> HIDE DEF c
<1>5. h[0] = y /\ h[Len(c)] = u
  <2>1. CASE Len(b) = 0
    BY <1>1, <1>2, <1>3, <1>4, <2>1
  <2>2. CASE Len(b) # 0
    BY <1>1, <1>2, <1>3, <1>4, <2>2
  <2> QED BY <2>1, <2>2
<1>6. ASSUME NEW i \in 0 + 1 .. Len(c) PROVE h[i] = After(c[i], x, h[i - 1])
  <2>1. CASE i <= Len(a)
    <3>1. c[i] = a[i] /\ i \in 0 + 1 .. Len(a) /\ h[i] = f[i] /\ h[i - 1] = f[i - 1]
      BY <1>3, <1>4, <2>1
    <3> QED BY <1>1, <3>1
  <2>2. CASE ~(i <= Len(a))
    <3>1. /\ c[i] = b[i - Len(a)] /\ i - Len(a) \in 0 + 1 .. Len(b) /\ h[i] = g[i - Len(a)]
          /\ (i - Len(a)) - 1 = (i - 1) - Len(a)
      BY <1>3, <1>4, <2>2
    <3>2. h[i - 1] = g[(i - 1) - Len(a)]
      <4>1. CASE i - 1 = Len(a)
        BY <1>1, <1>2, <1>3, <1>4, <4>1
      <4>2. CASE i - 1 # Len(a)
        BY <1>3, <1>4, <2>2, <4>2
      <4> QED BY <4>1, <4>2
    <3> QED BY <1>2, <3>1, <3>2
  <2> QED BY <2>1, <2>2
<1> HIDE DEF h
<1> QED BY <1>5, <1>6 DEF Leads, c

(* What the first n statements make of y. *)
Reach(a, n, x, y, z) == \E h :
  h[0] = y /\ h[n] = z /\ \A i \in 1 .. n : h[i] = After(a[i], x, h[i - 1])

LEMMA ReachOn ==
  ASSUME NEW a, NEW n \in Nat, NEW x, NEW y, NEW z, Reach(a, n, x, y, z)
  PROVE  Reach(a, n + 1, x, y, After(a[n + 1], x, z))
<1> PICK h : h[0] = y /\ h[n] = z /\ \A i \in 1 .. n : h[i] = After(a[i], x, h[i - 1])
  BY DEF Reach
<1> DEFINE f == [i \in 0 .. n + 1 |-> IF i <= n THEN h[i] ELSE After(a[n + 1], x, z)]
<1>1. f[0] = y /\ f[n + 1] = After(a[n + 1], x, z) /\ \A i \in 0 .. n : f[i] = h[i]
  OBVIOUS
<1> HIDE DEF f
<1>2. \A i \in 1 .. n + 1 : f[i] = After(a[i], x, f[i - 1])
  <2> TAKE i \in 1 .. n + 1
  <2>1. CASE i = n + 1
    BY <1>1, <2>1
  <2>2. CASE i # n + 1
    <3>1. i \in 1 .. n /\ i \in 0 .. n /\ i - 1 \in 0 .. n
      BY <2>2
    <3> QED BY <1>1, <3>1
  <2> QED BY <2>1, <2>2
<1> QED BY <1>1, <1>2 DEF Reach

(* What one, three, four, six and eight statements make of y. *)
Three(a, x, y) == After(a[3], x, After(a[2], x, After(a[1], x, y)))
Four(a, x, y)  == After(a[4], x, Three(a, x, y))
Six(a, x, y)   == After(a[6], x, After(a[5], x, Four(a, x, y)))
Eight(a, x, y) == After(a[8], x, After(a[7], x, Six(a, x, y)))

LEMMA LeadsThrough ==
  ASSUME NEW a, NEW x, NEW y
  PROVE  /\ Len(a) = 1 => Leads(a, 0, x, y, After(a[1], x, y))
         /\ Len(a) = 3 => Leads(a, 0, x, y, Three(a, x, y))
         /\ Len(a) = 4 => Leads(a, 0, x, y, Four(a, x, y))
         /\ Len(a) = 6 => Leads(a, 0, x, y, Six(a, x, y))
         /\ Len(a) = 8 => Leads(a, 0, x, y, Eight(a, x, y))
<1>0. Reach(a, 0, x, y, y)
  <2> DEFINE h == [i \in {0} |-> y]
  <2>1. h[0] = y /\ 1 .. 0 = {}
    OBVIOUS
  <2> HIDE DEF h
  <2> QED BY <2>1 DEF Reach
<1>1. Reach(a, 1, x, y, After(a[1], x, y))
  BY <1>0, ReachOn
<1>2. Reach(a, 2, x, y, After(a[2], x, After(a[1], x, y)))
  BY <1>1, ReachOn
<1>3. Reach(a, 3, x, y, Three(a, x, y))
  BY <1>2, ReachOn DEF Three
<1>4. Reach(a, 4, x, y, Four(a, x, y))
  BY <1>3, ReachOn DEF Four
<1>5. Reach(a, 5, x, y, After(a[5], x, Four(a, x, y)))
  BY <1>4, ReachOn
<1>6. Reach(a, 6, x, y, Six(a, x, y))
  BY <1>5, ReachOn DEF Six
<1>7. Reach(a, 7, x, y, After(a[7], x, Six(a, x, y)))
  BY <1>6, ReachOn
<1>8. Reach(a, 8, x, y, Eight(a, x, y))
  BY <1>7, ReachOn DEF Eight
<1>9. \A z : Reach(a, Len(a), x, y, z) => Leads(a, 0, x, y, z)
  BY DEF Reach, Leads
<1> QED BY <1>1, <1>3, <1>4, <1>6, <1>8, <1>9

(* A table of the scripts, by its fields, and what a statement makes of it. *)
Swapped(S, old, new) == IF old \in S THEN (S \ {old}) \cup {new} ELSE S

Cols(cols, null, refs, enums) ==
  cols \cup null \cup DOMAIN refs \cup DOMAIN enums \cup {"id", "created_at", "updated_at"}

Key(uniques) == {[name |-> u \cup {"key"}, on |-> u, unique |-> TRUE] : u \in uniques}

LEMMA AfterCreate ==
  ASSUME NEW t, NEW cols, NEW null, NEW refs, NEW enums, NEW uniques, NEW y
  PROVE  After(Create(t, cols, null, refs, enums, uniques), t, y) =
           Rec(Cols(cols, null, refs, enums), null, refs, enums, Key(uniques))
BY DEF After, Create, Bare, Table, Rec, Cols, Key

(* An index statement for a column, unique or not. *)
Uniquely(s, t, col) == s.op = "index" /\ s.t = t /\ s.col = col /\ s.unique = TRUE
Plainly(s, t, col)  == s.op = "index" /\ s.t = t /\ s.col = col /\ s.unique = FALSE

LEMMA AfterUnique ==
  ASSUME NEW s, NEW t, NEW col, Uniquely(s, t, col),
         NEW cols, NEW null, NEW refs, NEW enums, NEW index
  PROVE  After(s, t, Rec(cols, null, refs, enums, index)) =
           Rec(cols, null, refs, enums, index \cup {UniqueIx(col)})
BY DEF After, Changed, Rec, UniqueIx, Uniquely

LEMMA AfterPlain ==
  ASSUME NEW s, NEW t, NEW col, Plainly(s, t, col),
         NEW cols, NEW null, NEW refs, NEW enums, NEW index
  PROVE  After(s, t, Rec(cols, null, refs, enums, index)) =
           Rec(cols, null, refs, enums, index \cup {PlainIx(col)})
BY DEF After, Changed, Rec, PlainIx, Plainly

LEMMA AfterDropIndex ==
  ASSUME NEW t, NEW cols, NEW null, NEW refs, NEW enums, NEW index, NEW col
  PROVE  After(DropIndex(t, col), t, Rec(cols, null, refs, enums, index)) =
           Rec(cols, null, refs, enums, {i \in index : i.name # {col}})
BY DEF After, DropIndex, Changed, Rec

Moved(index, old, new) == {[i EXCEPT !.on = Swapped(@, old, new)] : i \in index}

LEMMA AfterRename ==
  ASSUME NEW t, NEW cols, NEW null, NEW refs, NEW enums, NEW index, NEW old, NEW new
  PROVE  After(Rename(t, old, new), t, Rec(cols, null, refs, enums, index)) =
           Rec(Swapped(cols, old, new), Swapped(null, old, new), refs, enums,
               Moved(index, old, new))
BY DEF After, Rename, Changed, Renamed, Rec, Swapped, Moved

(* An object at each revision: what the scripts up to it make of Nothing.  *)
Base(x) == IF x = "alembic_version" THEN "base" ELSE Nothing

Made(x) == IF x = "alembic_version" THEN "0001" ELSE
  Six(CreateLogs, x, Three(CreateSubscriptions, x, Four(CreateInvitations, x,
    Three(CreateMemberships, x, Three(CreateOrganizations, x, Three(CreateUsers, x, Nothing))))))

Latest(x) == IF x = "alembic_version" THEN "0002" ELSE Eight(Upgrade2, x, Made(x))

(* A script leaves the tables alone that it does not name.                 *)
LEMMA OthersAfter ==
  ASSUME NEW x, NEW y
  PROVE  /\ x # "users" => Three(CreateUsers, x, y) = y
         /\ x # "organizations" => Three(CreateOrganizations, x, y) = y
         /\ x # "memberships" => Three(CreateMemberships, x, y) = y
         /\ x # "invitations" => Four(CreateInvitations, x, y) = y
         /\ x # "subscriptions" => Three(CreateSubscriptions, x, y) = y
         /\ x \notin {"notifications", "audit_logs"} => Six(CreateLogs, x, y) = y
         /\ x \notin {"organizations", "subscriptions", "alembic_version"} =>
              Eight(Upgrade2, x, y) = y /\ Eight(Downgrade2, x, y) = y
         /\ x = "alembic_version" =>
              Eight(Upgrade2, x, y) = "0002" /\ Eight(Downgrade2, x, y) = "0001"
<1>0. \A s : s.t # x => After(s, x, y) = y
  BY DEF After
<1>1. x # "users" => Three(CreateUsers, x, y) = y
  <2>1. CreateUsers[1].t = "users" /\ CreateUsers[2].t = "users" /\ CreateUsers[3].t = "users"
    BY DEF CreateUsers, Create, Index
  <2> QED BY <1>0, <2>1 DEF Three
<1>2. x # "organizations" => Three(CreateOrganizations, x, y) = y
  <2>1. /\ CreateOrganizations[1].t = "organizations" /\ CreateOrganizations[2].t = "organizations"
        /\ CreateOrganizations[3].t = "organizations"
    BY DEF CreateOrganizations, Create, Index
  <2> QED BY <1>0, <2>1 DEF Three
<1>3. x # "memberships" => Three(CreateMemberships, x, y) = y
  <2>1. /\ CreateMemberships[1].t = "memberships" /\ CreateMemberships[2].t = "memberships"
        /\ CreateMemberships[3].t = "memberships"
    BY DEF CreateMemberships, Create, Index
  <2> QED BY <1>0, <2>1 DEF Three
<1>4. x # "invitations" => Four(CreateInvitations, x, y) = y
  <2>1. /\ CreateInvitations[1].t = "invitations" /\ CreateInvitations[2].t = "invitations"
        /\ CreateInvitations[3].t = "invitations" /\ CreateInvitations[4].t = "invitations"
    BY DEF CreateInvitations, Create, Index
  <2> QED BY <1>0, <2>1 DEF Three, Four
<1>5. x # "subscriptions" => Three(CreateSubscriptions, x, y) = y
  <2>1. /\ CreateSubscriptions[1].t = "subscriptions" /\ CreateSubscriptions[2].t = "subscriptions"
        /\ CreateSubscriptions[3].t = "subscriptions"
    BY DEF CreateSubscriptions, Create, Index
  <2> QED BY <1>0, <2>1 DEF Three
<1>6. x \notin {"notifications", "audit_logs"} => Six(CreateLogs, x, y) = y
  <2>1. \A i \in 1 .. 6 : CreateLogs[i].t \in {"notifications", "audit_logs"}
    BY DEF CreateLogs, Create, Index
  <2> QED BY <1>0, <2>1 DEF Three, Four, Six
<1>7. x \notin {"organizations", "subscriptions", "alembic_version"} =>
        Eight(Upgrade2, x, y) = y /\ Eight(Downgrade2, x, y) = y
  <2>1. \A i \in 1 .. 8 :
          Upgrade2[i].t \in {"organizations", "subscriptions", "alembic_version"}
    BY DEF Upgrade2, Rename, DropIndex, Index, Stamp
  <2>2. \A i \in 1 .. 8 :
          Downgrade2[i].t \in {"organizations", "subscriptions", "alembic_version"}
    BY DEF Downgrade2, Rename, DropIndex, Index, Stamp
  <2> QED BY <1>0, <2>1, <2>2 DEF Three, Four, Six, Eight
<1>8. x = "alembic_version" => Eight(Upgrade2, x, y) = "0002" /\ Eight(Downgrade2, x, y) = "0001"
  <2> SUFFICES ASSUME x = "alembic_version"
               PROVE  Eight(Upgrade2, x, y) = "0002" /\ Eight(Downgrade2, x, y) = "0001"
    OBVIOUS
  <2>1. Upgrade2[8] = Stamp("0001", "0002") /\ Downgrade2[8] = Stamp("0002", "0001")
    BY DEF Upgrade2, Downgrade2
  <2>2. \A z : After(Upgrade2[8], x, z) = "0002" /\ After(Downgrade2[8], x, z) = "0001"
    BY <2>1 DEF After, Stamp
  <2> QED BY <2>2, Zenon DEF Eight
<1> QED BY <1>1, <1>2, <1>3, <1>4, <1>5, <1>6, <1>7, <1>8

(* The sets of columns that indexes are on, all of them and unique ones. *)
OnOf(index) == {i.on : i \in index}

UniqueOf(index) == OnOf({i \in index : i.unique})

LEMMA IndexesOn ==
  ASSUME NEW index, NEW uniques, NEW col
  PROVE  /\ OnOf(Key(uniques)) = uniques /\ UniqueOf(Key(uniques)) = uniques
         /\ OnOf(index \cup {UniqueIx(col)}) = OnOf(index) \cup {{col}}
         /\ OnOf(index \cup {PlainIx(col)}) = OnOf(index) \cup {{col}}
         /\ UniqueOf(index \cup {UniqueIx(col)}) = UniqueOf(index) \cup {{col}}
         /\ UniqueOf(index \cup {PlainIx(col)}) = UniqueOf(index)
<1>1. OnOf(Key(uniques)) = uniques
  <2>1. ASSUME NEW u \in uniques PROVE u \in OnOf(Key(uniques))
    <3>1. [name |-> u \cup {"key"}, on |-> u, unique |-> TRUE] \in Key(uniques)
      BY DEF Key
    <3>2. [name |-> u \cup {"key"}, on |-> u, unique |-> TRUE].on = u
      OBVIOUS
    <3> QED BY <3>1, <3>2 DEF OnOf
  <2>2. ASSUME NEW u \in OnOf(Key(uniques)) PROVE u \in uniques
    BY <2>2 DEF OnOf, Key
  <2> QED BY <2>1, <2>2
<1>2. {i \in Key(uniques) : i.unique} = Key(uniques)
  BY DEF Key
<1>3. UniqueOf(Key(uniques)) = uniques
  BY <1>1, <1>2 DEF UniqueOf
<1>4. ASSUME NEW S PROVE /\ OnOf(S \cup {UniqueIx(col)}) = OnOf(S) \cup {{col}}
                         /\ OnOf(S \cup {PlainIx(col)}) = OnOf(S) \cup {{col}}
  <2>1. UniqueIx(col).on = {col} /\ PlainIx(col).on = {col}
    BY DEF UniqueIx, PlainIx
  <2> QED BY <2>1 DEF OnOf
<1>5. /\ {i \in index \cup {UniqueIx(col)} : i.unique}
           = {i \in index : i.unique} \cup {UniqueIx(col)}
      /\ {i \in index \cup {PlainIx(col)} : i.unique} = {i \in index : i.unique}
  BY DEF UniqueIx, PlainIx
<1>6. /\ UniqueOf(index \cup {UniqueIx(col)}) = UniqueOf(index) \cup {{col}}
      /\ UniqueOf(index \cup {PlainIx(col)}) = UniqueOf(index)
  BY <1>4, <1>5 DEF UniqueOf
<1> QED BY <1>1, <1>3, <1>4, <1>6

LEMMA RecShape ==
  ASSUME NEW cols, NEW null, NEW refs, NEW enums, NEW index
  PROVE  Shape(Rec(cols, null, refs, enums, index)) =
           [cols |-> cols, null |-> null, refs |-> refs, enums |-> enums,
            unique |-> UniqueOf(index), index |-> OnOf(index)]
BY DEF Shape, Rec, UniqueOf, OnOf

LEMMA ModelShape ==
  ASSUME NEW cols, NEW null, NEW refs, NEW enums, NEW index, NEW uniques
  PROVE  Model(cols, null, refs, enums, uniques, index) =
           [cols |-> Cols(cols, null, refs, enums), null |-> null, refs |-> refs,
            enums |-> enums, unique |-> uniques, index |-> uniques \cup {{c} : c \in index}]
<1> PICK m : m = Shape(Table(cols, null, refs, enums, uniques))
  OBVIOUS
<1>1. UniqueOf(Key(uniques)) = uniques /\ OnOf(Key(uniques)) = uniques
  BY IndexesOn
<1>2. m = [cols |-> Cols(cols, null, refs, enums), null |-> null, refs |-> refs,
           enums |-> enums, unique |-> UniqueOf(Key(uniques)), index |-> OnOf(Key(uniques))]
  BY DEF Shape, Table, UniqueOf, OnOf, Key, Cols
<1>3. Model(cols, null, refs, enums, uniques, index) =
        [m EXCEPT !.index = uniques \cup {{c} : c \in index}]
  BY DEF Model
<1>4. ASSUME NEW R, NEW C,
             m = [cols |-> C, null |-> null, refs |-> refs, enums |-> enums,
                  unique |-> uniques, index |-> uniques]
      PROVE  [m EXCEPT !.index = R] =
                [cols |-> C, null |-> null, refs |-> refs, enums |-> enums,
                 unique |-> uniques, index |-> R]
  BY <1>4
<1> QED BY <1>1, <1>2, <1>3, <1>4, Zenon

(* A table as Shape describes it. *)
Looks(x, cols, null, refs, enums, unique, on) == \E index :
  x = Rec(cols, null, refs, enums, index) /\ UniqueOf(index) = unique /\ OnOf(index) = on

LEMMA LooksAfter ==
  ASSUME NEW s, NEW t, NEW col, NEW x, NEW cols, NEW null, NEW refs, NEW enums,
         NEW unique, NEW on, Looks(x, cols, null, refs, enums, unique, on)
  PROVE  /\ Uniquely(s, t, col) =>
              Looks(After(s, t, x), cols, null, refs, enums, unique \cup {{col}}, on \cup {{col}})
         /\ Plainly(s, t, col) =>
              Looks(After(s, t, x), cols, null, refs, enums, unique, on \cup {{col}})
<1> PICK index : /\ x = Rec(cols, null, refs, enums, index)
                 /\ UniqueOf(index) = unique /\ OnOf(index) = on
  BY DEF Looks
<1>1. ASSUME Uniquely(s, t, col)
      PROVE  Looks(After(s, t, x), cols, null, refs, enums, unique \cup {{col}}, on \cup {{col}})
  <2>1. After(s, t, x) = Rec(cols, null, refs, enums, index \cup {UniqueIx(col)})
    BY <1>1, AfterUnique
  <2>2. /\ UniqueOf(index \cup {UniqueIx(col)}) = unique \cup {{col}}
        /\ OnOf(index \cup {UniqueIx(col)}) = on \cup {{col}}
    BY IndexesOn
  <2> QED BY <2>1, <2>2 DEF Looks
<1>2. ASSUME Plainly(s, t, col)
      PROVE  Looks(After(s, t, x), cols, null, refs, enums, unique, on \cup {{col}})
  <2>1. After(s, t, x) = Rec(cols, null, refs, enums, index \cup {PlainIx(col)})
    BY <1>2, AfterPlain
  <2>2. /\ UniqueOf(index \cup {PlainIx(col)}) = unique
        /\ OnOf(index \cup {PlainIx(col)}) = on \cup {{col}}
    BY IndexesOn
  <2> QED BY <2>1, <2>2 DEF Looks
<1> QED BY <1>1, <1>2

LEMMA LooksCreated ==
  ASSUME NEW t, NEW cols, NEW null, NEW refs, NEW enums, NEW uniques, NEW y
  PROVE  Looks(After(Create(t, cols, null, refs, enums, uniques), t, y),
               Cols(cols, null, refs, enums), null, refs, enums, uniques, uniques)
<1>1. UniqueOf(Key(uniques)) = uniques /\ OnOf(Key(uniques)) = uniques
  BY IndexesOn
<1> QED BY <1>1, AfterCreate DEF Looks

LEMMA LooksShape ==
  ASSUME NEW x, NEW cols, NEW null, NEW refs, NEW enums, NEW uniques, NEW index, NEW on,
         on = uniques \cup {{c} : c \in index},
         Looks(x, Cols(cols, null, refs, enums), null, refs, enums, uniques, on)
  PROVE  DOMAIN x = Fields /\ Shape(x) = Model(cols, null, refs, enums, uniques, index)
<1> PICK all : all = Cols(cols, null, refs, enums)
  OBVIOUS
<1> PICK i : /\ x = Rec(all, null, refs, enums, i)
             /\ UniqueOf(i) = uniques /\ OnOf(i) = on
  BY DEF Looks
<1>1. Shape(x) = [cols |-> all, null |-> null, refs |-> refs, enums |-> enums,
                  unique |-> uniques, index |-> on]
  BY RecShape
<1>2. Model(cols, null, refs, enums, uniques, index) =
        [cols |-> all, null |-> null, refs |-> refs, enums |-> enums,
         unique |-> uniques, index |-> on]
  BY ModelShape
<1> QED BY <1>1, <1>2 DEF Rec, Fields

(* Indexes that neither have the name of one for the column nor are on it. *)
Without(K, col) == \A i \in K :
  i.name # {col} /\ col \notin i.on /\ i = [name |-> i.name, on |-> i.on, unique |-> i.unique]

LEMMA Stays ==
  ASSUME NEW K, NEW old, NEW new, Without(K, old), NEW i \in K
  PROVE  [i EXCEPT !.on = Swapped(@, old, new)] = i
<1>1. Swapped(i.on, old, new) = i.on
  BY DEF Without, Swapped
<1>2. PICK a, b, c : i = [name |-> a, on |-> b, unique |-> c]
  BY DEF Without
<1>3. [i EXCEPT !.on = i.on] = i
  BY <1>2
<1> QED BY <1>1, <1>3

LEMMA Kept ==
  ASSUME NEW K, NEW old, NEW new, Without(K, old)
  PROVE  Moved(K, old, new) = K
<1>1. \A i \in K : [i EXCEPT !.on = Swapped(@, old, new)] = i
  BY Stays
<1> QED BY <1>1 DEF Moved

LEMMA MovesOver ==
  ASSUME NEW K, NEW old, NEW new, Without(K, old)
  PROVE  Moved(K \cup {UniqueIx(old)}, old, new) =
           K \cup {[name |-> {old}, on |-> {new}, unique |-> TRUE]}
<1> PICK m : m = UniqueIx(old)
  OBVIOUS
<1>1. [m EXCEPT !.on = Swapped(@, old, new)] = [name |-> {old}, on |-> {new}, unique |-> TRUE]
  <2>1. Swapped({old}, old, new) = {new}
    BY DEF Swapped
  <2>2. m = [name |-> {old}, on |-> {old}, unique |-> TRUE]
    BY DEF UniqueIx
  <2>3. m.on = {old} /\ DOMAIN m = {"name", "on", "unique"} /\ m.name = {old} /\ m.unique = TRUE
    BY <2>2
  <2> PICK n : n = [m EXCEPT !.on = {new}]
    OBVIOUS
  <2>4. /\ DOMAIN n = {"name", "on", "unique"}
        /\ n.name = {old} /\ n.on = {new} /\ n.unique = TRUE
    BY <2>3
  <2>5. n = [name |-> {old}, on |-> {new}, unique |-> TRUE]
    BY <2>3
  <2> QED BY <2>1, <2>3, <2>5
<1>2. Moved(K \cup {m}, old, new) =
        Moved(K, old, new) \cup {[m EXCEPT !.on = Swapped(@, old, new)]}
  BY DEF Moved
<1> QED BY <1>1, <1>2, Kept

LEMMA LetGo ==
  ASSUME NEW K, NEW col, Without(K, col), NEW u
  PROVE  {i \in K \cup {[name |-> {col}, on |-> u, unique |-> TRUE]} : i.name # {col}} = K
BY DEF Without

LEMMA RenamesTo ==
  ASSUME NEW t, NEW old, NEW new, NEW cols, NEW null, NEW refs, NEW enums, NEW index,
         NEW C, NEW N, NEW I, C = Swapped(cols, old, new), N = Swapped(null, old, new),
         Moved(index, old, new) = I
  PROVE  After(Rename(t, old, new), t, Rec(cols, null, refs, enums, index)) =
           Rec(C, N, refs, enums, I)
BY AfterRename

LEMMA RenamesUp ==
  ASSUME NEW t, NEW old, NEW new, NEW s, NEW K, Without(K, old), Uniquely(s, t, new),
         NEW C, NEW N, NEW refs, NEW enums
  PROVE  After(s, t, After(DropIndex(t, old), t, After(Rename(t, old, new), t,
            Rec(C, N, refs, enums, K \cup {UniqueIx(old)})))) =
         Rec(Swapped(C, old, new), Swapped(N, old, new), refs, enums, K \cup {UniqueIx(new)})
<1>a. PICK D, M : D = Swapped(C, old, new) /\ M = Swapped(N, old, new)
  OBVIOUS
<1>b. PICK I : I = K \cup {UniqueIx(old)}
  OBVIOUS
<1>c. PICK J : J = K \cup {[name |-> {old}, on |-> {new}, unique |-> TRUE]}
  OBVIOUS
<1>1. After(Rename(t, old, new), t, Rec(C, N, refs, enums, I)) = Rec(D, M, refs, enums, J)
  <2>1. Moved(I, old, new) = J
    BY <1>b, <1>c, MovesOver
  <2> QED BY <1>a, <2>1, RenamesTo, SMT
<1>2. After(DropIndex(t, old), t, Rec(D, M, refs, enums, J)) = Rec(D, M, refs, enums, K)
  BY <1>c, AfterDropIndex, LetGo
<1>3. After(s, t, Rec(D, M, refs, enums, K)) = Rec(D, M, refs, enums, K \cup {UniqueIx(new)})
  BY AfterUnique
<1> QED BY <1>a, <1>b, <1>1, <1>2, <1>3

LEMMA RenamesDown ==
  ASSUME NEW t, NEW old, NEW new, NEW s, NEW K, Without(K, old), Uniquely(s, t, new),
         NEW C, NEW N, NEW refs, NEW enums
  PROVE  After(s, t, After(Rename(t, old, new), t, After(DropIndex(t, old), t,
            Rec(C, N, refs, enums, K \cup {UniqueIx(old)})))) =
         Rec(Swapped(C, old, new), Swapped(N, old, new), refs, enums, K \cup {UniqueIx(new)})
<1> PICK D, M : D = Swapped(C, old, new) /\ M = Swapped(N, old, new)
  OBVIOUS
<1> PICK I : I = K \cup {UniqueIx(old)}
  OBVIOUS
<1>1. After(DropIndex(t, old), t, Rec(C, N, refs, enums, I)) = Rec(C, N, refs, enums, K)
  BY AfterDropIndex, LetGo DEF UniqueIx
<1>2. After(Rename(t, old, new), t, Rec(C, N, refs, enums, K)) = Rec(D, M, refs, enums, K)
  BY AfterRename, Kept
<1>3. After(s, t, Rec(D, M, refs, enums, K)) = Rec(D, M, refs, enums, K \cup {UniqueIx(new)})
  BY AfterUnique
<1> QED BY <1>1, <1>2, <1>3

(* What the first revision makes of the two tables that the second changes, *)
(* by the names of their columns.                                           *)
OrganizationsWith(customer) ==
  Rec({"name", "slug", "logo_url", "plan", "id", "created_at", "updated_at", customer},
      {"logo_url", customer}, Nothing, [plan |-> "plantier"],
      {UniqueIx("slug")} \cup {UniqueIx(customer)})

SubscriptionsWith(code, plan) ==
  Rec({"current_period_start", "current_period_end", "cancel_at_period_end", "canceled_at",
       "organization_id", "status", "id", "created_at", "updated_at", code, plan},
      {"canceled_at"}, [organization_id |-> <<"organizations", "CASCADE">>],
      [status |-> "subscriptionstatus"],
      (Key({{"organization_id"}}) \cup {PlainIx("organization_id")}) \cup {UniqueIx(code)})

LEMMA OrganizationsMade == Made("organizations") = OrganizationsWith("stripe_customer_id")
<1> PICK enums : enums = [plan |-> "plantier"]
  OBVIOUS
<1> PICK null : null = {"logo_url", "stripe_customer_id"}
  OBVIOUS
<1> PICK all : all = Cols({"name", "slug"}, null, Nothing, enums)
  OBVIOUS
<1>1. CreateOrganizations[1] = Create("organizations", {"name", "slug"}, null, Nothing, enums, {})
  BY DEF CreateOrganizations
<1>2. /\ Uniquely(CreateOrganizations[2], "organizations", "slug")
      /\ Uniquely(CreateOrganizations[3], "organizations", "stripe_customer_id")
  BY DEF CreateOrganizations, Index, Uniquely
<1>3. Made("organizations") = Three(CreateOrganizations, "organizations", Nothing)
  BY OthersAfter DEF Made
<1>4. After(CreateOrganizations[1], "organizations", Nothing) =
        Rec(all, null, Nothing, enums, Key({}))
  BY <1>1, AfterCreate
<1>5. Key({}) \cup {UniqueIx("slug")} = {UniqueIx("slug")}
  BY DEF Key
<1>6. After(CreateOrganizations[2], "organizations", Rec(all, null, Nothing, enums, Key({}))) =
        Rec(all, null, Nothing, enums, {UniqueIx("slug")})
  BY <1>2, <1>5, AfterUnique
<1>7. After(CreateOrganizations[3], "organizations",
            Rec(all, null, Nothing, enums, {UniqueIx("slug")})) =
        Rec(all, null, Nothing, enums, {UniqueIx("slug")} \cup {UniqueIx("stripe_customer_id")})
  BY <1>2, AfterUnique
<1>8. all = {"name", "slug", "logo_url", "plan", "id", "created_at", "updated_at",
             "stripe_customer_id"}
  BY DEF Cols, Nothing
<1>9. Made("organizations") =
        Rec(all, null, Nothing, enums, {UniqueIx("slug")} \cup {UniqueIx("stripe_customer_id")})
  BY <1>3, <1>4, <1>6, <1>7 DEF Three
<1> QED BY <1>8, <1>9 DEF OrganizationsWith

LEMMA SubscriptionsMade ==
  Made("subscriptions") = SubscriptionsWith("stripe_subscription_id", "stripe_price_id")
<1> DEFINE t == "subscriptions"
<1> PICK refs : refs = [organization_id |-> <<"organizations", "CASCADE">>]
  OBVIOUS
<1> PICK enums : enums = [status |-> "subscriptionstatus"]
  OBVIOUS
<1> PICK null : null = {"canceled_at"}
  OBVIOUS
<1> PICK some : some = {"stripe_subscription_id", "stripe_price_id", "current_period_start",
                        "current_period_end", "cancel_at_period_end"}
  OBVIOUS
<1> PICK all : all = Cols(some, null, refs, enums)
  OBVIOUS
<1> PICK K : K = Key({{"organization_id"}})
  OBVIOUS
<1> PICK L : L = K \cup {UniqueIx("stripe_subscription_id")}
  OBVIOUS
<1>1. CreateSubscriptions[1] = Create(t, some, null, refs, enums, {{"organization_id"}})
  BY DEF CreateSubscriptions
<1>2. /\ Uniquely(CreateSubscriptions[2], t, "stripe_subscription_id")
      /\ Plainly(CreateSubscriptions[3], t, "organization_id")
  BY DEF CreateSubscriptions, Index, Uniquely, Plainly
<1>3. Made(t) = Three(CreateSubscriptions, t, Nothing)
  BY OthersAfter DEF Made
<1>4. After(CreateSubscriptions[1], t, Nothing) = Rec(all, null, refs, enums, K)
  BY <1>1, AfterCreate
<1>6. After(CreateSubscriptions[2], t, Rec(all, null, refs, enums, K)) =
        Rec(all, null, refs, enums, L)
  BY <1>2, AfterUnique
<1>7. After(CreateSubscriptions[3], t, Rec(all, null, refs, enums, L)) =
        Rec(all, null, refs, enums, L \cup {PlainIx("organization_id")})
  BY <1>2, AfterPlain
<1>8. all = {"current_period_start", "current_period_end", "cancel_at_period_end", "canceled_at",
             "organization_id", "status", "id", "created_at", "updated_at",
             "stripe_subscription_id", "stripe_price_id"}
  BY DEF Cols
<1>9. Made(t) = Rec(all, null, refs, enums, L \cup {PlainIx("organization_id")})
  BY <1>3, <1>4, <1>6, <1>7 DEF Three
<1>10. L \cup {PlainIx("organization_id")} =
         (K \cup {PlainIx("organization_id")}) \cup {UniqueIx("stripe_subscription_id")}
  OBVIOUS
<1> QED BY <1>8, <1>9, <1>10 DEF SubscriptionsWith

(* The second revision and the way back from it. *)
LEMMA OrganizationsRenamed ==
  /\ Latest("organizations") = OrganizationsWith("paystack_customer_id")
  /\ Eight(Downgrade2, "organizations", Latest("organizations")) = Made("organizations")
<1> DEFINE t == "organizations"
           stripe == "stripe_customer_id"
           paystack == "paystack_customer_id"
<1> PICK enums : enums = [plan |-> "plantier"]
  OBVIOUS
<1> PICK refs : refs = Nothing
  OBVIOUS
<1> PICK K : K = {UniqueIx("slug")}
  OBVIOUS
<1> PICK C : C = {"name", "slug", "logo_url", "plan", "id", "created_at", "updated_at", stripe}
  OBVIOUS
<1> PICK D : D = {"name", "slug", "logo_url", "plan", "id", "created_at", "updated_at", paystack}
  OBVIOUS
<1> PICK N : N = {"logo_url", stripe}
  OBVIOUS
<1> PICK M : M = {"logo_url", paystack}
  OBVIOUS
<1>1. /\ Swapped(C, stripe, paystack) = D /\ Swapped(N, stripe, paystack) = M
      /\ Swapped(D, paystack, stripe) = C /\ Swapped(M, paystack, stripe) = N
  BY DEF Swapped
<1>2. Without(K, stripe) /\ Without(K, paystack)
  BY DEF Without, UniqueIx
<1> PICK made : made = Rec(C, N, refs, enums, K \cup {UniqueIx(stripe)})
  OBVIOUS
<1> PICK head : head = Rec(D, M, refs, enums, K \cup {UniqueIx(paystack)})
  OBVIOUS
<1>3. made = OrganizationsWith(stripe) /\ head = OrganizationsWith(paystack)
  BY DEF OrganizationsWith
<1>4. /\ Upgrade2[1] = Rename(t, stripe, paystack) /\ Upgrade2[2] = DropIndex(t, stripe)
      /\ Uniquely(Upgrade2[3], t, paystack)
      /\ Downgrade2[5] = DropIndex(t, paystack) /\ Downgrade2[6] = Rename(t, paystack, stripe)
      /\ Uniquely(Downgrade2[7], t, stripe)
  BY DEF Upgrade2, Downgrade2, Index, Uniquely
<1>5. /\ \A i \in {4, 5, 6, 7, 8} : Upgrade2[i].t # t
      /\ \A i \in {1, 2, 3, 4, 8} : Downgrade2[i].t # t
  BY DEF Upgrade2, Downgrade2, Index, DropIndex, Rename, Stamp
<1>6. \A s, y : s.t # t => After(s, t, y) = y
  BY DEF After
<1>7. Three(Upgrade2, t, made) = head
  BY <1>1, <1>2, <1>4, RenamesUp DEF Three
<1>8. Eight(Upgrade2, t, made) = head
  BY <1>5, <1>6, <1>7 DEF Four, Six, Eight
<1>9. Four(Downgrade2, t, head) = head
  BY <1>5, <1>6 DEF Three, Four
<1>10. After(Downgrade2[7], t, After(Downgrade2[6], t, After(Downgrade2[5], t, head))) = made
  BY <1>1, <1>2, <1>4, RenamesDown
<1>11. Eight(Downgrade2, t, head) = made
  BY <1>5, <1>6, <1>9, <1>10 DEF Six, Eight
<1>12. Latest(t) = Eight(Upgrade2, t, Made(t))
  BY DEF Latest
<1> QED BY <1>3, <1>8, <1>11, <1>12, OrganizationsMade

LEMMA SubscriptionsRenamed ==
  /\ Latest("subscriptions") = SubscriptionsWith("paystack_sub_code", "paystack_plan_code")
  /\ Eight(Downgrade2, "subscriptions", Latest("subscriptions")) = Made("subscriptions")
<1> DEFINE t == "subscriptions"
           id == "stripe_subscription_id"
           price == "stripe_price_id"
           code == "paystack_sub_code"
           plan == "paystack_plan_code"
           rest == {"current_period_start", "current_period_end", "cancel_at_period_end",
                    "canceled_at", "organization_id", "status", "id", "created_at", "updated_at"}
<1> PICK refs : refs = [organization_id |-> <<"organizations", "CASCADE">>]
  OBVIOUS
<1> PICK enums : enums = [status |-> "subscriptionstatus"]
  OBVIOUS
<1>k. PICK K : K = Key({{"organization_id"}}) \cup {PlainIx("organization_id")}
  OBVIOUS
<1>n. PICK N : N = {"canceled_at"}
  OBVIOUS
<1>c. PICK C : C = rest \cup {id, price}
  OBVIOUS
<1>d. PICK D : D = rest \cup {code, price}
  OBVIOUS
<1>e. PICK E : E = rest \cup {code, plan}
  OBVIOUS
<1>1. /\ Swapped(C, id, code) = D /\ Swapped(D, price, plan) = E
      /\ Swapped(E, plan, price) = D /\ Swapped(D, code, id) = C
      /\ Swapped(N, id, code) = N /\ Swapped(N, price, plan) = N
      /\ Swapped(N, plan, price) = N /\ Swapped(N, code, id) = N
  BY <1>n, <1>c, <1>d, <1>e DEF Swapped
<1>l. PICK L : L = K \cup {UniqueIx(code)}
  OBVIOUS
<1>2. /\ Without(K, id) /\ Without(K, code) /\ Without(L, price) /\ Without(L, plan)
  BY <1>k, <1>l DEF Without, UniqueIx, PlainIx, Key
<1> PICK made : made = Rec(C, N, refs, enums, K \cup {UniqueIx(id)})
  OBVIOUS
<1> PICK mid : mid = Rec(D, N, refs, enums, L)
  OBVIOUS
<1> PICK head : head = Rec(E, N, refs, enums, L)
  OBVIOUS
<1>3. made = SubscriptionsWith(id, price) /\ head = SubscriptionsWith(code, plan)
  <2>1. /\ C = {"current_period_start", "current_period_end", "cancel_at_period_end", "canceled_at",
                "organization_id", "status", "id", "created_at", "updated_at", id, price}
        /\ E = {"current_period_start", "current_period_end", "cancel_at_period_end", "canceled_at",
                "organization_id", "status", "id", "created_at", "updated_at", code, plan}
    BY <1>c, <1>e
  <2> QED BY <1>k, <1>l, <1>n, <2>1 DEF SubscriptionsWith
<1>4. /\ Upgrade2[4] = Rename(t, id, code) /\ Upgrade2[5] = DropIndex(t, id)
      /\ Uniquely(Upgrade2[6], t, code) /\ Upgrade2[7] = Rename(t, price, plan)
      /\ Downgrade2[1] = Rename(t, plan, price) /\ Downgrade2[2] = DropIndex(t, code)
      /\ Downgrade2[3] = Rename(t, code, id) /\ Uniquely(Downgrade2[4], t, id)
  BY DEF Upgrade2, Downgrade2, Index, Uniquely
<1>5. /\ \A i \in {1, 2, 3, 8} : Upgrade2[i].t # t
      /\ \A i \in {5, 6, 7, 8} : Downgrade2[i].t # t
  BY DEF Upgrade2, Downgrade2, Index, DropIndex, Rename, Stamp
<1>6. \A s, y : s.t # t => After(s, t, y) = y
  BY DEF After
<1>7. Three(Upgrade2, t, made) = made
  BY <1>5, <1>6 DEF Three
<1>8. After(Upgrade2[6], t, After(Upgrade2[5], t, After(Upgrade2[4], t, made))) = mid
  BY <1>1, <1>2, <1>4, <1>l, RenamesUp
<1>9. /\ Moved(L, price, plan) = L /\ Moved(L, plan, price) = L
  BY <1>2, Kept
<1>10. After(Upgrade2[7], t, mid) = head /\ After(Downgrade2[1], t, head) = mid
  BY <1>1, <1>4, <1>9, RenamesTo
<1>11. Eight(Upgrade2, t, made) = head
  BY <1>5, <1>6, <1>7, <1>8, <1>10 DEF Four, Six, Eight
<1>12. After(Downgrade2[4], t, After(Downgrade2[3], t, After(Downgrade2[2], t, mid))) = made
  BY <1>1, <1>2, <1>4, <1>l, RenamesDown
<1>13. Four(Downgrade2, t, head) = made
  BY <1>10, <1>12 DEF Three, Four
<1>14. Eight(Downgrade2, t, head) = made
  BY <1>5, <1>6, <1>13 DEF Six, Eight
<1>15. Latest(t) = Eight(Upgrade2, t, Made(t))
  BY DEF Latest
<1> QED BY <1>3, <1>11, <1>14, <1>15, SubscriptionsMade

(* The other tables of the first revision.                                 *)
LEMMA UsersMade == DOMAIN Made("users") = Fields /\ Shape(Made("users")) = User
<1>1. PICK cols, null, refs, enums :
        /\ CreateUsers[1] = Create("users", cols, null, refs, enums, {})
        /\ User = Model(cols, null, refs, enums, {{"email"}}, {"oauth_provider_id"})
  BY DEF CreateUsers, User
<1> PICK all : all = Cols(cols, null, refs, enums)
  OBVIOUS
<1> PICK x1 : x1 = After(CreateUsers[1], "users", Nothing)
  OBVIOUS
<1> PICK x2 : x2 = After(CreateUsers[2], "users", x1)
  OBVIOUS
<1> PICK x3 : x3 = After(CreateUsers[3], "users", x2)
  OBVIOUS
<1>2. /\ Uniquely(CreateUsers[2], "users", "email")
      /\ Plainly(CreateUsers[3], "users", "oauth_provider_id")
  BY DEF CreateUsers, Create, Index, Uniquely, Plainly
<1>3. Made("users") = x3
  <2>1. Made("users") = Three(CreateUsers, "users", Nothing)
    BY OthersAfter DEF Made
  <2> QED BY <2>1 DEF Three
<1>4. Looks(x1, all, null, refs, enums, {}, {})
  BY <1>1, LooksCreated
<1>5. Looks(x2, all, null, refs, enums, {} \cup {{"email"}}, {} \cup {{"email"}})
  BY <1>2, <1>4, LooksAfter
<1>6. Looks(x3, all, null, refs, enums, {} \cup {{"email"}},
            {} \cup {{"email"}} \cup {{"oauth_provider_id"}})
  BY <1>2, <1>5, LooksAfter
<1> PICK on : on = {{"email"}} \cup {{c} : c \in {"oauth_provider_id"}}
  OBVIOUS
<1>7. {} \cup {{"email"}} \cup {{"oauth_provider_id"}} = on /\ {} \cup {{"email"}} = {{"email"}}
  OBVIOUS
<1>8. Looks(Made("users"), all, null, refs, enums, {{"email"}}, on)
  BY <1>3, <1>6, <1>7
<1> QED BY <1>1, <1>8, LooksShape

LEMMA MembershipsMade ==
  DOMAIN Made("memberships") = Fields /\ Shape(Made("memberships")) = Membership
<1> DEFINE Both == {{"user_id", "organization_id"}}
<1>1. PICK cols, null, refs, enums :
        /\ CreateMemberships[1] = Create("memberships", cols, null, refs, enums, Both)
        /\ Membership = Model(cols, null, refs, enums, Both, {"user_id", "organization_id"})
  BY DEF CreateMemberships, Membership
<1> PICK all : all = Cols(cols, null, refs, enums)
  OBVIOUS
<1> PICK x1 : x1 = After(CreateMemberships[1], "memberships", Nothing)
  OBVIOUS
<1> PICK x2 : x2 = After(CreateMemberships[2], "memberships", x1)
  OBVIOUS
<1> PICK x3 : x3 = After(CreateMemberships[3], "memberships", x2)
  OBVIOUS
<1>2. /\ Plainly(CreateMemberships[2], "memberships", "user_id")
      /\ Plainly(CreateMemberships[3], "memberships", "organization_id")
  BY DEF CreateMemberships, Create, Index, Uniquely, Plainly
<1>3. Made("memberships") = x3
  <2>1. Made("memberships") = Three(CreateMemberships, "memberships", Nothing)
    BY OthersAfter DEF Made
  <2> QED BY <2>1 DEF Three
<1>4. Looks(x1, all, null, refs, enums, Both, Both)
  BY <1>1, LooksCreated
<1>5. Looks(x2, all, null, refs, enums, Both, Both \cup {{"user_id"}})
  BY <1>2, <1>4, LooksAfter
<1>6. Looks(x3, all, null, refs, enums, Both, Both \cup {{"user_id"}} \cup {{"organization_id"}})
  BY <1>2, <1>5, LooksAfter
<1> PICK on : on = Both \cup {{c} : c \in {"user_id", "organization_id"}}
  OBVIOUS
<1>7. Both \cup {{"user_id"}} \cup {{"organization_id"}} = on
  OBVIOUS
<1>8. Looks(Made("memberships"), all, null, refs, enums, Both, on)
  BY <1>3, <1>6, <1>7
<1> QED BY <1>1, <1>8, LooksShape

LEMMA InvitationsMade ==
  DOMAIN Made("invitations") = Fields /\ Shape(Made("invitations")) = Invitation
<1>1. PICK cols, null, refs, enums :
        /\ CreateInvitations[1] = Create("invitations", cols, null, refs, enums, {})
        /\ Invitation = Model(cols, null, refs, enums, {{"token"}}, {"email", "organization_id"})
  BY DEF CreateInvitations, Invitation
<1> PICK all : all = Cols(cols, null, refs, enums)
  OBVIOUS
<1> PICK x1 : x1 = After(CreateInvitations[1], "invitations", Nothing)
  OBVIOUS
<1> PICK x2 : x2 = After(CreateInvitations[2], "invitations", x1)
  OBVIOUS
<1> PICK x3 : x3 = After(CreateInvitations[3], "invitations", x2)
  OBVIOUS
<1> PICK x4 : x4 = After(CreateInvitations[4], "invitations", x3)
  OBVIOUS
<1>2. /\ Uniquely(CreateInvitations[2], "invitations", "token")
      /\ Plainly(CreateInvitations[3], "invitations", "email")
      /\ Plainly(CreateInvitations[4], "invitations", "organization_id")
  BY DEF CreateInvitations, Create, Index, Uniquely, Plainly
<1>3. Made("invitations") = x4
  <2>1. Made("invitations") = Four(CreateInvitations, "invitations", Nothing)
    BY OthersAfter DEF Made
  <2> QED BY <2>1 DEF Four, Three
<1>4. Looks(x1, all, null, refs, enums, {}, {})
  BY <1>1, LooksCreated
<1>5. Looks(x2, all, null, refs, enums, {} \cup {{"token"}}, {} \cup {{"token"}})
  BY <1>2, <1>4, LooksAfter
<1>6. Looks(x3, all, null, refs, enums, {} \cup {{"token"}}, {} \cup {{"token"}} \cup {{"email"}})
  BY <1>2, <1>5, LooksAfter
<1>7. Looks(x4, all, null, refs, enums, {} \cup {{"token"}},
            {} \cup {{"token"}} \cup {{"email"}} \cup {{"organization_id"}})
  BY <1>2, <1>6, LooksAfter
<1> PICK on : on = {{"token"}} \cup {{c} : c \in {"email", "organization_id"}}
  OBVIOUS
<1>8. /\ {} \cup {{"token"}} \cup {{"email"}} \cup {{"organization_id"}} = on
      /\ {} \cup {{"token"}} = {{"token"}}
  OBVIOUS
<1>9. Looks(Made("invitations"), all, null, refs, enums, {{"token"}}, on)
  BY <1>3, <1>7, <1>8
<1> QED BY <1>1, <1>9, LooksShape

LEMMA NotificationsMade ==
  DOMAIN Made("notifications") = Fields /\ Shape(Made("notifications")) = Notification
<1>1. PICK cols, null, refs, enums :
        /\ CreateLogs[1] = Create("notifications", cols, null, refs, enums, {})
        /\ Notification = Model(cols, null, refs, enums, {}, {"user_id"})
  BY DEF CreateLogs, Notification
<1> PICK all : all = Cols(cols, null, refs, enums)
  OBVIOUS
<1> PICK x1 : x1 = After(CreateLogs[1], "notifications", Nothing)
  OBVIOUS
<1> PICK x2 : x2 = After(CreateLogs[2], "notifications", x1)
  OBVIOUS
<1>2. Plainly(CreateLogs[2], "notifications", "user_id")
  BY DEF CreateLogs, Create, Index, Uniquely, Plainly
<1>3. Made("notifications") = x2
  <2>1. \A y : /\ After(CreateLogs[3], "notifications", y) = y
               /\ After(CreateLogs[4], "notifications", y) = y
               /\ After(CreateLogs[5], "notifications", y) = y
               /\ After(CreateLogs[6], "notifications", y) = y
    <3>1. /\ CreateLogs[3].t # "notifications" /\ CreateLogs[4].t # "notifications"
          /\ CreateLogs[5].t # "notifications" /\ CreateLogs[6].t # "notifications"
      BY DEF CreateLogs, Create, Index
    <3> QED BY <3>1 DEF After
  <2>2. Made("notifications") = Six(CreateLogs, "notifications", Nothing)
    BY OthersAfter DEF Made
  <2> QED BY <2>1, <2>2 DEF Six, Four, Three
<1>4. Looks(x1, all, null, refs, enums, {}, {})
  BY <1>1, LooksCreated
<1>5. Looks(x2, all, null, refs, enums, {}, {} \cup {{"user_id"}})
  BY <1>2, <1>4, LooksAfter
<1> PICK on : on = {} \cup {{c} : c \in {"user_id"}}
  OBVIOUS
<1>6. {} \cup {{"user_id"}} = on
  OBVIOUS
<1>7. Looks(Made("notifications"), all, null, refs, enums, {}, on)
  BY <1>3, <1>5, <1>6
<1> QED BY <1>1, <1>7, LooksShape

LEMMA AuditLogsMade ==
  DOMAIN Made("audit_logs") = Fields /\ Shape(Made("audit_logs")) = AuditLog
<1>1. PICK cols, null, refs, enums :
        /\ CreateLogs[3] = Create("audit_logs", cols, null, refs, enums, {})
        /\ AuditLog = Model(cols, null, refs, enums, {}, {"organization_id", "user_id", "action"})
  BY DEF CreateLogs, AuditLog
<1> PICK all : all = Cols(cols, null, refs, enums)
  OBVIOUS
<1> PICK x1 : x1 = After(CreateLogs[3], "audit_logs", Nothing)
  OBVIOUS
<1> PICK x2 : x2 = After(CreateLogs[4], "audit_logs", x1)
  OBVIOUS
<1> PICK x3 : x3 = After(CreateLogs[5], "audit_logs", x2)
  OBVIOUS
<1> PICK x4 : x4 = After(CreateLogs[6], "audit_logs", x3)
  OBVIOUS
<1>2. /\ Plainly(CreateLogs[4], "audit_logs", "organization_id")
      /\ Plainly(CreateLogs[5], "audit_logs", "user_id")
      /\ Plainly(CreateLogs[6], "audit_logs", "action")
  BY DEF CreateLogs, Create, Index, Uniquely, Plainly
<1>3. Made("audit_logs") = x4
  <2>1. \A y : /\ After(CreateLogs[1], "audit_logs", y) = y
               /\ After(CreateLogs[2], "audit_logs", y) = y
    <3>1. CreateLogs[1].t # "audit_logs" /\ CreateLogs[2].t # "audit_logs"
      BY DEF CreateLogs, Create, Index
    <3> QED BY <3>1 DEF After
  <2>2. Made("audit_logs") = Six(CreateLogs, "audit_logs", Nothing)
    BY OthersAfter DEF Made
  <2> QED BY <2>1, <2>2 DEF Six, Four, Three
<1>4. Looks(x1, all, null, refs, enums, {}, {})
  BY <1>1, LooksCreated
<1>5. Looks(x2, all, null, refs, enums, {}, {} \cup {{"organization_id"}})
  BY <1>2, <1>4, LooksAfter
<1>6. Looks(x3, all, null, refs, enums, {}, {} \cup {{"organization_id"}} \cup {{"user_id"}})
  BY <1>2, <1>5, LooksAfter
<1>7. Looks(x4, all, null, refs, enums, {},
            {} \cup {{"organization_id"}} \cup {{"user_id"}} \cup {{"action"}})
  BY <1>2, <1>6, LooksAfter
<1> PICK on : on = {} \cup {{c} : c \in {"organization_id", "user_id", "action"}}
  OBVIOUS
<1>8. {} \cup {{"organization_id"}} \cup {{"user_id"}} \cup {{"action"}} = on
  OBVIOUS
<1>9. Looks(Made("audit_logs"), all, null, refs, enums, {}, on)
  BY <1>3, <1>7, <1>8
<1> QED BY <1>1, <1>9, LooksShape

(* A model with other names for its columns. *)
Named(m, f) == [m EXCEPT
  !.cols   = {f[c] : c \in @},
  !.null   = {f[c] : c \in @},
  !.unique = {{f[c] : c \in S} : S \in @},
  !.index  = {{f[c] : c \in S} : S \in @}]

Described(cols, null, refs, enums, unique, index) ==
  [cols |-> cols, null |-> null, refs |-> refs, enums |-> enums,
   unique |-> unique, index |-> index]

Image(f, S) == {f[c] : c \in S}

Images(f, U) == {Image(f, S) : S \in U}

Refit(m, a, b, c, d) == [m EXCEPT !.cols = a, !.null = b, !.unique = c, !.index = d]

LEMMA Refitted ==
  ASSUME NEW cols, NEW null, NEW refs, NEW enums, NEW unique, NEW index,
         NEW a, NEW b, NEW c, NEW d, NEW m,
         m = Described(cols, null, refs, enums, unique, index)
  PROVE  Refit(m, a, b, c, d) = Described(a, b, refs, enums, c, d)
<1>1. PICK k : k = [m EXCEPT !.cols = a]
  OBVIOUS
<1>2. k = Described(a, null, refs, enums, unique, index)
  BY <1>1 DEF Described
<1>3. PICK l : l = [k EXCEPT !.null = b]
  OBVIOUS
<1>4. l = Described(a, b, refs, enums, unique, index)
  BY <1>2, <1>3 DEF Described
<1>5. PICK n : n = [l EXCEPT !.unique = c]
  OBVIOUS
<1>6. n = Described(a, b, refs, enums, c, index)
  BY <1>4, <1>5 DEF Described
<1>7. [n EXCEPT !.index = d] = Described(a, b, refs, enums, c, d)
  BY <1>6 DEF Described
<1> QED BY <1>1, <1>3, <1>5, <1>7 DEF Refit

LEMMA NamedAs ==
  ASSUME NEW cols, NEW null, NEW refs, NEW enums, NEW unique, NEW index, NEW f
  PROVE  Named(Described(cols, null, refs, enums, unique, index), f) =
           Described(Image(f, cols), Image(f, null), refs, enums,
                     Images(f, unique), Images(f, index))
<1> PICK m : m = Described(cols, null, refs, enums, unique, index)
  OBVIOUS
<1>1. /\ DOMAIN m = {"cols", "null", "refs", "enums", "unique", "index"}
      /\ m.cols = cols /\ m.null = null /\ m.refs = refs /\ m.enums = enums
      /\ m.unique = unique /\ m.index = index
  BY DEF Described
<1> PICK a, b, c, d : /\ a = Image(f, cols) /\ b = Image(f, null)
                      /\ c = Images(f, unique) /\ d = Images(f, index)
  OBVIOUS
<1>2. Named(m, f) = Refit(m, a, b, c, d)
  BY <1>1 DEF Named, Image, Images, Refit
<1>3. Refit(m, a, b, c, d) = Described(a, b, refs, enums, c, d)
  BY Refitted
<1> QED BY <1>2, <1>3

LEMMA SameNames ==
  ASSUME NEW cols, NEW null, NEW refs, NEW enums, NEW unique, NEW index, NEW f,
         null \subseteq cols, \A S \in unique \cup index : S \subseteq cols,
         \A c \in cols : f[c] = c
  PROVE  Named(Described(cols, null, refs, enums, unique, index), f) =
           Described(cols, null, refs, enums, unique, index)
<1>1. ASSUME NEW S, S \subseteq cols PROVE Image(f, S) = S
  BY <1>1 DEF Image
<1>2. ASSUME NEW U, \A S \in U : S \subseteq cols PROVE Images(f, U) = U
  <2>1. \A S \in U : Image(f, S) = S
    BY <1>1, <1>2
  <2> QED BY <2>1 DEF Images
<1>3. Images(f, unique) = unique /\ Images(f, index) = index
  BY <1>2
<1>4. Image(f, cols) = cols /\ Image(f, null) = null
  BY <1>1
<1> QED BY <1>3, <1>4, NamedAs

(* A model whose indexes are on columns it has. *)
Closed(m) == \E cols, null, refs, enums, unique, index :
  /\ m = Described(cols, null, refs, enums, unique, index)
  /\ null \subseteq cols /\ \A S \in unique \cup index : S \subseteq cols

LEMMA ModelClosed ==
  ASSUME NEW cols, NEW null, NEW refs, NEW enums, NEW unique, NEW index,
         \A S \in unique : S \subseteq Cols(cols, null, refs, enums),
         index \subseteq Cols(cols, null, refs, enums)
  PROVE  Closed(Model(cols, null, refs, enums, unique, index))
<1> PICK all : all = Cols(cols, null, refs, enums)
  OBVIOUS
<1> PICK on : on = unique \cup {{c} : c \in index}
  OBVIOUS
<1>1. Model(cols, null, refs, enums, unique, index) = Described(all, null, refs, enums, unique, on)
  BY ModelShape DEF Described
<1>2. null \subseteq all
  BY DEF Cols
<1>3. \A S \in unique \cup on : S \subseteq all
  OBVIOUS
<1> QED BY <1>1, <1>2, <1>3 DEF Closed

LEMMA Unnamed ==
  ASSUME NEW m, NEW f, Closed(m), \A c \in m.cols : f[c] = c
  PROVE  Named(m, f) = m
<1> PICK cols, null, refs, enums, unique, index :
      /\ m = Described(cols, null, refs, enums, unique, index)
      /\ null \subseteq cols /\ \A S \in unique \cup index : S \subseteq cols
  BY DEF Closed
<1>1. m.cols = cols
  BY DEF Described
<1> QED BY <1>1, SameNames

LEMMA ModelsClosed ==
  /\ Closed(User) /\ Closed(Membership) /\ Closed(Invitation) /\ Closed(Notification)
  /\ Closed(AuditLog) /\ Closed(Organization) /\ Closed(Subscription)
<1>1. Closed(User)
  <2> PICK cols, null, refs, enums :
         /\ User = Model(cols, null, refs, enums, {{"email"}}, {"oauth_provider_id"})
         /\ "email" \in cols /\ "oauth_provider_id" \in null
    BY DEF User
  <2> QED BY ModelClosed DEF Cols
<1>2. Closed(Membership)
  <2> PICK cols, null, refs, enums :
         /\ Membership = Model(cols, null, refs, enums, {{"user_id", "organization_id"}},
                               {"user_id", "organization_id"})
         /\ DOMAIN refs = {"user_id", "organization_id"}
    BY DEF Membership
  <2> QED BY ModelClosed DEF Cols
<1>3. Closed(Invitation)
  <2> PICK cols, null, refs, enums :
         /\ Invitation = Model(cols, null, refs, enums, {{"token"}}, {"email", "organization_id"})
         /\ "token" \in cols /\ "email" \in cols
         /\ DOMAIN refs = {"organization_id", "invited_by_id"}
    BY DEF Invitation
  <2> QED BY ModelClosed DEF Cols
<1>4. Closed(Notification)
  <2> PICK cols, null, refs, enums :
         /\ Notification = Model(cols, null, refs, enums, {}, {"user_id"})
         /\ DOMAIN refs = {"user_id"}
    BY DEF Notification
  <2> QED BY ModelClosed DEF Cols
<1>5. Closed(AuditLog)
  <2> PICK cols, null, refs, enums :
         /\ AuditLog = Model(cols, null, refs, enums, {}, {"organization_id", "user_id", "action"})
         /\ DOMAIN refs = {"organization_id", "user_id"} /\ cols = {"action"}
    BY DEF AuditLog
  <2> QED BY ModelClosed DEF Cols
<1>6. Closed(Organization)
  <2> PICK cols, null, refs, enums :
         /\ Organization = Model(cols, null, refs, enums, {{"slug"}, {"paystack_customer_id"}}, {})
         /\ "slug" \in cols /\ "paystack_customer_id" \in null
    BY DEF Organization
  <2> QED BY ModelClosed DEF Cols
<1>7. Closed(Subscription)
  <2> PICK cols, null, refs, enums :
         /\ Subscription = Model(cols, null, refs, enums,
                                 {{"organization_id"}, {"paystack_sub_code"}}, {})
         /\ "paystack_sub_code" \in cols /\ DOMAIN refs = {"organization_id"}
    BY DEF Subscription
  <2> QED BY ModelClosed DEF Cols
<1> QED BY <1>1, <1>2, <1>3, <1>4, <1>5, <1>6, <1>7

(* What the two tables look like, by the names of their columns. *)
OrganizationsLook(customer) == Described(
  {"name", "slug", "logo_url", "plan", "id", "created_at", "updated_at", customer},
  {"logo_url", customer}, Nothing, [plan |-> "plantier"],
  {{"slug"}, {customer}}, {{"slug"}, {customer}})

SubscriptionsLook(code, plan) == Described(
  {"current_period_start", "current_period_end", "cancel_at_period_end", "canceled_at",
   "organization_id", "status", "id", "created_at", "updated_at", code, plan},
  {"canceled_at"}, [organization_id |-> <<"organizations", "CASCADE">>],
  [status |-> "subscriptionstatus"],
  {{"organization_id"}, {code}}, {{"organization_id"}, {code}})

LEMMA RecDescribed ==
  ASSUME NEW cols, NEW null, NEW refs, NEW enums, NEW index, NEW unique, NEW on,
         UniqueOf(index) = unique, OnOf(index) = on
  PROVE  Shape(Rec(cols, null, refs, enums, index)) =
           Described(cols, null, refs, enums, unique, on)
BY RecShape DEF Described

(* The sets of columns an index is on, of the unique ones and of all. *)
On(index, unique, on) == UniqueOf(index) = unique /\ OnOf(index) = on

LEMMA IndexGrows ==
  ASSUME NEW index, NEW unique, NEW on, On(index, unique, on), NEW c
  PROVE  /\ On(index \cup {UniqueIx(c)}, unique \cup {{c}}, on \cup {{c}})
         /\ On(index \cup {PlainIx(c)}, unique, on \cup {{c}})
BY IndexesOn DEF On

LEMMA OrganizationsShape ==
  ASSUME NEW a
  PROVE  Shape(OrganizationsWith(a)) = OrganizationsLook(a)
<1>1. PICK I : I = {UniqueIx("slug")} \cup {UniqueIx(a)}
  OBVIOUS
<1>2. PICK U : U = {{"slug"}, {a}}
  OBVIOUS
<1>3. On(I, U, U)
  <2>1. On({}, {}, {})
    BY DEF On, UniqueOf, OnOf
  <2>2. On({} \cup {UniqueIx("slug")}, {} \cup {{"slug"}}, {} \cup {{"slug"}})
    BY <2>1, IndexGrows
  <2>3. {} \cup {UniqueIx("slug")} = {UniqueIx("slug")} /\ {} \cup {{"slug"}} = {{"slug"}}
    OBVIOUS
  <2>4. On({UniqueIx("slug")} \cup {UniqueIx(a)}, {{"slug"}} \cup {{a}}, {{"slug"}} \cup {{a}})
    BY <2>2, <2>3, IndexGrows
  <2>5. {{"slug"}} \cup {{a}} = U
    BY <1>2
  <2> QED BY <1>1, <2>4, <2>5
<1>4. \A cols, null, refs, enums :
        Shape(Rec(cols, null, refs, enums, I)) = Described(cols, null, refs, enums, U, U)
  BY <1>3, RecDescribed DEF On
<1> QED BY <1>1, <1>2, <1>4, Zenon DEF OrganizationsWith, OrganizationsLook

LEMMA SubscriptionsShape ==
  ASSUME NEW a, NEW b
  PROVE  Shape(SubscriptionsWith(a, b)) = SubscriptionsLook(a, b)
<1>1. PICK K : K = Key({{"organization_id"}})
  OBVIOUS
<1>2. PICK L : L = K \cup {PlainIx("organization_id")}
  OBVIOUS
<1>3. PICK I : I = L \cup {UniqueIx(a)}
  OBVIOUS
<1>4. PICK U : U = {{"organization_id"}, {a}}
  OBVIOUS
<1>5. On(I, U, U)
  <2>1. PICK O : O = {{"organization_id"}}
    OBVIOUS
  <2>2. On(K, O, O)
    BY <1>1, <2>1, IndexesOn DEF On
  <2>3. On(L, O, O \cup {{"organization_id"}})
    BY <1>2, <2>2, IndexGrows
  <2>4. O \cup {{"organization_id"}} = O
    BY <2>1
  <2>5. On(I, O \cup {{a}}, O \cup {{a}})
    BY <1>3, <2>3, <2>4, IndexGrows
  <2>6. O \cup {{a}} = U
    BY <1>4, <2>1
  <2> QED BY <2>5, <2>6
<1>6. \A cols, null, refs, enums :
        Shape(Rec(cols, null, refs, enums, I)) = Described(cols, null, refs, enums, U, U)
  BY <1>5, RecDescribed DEF On
<1> QED BY <1>1, <1>2, <1>3, <1>4, <1>6, Zenon DEF SubscriptionsWith, SubscriptionsLook

LEMMA ModelsLook ==
  /\ Organization = OrganizationsLook("paystack_customer_id")
  /\ Subscription = SubscriptionsLook("paystack_sub_code", "paystack_plan_code")
<1>1. Organization = OrganizationsLook("paystack_customer_id")
  <2> PICK enums : enums = [plan |-> "plantier"]
    OBVIOUS
  <2> PICK null : null = {"logo_url", "paystack_customer_id"}
    OBVIOUS
  <2> PICK all : all = Cols({"name", "slug"}, null, Nothing, enums)
    OBVIOUS
  <2> PICK unique : unique = {{"slug"}, {"paystack_customer_id"}}
    OBVIOUS
  <2>1. Organization = Model({"name", "slug"}, null, Nothing, enums, unique, {})
    BY DEF Organization
  <2>2. Organization = Described(all, null, Nothing, enums, unique, unique \cup {{c} : c \in {}})
    BY <2>1, ModelShape DEF Described
  <2>3. unique \cup {{c} : c \in {}} = unique
    OBVIOUS
  <2>4. all = {"name", "slug", "logo_url", "plan", "id", "created_at", "updated_at",
               "paystack_customer_id"}
    BY DEF Cols, Nothing
  <2> QED BY <2>2, <2>3, <2>4 DEF OrganizationsLook
<1>2. Subscription = SubscriptionsLook("paystack_sub_code", "paystack_plan_code")
  <2> PICK refs : refs = [organization_id |-> <<"organizations", "CASCADE">>]
    OBVIOUS
  <2> PICK enums : enums = [status |-> "subscriptionstatus"]
    OBVIOUS
  <2> PICK null : null = {"canceled_at"}
    OBVIOUS
  <2> PICK some : some = {"paystack_sub_code", "paystack_plan_code", "current_period_start",
                          "current_period_end", "cancel_at_period_end"}
    OBVIOUS
  <2> PICK all : all = Cols(some, null, refs, enums)
    OBVIOUS
  <2> PICK unique : unique = {{"organization_id"}, {"paystack_sub_code"}}
    OBVIOUS
  <2>1. Subscription = Model(some, null, refs, enums, unique, {})
    BY DEF Subscription
  <2>2. Subscription = Described(all, null, refs, enums, unique, unique \cup {{c} : c \in {}})
    BY <2>1, ModelShape DEF Described
  <2>3. unique \cup {{c} : c \in {}} = unique
    OBVIOUS
  <2>4. all = {"current_period_start", "current_period_end", "cancel_at_period_end",
               "canceled_at", "organization_id", "status", "id", "created_at", "updated_at",
               "paystack_sub_code", "paystack_plan_code"}
    BY DEF Cols
  <2> QED BY <2>2, <2>3, <2>4 DEF SubscriptionsLook
<1> QED BY <1>1, <1>2

Unchanging == {"users", "memberships", "invitations", "notifications", "audit_logs"}

Paystack == {"paystack_customer_id", "paystack_sub_code", "paystack_plan_code"}

LEMMA ModelsOf ==
  /\ Models["users"] = User /\ Models["organizations"] = Organization
  /\ Models["memberships"] = Membership /\ Models["invitations"] = Invitation
  /\ Models["subscriptions"] = Subscription /\ Models["notifications"] = Notification
  /\ Models["audit_logs"] = AuditLog
BY DEF Models

LEMMA WithoutPaystack ==
  ASSUME NEW t \in Unchanging
  PROVE  Closed(Models[t]) /\ Paystack \cap Models[t].cols = {}
<1> USE DEF Paystack
<1>1. Paystack \cap User.cols = {}
  <2> PICK cols, null, refs, enums, unique, index :
         /\ User = Model(cols, null, refs, enums, unique, index)
         /\ Paystack \cap Cols(cols, null, refs, enums) = {}
    BY DEF User, Cols, Nothing
  <2> QED BY ModelShape
<1>2. Paystack \cap Membership.cols = {}
  <2> PICK cols, null, refs, enums, unique, index :
         /\ Membership = Model(cols, null, refs, enums, unique, index)
         /\ Paystack \cap Cols(cols, null, refs, enums) = {}
    BY DEF Membership, Cols
  <2> QED BY ModelShape
<1>3. Paystack \cap Invitation.cols = {}
  <2> PICK cols, null, refs, enums, unique, index :
         /\ Invitation = Model(cols, null, refs, enums, unique, index)
         /\ Paystack \cap Cols(cols, null, refs, enums) = {}
    BY DEF Invitation, Cols
  <2> QED BY ModelShape
<1>4. Paystack \cap Notification.cols = {}
  <2> PICK cols, null, refs, enums, unique, index :
         /\ Notification = Model(cols, null, refs, enums, unique, index)
         /\ Paystack \cap Cols(cols, null, refs, enums) = {}
    BY DEF Notification, Cols, Nothing
  <2> QED BY ModelShape
<1>5. Paystack \cap AuditLog.cols = {}
  <2> PICK cols, null, refs, enums, unique, index :
         /\ AuditLog = Model(cols, null, refs, enums, unique, index)
         /\ Paystack \cap Cols(cols, null, refs, enums) = {}
    BY DEF AuditLog, Cols, Nothing
  <2> QED BY ModelShape
<1> QED BY <1>1, <1>2, <1>3, <1>4, <1>5, ModelsOf, ModelsClosed DEF Unchanging

LEMMA SameColumn ==
  ASSUME NEW t \in Tables, NEW c \in Models[t].cols
  PROVE  c \in Columns /\ [d \in Columns |-> d][c] = c
         /\ (c \notin Paystack => StripeNames[c] = c)
<1>1. c \in Columns
  BY DEF Columns
<1> QED BY <1>1 DEF StripeNames, Paystack

(* The tables of the two revisions as the models describe them. *)
LEMMA UnchangingShapes ==
  ASSUME NEW t \in Unchanging
  PROVE  /\ Latest(t) = Made(t) /\ Shape(Made(t)) = Models[t]
         /\ Named(Models[t], StripeNames) = Models[t]
         /\ Named(Models[t], [c \in Columns |-> c]) = Models[t]
<1>1. t \in Tables /\ t \notin {"organizations", "subscriptions", "alembic_version"}
  BY TableNames DEF Unchanging
<1>2. Latest(t) = Made(t)
  BY <1>1, OthersAfter DEF Latest
<1>3. Shape(Made(t)) = Models[t]
  BY ModelsOf, UsersMade, MembershipsMade, InvitationsMade, NotificationsMade, AuditLogsMade
     DEF Unchanging
<1>4. /\ Closed(Models[t])
      /\ \A c \in Models[t].cols : StripeNames[c] = c /\ [d \in Columns |-> d][c] = c
  BY <1>1, WithoutPaystack, SameColumn
<1>5. Named(Models[t], StripeNames) = Models[t]
  BY <1>4, Unnamed
<1> PICK f : f = [d \in Columns |-> d]
  OBVIOUS
<1>6. Named(Models[t], f) = Models[t]
  BY <1>4, Unnamed
<1> QED BY <1>2, <1>3, <1>5, <1>6

LEMMA OrganizationsShapes ==
  /\ Shape(Latest("organizations")) = Named(Models["organizations"], [c \in Columns |-> c])
  /\ Shape(Made("organizations")) = Named(Models["organizations"], StripeNames)
<1> DEFINE t == "organizations"
<1>1. t \in Tables
  BY TableNames
<1>2. Models[t] = OrganizationsLook("paystack_customer_id")
  BY ModelsOf, ModelsLook
<1>3. Shape(Latest(t)) = Models[t]
  BY <1>2, OrganizationsRenamed, OrganizationsShape
<1>4. Shape(Made(t)) = OrganizationsLook("stripe_customer_id")
  BY OrganizationsMade, OrganizationsShape
<1>5. Named(Models[t], [c \in Columns |-> c]) = Models[t]
  <2> PICK f : f = [d \in Columns |-> d]
    OBVIOUS
  <2>1. Closed(Models[t]) /\ \A c \in Models[t].cols : f[c] = c
    BY <1>1, ModelsClosed, ModelsOf, SameColumn
  <2>2. Named(Models[t], f) = Models[t]
    BY <2>1, Unnamed
  <2> QED BY <2>2
<1>6. Named(Models[t], StripeNames) = OrganizationsLook("stripe_customer_id")
  <2>1. PICK C : C = {"name", "slug", "logo_url", "plan", "id", "created_at", "updated_at",
                      "paystack_customer_id"}
    OBVIOUS
  <2>2. PICK D : D = {"name", "slug", "logo_url", "plan", "id", "created_at", "updated_at",
                      "stripe_customer_id"}
    OBVIOUS
  <2>3. PICK N : N = {"logo_url", "paystack_customer_id"}
    OBVIOUS
  <2>4. PICK U : U = {{"slug"}, {"paystack_customer_id"}}
    OBVIOUS
  <2>5. PICK V : V = {{"slug"}, {"stripe_customer_id"}}
    OBVIOUS
  <2>6. PICK M : M = {"logo_url", "stripe_customer_id"}
    OBVIOUS
  <2>7. C = Models[t].cols
    BY <1>2, <2>1 DEF OrganizationsLook, Described
  <2>8. /\ \A c \in C \ {"paystack_customer_id"} : StripeNames[c] = c
        /\ StripeNames["paystack_customer_id"] = "stripe_customer_id"
    <3>1. C \subseteq Columns
      BY <1>1, <2>7 DEF Columns
    <3> QED BY <2>1, <3>1 DEF StripeNames
  <2>9. Image(StripeNames, C) = D /\ Image(StripeNames, N) = M
    BY <2>1, <2>2, <2>3, <2>6, <2>8 DEF Image
  <2>10. Images(StripeNames, U) = V
    <3>1. Image(StripeNames, {"slug"}) = {"slug"}
          /\ Image(StripeNames, {"paystack_customer_id"}) = {"stripe_customer_id"}
      BY <2>1, <2>8 DEF Image
    <3> QED BY <2>4, <2>5, <3>1 DEF Images
  <2>11. \A refs, enums : Named(Described(C, N, refs, enums, U, U), StripeNames) =
                            Described(D, M, refs, enums, V, V)
    BY <2>9, <2>10, NamedAs
  <2> QED BY <1>2, <2>1, <2>2, <2>3, <2>4, <2>5, <2>6, <2>11, Zenon DEF OrganizationsLook
<1> QED BY <1>3, <1>4, <1>5, <1>6

LEMMA SubscriptionsShapes ==
  /\ Shape(Latest("subscriptions")) = Named(Models["subscriptions"], [c \in Columns |-> c])
  /\ Shape(Made("subscriptions")) = Named(Models["subscriptions"], StripeNames)
<1> DEFINE t == "subscriptions"
<1>1. t \in Tables
  BY TableNames
<1>2. Models[t] = SubscriptionsLook("paystack_sub_code", "paystack_plan_code")
  BY ModelsOf, ModelsLook
<1>3. Shape(Latest(t)) = Models[t]
  BY <1>2, SubscriptionsRenamed, SubscriptionsShape
<1>4. Shape(Made(t)) = SubscriptionsLook("stripe_subscription_id", "stripe_price_id")
  BY SubscriptionsMade, SubscriptionsShape
<1>5. Named(Models[t], [c \in Columns |-> c]) = Models[t]
  <2> PICK f : f = [d \in Columns |-> d]
    OBVIOUS
  <2>1. Closed(Models[t]) /\ \A c \in Models[t].cols : f[c] = c
    BY <1>1, ModelsClosed, ModelsOf, SameColumn
  <2>2. Named(Models[t], f) = Models[t]
    BY <2>1, Unnamed
  <2> QED BY <2>2
<1>6. Named(Models[t], StripeNames) = SubscriptionsLook("stripe_subscription_id", "stripe_price_id")
  <2>1. PICK C : C = {"current_period_start", "current_period_end", "cancel_at_period_end",
                      "canceled_at", "organization_id", "status", "id", "created_at",
                      "updated_at", "paystack_sub_code", "paystack_plan_code"}
    OBVIOUS
  <2>2. PICK D : D = {"current_period_start", "current_period_end", "cancel_at_period_end",
                      "canceled_at", "organization_id", "status", "id", "created_at",
                      "updated_at", "stripe_subscription_id", "stripe_price_id"}
    OBVIOUS
  <2>3. PICK N : N = {"canceled_at"}
    OBVIOUS
  <2>4. PICK U : U = {{"organization_id"}, {"paystack_sub_code"}}
    OBVIOUS
  <2>5. PICK V : V = {{"organization_id"}, {"stripe_subscription_id"}}
    OBVIOUS
  <2>7. C = Models[t].cols
    BY <1>2, <2>1 DEF SubscriptionsLook, Described
  <2>8. /\ \A c \in C \ {"paystack_sub_code", "paystack_plan_code"} : StripeNames[c] = c
        /\ StripeNames["paystack_sub_code"] = "stripe_subscription_id"
        /\ StripeNames["paystack_plan_code"] = "stripe_price_id"
    <3>1. C \subseteq Columns
      BY <1>1, <2>7 DEF Columns
    <3> QED BY <2>1, <3>1 DEF StripeNames
  <2>9. Image(StripeNames, C) = D /\ Image(StripeNames, N) = N
    BY <2>1, <2>2, <2>3, <2>8 DEF Image
  <2>10. Images(StripeNames, U) = V
    <3>1. Image(StripeNames, {"organization_id"}) = {"organization_id"}
          /\ Image(StripeNames, {"paystack_sub_code"}) = {"stripe_subscription_id"}
      BY <2>1, <2>8 DEF Image
    <3> QED BY <2>4, <2>5, <3>1 DEF Images
  <2>11. \A refs, enums : Named(Described(C, N, refs, enums, U, U), StripeNames) =
                            Described(D, N, refs, enums, V, V)
    BY <2>9, <2>10, NamedAs
  <2> QED BY <1>2, <2>1, <2>2, <2>3, <2>4, <2>5, <2>11, Zenon DEF SubscriptionsLook
<1> QED BY <1>3, <1>4, <1>5, <1>6

(* The version, or the definition of a table, at a revision. *)
Catalog(rev, x) == CASE rev = "base" -> Base(x)
                     [] rev = "0001" -> Made(x)
                     [] OTHER        -> Latest(x)

(* A process that goes from one revision to the next and keeps the tables. *)
Migrates(p) == p.plan # "seed" /\ ~Drops(p)

Goal(p) == IF p.plan = "up" THEN "0002" ELSE "0001"

LEMMA Lengths ==
  /\ Len(CreateUsers) = 3 /\ Len(CreateOrganizations) = 3 /\ Len(CreateMemberships) = 3
  /\ Len(CreateInvitations) = 4 /\ Len(CreateSubscriptions) = 3 /\ Len(CreateLogs) = 6
  /\ Len(Upgrade2) = 8 /\ Len(Downgrade2) = 8
BY DEF CreateUsers, CreateOrganizations, CreateMemberships, CreateInvitations,
       CreateSubscriptions, CreateLogs, Upgrade2, Downgrade2

(* Sequences of sound statements are joined. *)
Some(a) == {a[i] : i \in 1 .. Len(a)}

LEMMA ScriptsJoin ==
  ASSUME NEW a, NEW b, NEW x, NEW y, NEW z, NEW u, Script(a, Building), Script(b, Building),
         Leads(a, 0, x, y, z), Leads(b, 0, x, z, u)
  PROVE  Leads(a \o b, 0, x, y, u) /\ Script(a \o b, Building)
<1>1. a \in Seq(Some(a)) /\ b \in Seq(Some(b))
  BY DEF Script, Some
<1>2. Leads(a \o b, 0, x, y, u)
  BY <1>1, LeadsJoin
<1>3. Script(a \o b, Building)
  BY Joined
<1> QED BY <1>2, <1>3

LEMMA FirstRoute ==
  ASSUME NEW x \in Tables \cup {"alembic_version"}
  PROVE  Leads(Upgrade1, 0, x, Base(x), Made(x))
<1> DEFINE a == CreateUsers \o CreateOrganizations
           b == a \o CreateMemberships
           c == b \o CreateInvitations
           d == c \o CreateSubscriptions
           e == d \o CreateLogs
           f == <<Stamp("base", "0001")>>
<1> PICK y : y = Base(x)
  OBVIOUS
<1> PICK ya : ya = Three(CreateOrganizations, x, Three(CreateUsers, x, y))
  OBVIOUS
<1> PICK yb : yb = Three(CreateMemberships, x, ya)
  OBVIOUS
<1> PICK yc : yc = Four(CreateInvitations, x, yb)
  OBVIOUS
<1> PICK yd : yd = Three(CreateSubscriptions, x, yc)
  OBVIOUS
<1> PICK ye : ye = Six(CreateLogs, x, yd)
  OBVIOUS
<1>1. Leads(a, 0, x, y, ya) /\ Script(a, Building)
  BY LeadsThrough, Lengths, CreateUsers_Script, CreateOrganizations_Script, ScriptsJoin
<1>2. Leads(b, 0, x, y, yb) /\ Script(b, Building)
  <2> HIDE DEF a
  <2> QED BY <1>1, LeadsThrough, Lengths, CreateMemberships_Script, ScriptsJoin
<1>3. Leads(c, 0, x, y, yc) /\ Script(c, Building)
  <2> HIDE DEF b
  <2> QED BY <1>2, LeadsThrough, Lengths, CreateInvitations_Script, ScriptsJoin
<1>4. Leads(d, 0, x, y, yd) /\ Script(d, Building)
  <2> HIDE DEF c
  <2> QED BY <1>3, LeadsThrough, Lengths, CreateSubscriptions_Script, ScriptsJoin
<1>5. Leads(e, 0, x, y, ye) /\ Script(e, Building)
  <2> HIDE DEF d
  <2> QED BY <1>4, LeadsThrough, Lengths, CreateLogs_Script, ScriptsJoin
<1>6. f \in Seq({f[1]}) /\ Len(f) = 1 /\ f[1] = Stamp("base", "0001")
  OBVIOUS
<1>7. Script(f, Building)
  <2>1. Sound(f[1]) /\ f[1].op \in Building
    BY DEF Sound, Stamp, Building, Renaming
  <2>2. \A i \in 1 .. Len(f) : i = 1
    BY <1>6
  <2> HIDE DEF f
  <2> QED BY <1>6, <2>1, <2>2, Listed
<1>8. Made(x) = After(f[1], x, ye)
  <2>1. CASE x = "alembic_version"
    <3>1. After(Stamp("base", "0001"), x, ye) = "0001"
      BY <2>1 DEF After, Stamp
    <3> QED BY <1>6, <2>1, <3>1 DEF Made
  <2>2. CASE x # "alembic_version"
    <3>1. After(Stamp("base", "0001"), x, ye) = ye
      BY <2>2 DEF After, Stamp
    <3>2. y = Nothing
      BY <2>2 DEF Base
    <3> QED BY <1>6, <2>2, <3>1, <3>2 DEF Made
  <2> QED BY <2>1, <2>2
<1>9. Upgrade1 = e \o f
  BY DEF Upgrade1
<1> HIDE DEF e, f
<1>10. Leads(f, 0, x, ye, Made(x))
  BY <1>6, <1>8, LeadsThrough
<1> QED BY <1>5, <1>7, <1>9, <1>10, ScriptsJoin

LEMMA SecondRoute ==
  ASSUME NEW x \in Tables \cup {"alembic_version"}
  PROVE  Leads(Upgrade2, 0, x, Made(x), Latest(x))
<1>1. Latest(x) = Eight(Upgrade2, x, Made(x))
  BY OthersAfter DEF Latest
<1> QED BY <1>1, LeadsThrough, Lengths

LEMMA RouteBack ==
  ASSUME NEW x \in Tables \cup {"alembic_version"}
  PROVE  Leads(Downgrade2, 0, x, Latest(x), Made(x))
<1>1. Made(x) = Eight(Downgrade2, x, Latest(x))
  <2>1. CASE x = "alembic_version"
    BY <2>1, OthersAfter DEF Made
  <2>2. CASE x \in Unchanging
    <3>1. Eight(Downgrade2, x, Latest(x)) = Latest(x)
      BY <2>2, OthersAfter DEF Unchanging
    <3> QED BY <2>2, <3>1, UnchangingShapes
  <2> QED BY <2>1, <2>2, OrganizationsRenamed, SubscriptionsRenamed, TableNames DEF Unchanging
<1> QED BY <1>1, LeadsThrough, Lengths

(* Every script of a migration leads from its revision to its goal. *)
LEMMA Route ==
  ASSUME NEW p, Running(p), Migrates(p), NEW x \in Tables \cup {"alembic_version"}
  PROVE  Leads(Steps(p), 0, x, Catalog(p.rev, x), Catalog(Goal(p), x))
<1>1. p.plan \in {"up", "down"} /\ p.rev \in DOMAIN Plans[p.plan]
  BY DEF Running, Plans, Migrates
<1>2. CASE p.plan = "up" /\ p.rev = "base"
  <2>1. Steps(p) = Upgrade1 \o Upgrade2
    BY <1>1, <1>2 DEF Steps, Plans
  <2>2. Script(Upgrade2, Building)
    BY Upgrade2_Script DEF Script, Building
  <2>3. Leads(Upgrade1 \o Upgrade2, 0, x, Base(x), Latest(x))
    BY <2>2, Upgrade1_Script, FirstRoute, SecondRoute, ScriptsJoin
  <2> QED BY <1>2, <2>1, <2>3 DEF Catalog, Goal
<1>3. CASE p.plan = "up" /\ p.rev # "base"
  <2>1. Steps(p) = Upgrade2 /\ p.rev = "0001"
    BY <1>1, <1>3 DEF Steps, Plans
  <2> QED BY <1>3, <2>1, SecondRoute DEF Catalog, Goal
<1>4. CASE p.plan = "down"
  <2>1. Steps(p) = Downgrade2 /\ p.rev = "0002"
    BY <1>1, <1>4 DEF Steps, Plans, Migrates, Drops
  <2> QED BY <1>4, <2>1, RouteBack DEF Catalog, Goal
<1> QED BY <1>1, <1>2, <1>3, <1>4

-----------------------------------------------------------------------------
(* The third part: processes between revisions.  What a catalog has of an   *)
(* object.                                                                  *)
Now(v, x) == IF x \notin DOMAIN v THEN Nothing
             ELSE IF x = "alembic_version" THEN v[x] ELSE Bare(v[x])

Objects == Tables \cup DOMAIN Labels \cup {"alembic_version"}

Tracked == Tables \cup {"alembic_version"}

Noted ==
  /\ "alembic_version" \in DOMAIN db /\ DOMAIN db \subseteq Objects
  /\ db["alembic_version"] \in {"base", "0001", "0002"}
  /\ db["alembic_version"] = "base" => DOMAIN db = {"alembic_version"}
  /\ \A t \in Tables : Now(db, t) = Catalog(db["alembic_version"], t)

(* A migration under way has found the revision it left from, and what it   *)
(* has not done yet leads from what it sees to the tables of its goal.      *)
UnderWay(p) ==
  /\ p.rev = db["alembic_version"]
  /\ \A x \in Tracked : Leads(Steps(p), p.at - 1, x, Now(View(p), x), Catalog(Goal(p), x))

OnRoute(p) ==
  /\ DOMAIN p.mine \subseteq Objects
  /\ p.at = 1 => p.locks = {}
  /\ "alembic_version" \in p.locks =>
       "alembic_version" \in DOMAIN p.mine /\ p.rev = db["alembic_version"]
  /\ Migrates(p) /\ p.at > 1 => UnderWay(p)
  /\ Drops(p) =>
       /\ \A s \in Done(p) : s.op = "dropType" => s.t \notin DOMAIN p.mine
       /\ "alembic_version" \in p.locks => p.mine["alembic_version"] = "base"
  /\ p.plan = "seed" => \A t \in Tables \cap DOMAIN p.mine : Bare(p.mine[t]) = Bare(db[t])

RevInv == Noted /\ \A w \in Workers : proc[w] # Idle => OnRoute(proc[w])

-----------------------------------------------------------------------------
(* What a statement changes does not depend on the rows.                    *)
LEMMA BareFields ==
  ASSUME NEW table, DOMAIN table = Fields
  PROVE  /\ DOMAIN Bare(table) = Fields /\ Bare(table).cols = table.cols
         /\ Bare(table).null = table.null /\ Bare(table).refs = table.refs
         /\ Bare(table).enums = table.enums /\ Bare(table).index = table.index
         /\ Bare(table).filled = {} /\ Bare(table).rows = {}
BY DEF Bare, Fields

LEMMA BareChanged ==
  ASSUME NEW s, NEW table, NEW who, DOMAIN table = Fields,
         s.op \in {"index", "dropIndex", "rename"}
  PROVE  Bare(Changed(s, table, who)) = Changed(s, Bare(table), "app")
<1>1. CASE s.op = "index"
  BY <1>1 DEF Changed, Bare, Fields
<1>2. CASE s.op = "dropIndex"
  BY <1>2 DEF Changed, Bare, Fields
<1>3. CASE s.op = "rename"
  BY <1>3 DEF Changed, Renamed, Bare, Fields
<1> QED BY <1>1, <1>2, <1>3

LEMMA BareStored ==
  ASSUME NEW table, NEW keys, NEW who, DOMAIN table = Fields
  PROVE  Bare(Stored(table, keys, who)) = Bare(table)
BY DEF Stored, Bare, Fields

LEMMA NotATable ==
  "alembic_version" \notin Tables \cup DOMAIN Labels /\ Tables \cap DOMAIN Labels = {}
BY TableNames DEF Labels

(* What a statement makes of an object is what After says.                  *)
LEMMA EffectOn ==
  ASSUME NEW s, NEW v, NEW who, NEW x \in Tracked, Sound(s), Legal(s, v), WellFormed(v),
         s.op \in Building, "alembic_version" \in DOMAIN v
  PROVE  Now(Effect(s, v, who), x) = After(s, x, Now(v, x))
<1> DEFINE e == Effect(s, v, who)
<1>1. CASE s.t # x
  <2>1. After(s, x, Now(v, x)) = Now(v, x)
    BY <1>1 DEF After
  <2>2. /\ x \in DOMAIN e <=> x \in DOMAIN v
        /\ x \in DOMAIN v => e[x] = v[x]
    <3>1. CASE s.op = "create"
      <4>1. e = Over([o \in {s.t} |-> s.table], Over(Only(Labels, TypesOf(s.table)), v))
        BY <3>1 DEF Effect
      <4>2. x \notin DOMAIN Labels
        BY NotATable DEF Tracked
      <4> HIDE DEF e
      <4> QED BY <1>1, <4>1, <4>2 DEF Over, Only
    <3>2. CASE s.op # "create"
      <4>1. \E y : e = [v EXCEPT ![s.t] = y]
        <5>1. CASE s.op = "stamp"
          BY <5>1 DEF Effect
        <5>2. CASE s.op \in {"index", "dropIndex", "rename"}
          BY <5>2 DEF Effect
        <5> QED BY <3>2, <5>1, <5>2 DEF Building, Renaming
      <4> HIDE DEF e
      <4> QED BY <1>1, <4>1
    <3> QED BY <3>1, <3>2
  <2> HIDE DEF e
  <2>3. Now(e, x) = Now(v, x)
    BY <2>2 DEF Now
  <2> QED BY <2>1, <2>3 DEF e
<1>2. CASE s.t = x /\ s.op = "create"
  <2>1. x \in Tables /\ x # "alembic_version"
    BY <1>2, NotATable DEF Sound
  <2>2. Adds(s, v, e)
    BY <1>2, CreateDoes, Zenon
  <2> HIDE DEF e
  <2>3. Now(e, x) = Bare(s.table)
    BY <1>2, <2>1, <2>2 DEF Now, Adds
  <2>4. After(s, x, Now(v, x)) = Bare(s.table)
    BY <1>2 DEF After
  <2> QED BY <2>3, <2>4 DEF e
<1>3. CASE s.t = x /\ s.op = "stamp"
  <2>1. x = "alembic_version" /\ e = [v EXCEPT ![x] = s.to]
    BY <1>3 DEF Sound, Effect
  <2> HIDE DEF e
  <2>2. Now(e, x) = s.to
    BY <2>1 DEF Now
  <2>3. After(s, x, Now(v, x)) = s.to
    BY <1>3 DEF After
  <2> QED BY <2>2, <2>3 DEF e
<1>4. CASE s.t = x /\ s.op \in {"index", "dropIndex", "rename"}
  <2>1. x \in Tables /\ x # "alembic_version" /\ x \in DOMAIN v
    BY <1>4, NotATable DEF Sound, Legal
  <2>2. e = [v EXCEPT ![x] = Changed(s, v[x], who)]
    BY <1>4 DEF Effect
  <2> HIDE DEF e
  <2>3. PICK table : table = v[x]
    OBVIOUS
  <2>4. DOMAIN table = Fields
    BY <2>1, <2>3 DEF WellFormed
  <2>5. Now(e, x) = Bare(Changed(s, table, who))
    BY <2>1, <2>2, <2>3 DEF Now
  <2>6. Bare(Changed(s, table, who)) = Changed(s, Bare(table), "app")
    BY <1>4, <2>4, BareChanged
  <2>7. Now(v, x) = Bare(table)
    BY <2>1, <2>3 DEF Now
  <2>8. \A y : After(s, x, y) = Changed(s, y, "app")
    BY <1>4 DEF After
  <2> QED BY <2>5, <2>6, <2>7, <2>8 DEF e
<1> QED BY <1>1, <1>2, <1>3, <1>4 DEF Building, Renaming

(* What the statement leaves to the process is what it made.                *)
LEMMA EffectSeen ==
  ASSUME WellFormed(db), "alembic_version" \in DOMAIN db,
         NEW w, NEW p, NEW q, NEW s, NEW v, NEW e, Advances(w, p, q, s, v, e),
         s.op \in Building, "alembic_version" \in DOMAIN v, NEW x \in Tracked
  PROVE  Now(View(q), x) = After(s, x, Now(v, x))
<1>1. /\ Sound(s) /\ Legal(s, v) /\ WellFormed(v) /\ e = Effect(s, v, w)
      /\ DOMAIN q.mine \subseteq q.locks /\ s.t \in q.locks
  <2>1. Sound(s)
    BY Scripted
  <2>2. Legal(s, v) /\ e = Effect(s, v, w)
    BY DEF Advances
  <2>3. WellFormed(v)
    BY StaysWellFormed
  <2>4. DOMAIN q.mine \subseteq q.locks /\ s.t \in q.locks
    BY DEF Advances, Only, Locks
  <2> QED BY <2>1, <2>2, <2>3, <2>4
<1>2. Now(e, x) = After(s, x, Now(v, x))
  BY <1>1, EffectOn
<1>3. CASE x \in q.locks
  <2>1. Now(View(q), x) = Now(e, x)
    BY <1>1, <1>3, Copied, Seen DEF Now
  <2> QED BY <1>2, <2>1
<1>4. CASE x \notin q.locks
  <2>1. x # s.t /\ x \notin p.locks
    BY <1>1, <1>4, Copied
  <2>2. After(s, x, Now(v, x)) = Now(v, x)
    BY <2>1 DEF After
  <2>3. Now(View(q), x) = Now(db, x)
    BY <1>1, <1>4, Seen DEF Now
  <2>4. Now(v, x) = Now(db, x)
    BY <2>1, Copied DEF Now
  <2> QED BY <2>2, <2>3, <2>4
<1> QED BY <1>3, <1>4

(* A migration's first statement, and that it has one for the version. *)
LEMMA Endpoints ==
  ASSUME NEW p, Running(p), p.plan # "seed"
  PROVE  /\ Has(Steps(p), "stamp", "alembic_version")
         /\ Migrates(p) =>
              \/ p.rev = "base" /\ Steps(p)[1] = CreateUsers[1]
              \/ p.rev = "0001" /\ Steps(p)[1] = Upgrade2[1]
              \/ p.rev = "0002" /\ Steps(p)[1] = Downgrade2[1]
<1>1. p.plan \in {"up", "down"} /\ p.rev \in DOMAIN Plans[p.plan]
  BY DEF Running, Plans
<1>2. Has(Upgrade2, "stamp", "alembic_version")
  <2>1. Upgrade2[8].op = "stamp" /\ Upgrade2[8].t = "alembic_version" /\ 8 \in 1 .. Len(Upgrade2)
    BY Lengths DEF Upgrade2, Stamp
  <2> QED BY <2>1 DEF Has
<1>3. CASE p.plan = "up" /\ p.rev = "base"
  <2>1. Steps(p) = Upgrade1 \o Upgrade2
    BY <1>1, <1>3 DEF Steps, Plans
  <2>2. Script(Upgrade2, Building)
    BY Upgrade2_Script DEF Script, Building
  <2>3. Has(Upgrade1 \o Upgrade2, "stamp", "alembic_version")
    BY <1>2, <2>2, Upgrade1_Script, Joined
  <2>4. Starts(Upgrade1 \o Upgrade2, CreateUsers[1])
    BY <2>2, Upgrade1_Script, Joined
  <2> QED BY <1>3, <2>1, <2>3, <2>4 DEF Starts
<1>4. CASE p.plan = "up" /\ p.rev # "base"
  <2>1. Steps(p) = Upgrade2 /\ p.rev = "0001"
    BY <1>1, <1>4 DEF Steps, Plans
  <2> QED BY <1>2, <2>1
<1>5. CASE p.plan = "down" /\ p.rev = "0001"
  <2>1. Steps(p) = Downgrade1 /\ ~Migrates(p)
    BY <1>1, <1>5 DEF Steps, Plans, Migrates, Drops
  <2>2. /\ Len(Downgrade1) = 13
        /\ Downgrade1[13].op = "stamp" /\ Downgrade1[13].t = "alembic_version"
    BY DEF Downgrade1, DropTables, Stamp
  <2>3. 13 \in 1 .. Len(Downgrade1)
    BY <2>2
  <2> QED BY <2>1, <2>2, <2>3 DEF Has
<1>6. CASE p.plan = "down" /\ p.rev # "0001"
  <2>1. Steps(p) = Downgrade2 /\ p.rev = "0002"
    BY <1>1, <1>6 DEF Steps, Plans
  <2>2. /\ Downgrade2[8].op = "stamp" /\ Downgrade2[8].t = "alembic_version"
        /\ 8 \in 1 .. Len(Downgrade2)
    BY Lengths DEF Downgrade2, Stamp
  <2> QED BY <2>1, <2>2 DEF Has
<1> QED BY <1>1, <1>3, <1>4, <1>5, <1>6

(* The table that the first statement of a migration locks.                 *)
KeyTable(rev) == CASE rev = "base" -> "users"
                   [] rev = "0001" -> "organizations"
                   [] OTHER        -> "subscriptions"

LEMMA FirstLocks ==
  ASSUME NEW p, Running(p), Migrates(p)
  PROVE  Steps(p)[1].t = KeyTable(p.rev) /\ p.rev \in {"base", "0001", "0002"}
<1>1. /\ CreateUsers[1].t = "users" /\ Upgrade2[1].t = "organizations"
      /\ Downgrade2[1].t = "subscriptions"
  BY DEF CreateUsers, Create, Upgrade2, Downgrade2, Rename
<1> QED BY <1>1, Endpoints DEF Migrates, KeyTable

LEMMA TableThere ==
  ASSUME Noted, WellFormed(db), NEW t \in Tables, t \in DOMAIN db
  PROVE  /\ db["alembic_version"] \in {"0001", "0002"}
         /\ Catalog(db["alembic_version"], t) = Bare(db[t])
         /\ Catalog(db["alembic_version"], t).cols = db[t].cols
<1>1. t # "alembic_version"
  BY NotATable
<1>2. db["alembic_version"] # "base"
  BY <1>1 DEF Noted
<1>3. Now(db, t) = Bare(db[t]) /\ DOMAIN db[t] = Fields
  BY <1>1 DEF Now, WellFormed
<1> QED BY <1>2, <1>3, BareFields DEF Noted

(* It is legal at the revision only that the migration found.               *)
LEMMA FirstAllowed ==
  ASSUME Noted, WellFormed(db), NEW p, Running(p), Migrates(p), p.locks = {},
         NEW v, v = View(p), Legal(Steps(p)[1], v)
  PROVE  p.rev = db["alembic_version"]
<1>1. \A x : (x \in DOMAIN v <=> x \in DOMAIN db) /\ (x \in DOMAIN db => v[x] = db[x])
  BY Seen DEF Running
<1>2. CASE p.rev = "base" /\ Steps(p)[1] = CreateUsers[1]
  <2>1. CreateUsers[1].op = "create" /\ CreateUsers[1].t = "users"
    BY DEF CreateUsers, Create
  <2>2. "users" \notin DOMAIN db
    BY <1>1, <1>2, <2>1 DEF Legal
  <2>3. "users" \in Tables /\ "users" \in Unchanging
    BY TableNames DEF Unchanging
  <2>4. Catalog(db["alembic_version"], "users") = Nothing
    BY <2>2, <2>3 DEF Noted, Now
  <2>5. DOMAIN Made("users") = Fields /\ Latest("users") = Made("users")
    BY <2>3, UsersMade, UnchangingShapes
  <2>6. DOMAIN Nothing # Fields
    BY DEF Nothing, Fields
  <2> QED BY <1>2, <2>4, <2>5, <2>6 DEF Catalog, Noted
<1>3. CASE p.rev = "0001" /\ Steps(p)[1] = Upgrade2[1]
  <2> DEFINE t == "organizations"
  <2>1. /\ Upgrade2[1].op = "rename" /\ Upgrade2[1].t = t
        /\ Upgrade2[1].new = "paystack_customer_id"
    BY DEF Upgrade2, Rename
  <2>2. t \in DOMAIN v /\ "paystack_customer_id" \notin v[t].cols
    BY <1>3, <2>1 DEF Legal
  <2>3. t \in DOMAIN db /\ "paystack_customer_id" \notin db[t].cols
    BY <1>1, <2>2
  <2>4. Latest(t) = OrganizationsWith("paystack_customer_id")
    BY OrganizationsRenamed
  <2>5. "paystack_customer_id" \in Latest(t).cols
    BY <2>4 DEF OrganizationsWith, Rec
  <2>6. t \in Tables
    BY TableNames
  <2> QED BY <1>3, <2>3, <2>5, <2>6, TableThere DEF Catalog
<1>4. CASE p.rev = "0002" /\ Steps(p)[1] = Downgrade2[1]
  <2> DEFINE t == "subscriptions"
  <2>1. /\ Downgrade2[1].op = "rename" /\ Downgrade2[1].t = t
        /\ Downgrade2[1].old = "paystack_plan_code"
    BY DEF Downgrade2, Rename
  <2>2. t \in DOMAIN v /\ "paystack_plan_code" \in v[t].cols
    BY <1>4, <2>1 DEF Legal
  <2>3. t \in DOMAIN db /\ "paystack_plan_code" \in db[t].cols
    BY <1>1, <2>2
  <2>4. Made(t) = SubscriptionsWith("stripe_subscription_id", "stripe_price_id")
    BY SubscriptionsMade
  <2>5. "paystack_plan_code" \notin Made(t).cols
    BY <2>4 DEF SubscriptionsWith, Rec
  <2>6. t \in Tables
    BY TableNames
  <2> QED BY <1>4, <2>3, <2>5, <2>6, TableThere DEF Catalog
<1> QED BY <1>2, <1>3, <1>4, Endpoints DEF Migrates

LEMMA LeavingStamp ==
  ASSUME NEW p, Running(p), Drops(p), NEW i \in 1 .. Len(Steps(p)), Steps(p)[i].op = "stamp"
  PROVE  Steps(p)[i].from = "0001" /\ Steps(p)[i].to = "base"
<1>1. Steps(p) = Downgrade1
  BY DEF Drops, Steps, Plans
<1>2. /\ Len(Downgrade1) = 13
      /\ \A j \in 1 .. 7 : Downgrade1[j].op = "drop"
      /\ \A j \in 8 .. 12 : Downgrade1[j].op = "dropType"
      /\ Downgrade1[13] = Stamp("0001", "base")
  <2>1. \A j \in 1 .. 7 : j = 1 \/ j = 2 \/ j = 3 \/ j = 4 \/ j = 5 \/ j = 6 \/ j = 7
    OBVIOUS
  <2>2. \A j \in 8 .. 12 : j = 8 \/ j = 9 \/ j = 10 \/ j = 11 \/ j = 12
    OBVIOUS
  <2> QED BY <2>1, <2>2 DEF Downgrade1, DropTables, Drop, DropType
<1>3. i \in 1 .. 7 \/ i \in 8 .. 12 \/ i = 13
  BY <1>1, <1>2
<1> QED BY <1>1, <1>2, <1>3 DEF Stamp

(* The objects of a statement, and what it makes of the version.            *)
LEMMA StaysAnObject ==
  ASSUME NEW s, NEW v, NEW who, Sound(s), Legal(s, v), DOMAIN v \subseteq Objects,
         "alembic_version" \in DOMAIN v, s.op \in Building \cup Clearing \cup {"insert"}
  PROVE  /\ DOMAIN Effect(s, v, who) \subseteq Objects
         /\ "alembic_version" \in DOMAIN Effect(s, v, who)
<1> DEFINE e == Effect(s, v, who)
<1>1. CASE s.op = "create"
  <2>1. e = Over([o \in {s.t} |-> s.table], Over(Only(Labels, TypesOf(s.table)), v))
    BY <1>1 DEF Effect
  <2>2. s.t \in Tables
    BY <1>1 DEF Sound
  <2> HIDE DEF e
  <2>3. DOMAIN e \subseteq Objects /\ "alembic_version" \in DOMAIN e
    BY <2>1, <2>2 DEF Over, Only, Objects
  <2> QED BY <2>3 DEF e
<1>2. CASE s.op = "drop" \/ s.op = "dropType"
  <2>1. Removes(s, v, e)
    BY <1>2, DropDoes, Zenon
  <2>2. s.t # "alembic_version"
    BY <1>2, NotATable DEF Sound
  <2> HIDE DEF e
  <2>3. DOMAIN e \subseteq Objects /\ "alembic_version" \in DOMAIN e
    BY <2>1, <2>2 DEF Removes
  <2> QED BY <2>3 DEF e
<1>3. CASE s.op = "stamp"
  <2>1. Stamps(v, e)
    BY <1>3, StampDoes, Zenon
  <2> HIDE DEF e
  <2>2. DOMAIN e \subseteq Objects /\ "alembic_version" \in DOMAIN e
    BY <2>1 DEF Stamps
  <2> QED BY <2>2 DEF e
<1>4. CASE s.op \in {"index", "dropIndex", "rename", "insert"}
  <2>1. e = [v EXCEPT ![s.t] = Changed(s, v[s.t], who)]
    BY <1>4 DEF Effect
  <2> HIDE DEF e
  <2>2. DOMAIN e \subseteq Objects /\ "alembic_version" \in DOMAIN e
    BY <2>1
  <2> QED BY <2>2 DEF e
<1> QED BY <1>1, <1>2, <1>3, <1>4 DEF Building, Renaming, Clearing

(* Only a stamp locks the version.                                          *)
LEMMA LocksVersion ==
  ASSUME NEW s, NEW v, Sound(s), Legal(s, v), WellFormed(v), "alembic_version" \in Locks(s, v),
         s.op \in Building \cup Clearing \cup {"insert"}
  PROVE  s.op = "stamp" /\ s.t = "alembic_version" /\ v["alembic_version"] = s.from
<1>1. s.t = "alembic_version"
  <2>1. CASE s.op = "create"
    <3>1. Locks(s, v) = {s.t} \cup Targets(s.table) \cup TypesOf(s.table)
      BY <2>1 DEF Locks
    <3> QED BY <2>1, <3>1, NotATable DEF Sound
  <2>2. CASE s.op = "drop"
    <3>1. s.t \in Tables /\ s.t \in DOMAIN v
      BY <2>2 DEF Sound, Legal
    <3>2. Locks(s, v) = {s.t} \cup Targets(v[s.t]) /\ Targets(v[s.t]) \subseteq Tables
      BY <2>2, <3>1 DEF Locks, WellFormed
    <3> QED BY <3>1, <3>2, NotATable
  <2>3. CASE s.op \notin {"create", "drop"}
    BY <2>3 DEF Locks
  <2> QED BY <2>1, <2>2, <2>3
<1>2. s.op = "stamp"
  BY <1>1, NotATable DEF Sound, Building, Renaming, Clearing, Seeded
<1> QED BY <1>1, <1>2 DEF Legal

LEMMA Versions ==
  ASSUME Noted
  PROVE  \A x \in Tracked : Now(db, x) = Catalog(db["alembic_version"], x)
<1>1. Now(db, "alembic_version") = db["alembic_version"]
  BY DEF Noted, Now
<1>2. Catalog(db["alembic_version"], "alembic_version") = db["alembic_version"]
  BY DEF Noted, Catalog, Base, Made, Latest
<1> QED BY <1>1, <1>2 DEF Noted, Tracked

(* What the process sees has the objects of the database, and the version.  *)
LEMMA SeesObjects ==
  ASSUME Noted, NEW p, DOMAIN p.mine \subseteq p.locks, OnRoute(p)
  PROVE  /\ DOMAIN View(p) \subseteq Objects /\ "alembic_version" \in DOMAIN View(p)
         /\ "alembic_version" \notin p.locks =>
              View(p)["alembic_version"] = db["alembic_version"]
<1>1. \A x \in DOMAIN View(p) : x \in DOMAIN p.mine \/ x \in DOMAIN db
  BY Seen
<1>2. "alembic_version" \in DOMAIN View(p)
  BY Seen DEF OnRoute, Noted
<1>3. "alembic_version" \notin p.locks => View(p)["alembic_version"] = db["alembic_version"]
  BY Seen DEF Noted
<1> QED BY <1>1, <1>2, <1>3 DEF OnRoute, Noted

LEMMA MigrationMoves ==
  ASSUME Committed, Noted, NEW w \in Workers, NEW p, NEW q, NEW s, NEW v, NEW e,
         Advances(w, p, q, s, v, e), OnRoute(p), Migrates(p)
  PROVE  UnderWay(q)
<1>1. /\ Running(p) /\ DOMAIN p.mine \subseteq p.locks /\ v = View(p) /\ Legal(s, v)
      /\ s = Steps(p)[p.at] /\ q.at = p.at + 1 /\ q.rev = p.rev /\ q.plan = p.plan
      /\ Goal(q) = Goal(p) /\ WellFormed(db)
  BY DEF Advances, Sane, Running, Goal, Committed
<1>2. /\ Sound(s) /\ s.op \in Building /\ p.at \in 1 .. Len(Steps(p)) /\ Steps(q) = Steps(p)
      /\ Len(Steps(p)) \in Nat
  <2>1. Len(Steps(p)) \in Nat
    BY <1>1, Scripts DEF Script
  <2>2. s.op \notin {"drop", "dropType", "insert"}
    BY Scripted DEF Migrates
  <2> QED BY <2>1, <2>2, Scripted DEF Building, Renaming, Clearing
<1>3. /\ p.rev = db["alembic_version"]
      /\ \A x \in Tracked : Leads(Steps(p), p.at - 1, x, Now(v, x), Catalog(Goal(p), x))
  <2>1. CASE p.at > 1
    BY <1>1, <2>1 DEF OnRoute, UnderWay
  <2>2. CASE ~(p.at > 1)
    <3>1. p.at = 1 /\ p.at - 1 = 0 /\ p.locks = {}
      BY <1>2, <2>2 DEF OnRoute
    <3>2. p.rev = db["alembic_version"]
      BY <1>1, <3>1, FirstAllowed
    <3>3. ASSUME NEW x \in Tracked PROVE Now(v, x) = Catalog(p.rev, x)
      <4>1. Now(v, x) = Now(db, x)
        BY <1>1, <3>1, Seen DEF Now
      <4> QED BY <3>2, <4>1, Versions
    <3>4. \A x \in Tracked : Leads(Steps(p), 0, x, Catalog(p.rev, x), Catalog(Goal(p), x))
      BY <1>1, Route DEF Tracked
    <3> QED BY <3>1, <3>2, <3>3, <3>4
  <2> QED BY <2>1, <2>2
<1>4. "alembic_version" \in DOMAIN v /\ "alembic_version" \in DOMAIN db
  BY <1>1, SeesObjects DEF Noted
<1>5. ASSUME NEW x \in Tracked
      PROVE  Leads(Steps(q), q.at - 1, x, Now(View(q), x), Catalog(Goal(q), x))
  <2>1. Now(View(q), x) = After(s, x, Now(v, x))
    BY <1>1, <1>2, <1>4, EffectSeen
  <2> PICK n : n = p.at - 1
    OBVIOUS
  <2>2. n \in Nat /\ n < Len(Steps(p)) /\ n + 1 = p.at /\ q.at - 1 = n + 1
    BY <1>1, <1>2
  <2>3. Leads(Steps(p), n, x, Now(v, x), Catalog(Goal(p), x))
    BY <1>3
  <2>4. Leads(Steps(p), n + 1, x, After(Steps(p)[n + 1], x, Now(v, x)), Catalog(Goal(p), x))
    BY <1>2, <2>2, <2>3, LeadsOn
  <2> QED BY <1>1, <1>2, <2>1, <2>2, <2>4
<1> QED BY <1>1, <1>3, <1>5 DEF UnderWay

LEMMA VersionLocked ==
  ASSUME Committed, Noted, NEW w \in Workers, NEW p, NEW q, NEW s, NEW v, NEW e,
         Advances(w, p, q, s, v, e), OnRoute(p), "alembic_version" \in q.locks
  PROVE  /\ "alembic_version" \in DOMAIN q.mine /\ q.rev = db["alembic_version"]
         /\ Drops(q) => q.mine["alembic_version"] = "base"
<1> DEFINE ver == "alembic_version"
<1>1. /\ Running(p) /\ DOMAIN p.mine \subseteq p.locks /\ v = View(p) /\ Legal(s, v)
      /\ s = Steps(p)[p.at] /\ q.rev = p.rev /\ q.plan = p.plan /\ WellFormed(db)
      /\ e = Effect(s, v, w) /\ q.locks = p.locks \cup Locks(s, v)
      /\ (Drops(q) <=> Drops(p)) /\ WellFormed(p.mine)
  BY DEF Advances, Sane, Running, Committed, Drops
<1>2. /\ Sound(s) /\ s.op \in Building \cup Clearing \cup {"insert"}
      /\ p.at \in 1 .. Len(Steps(p)) /\ WellFormed(v)
  BY <1>1, Scripted, StaysWellFormed
<1>3. DOMAIN v \subseteq Objects /\ ver \in DOMAIN v /\ (ver \notin p.locks => v[ver] = db[ver])
  BY <1>1, SeesObjects
<1>4. ver \in DOMAIN e /\ ver \in DOMAIN q.mine /\ q.mine[ver] = e[ver]
  BY <1>1, <1>2, <1>3, StaysAnObject, Copied
<1>5. ver \notin p.locks => s.op = "stamp" /\ s.t = ver /\ v[ver] = s.from
  BY <1>1, <1>2, LocksVersion
<1>6. q.rev = db[ver]
  <2>1. CASE ver \in p.locks
    BY <1>1, <2>1 DEF OnRoute
  <2>2. CASE ver \notin p.locks /\ Drops(p)
    <3>1. s.from = "0001"
      BY <1>1, <1>2, <1>5, <2>2, LeavingStamp
    <3> QED BY <1>1, <1>3, <1>5, <2>2, <3>1 DEF Drops
  <2>3. CASE ver \notin p.locks /\ ~Drops(p)
    <3>1. p.plan # "seed"
      BY <1>5, <2>3, Scripted
    <3>2. UnderWay(q)
      BY <2>3, <3>1, MigrationMoves DEF Migrates
    <3> QED BY <3>2 DEF UnderWay
  <2> QED BY <2>1, <2>2, <2>3
<1>7. ASSUME Drops(p) PROVE e[ver] = "base"
  <2>1. CASE s.op = "stamp"
    <3>1. s.to = "base" /\ s.t = ver
      BY <1>1, <1>2, <1>7, <2>1, LeavingStamp DEF Sound
    <3>2. e = [v EXCEPT ![ver] = s.to]
      BY <1>1, <2>1, <3>1 DEF Effect
    <3> QED BY <1>3, <3>1, <3>2
  <2>2. CASE s.op # "stamp"
    <3>1. ver \in p.locks /\ p.mine[ver] = "base" /\ v[ver] = "base"
      BY <1>1, <1>5, <1>7, <2>2, Seen DEF OnRoute
    <3>2. s.op = "drop" \/ s.op = "dropType"
      <4>1. s.op # "create" /\ s.op # "insert"
        BY <1>7, Scripted DEF Makes, Drops
      <4>2. s.op \notin {"index", "dropIndex", "rename"}
        <5>1. Steps(p) = Downgrade1
          BY <1>7 DEF Drops, Steps, Plans
        <5> QED BY <1>1, <1>2, <5>1, Downgrade1_Script DEF Script, Clearing
      <4> QED BY <1>2, <2>2, <4>1, <4>2 DEF Building, Renaming, Clearing
    <3>3. Removes(s, v, e)
      BY <1>1, <3>2, DropDoes, Zenon
    <3> QED BY <1>4, <3>1, <3>3 DEF Removes
  <2> QED BY <2>1, <2>2
<1> QED BY <1>1, <1>4, <1>6, <1>7

LEMMA TypesDropped ==
  ASSUME Committed, NEW w \in Workers, NEW p, NEW q, NEW s, NEW v, NEW e,
         Advances(w, p, q, s, v, e), OnRoute(p), Drops(p), NEW r \in Done(q), r.op = "dropType"
  PROVE  r.t \notin DOMAIN q.mine
<1>1. /\ Running(p) /\ Held(p) /\ Done(q) = Done(p) \cup {s} /\ ~Makes(p) /\ p.plan # "seed"
      /\ Sound(s) /\ s.op \in Building \cup Clearing \cup {"insert"} /\ s.op # "create"
      /\ s.op # "insert"
  <2>1. Running(p) /\ Held(p)
    BY DEF Advances, Sane
  <2>2. ~Makes(p) /\ p.plan # "seed"
    BY DEF Makes, Drops
  <2> QED BY <2>1, <2>2, Scripted
<1>2. r.t \in DOMAIN q.mine => r.t \in DOMAIN e
  BY Copied
<1>3. CASE r = s
  <2>1. Removes(s, v, e)
    BY <1>3, TableMoves DEF Committed
  <2> QED BY <1>2, <1>3, <2>1 DEF Removes
<1>4. CASE r # s
  <2>1. r \in Done(p) /\ r.t \in p.locks /\ r.t \notin DOMAIN p.mine
    BY <1>1, <1>4 DEF Held, OnRoute
  <2>2. r.t \notin DOMAIN v
    BY <2>1, Copied
  <2>3. DOMAIN e \subseteq DOMAIN v
    <3>1. CASE s.op = "drop" \/ s.op = "dropType"
      <4>1. Removes(s, v, e)
        BY <3>1, TableMoves DEF Committed
      <4> QED BY <4>1 DEF Removes
    <3>2. CASE s.op = "stamp"
      <4>1. Stamps(v, e)
        BY <3>2, TableMoves DEF Committed
      <4> QED BY <4>1 DEF Stamps
    <3>3. CASE s.op \in {"index", "dropIndex", "rename"}
      <4>1. Alters(s, v, e, w)
        BY <3>3, TableMoves DEF Committed
      <4> QED BY <4>1 DEF Alters
    <3> QED BY <1>1, <3>1, <3>2, <3>3 DEF Building, Renaming, Clearing
  <2> QED BY <1>2, <2>2, <2>3
<1> QED BY <1>3, <1>4

LEMMA SeedsAlike ==
  ASSUME Committed, NEW w \in Workers, NEW p, NEW q, NEW s, NEW v, NEW e,
         Advances(w, p, q, s, v, e), OnRoute(p), p.plan = "seed",
         NEW t \in Tables, t \in DOMAIN q.mine
  PROVE  Bare(q.mine[t]) = Bare(db[t])
<1>1. /\ s.op = "insert" /\ q.mine[t] = e[t] /\ t \in DOMAIN e /\ e = Effect(s, v, w)
      /\ WellFormed(v)
  <2>1. s.op = "insert"
    BY Scripted
  <2>2. e = Effect(s, v, w) /\ WellFormed(db)
    BY DEF Advances, Committed
  <2>3. WellFormed(v)
    BY <2>2, StaysWellFormed
  <2>4. t \in q.locks /\ t \in DOMAIN e /\ q.mine[t] = e[t]
    BY Copied
  <2> QED BY <2>1, <2>2, <2>3, <2>4
<1>2. Alters(s, v, e, w)
  BY <1>1, TableMoves DEF Committed
<1>3. t \in DOMAIN v
  BY <1>1, <1>2 DEF Alters
<1>4. Bare(v[t]) = Bare(db[t])
  BY <1>3, Copied DEF OnRoute
<1>5. CASE t # s.t
  BY <1>1, <1>2, <1>3, <1>4, <1>5 DEF Alters
<1>6. CASE t = s.t
  <2>1. e = [v EXCEPT ![t] = Stored(v[t], s.keys, w)]
    BY <1>1, <1>6 DEF Effect, Changed
  <2>2. PICK table : table = v[t]
    OBVIOUS
  <2>3. e[t] = Stored(table, s.keys, w) /\ DOMAIN table = Fields
    BY <1>1, <1>3, <2>1, <2>2 DEF WellFormed
  <2> QED BY <1>1, <1>4, <2>2, <2>3, BareStored
<1> QED BY <1>5, <1>6

LEMMA StillOnRoute ==
  ASSUME Committed, Noted, NEW w \in Workers, NEW p, NEW q, NEW s, NEW v, NEW e,
         Advances(w, p, q, s, v, e), OnRoute(p)
  PROVE  OnRoute(q)
<1>1. /\ Running(p) /\ DOMAIN p.mine \subseteq p.locks /\ v = View(p) /\ Legal(s, v)
      /\ q.plan = p.plan /\ q.rev = p.rev /\ q.at = p.at + 1 /\ e = Effect(s, v, w)
      /\ (Drops(q) <=> Drops(p)) /\ (Migrates(q) <=> Migrates(p)) /\ q.mine = Only(e, q.locks)
  BY DEF Advances, Sane, Running, Drops, Migrates
<1>2. /\ Sound(s) /\ s.op \in Building \cup Clearing \cup {"insert"}
      /\ p.at \in 1 .. Len(Steps(p))
  BY Scripted
<1>3. DOMAIN q.mine \subseteq Objects
  <2>1. DOMAIN v \subseteq Objects /\ "alembic_version" \in DOMAIN v
    BY <1>1, SeesObjects
  <2>2. DOMAIN e \subseteq Objects
    BY <1>1, <1>2, <2>1, StaysAnObject
  <2> QED BY <1>1, <2>2 DEF Only
<1>4. q.at # 1
  <2>1. p.at \in Nat /\ p.at >= 1
    BY <1>2
  <2> QED BY <1>1, <2>1
<1>5. Migrates(q) => UnderWay(q)
  BY <1>1, MigrationMoves
<1>6. Drops(q) => \A r \in Done(q) : r.op = "dropType" => r.t \notin DOMAIN q.mine
  BY <1>1, TypesDropped
<1>7. q.plan = "seed" => \A t \in Tables \cap DOMAIN q.mine : Bare(q.mine[t]) = Bare(db[t])
  BY <1>1, SeedsAlike
<1> QED BY <1>3, <1>4, <1>5, <1>6, <1>7, VersionLocked DEF OnRoute

(* The steps of the whole: one process moves on, the database stays.        *)
LEMMA RouteOneMoves ==
  ASSUME IInv, RevInv, NEW w \in Workers, NEW q, Set(w, q), UNCHANGED db,
         q # Idle => OnRoute(q)
  PROVE  RevInv'
<1>1. proc'[w] = q /\ \A u \in Workers \ {w} : proc'[u] = proc[u]
  BY DEF Set, IInv
<1>2. Noted'
  BY DEF RevInv, Noted, Now
<1>3. ASSUME NEW u \in Workers, proc'[u] # Idle PROVE OnRoute(proc[u])'
  <2>1. PICK r : r = proc'[u]
    OBVIOUS
  <2>2. OnRoute(r)
    BY <1>1, <1>3, <2>1 DEF RevInv
  <2>3. View(r)' = View(r)
    BY DEF View
  <2>4. OnRoute(r)'
    BY <2>2, <2>3 DEF OnRoute, UnderWay
  <2> QED BY <2>1, <2>4 DEF OnRoute, UnderWay, View, Steps, Done, Drops, Migrates, Goal, Now
<1> QED BY <1>2, <1>3 DEF RevInv

LEMMA RouteBegins ==
  ASSUME IInv, RevInv, NEW w \in Workers, Begin(w)
  PROVE  RevInv'
<1>1. PICK plan \in DOMAIN Plans :
        /\ db["alembic_version"] \in DOMAIN Plans[plan]
        /\ Set(w, [Idle EXCEPT !.plan = plan, !.rev = db["alembic_version"], !.at = 1])
        /\ UNCHANGED db
  BY DEF Begin
<1>2. PICK q : q = [Idle EXCEPT !.plan = plan, !.rev = db["alembic_version"], !.at = 1]
  OBVIOUS
<1>3. q.at = 1 /\ q.locks = {} /\ DOMAIN q.mine = {}
  BY <1>2 DEF Idle, Nothing
<1>4. Done(q) = {}
  BY <1>3 DEF Done
<1>5. OnRoute(q)
  BY <1>3, <1>4 DEF OnRoute
<1> QED BY <1>1, <1>2, <1>5, RouteOneMoves

LEMMA RouteRuns ==
  ASSUME IInv, RevInv, NEW w \in Workers, Run(w)
  PROVE  RevInv'
<1>1. UNCHANGED db /\ proc[w] # Idle
  BY RunDoes DEF Run
<1>2. CASE Set(w, Idle)
  BY <1>1, <1>2, RouteOneMoves
<1>3. ASSUME NEW q, NEW s, NEW v, NEW e, Set(w, q), Advances(w, proc[w], q, s, v, e)
      PROVE  RevInv'
  <2>1. PICK p : p = proc[w]
    OBVIOUS
  <2>2. OnRoute(q)
    BY <1>1, <1>3, <2>1, StillOnRoute DEF IInv, RevInv
  <2> QED BY <1>1, <1>3, <2>2, RouteOneMoves
<1> QED BY <1>2, <1>3, RunDoes

(* What a process sees of a database d.                                     *)
ViewOf(p, d) == Over(p.mine, Only(d, DOMAIN d \ p.locks))

LEMMA NowSeen ==
  ASSUME NEW p, NEW d, DOMAIN p.mine \subseteq p.locks, NEW x
  PROVE  Now(ViewOf(p, d), x) = IF x \in p.locks THEN Now(p.mine, x) ELSE Now(d, x)
<1>1. DOMAIN ViewOf(p, d) = DOMAIN p.mine \cup (DOMAIN d \ p.locks)
  BY DEF ViewOf, Over, Only
<1>2. \A y \in DOMAIN ViewOf(p, d) :
        ViewOf(p, d)[y] = IF y \in DOMAIN p.mine THEN p.mine[y] ELSE d[y]
  BY DEF ViewOf, Over, Only
<1> QED BY <1>1, <1>2 DEF Now

LEMMA RouteUndisturbed ==
  ASSUME NEW p, Running(p), OnRoute(p), "alembic_version" \in DOMAIN db,
         \A x \in p.locks \cap DOMAIN db : db'[x] = db[x],
         p.plan = "seed" => Tables \cap DOMAIN p.mine \subseteq DOMAIN db,
         Migrates(p) /\ p.at > 1 => /\ db'["alembic_version"] = db["alembic_version"]
                                    /\ \A x \in Tracked : Now(db', x) = Now(db, x)
  PROVE  OnRoute(p)'
<1>1. DOMAIN p.mine \subseteq p.locks
  BY DEF Running
<1>2. (Migrates(p) /\ p.at > 1 => UnderWay(p))'
  <2> SUFFICES ASSUME Migrates(p), p.at > 1 PROVE UnderWay(p)'
    BY DEF Migrates, Drops
  <2>1. UnderWay(p)
    BY DEF OnRoute
  <2> PICK d : d = db'
    OBVIOUS
  <2>2. View(p) = ViewOf(p, db) /\ View(p)' = ViewOf(p, d)
    BY DEF View, ViewOf
  <2>3. \A x \in Tracked : Now(ViewOf(p, d), x) = Now(ViewOf(p, db), x)
    BY <1>1, NowSeen
  <2>4. \A x \in Tracked : Leads(Steps(p), p.at - 1, x, Now(ViewOf(p, d), x), Catalog(Goal(p), x))
    BY <2>1, <2>2, <2>3 DEF UnderWay
  <2>5. p.rev = d["alembic_version"]
    BY <2>1 DEF UnderWay
  <2> QED BY <2>2, <2>4, <2>5 DEF UnderWay, Steps, Goal
<1>3. "alembic_version" \in p.locks => db'["alembic_version"] = db["alembic_version"]
  OBVIOUS
<1>4. p.plan = "seed" => \A t \in Tables \cap DOMAIN p.mine : Bare(p.mine[t]) = Bare(db'[t])
  BY <1>1 DEF OnRoute
<1> QED BY <1>2, <1>3, <1>4 DEF OnRoute, Done, Steps, Drops

(* What a finished process leaves.                                          *)
LEMMA AllDropped ==
  ASSUME NEW p, Running(p), Drops(p)
  PROVE  /\ \A t \in Tables : Has(Steps(p), "drop", t)
         /\ \A e \in DOMAIN Labels : Has(Steps(p), "dropType", e)
<1>1. Steps(p) = Downgrade1
  BY DEF Drops, Steps, Plans
<1>2. /\ Len(Downgrade1) = 13
      /\ Downgrade1[1] = Drop("audit_logs") /\ Downgrade1[2] = Drop("notifications")
      /\ Downgrade1[3] = Drop("subscriptions") /\ Downgrade1[4] = Drop("invitations")
      /\ Downgrade1[5] = Drop("memberships") /\ Downgrade1[6] = Drop("organizations")
      /\ Downgrade1[7] = Drop("users")
      /\ Downgrade1[8] = DropType("oauthprovider") /\ Downgrade1[9] = DropType("plantier")
      /\ Downgrade1[10] = DropType("memberrole") /\ Downgrade1[11] = DropType("invitationstatus")
      /\ Downgrade1[12] = DropType("subscriptionstatus")
  BY DEF Downgrade1, DropTables
<1>3. \A t : /\ Drop(t).op = "drop" /\ Drop(t).t = t
             /\ DropType(t).op = "dropType" /\ DropType(t).t = t
  BY DEF Drop, DropType
<1>4. ASSUME NEW t \in Tables PROVE Has(Downgrade1, "drop", t)
  <2>1. \E i \in 1 .. 7 : Downgrade1[i] = Drop(t)
    BY <1>2, TableNames
  <2> QED BY <1>2, <1>3, <2>1 DEF Has
<1>5. ASSUME NEW t \in DOMAIN Labels PROVE Has(Downgrade1, "dropType", t)
  <2>1. \E i \in 8 .. 12 : Downgrade1[i] = DropType(t)
    BY <1>2 DEF Labels
  <2> QED BY <1>2, <1>3, <2>1 DEF Has
<1> QED BY <1>1, <1>4, <1>5

LEMMA EndsOnRoute ==
  ASSUME Committed, Noted, NEW w, NEW p, Sane(w, p), OnRoute(p), Finished(p)
  PROVE  /\ p.plan # "seed" => "alembic_version" \in p.locks
         /\ Migrates(p) => /\ KeyTable(p.rev) \in p.locks
                           /\ \A x \in Tracked : Now(View(p), x) = Catalog(Goal(p), x)
         /\ Drops(p) => /\ "organizations" \in p.locks
                        /\ DOMAIN View(p) = {"alembic_version"}
                        /\ View(p)["alembic_version"] = "base"
<1>1. /\ Running(p) /\ Held(p) /\ DOMAIN p.mine \subseteq p.locks
      /\ Len(Steps(p)) \in Nat /\ p.at \in 1 .. Len(Steps(p)) + 1
      /\ p.at > Len(Steps(p))
  <2>1. Running(p) /\ Held(p) /\ DOMAIN p.mine \subseteq p.locks
    BY DEF Sane, Running
  <2> QED BY <2>1, Scripts DEF Running, Script, Finished, Steps
<1>2. \A op, t : Has(Steps(p), op, t) => \E s \in Done(p) : s.op = op /\ s.t = t
  BY <1>1, AllDone
<1>3. p.plan # "seed" => "alembic_version" \in p.locks
  BY <1>1, <1>2, Endpoints DEF Held
<1>4. ASSUME Migrates(p)
      PROVE  /\ KeyTable(p.rev) \in p.locks
             /\ \A x \in Tracked : Now(View(p), x) = Catalog(Goal(p), x)
  <2>1. Len(Steps(p)) >= 1
    BY <1>1, <1>4, Endpoints DEF Has, Migrates
  <2>2. p.at - 1 = Len(Steps(p)) /\ p.at > 1 /\ 1 \in 1 .. p.at - 1
    BY <1>1, <2>1
  <2>3. KeyTable(p.rev) \in p.locks
    <3>1. Steps(p)[1] \in Done(p) /\ Steps(p)[1].t = KeyTable(p.rev)
      BY <1>1, <1>4, <2>2, FirstLocks DEF Done
    <3> QED BY <1>1, <3>1 DEF Held
  <2>4. \A x \in Tracked : Leads(Steps(p), Len(Steps(p)), x, Now(View(p), x), Catalog(Goal(p), x))
    BY <1>4, <2>2 DEF OnRoute, UnderWay
  <2> QED BY <2>3, <2>4 DEF Leads
<1>5. ASSUME Drops(p)
      PROVE  /\ "organizations" \in p.locks /\ DOMAIN View(p) = {"alembic_version"}
             /\ View(p)["alembic_version"] = "base"
  <2>1. ASSUME NEW x \in Tables \cup DOMAIN Labels PROVE x \in p.locks /\ x \notin DOMAIN p.mine
    <3>1. CASE x \in Tables
      BY <1>1, <1>2, <1>5, <3>1, AllDropped DEF Held
    <3>2. CASE x \in DOMAIN Labels
      BY <1>1, <1>2, <1>5, <3>2, AllDropped DEF Held, OnRoute
    <3> QED BY <3>1, <3>2
  <2>2. \A x \in Tables \cup DOMAIN Labels : x \notin DOMAIN View(p)
    BY <1>1, <2>1, Seen
  <2>3. DOMAIN View(p) = {"alembic_version"}
    BY <1>1, <2>2, SeesObjects DEF Objects
  <2>4. View(p)["alembic_version"] = "base"
    <3>1. "alembic_version" \in p.locks /\ "alembic_version" \in DOMAIN p.mine
          /\ p.mine["alembic_version"] = "base"
      BY <1>3, <1>5 DEF OnRoute, Drops
    <3> QED BY <1>1, <3>1, Seen
  <2>5. "organizations" \in p.locks
    BY <2>1, TableNames
  <2> QED BY <2>3, <2>4, <2>5
<1> QED BY <1>3, <1>4, <1>5

(* A seed leaves all definitions as they are.                               *)
LEMMA SeedEnds ==
  ASSUME Noted, NEW w, NEW p, Sane(w, p), OnRoute(p), p.plan = "seed"
  PROVE  /\ "alembic_version" \notin p.locks /\ DOMAIN View(p) \subseteq DOMAIN db
         /\ \A x \in Tracked : Now(View(p), x) = Now(db, x)
<1>1. /\ Running(p) /\ DOMAIN p.mine \subseteq p.locks /\ RowsOf(w, p)
      /\ p.locks = {s.t : s \in Done(p)}
  BY DEF Sane, Running, RowsOf
<1>2. p.locks \subseteq Tables /\ p.locks \subseteq DOMAIN p.mine /\ p.locks \subseteq DOMAIN db
  <2>1. \A s \in Done(p) : s.t \in Seeded
    <3>1. Steps(p) = Seed /\ Len(Seed) = 3 /\ \A i \in 1 .. 3 : Seed[i].t \in Seeded
      BY <1>1, SeedStatements
    <3>2. p.at \in 1 .. 4
      BY <1>1, <3>1 DEF Running
    <3> QED BY <3>1, <3>2 DEF Done
  <2>2. \A s \in Done(p) : s.t \in DOMAIN p.mine \cap DOMAIN db
    BY <1>1 DEF RowsOf
  <2> QED BY <1>1, <2>1, <2>2, TableNames DEF Seeded
<1>3. "alembic_version" \notin p.locks
  BY <1>2, NotATable
<1>4. DOMAIN View(p) \subseteq DOMAIN db
  BY <1>1, <1>2, Seen
<1>5. ASSUME NEW x \in Tracked PROVE Now(View(p), x) = Now(db, x)
  <2>1. CASE x \in p.locks
    <3>1. x \in DOMAIN p.mine /\ x \in DOMAIN View(p) /\ View(p)[x] = p.mine[x]
          /\ x \in DOMAIN db /\ x \in Tables /\ x # "alembic_version"
      BY <1>1, <1>2, <2>1, Seen, NotATable
    <3>2. Bare(p.mine[x]) = Bare(db[x])
      BY <3>1 DEF OnRoute
    <3> QED BY <3>1, <3>2 DEF Now
  <2>2. CASE x \notin p.locks
    BY <1>1, <2>2, Seen DEF Now
  <2> QED BY <2>1, <2>2
<1> QED BY <1>3, <1>4, <1>5

(* What the version and the tables are tells the revision.                 *)
LEMMA NotedAt ==
  ASSUME NEW e, NEW rev \in {"0001", "0002"}, DOMAIN e \subseteq Objects,
         "alembic_version" \in DOMAIN e, \A x \in Tracked : Now(e, x) = Catalog(rev, x)
  PROVE  e["alembic_version"] = rev /\ \A t \in Tables : Now(e, t) = Catalog(rev, t)
<1>1. Now(e, "alembic_version") = e["alembic_version"]
  BY DEF Now
<1>2. Catalog(rev, "alembic_version") = rev
  BY DEF Catalog, Made, Latest
<1> QED BY <1>1, <1>2 DEF Tracked

LEMMA EndsNoted ==
  ASSUME Committed, Noted, NEW w, NEW p, Sane(w, p), OnRoute(p), Finished(p), db' = View(p)
  PROVE  Noted'
<1> DEFINE ver == "alembic_version"
<1> PICK e : e = View(p)
  OBVIOUS
<1>1. DOMAIN e \subseteq Objects /\ ver \in DOMAIN e /\ DOMAIN p.mine \subseteq p.locks
  <2>1. DOMAIN p.mine \subseteq p.locks
    BY DEF Sane, Running
  <2> QED BY <2>1, SeesObjects
<1>2. /\ e[ver] \in {"base", "0001", "0002"}
      /\ e[ver] = "base" => DOMAIN e = {ver}
      /\ \A t \in Tables : Now(e, t) = Catalog(e[ver], t)
  <2>1. CASE p.plan = "seed"
    <3>1. /\ ver \notin p.locks /\ DOMAIN e \subseteq DOMAIN db
          /\ \A x \in Tracked : Now(e, x) = Now(db, x)
      BY <2>1, SeedEnds
    <3>2. e[ver] = db[ver]
      BY <1>1, <3>1, SeesObjects
    <3> QED BY <1>1, <3>1, <3>2 DEF Noted, Tracked
  <2>2. CASE Migrates(p)
    <3>1. \A x \in Tracked : Now(e, x) = Catalog(Goal(p), x)
      BY <2>2, EndsOnRoute
    <3>2. Goal(p) \in {"0001", "0002"}
      BY DEF Goal
    <3>3. e[ver] = Goal(p) /\ \A t \in Tables : Now(e, t) = Catalog(Goal(p), t)
      BY <1>1, <3>1, <3>2, NotedAt
    <3> QED BY <3>2, <3>3
  <2>3. CASE Drops(p)
    <3>1. DOMAIN e = {ver} /\ e[ver] = "base"
      BY <2>3, EndsOnRoute
    <3>2. ASSUME NEW t \in Tables PROVE Now(e, t) = Catalog("base", t)
      <4>1. t # ver
        BY NotATable
      <4> QED BY <3>1, <4>1 DEF Now, Catalog, Base
    <3> QED BY <3>1, <3>2
  <2> QED BY <2>1, <2>2, <2>3 DEF Migrates
<1>3. db' = e
  OBVIOUS
<1> QED BY <1>1, <1>2, <1>3 DEF Noted, Now

(* Two migrations from one revision never get past the first statement: it  *)
(* locks the same table.                                                    *)
LEMMA OneAtATime ==
  ASSUME Committed, Noted, NEW w, NEW p, Sane(w, p), OnRoute(p), Finished(p), p.plan # "seed",
         NEW u, NEW r, Sane(u, r), OnRoute(r), Migrates(r), r.at > 1
  PROVE  p.locks \cap r.locks # {}
<1>1. p.rev = db["alembic_version"] /\ KeyTable(p.rev) \in p.locks
  <2>1. p.rev = db["alembic_version"]
    BY EndsOnRoute DEF OnRoute
  <2>2. CASE Drops(p)
    <3>1. KeyTable(p.rev) = "organizations"
      BY <2>2 DEF Drops, KeyTable
    <3> QED BY <2>1, <2>2, <3>1, EndsOnRoute
  <2>3. CASE ~Drops(p)
    BY <2>1, <2>3, EndsOnRoute DEF Migrates
  <2> QED BY <2>2, <2>3
<1>2. r.rev = db["alembic_version"]
  BY DEF OnRoute, UnderWay
<1>3. KeyTable(r.rev) \in r.locks
  <2>1. Running(r) /\ Held(r)
    BY DEF Sane
  <2>2. Len(Steps(r)) \in Nat /\ r.at \in 1 .. Len(Steps(r)) + 1
    BY <2>1, Scripts DEF Running, Script
  <2>3. 1 \in 1 .. r.at - 1
    BY <2>2
  <2>4. Steps(r)[1] \in Done(r) /\ Steps(r)[1].t = KeyTable(r.rev)
    BY <2>1, <2>3, FirstLocks DEF Done
  <2> QED BY <2>1, <2>4 DEF Held
<1> QED BY <1>1, <1>2, <1>3

LEMMA RouteCommits ==
  ASSUME IInv, RevInv, NEW w \in Workers, Commit(w)
  PROVE  RevInv'
<1> PICK p : p = proc[w]
  OBVIOUS
<1> PICK e : e = View(p)
  OBVIOUS
<1>1. /\ p # Idle /\ Finished(p) /\ db' = e
      /\ proc'[w] = Idle /\ \A u \in Workers \ {w} : proc'[u] = proc[u]
  BY DEF Commit, Set, IInv
<1>2. Committed /\ Apart /\ Sane(w, p) /\ Noted /\ OnRoute(p)
  BY <1>1 DEF IInv, RevInv
<1>3. DOMAIN p.mine \subseteq p.locks
  BY <1>2 DEF Sane, Running
<1>4. Noted'
  BY <1>1, <1>2, EndsNoted
<1>5. ASSUME NEW u \in Workers, proc'[u] # Idle PROVE OnRoute(proc[u])'
  <2>1. u # w /\ proc'[u] = proc[u]
    BY <1>1, <1>5
  <2>2. PICK r : r = proc[u]
    OBVIOUS
  <2>3. Sane(u, r) /\ OnRoute(r) /\ Running(r) /\ r.locks \cap p.locks = {}
    BY <1>2, <1>5, <2>1, <2>2 DEF IInv, RevInv, Apart, Sane
  <2>4. \A x \in r.locks \cap DOMAIN db : db'[x] = db[x]
    BY <1>1, <1>3, <2>3, Seen
  <2>5. r.plan = "seed" => Tables \cap DOMAIN r.mine \subseteq DOMAIN db
    BY <2>3 DEF Sane, Held, Makes
  <2>6. ASSUME Migrates(r), r.at > 1
        PROVE  /\ db'["alembic_version"] = db["alembic_version"]
               /\ \A x \in Tracked : Now(e, x) = Now(db, x)
    <3>1. p.plan = "seed"
      BY <1>1, <1>2, <2>3, <2>6, OneAtATime
    <3>2. "alembic_version" \notin p.locks /\ \A x \in Tracked : Now(e, x) = Now(db, x)
      BY <1>2, <3>1, SeedEnds
    <3> QED BY <1>1, <1>2, <1>3, <3>2, SeesObjects
  <2>7. Migrates(r) /\ r.at > 1 => \A x \in Tracked : Now(db', x) = Now(db, x)
    BY <1>1, <2>6
  <2>8. OnRoute(r)'
    BY <1>2, <2>3, <2>4, <2>5, <2>6, <2>7, RouteUndisturbed DEF Noted
  <2> QED BY <2>1, <2>2, <2>8 DEF OnRoute, UnderWay, View, Steps, Done, Drops, Migrates, Goal, Now
<1> QED BY <1>1, <1>4, <1>5 DEF RevInv

LEMMA RouteStores ==
  ASSUME IInv, RevInv, NEW t \in Tables, NEW k, Store(t, k)
  PROVE  RevInv'
<1>1. /\ t \in DOMAIN db /\ \A w \in Workers : t \notin proc[w].locks
      /\ UNCHANGED proc /\ DOMAIN db' = DOMAIN db
      /\ \A x \in DOMAIN db \ {t} : db'[x] = db[x]
  BY StoreDoes
<1>2. Noted /\ t # "alembic_version" /\ DOMAIN db[t] = Fields
  BY <1>1, NotATable DEF RevInv, IInv, Committed, WellFormed
<1>3. Bare(db'[t]) = Bare(db[t])
  <2> PICK table : table = db[t]
    OBVIOUS
  <2>1. db'[t] = Stored(table, {k}, "app")
    BY <1>1 DEF Store
  <2> QED BY <1>2, <2>1, BareStored
<1>4. \A x \in Tracked : Now(db', x) = Now(db, x)
  BY <1>1, <1>2, <1>3 DEF Now
<1>5. db'["alembic_version"] = db["alembic_version"]
  BY <1>1, <1>2 DEF Noted
<1>6. Noted'
  <2> PICK e : e = db'
    OBVIOUS
  <2>1. \A x \in Tables : Now(e, x) = Catalog(e["alembic_version"], x)
    BY <1>2, <1>4, <1>5 DEF Noted, Tracked
  <2> QED BY <1>1, <1>2, <1>5, <2>1 DEF Noted, Now
<1>7. ASSUME NEW u \in Workers, proc'[u] # Idle PROVE OnRoute(proc[u])'
  <2>1. PICK r : r = proc[u]
    OBVIOUS
  <2>2. Sane(u, r) /\ OnRoute(r) /\ Running(r) /\ t \notin r.locks
    BY <1>1, <1>7, <2>1 DEF IInv, RevInv, Sane
  <2>3. \A x \in r.locks \cap DOMAIN db : db'[x] = db[x]
    BY <1>1, <2>2
  <2>4. r.plan = "seed" => Tables \cap DOMAIN r.mine \subseteq DOMAIN db
    BY <2>2 DEF Sane, Held, Makes
  <2>5. OnRoute(r)'
    BY <1>2, <1>4, <1>5, <2>2, <2>3, <2>4, RouteUndisturbed DEF Noted
  <2> QED BY <1>1, <2>1, <2>5 DEF OnRoute, UnderWay, View, Steps, Done, Drops, Migrates, Goal, Now
<1> QED BY <1>1, <1>6, <1>7 DEF RevInv

LEMMA RouteInitially == Init => RevInv
<1> SUFFICES ASSUME Init PROVE RevInv
  OBVIOUS
<1>1. /\ DOMAIN db = {"alembic_version"} /\ db["alembic_version"] = "base"
      /\ proc = [w \in Workers |-> Idle]
  BY DEF Init
<1>2. ASSUME NEW t \in Tables PROVE Now(db, t) = Catalog("base", t)
  <2>1. t # "alembic_version"
    BY NotATable
  <2> QED BY <1>1, <2>1 DEF Now, Catalog, Base
<1> QED BY <1>1, <1>2 DEF RevInv, Noted, Objects

LEMMA RouteInductive == IInv /\ RevInv /\ [Next]_vars => RevInv'
<1> SUFFICES ASSUME IInv, RevInv, [Next]_vars PROVE RevInv'
  OBVIOUS
<1>1. CASE \E w \in Workers : Begin(w)
  BY <1>1, RouteBegins
<1>2. CASE \E w \in Workers : Run(w)
  BY <1>2, RouteRuns
<1>3. CASE \E w \in Workers : Commit(w)
  BY <1>3, RouteCommits
<1>4. CASE \E w \in Workers : Crash(w)
  BY <1>4, RouteOneMoves DEF Crash
<1>5. CASE \E row \in Rows : Store(row[1], row[2])
  BY <1>5, SchemaAssumption, RouteStores
<1>6. CASE UNCHANGED vars
  <2>1. UNCHANGED <<db, proc>>
    BY <1>6 DEF vars
  <2>2. Noted'
    BY <2>1 DEF RevInv, Noted, Now
  <2>3. ASSUME NEW u \in Workers, proc'[u] # Idle PROVE OnRoute(proc[u])'
    <3>1. OnRoute(proc[u])
      BY <2>1, <2>3 DEF RevInv
    <3> QED BY <2>1, <3>1 DEF OnRoute, UnderWay, View, Steps, Done, Drops, Migrates, Goal, Now
  <2> QED BY <2>2, <2>3 DEF RevInv
<1> QED BY <1>1, <1>2, <1>3, <1>4, <1>5, <1>6 DEF Next

(* What a table is at a revision, by the names of its model's columns.      *)
LEMMA CatalogShapes ==
  ASSUME NEW t \in Tables
  PROVE  /\ DOMAIN Catalog("0001", t) = Fields /\ DOMAIN Catalog("0002", t) = Fields
         /\ Shape(Catalog("0001", t)) = Named(Models[t], StripeNames)
         /\ Shape(Catalog("0002", t)) = Named(Models[t], [c \in Columns |-> c])
<1>1. Catalog("0001", t) = Made(t) /\ Catalog("0002", t) = Latest(t)
  BY DEF Catalog
<1>2. DOMAIN Made(t) = Fields /\ DOMAIN Latest(t) = Fields
  <2>1. CASE t \in Unchanging
    <3>1. DOMAIN Made(t) = Fields
      BY <2>1, UsersMade, MembershipsMade, InvitationsMade, NotificationsMade, AuditLogsMade
         DEF Unchanging
    <3> QED BY <2>1, <3>1, UnchangingShapes
  <2>2. CASE t = "organizations"
    <3>1. \A a : DOMAIN OrganizationsWith(a) = Fields
      BY DEF OrganizationsWith, Rec, Fields
    <3> QED BY <2>2, <3>1, OrganizationsMade, OrganizationsRenamed
  <2>3. CASE t = "subscriptions"
    <3>1. \A a, b : DOMAIN SubscriptionsWith(a, b) = Fields
      BY DEF SubscriptionsWith, Rec, Fields
    <3> QED BY <2>3, <3>1, SubscriptionsMade, SubscriptionsRenamed
  <2> QED BY <2>1, <2>2, <2>3, TableNames DEF Unchanging
<1>3. /\ Shape(Made(t)) = Named(Models[t], StripeNames)
      /\ Shape(Latest(t)) = Named(Models[t], [c \in Columns |-> c])
  <2>1. CASE t \in Unchanging
    BY <2>1, UnchangingShapes
  <2>2. CASE t = "organizations"
    BY <2>2, OrganizationsShapes
  <2>3. CASE t = "subscriptions"
    BY <2>3, SubscriptionsShapes
  <2> QED BY <2>1, <2>2, <2>3, TableNames DEF Unchanging
<1> QED BY <1>1, <1>2, <1>3

LEMMA SameShape ==
  ASSUME NEW table, DOMAIN table = Fields
  PROVE  Shape(table) = Shape(Bare(table))
BY BareFields DEF Shape

LEMMA TablesShaped ==
  ASSUME Noted, WellFormed(db), NEW rev \in {"0001", "0002"}, db["alembic_version"] = rev,
         NEW t \in Tables
  PROVE  t \in DOMAIN db /\ Shape(db[t]) = Shape(Catalog(rev, t))
<1>1. DOMAIN Nothing # Fields
  BY DEF Nothing, Fields
<1>2. Now(db, t) = Catalog(rev, t) /\ DOMAIN Catalog(rev, t) = Fields
  BY CatalogShapes DEF Noted
<1>3. t \in DOMAIN db
  BY <1>1, <1>2 DEF Now
<1>4. Catalog(rev, t) = Bare(db[t]) /\ DOMAIN db[t] = Fields
  BY <1>3, TableThere DEF WellFormed
<1> QED BY <1>3, <1>4, SameShape

LEMMA RevisionsHold ==
  ASSUME IInv, RevInv
  PROVE  AtRevision
<1>1. Noted /\ WellFormed(db)
  BY DEF IInv, RevInv, Committed
<1>2. ASSUME db["alembic_version"] = "0001", NEW t \in Tables
      PROVE  AsInModels(db, t, StripeNames)
  <2>1. t \in DOMAIN db /\ Shape(db[t]) = Named(Models[t], StripeNames)
    BY <1>1, <1>2, TablesShaped, CatalogShapes
  <2> QED BY <2>1 DEF AsInModels, Named
<1>3. ASSUME db["alembic_version"] = "0002", NEW t \in Tables
      PROVE  AsInModels(db, t, [c \in Columns |-> c])
  <2>1. t \in DOMAIN db /\ Shape(db[t]) = Named(Models[t], [c \in Columns |-> c])
    BY <1>1, <1>3, TablesShaped, CatalogShapes
  <2> QED BY <2>1 DEF AsInModels, Named
<1>4. db["alembic_version"] = "base" => DOMAIN db = {"alembic_version"}
  BY <1>1 DEF Noted
<1>5. db["alembic_version"] \in {"base", "0001", "0002"}
  BY <1>1 DEF Noted
<1> QED BY <1>2, <1>3, <1>4, <1>5 DEF AtRevision

(* What processes still have to do leads to the tables of their goal.      *)
THEOREM RoutesLead == Spec => []RevInv
BY RouteInitially, RouteInductive, Invariant, PTL DEF Spec

(* 0001_initial.py:304, 0002_stripe_to_paystack.py:46: whatever upgrades,   *)
(* downgrades and seeds overlap, fail, crash and are repeated, the tables   *)
(* are those of the revision in alembic_version, at the head those of the   *)
(* models, and at the base none is left, nor a type.                        *)
THEOREM TablesAtRevision == Spec => []AtRevision
BY RevisionsHold, Invariant, RoutesLead, PTL
=============================================================================
