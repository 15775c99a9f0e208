--------------------------------- MODULE Schema ---------------------------------
(***************************************************************************)
(* The database's catalog: the revisions of src/app/db/migrations, the     *)
(* tables that src/app/models expects, and the seed script.                *)
(*                                                                         *)
(* A process (alembic upgrade head, alembic downgrade -1, scripts/seed.py) *)
(* sends its statements in one transaction.  PostgreSQL's DDL is           *)
(* transactional: a statement waits for the tables that others changed, a  *)
(* statement that fails or a crash undoes all the process did.             *)
(* Column types, lengths and server defaults are left out; so is what the  *)
(* application's own inserts hold until their commit.                      *)
(***************************************************************************)
EXTENDS Sequences, FiniteSets, Naturals

CONSTANTS
  Workers,  \* processes that may run at the same time
  Rows      \* what the application may store: pairs of a table and a unique key

VARIABLES
  db,       \* the committed catalog: tables, types and alembic_version
  proc      \* per worker: its plan, the next statement, and what it changed

vars == <<db, proc>>

-----------------------------------------------------------------------------
(* What a table is.  An index is known by the column it was made for (the  *)
(* one of a constraint has "key" in its name too), and keeps that name     *)
(* when a column is renamed.                                               *)
Table(cols, null, refs, enums, uniques) ==
  [cols   |-> cols \cup null \cup DOMAIN refs \cup DOMAIN enums
                   \cup {"id", "created_at", "updated_at"},
   null   |-> null,
   refs   |-> refs,    \* column to table and ON DELETE
   enums  |-> enums,   \* column to type
   index  |-> {[name |-> u \cup {"key"}, on |-> u, unique |-> TRUE] : u \in uniques},
   filled |-> {},      \* the columns whose stored values are there
   rows   |-> {}]      \* the unique keys stored, with who stored them

Create(t, cols, null, refs, enums, uniques) ==
  [op |-> "create", t |-> t, table |-> Table(cols, null, refs, enums, uniques)]
Index(t, col, unique) == [op |-> "index", t |-> t, col |-> col, unique |-> unique]
DropIndex(t, col)     == [op |-> "dropIndex", t |-> t, col |-> col]
Rename(t, old, new)   == [op |-> "rename", t |-> t, old |-> old, new |-> new]
Drop(t)               == [op |-> "drop", t |-> t]
DropType(e)           == [op |-> "dropType", t |-> e]
Insert(t, keys)       == [op |-> "insert", t |-> t, keys |-> keys]
Stamp(from, to)       == [op |-> "stamp", t |-> "alembic_version", from |-> from, to |-> to]

Nothing == [c \in {} |-> c]

-----------------------------------------------------------------------------
(* 0001_initial. *)

Labels == [oauthprovider      |-> {"local", "google", "github"},
           plantier           |-> {"free", "pro", "enterprise"},
           memberrole         |-> {"owner", "admin", "member", "viewer"},
           invitationstatus   |-> {"pending", "accepted", "expired", "revoked"},
           subscriptionstatus |-> {"active", "trialing", "past_due", "canceled", "incomplete"}]

CreateUsers == <<
  Create("users", {"email", "is_active", "is_superuser", "is_verified", "mfa_enabled"},
    {"hashed_password", "full_name", "avatar_url", "verification_token", "reset_token",
     "oauth_provider_id", "mfa_secret"},
    Nothing, [oauth_provider |-> "oauthprovider"], {}),
  Index("users", "email", TRUE), Index("users", "oauth_provider_id", FALSE)>>

CreateOrganizations == <<
  Create("organizations", {"name", "slug"}, {"logo_url", "stripe_customer_id"},
    Nothing, [plan |-> "plantier"], {}),
  Index("organizations", "slug", TRUE), Index("organizations", "stripe_customer_id", TRUE)>>

CreateMemberships == <<
  Create("memberships", {}, {},
    [user_id |-> <<"users", "CASCADE">>, organization_id |-> <<"organizations", "CASCADE">>],
    [role |-> "memberrole"], {{"user_id", "organization_id"}}),
  Index("memberships", "user_id", FALSE), Index("memberships", "organization_id", FALSE)>>

CreateInvitations == <<
  Create("invitations", {"email", "role", "token", "expires_at"}, {"invited_by_id"},
    [organization_id |-> <<"organizations", "CASCADE">>,
     invited_by_id |-> <<"users", "SET_NULL">>],
    [status |-> "invitationstatus"], {}),
  Index("invitations", "token", TRUE), Index("invitations", "email", FALSE),
  Index("invitations", "organization_id", FALSE)>>

CreateSubscriptions == <<
  Create("subscriptions",
    {"stripe_subscription_id", "stripe_price_id", "current_period_start",
     "current_period_end", "cancel_at_period_end"}, {"canceled_at"},
    [organization_id |-> <<"organizations", "CASCADE">>],
    [status |-> "subscriptionstatus"], {{"organization_id"}}),
  Index("subscriptions", "stripe_subscription_id", TRUE),
  Index("subscriptions", "organization_id", FALSE)>>

CreateLogs == <<
  Create("notifications", {"title", "body", "is_read"}, {"link", "read_at", "meta"},
    [user_id |-> <<"users", "CASCADE">>], Nothing, {}),
  Index("notifications", "user_id", FALSE),
  Create("audit_logs", {"action"},
    {"organization_id", "user_id", "resource_type", "resource_id", "ip_address",
     "user_agent", "meta"},
    [organization_id |-> <<"organizations", "SET_NULL">>, user_id |-> <<"users", "SET_NULL">>],
    Nothing, {}),
  Index("audit_logs", "organization_id", FALSE), Index("audit_logs", "user_id", FALSE),
  Index("audit_logs", "action", FALSE)>>

Upgrade1 == CreateUsers \o CreateOrganizations \o CreateMemberships \o CreateInvitations
  \o CreateSubscriptions \o CreateLogs \o <<Stamp("base", "0001")>>

DropTables == <<Drop("audit_logs"), Drop("notifications"), Drop("subscriptions"),
  Drop("invitations"), Drop("memberships"), Drop("organizations"), Drop("users")>>

(* Mutant: the types stay, as drop_table leaves them. *)
Downgrade1KeepsTypes == DropTables \o <<Stamp("0001", "base")>>

Downgrade1 == DropTables \o
  <<DropType("oauthprovider"), DropType("plantier"), DropType("memberrole"),
    DropType("invitationstatus"), DropType("subscriptionstatus"), Stamp("0001", "base")>>

(* 0002_stripe_to_paystack. *)

Upgrade2 == <<
  Rename("organizations", "stripe_customer_id", "paystack_customer_id"),
  DropIndex("organizations", "stripe_customer_id"),
  Index("organizations", "paystack_customer_id", TRUE),
  Rename("subscriptions", "stripe_subscription_id", "paystack_sub_code"),
  DropIndex("subscriptions", "stripe_subscription_id"),
  Index("subscriptions", "paystack_sub_code", TRUE),
  Rename("subscriptions", "stripe_price_id", "paystack_plan_code"),
  Stamp("0001", "0002")>>

Downgrade2 == <<
  Rename("subscriptions", "paystack_plan_code", "stripe_price_id"),
  DropIndex("subscriptions", "paystack_sub_code"),
  Rename("subscriptions", "paystack_sub_code", "stripe_subscription_id"),
  Index("subscriptions", "stripe_subscription_id", TRUE),
  DropIndex("organizations", "paystack_customer_id"),
  Rename("organizations", "paystack_customer_id", "stripe_customer_id"),
  Index("organizations", "stripe_customer_id", TRUE),
  Stamp("0002", "0001")>>

(* scripts/seed.py: a flush for the users, one for the organization, and   *)
(* the memberships with the commit.                                        *)
Seed == <<Insert("users", {"admin", "member"}), Insert("organizations", {"acme"}),
          Insert("memberships", {"owner", "member"})>>

(* The statements of a command, given the revision it finds. *)
Plans == [seed |-> [v \in {"base", "0001", "0002"} |-> Seed],
          up   |-> [v \in {"base", "0001"} |-> IF v = "base" THEN Upgrade1 \o Upgrade2
                                                             ELSE Upgrade2],
          down |-> [v \in {"0001", "0002"} |-> IF v = "0001" THEN Downgrade1
                                                             ELSE Downgrade2]]

-----------------------------------------------------------------------------
(* What src/app/models expects: a table without the names of its indexes.  *)
Shape(table) ==
  [cols   |-> table.cols,
   null   |-> table.null,
   refs   |-> table.refs,
   enums  |-> table.enums,
   unique |-> {i.on : i \in {j \in table.index : j.unique}},
   index  |-> {i.on : i \in table.index}]

Model(cols, null, refs, enums, unique, index) ==
  [Shape(Table(cols, null, refs, enums, unique)) EXCEPT
     !.index = unique \cup {{c} : c \in index}]

User == Model({"email", "is_active", "is_superuser", "is_verified", "mfa_enabled"},
  {"hashed_password", "full_name", "avatar_url", "verification_token", "reset_token",
   "oauth_provider_id", "mfa_secret"},
  Nothing, [oauth_provider |-> "oauthprovider"], {{"email"}}, {"oauth_provider_id"})

Organization == Model({"name", "slug"}, {"logo_url", "paystack_customer_id"},
  Nothing, [plan |-> "plantier"], {{"slug"}, {"paystack_customer_id"}}, {})

Membership == Model({}, {},
  [user_id |-> <<"users", "CASCADE">>, organization_id |-> <<"organizations", "CASCADE">>],
  [role |-> "memberrole"], {{"user_id", "organization_id"}}, {"user_id", "organization_id"})

Invitation == Model({"email", "role", "token", "expires_at"}, {"invited_by_id"},
  [organization_id |-> <<"organizations", "CASCADE">>,
   invited_by_id |-> <<"users", "SET_NULL">>],
  [status |-> "invitationstatus"], {{"token"}}, {"email", "organization_id"})

Subscription == Model({"paystack_sub_code", "paystack_plan_code", "current_period_start",
    "current_period_end", "cancel_at_period_end"}, {"canceled_at"},
  [organization_id |-> <<"organizations", "CASCADE">>],
  [status |-> "subscriptionstatus"], {{"organization_id"}, {"paystack_sub_code"}}, {})

Notification == Model({"title", "body", "is_read"}, {"link", "read_at", "meta"},
  [user_id |-> <<"users", "CASCADE">>], Nothing, {}, {"user_id"})

AuditLog == Model({"action"},
  {"organization_id", "user_id", "resource_type", "resource_id", "ip_address",
   "user_agent", "meta"},
  [organization_id |-> <<"organizations", "SET_NULL">>, user_id |-> <<"users", "SET_NULL">>],
  Nothing, {}, {"organization_id", "user_id", "action"})

Models == [users |-> User, organizations |-> Organization, memberships |-> Membership,
  invitations |-> Invitation, subscriptions |-> Subscription,
  notifications |-> Notification, audit_logs |-> AuditLog]

Tables == DOMAIN Models

(* A row is a worker's or the application's, and of a table of the models. *)
ASSUME SchemaAssumption == "app" \notin Workers /\ \A row \in Rows : row[1] \in Tables

(* Mutant: every column has a values_callable. *)
ValuesWritten == Labels

(* The labels the ORM writes: an enum's values, or its members' names where *)
(* the column has no values_callable.                                      *)
Written == [Labels EXCEPT !.subscriptionstatus =
              {"ACTIVE", "TRIALING", "PAST_DUE", "CANCELED", "INCOMPLETE"}]

-----------------------------------------------------------------------------
Idle == [plan |-> "none", rev |-> "none", at |-> 0, locks |-> {}, mine |-> Nothing]

Init ==
  /\ db = [o \in {"alembic_version"} |-> "base"]
  /\ proc = [w \in Workers |-> Idle]

Only(f, S) == [x \in S \cap DOMAIN f |-> f[x]]

Over(f, g) == [x \in DOMAIN f \cup DOMAIN g |-> IF x \in DOMAIN f THEN f[x] ELSE g[x]]

(* What a process sees: its own changes, and others' once committed. *)
View(p) == Over(p.mine, Only(db, DOMAIN db \ p.locks))

Statement(p) == Plans[p.plan][p.rev][p.at]

(* Mutant: the seed commits what it has flushed. *)
FinishedFlush(p) == IF p.plan = "seed" THEN p.at > 1 ELSE p.at > Len(Plans[p.plan][p.rev])

Finished(p) == p.at > Len(Plans[p.plan][p.rev])

(* Tables of a catalog that refer to one, columns of one that refer to others. *)
Referring(v, t) == {u \in (Tables \cap DOMAIN v) \ {t} :
  \E c \in DOMAIN v[u].refs : v[u].refs[c][1] = t}

Targets(table) == {table.refs[c][1] : c \in DOMAIN table.refs}

TypesOf(table) == {table.enums[c] : c \in DOMAIN table.enums}

(* What a statement locks; an INSERT, whose keys are those every other     *)
(* writer uses, is taken to lock its table.                                *)
Locks(s, v) == {s.t} \cup
  CASE s.op = "create" -> Targets(s.table) \cup TypesOf(s.table)
    [] s.op = "drop" /\ s.t \in DOMAIN v -> Targets(v[s.t])
    [] OTHER -> {}

(* Mutant: a rename as a comparison of models and tables writes it. *)
RenamedByDropAndAdd(table, old, new) ==
  [table EXCEPT !.cols = (@ \ {old}) \cup {new},
                !.null = IF old \in @ THEN (@ \ {old}) \cup {new} ELSE @,
                !.index = {IF old \in i.on THEN [i EXCEPT !.on = {new}] ELSE i : i \in @},
                !.filled = @ \ {old}]

Renamed(table, old, new) ==
  LET To(S) == IF old \in S THEN (S \ {old}) \cup {new} ELSE S IN
  [table EXCEPT !.cols = To(@), !.null = To(@), !.filled = To(@),
                !.index = {[i EXCEPT !.on = To(@)] : i \in @}]

(* The ORM's INSERT names every column of its model. *)
Storable(v, t) ==
  /\ t \in DOMAIN v
  /\ v[t].cols = Models[t].cols
  /\ \A e \in TypesOf(v[t]) : Written[e] \subseteq v[e]

Stored(table, keys, who) == [table EXCEPT !.filled = table.cols,
                                          !.rows = @ \cup {<<k, who>> : k \in keys}]

Keys(table) == {row[1] : row \in table.rows}

(* DROP TYPE IF EXISTS never misses one; a stamp that matches no row makes *)
(* alembic raise.                                                          *)
Legal(s, v) ==
  CASE s.op = "create" -> /\ s.t \notin DOMAIN v
                          /\ Targets(s.table) \subseteq DOMAIN v
                          /\ TypesOf(s.table) \cap DOMAIN v = {}
    [] s.op = "drop" -> s.t \in DOMAIN v /\ Referring(v, s.t) = {}
    [] s.op = "dropType" -> \A t \in Tables \cap DOMAIN v : s.t \notin TypesOf(v[t])
    [] s.op = "stamp" -> v[s.t] = s.from
    [] s.op = "insert" -> Storable(v, s.t) /\ s.keys \cap Keys(v[s.t]) = {}
    [] OTHER -> /\ s.t \in DOMAIN v
                /\ CASE s.op = "index" -> \A i \in v[s.t].index : i.name # {s.col}
                     [] s.op = "dropIndex" -> \E i \in v[s.t].index : i.name = {s.col}
                     [] s.op = "rename" -> s.old \in v[s.t].cols /\ s.new \notin v[s.t].cols

Changed(s, table, who) ==
  CASE s.op = "index" -> [table EXCEPT !.index = @ \cup
                            {[name |-> {s.col}, on |-> {s.col}, unique |-> s.unique]}]
    [] s.op = "dropIndex" -> [table EXCEPT !.index = {i \in @ : i.name # {s.col}}]
    [] s.op = "rename" -> Renamed(table, s.old, s.new)
    [] s.op = "insert" -> Stored(table, s.keys, who)

Effect(s, v, who) ==
  CASE s.op = "create" -> Over([o \in {s.t} |-> s.table], Over(Only(Labels, TypesOf(s.table)), v))
    [] s.op \in {"drop", "dropType"} -> Only(v, DOMAIN v \ {s.t})
    [] s.op = "stamp" -> [v EXCEPT ![s.t] = s.to]
    [] OTHER -> [v EXCEPT ![s.t] = Changed(s, @, who)]

-----------------------------------------------------------------------------
Set(w, p) == proc' = [proc EXCEPT ![w] = p]

(* A command finds the revision; at head or at the base there is nothing to do. *)
Begin(w) == \E plan \in DOMAIN Plans :
  /\ proc[w] = Idle
  /\ db["alembic_version"] \in DOMAIN Plans[plan]
  /\ Set(w, [Idle EXCEPT !.plan = plan, !.rev = db["alembic_version"], !.at = 1])
  /\ UNCHANGED db

Free(w, objects) == \A u \in Workers \ {w} : objects \cap proc[u].locks = {}

Run(w) == LET p == proc[w] IN
  /\ p # Idle /\ ~Finished(p)
  /\ LET s == Statement(p)
         v == View(p)
         locks == p.locks \cup Locks(s, v)
     IN /\ Free(w, Locks(s, v))
        /\ Set(w, IF Legal(s, v)
                  THEN [p EXCEPT !.at = @ + 1, !.locks = locks,
                                 !.mine = Only(Effect(s, v, w), locks)]
                  ELSE Idle)
  /\ UNCHANGED db

Commit(w) ==
  /\ proc[w] # Idle /\ Finished(proc[w])
  /\ db' = View(proc[w])
  /\ Set(w, Idle)

(* A crash, or the victim of a deadlock: the transaction is rolled back. *)
Crash(w) == proc[w] # Idle /\ Set(w, Idle) /\ UNCHANGED db

(* The application, started while any of this goes on, stores a row. *)
Store(t, k) ==
  /\ \A w \in Workers : t \notin proc[w].locks
  /\ Storable(db, t) /\ k \notin Keys(db[t])
  /\ \A u \in Targets(db[t]) : db[u].rows # {}
  /\ db' = [db EXCEPT ![t] = Stored(@, {k}, "app")]
  /\ UNCHANGED proc

Next ==
  \/ \E w \in Workers : Begin(w) \/ Run(w) \/ Commit(w) \/ Crash(w)
  \/ \E row \in Rows : Store(row[1], row[2])

Spec == Init /\ [][Next]_vars

-----------------------------------------------------------------------------
AsInModels(v, t, cols) ==
  t \in DOMAIN v /\ Shape(v[t]) = [Models[t] EXCEPT
    !.cols   = {cols[c] : c \in @},
    !.null   = {cols[c] : c \in @},
    !.unique = {{cols[c] : c \in S} : S \in @},
    !.index  = {{cols[c] : c \in S} : S \in @}]

Columns == UNION {Models[t].cols : t \in Tables}

StripeNames == [c \in Columns |->
  CASE c = "paystack_customer_id" -> "stripe_customer_id"
    [] c = "paystack_sub_code"    -> "stripe_subscription_id"
    [] c = "paystack_plan_code"   -> "stripe_price_id"
    [] OTHER -> c]

(* 0001_initial.py:304, 0002_stripe_to_paystack.py:46: whatever commands   *)
(* overlapped, failed and were repeated, the tables are those of the       *)
(* revision alembic has noted, at the head those of the models, and at the *)
(* base nothing is left that the next upgrade would stumble over.          *)
AtRevision ==
  CASE db["alembic_version"] = "base" -> DOMAIN db = {"alembic_version"}
    [] db["alembic_version"] = "0001" ->
         \A t \in Tables : AsInModels(db, t, StripeNames)
    [] db["alembic_version"] = "0002" ->
         \A t \in Tables : AsInModels(db, t, [c \in Columns |-> c])

(* 0002_stripe_to_paystack.py:20: rows keep all their values when columns  *)
(* get new names and when they get the old ones back.                      *)
RowsKept == [][\A t \in Tables \cap DOMAIN db \cap DOMAIN db' : db[t].rows # {} =>
  db[t].rows \subseteq db'[t].rows /\ db'[t].filled = db'[t].cols]_vars

SeededBy(w, t) == {k \in Keys(db[t]) : <<k, w>> \in db[t].rows}

(* seed.py:46: a seed leaves all its rows or none, when another one is     *)
(* under way, an address or the slug is taken, the revision is not the     *)
(* head's, or it crashes between two flushes.                              *)
SeedWhole == \A w \in Workers : "memberships" \in DOMAIN db =>
  \/ SeededBy(w, "users") = {} /\ SeededBy(w, "organizations") = {}
     /\ SeededBy(w, "memberships") = {}
  \/ SeededBy(w, "users") = {"admin", "member"} /\ SeededBy(w, "organizations") = {"acme"}
     /\ SeededBy(w, "memberships") = {"owner", "member"}

(* subscription.py:40: the only column without values_callable is written  *)
(* as ACTIVE, and the type of 0001 has active: a migrated database takes   *)
(* no subscription, whatever the webhooks bring.                           *)
SubscriptionsNeverStored ==
  "subscriptions" \in DOMAIN db => db["subscriptions"].rows = {}

=============================================================================
