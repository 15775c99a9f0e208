# Verification of the SaaS backend

TLA+ models, TLC checks and TLAPS proofs for the FastAPI backend in `src/`.
References such as `org_service.py:149` are to files under `src/app/`.

Contents: 1 the system, 2 the modules, 3 the runs, 4 where code and
documentation disagree, 5 the proofs, 6 what is not modelled, 7 plan.

## 1. The system

The program is an HTTP API in front of PostgreSQL (SQLAlchemy, asyncpg), Redis
and outside services (Paystack for payments, Resend for mail, two OAuth
providers). Uvicorn runs one event loop per worker, several workers may run,
and all state that outlives a request is in the database, in Redis, or in the
tokens clients hold. There are no threads and no locks in the code; what makes
it hard is that *requests overlap*:

* `db/session.py:24-33` gives each request one session and one transaction. It
  commits when the handler has returned and rolls back when it raised. Between
  a handler's SELECT and its commit other requests run and commit.
* The isolation level is PostgreSQL's default, READ COMMITTED: every statement
  sees what is committed by then. The session keeps the attributes of a row it
  has loaded, so a second SELECT of the same row yields *old* attributes.
* `autoflush=False`: a write reaches the database at `flush()`, where it takes
  row and key locks and may fail on a constraint. It stays invisible until the
  commit.
* An UPDATE names the columns whose value differs from the loaded one. Columns
  a handler does not assign are not written, and an assignment that puts back
  the loaded value is not a change.
* No handler uses `SELECT ... FOR UPDATE`, a version column or a retry.

### 1.1 Inventory

| Component | State | Operations | Depends on | Correct means |
|---|---|---|---|---|
| Organizations (`services/org_service.py`, `endpoints/organizations.py`, the org and invitation repositories, `membership_policy.py`) | `organizations`, `memberships`, `invitations` | create, update, delete, invite, revoke, accept, change role, remove, read | users; the request's transaction; invite sends no mail | one seat per user and organization, unique slugs, no orphans, a member was founder or invited, an invitation admits once and only while pending, owners are changed by owners |
| Accounts (`services/auth_service.py`, `endpoints/auth.py`, `users.py`, `admin.py`) | `users`: `hashed_password`, `verification_token`, `reset_token`, `is_active`, `is_verified` | register, verify e-mail, request and perform a reset, change password, deactivate, activate | mail | a one-time token works once; the password is changed by who knows it or was mailed; no request undoes another's columns |
| MFA (`endpoints/mfa.py`) | `users.mfa_secret`, `users.mfa_enabled` | setup, verify, disable, validate | accounts, tokens | MFA is on only with a secret the user has confirmed, and goes off only with a code for it |
| OAuth (`endpoints/oauth.py`, `AuthService.oauth_login_or_register`) | `users.oauth_provider`, `users.oauth_provider_id` | callback for two providers: exchange the code, sign in, link, register | HTTP to the provider | one account per address and per identity; the pair of a row is one identity; it comes back to its account |
| Tokens (`core/security.py`, `api/deps.py`, `lib/redis.py`, `AuthService.login`, `refresh`, `logout`) | signed JWTs held by clients, the blacklist in Redis with a time to live | issue, decode, refresh, log out | Redis, the clock, the account's row | a token that was logged out is refused; a kind of token does not pass for another |
| Billing (`services/billing_service.py`, `endpoints/billing.py`) | `subscriptions`, `organizations.plan`, `organizations.paystack_customer_id` | initialize, verify, cancel, manage, webhook with four event kinds | Paystack: called, and calls back any number of times in any order | plan and subscription agree with what is paid; what is marked canceled is not billed |
| Notifications (`endpoints/notifications.py`, `notification_service.py`) | `notifications.is_read`, `read_at` | list by pages, mark one, mark all; `create` has no caller | — | a client that reads all pages misses nothing but for the order of equal times; marking all leaves none of those it was asked for |
| Plan limits and permissions (`core/permissions.py`, `config.py`) | none | `role_rank`, `has_min_role`, `get_plan_limits`, `assert_member_limit` (no caller) | — | ranks are ordered as declared |
| Pagination (`lib/pagination.py`) | none | offset pages with `has_more`; no caller | — | pages cover the result once |
| Audit log (`audit_log_service.py`) | `audit_logs` | `log` has no caller; list | — | append only |
| Migrations and seed (`db/migrations`, `scripts/seed.py`) | the catalog: tables, columns, indexes, enum types, `alembic_version`; the first rows | upgrade, downgrade, seed, each a process of its own | the models, the application that runs meanwhile | the tables are those of the revision noted, at the head those of the models; a seed is whole or absent |
| Middleware, health, mail, configuration | none that the handlers read back | | | |

Components meet in the database only: a request authenticates with a token
(`deps.py`), reads the user's row, and then works on its own tables. Accounts
and Organizations share `users.id`, Accounts and OAuth the row of a user.
Billing writes two columns of `organizations` that Organizations does not
touch, but both take locks on that row, and deleting an organization meets its
subscription: that meeting is `PaidOrganizations`.

### 1.2 What is hard to test here

The tests (`src/tests`) call services with mocked sessions, one call at a time:
nothing in them interleaves two requests, uses a real constraint, or delivers a
webhook twice. The hazards, with their lines, are the list `hazards` of
`PROJECT.json`. They fall into seven kinds:

1. **check, then write.** Handlers check rows they read earlier and then
   write by primary key (`org_service.py:149,189,209,109`, `mfa.py:50-78`,
   `auth_service.py:165`).
2. **constraints as the last line.** Where a unique or foreign key exists, the
   second of two overlapping requests fails at its flush; where none exists (a
   pending invitation per address) it succeeds.
3. **outside calls between read and write** (`billing_service.py:145-166`) and
   messages that come twice or in another order (webhooks).
4. **a transaction rolled back after an effect** (an `expired` status written
   and then an exception, a subscription disabled at Paystack and then a crash).
5. **two clocks**: tokens expire in whole seconds of the server, blacklist
   entries a number of seconds after Redis has received them.
6. **locks in two orders**: the handlers that write an organization and its
   subscription do not agree on which comes first (`billing_service.py:246`),
   and a deletion reaches the subscription through the ORM and through
   `ON DELETE CASCADE`.
7. **effects before the commit**: FastAPI runs the exit code of a dependency
   with `yield` after the response is sent, so `get_db` commits then. Answers,
   mails and background tasks are out when a commit fails: `register` returns
   tokens of a user who may not exist, a webhook is answered 200 and will not
   be delivered again (the quirk `lose` of `Billing`).

## 2. Modules

| Module | Models | Extends or uses |
|---|---|---|
| `Tenancy` | abstract specification: organizations, memberships, invitations, changed by atomic operations | — |
| `Organizations` | the organization endpoints as overlapping requests | `Committed == INSTANCE Tenancy` |
| `Accounts` | one address's row of `users` and every request that writes it | — |
| `Identities` | OAuth callbacks and registrations across all accounts | — |
| `Sessions` | one user's tokens, the clock, the blacklist | — |
| `Billing` | one organization's plan and subscription, Paystack, webhooks | — |
| `Ledger` | abstract specification: who pays for which organization, changed by atomic operations | — |
| `PaidOrganizations` | organizations composed with billing: the requests that lock an organization and its subscription | `Book == INSTANCE Ledger` |
| `Notifications` | creation, marking, and a client that reads pages | — |
| `Schema` | migrations, seed and models over PostgreSQL's transactional DDL | — |
| `MC*`, one per detailed module | symmetry and constants for TLC | the module each is named for |
| `*Proofs`, one per detailed module | theorems; those about `Tenancy` are in `OrganizationsProofs`, those about `Ledger` in `PaidOrganizationsProofs` | the module each is named for, `TLAPS` |

The detailed modules have the same shape. `req[r]` (`proc[w]` in `Schema`) is a
slot for a request in progress, with a program counter `pc`; the other
variables are what is committed. A step is what a handler does between two points where another
request can run. `Abort` ends a request at any point with a rollback:
disconnects, crashes, database errors, errors while the response is serialised.
Operators whose comment says *Mutant* are wrong variants of the operator next
to them. They are used by no action: they are there to show that a property
notices the bug.

### 2.1 `Tenancy`

Three tables of rows, seven atomic operations: what a reader of the
handlers thinks they do. `Found` adds an organization with its owner, `Invite`
adds a pending invitation to an organization that exists, `Join` adds a member
for an invitation and marks it accepted, and so on. `Join` accepts an
invitation of *any* status and `Revoke` revokes one of any status: that is all
that can be promised of the committed rows when requests overlap (section 4).

### 2.2 `Organizations`

| phase | the code | reads and writes |
|---|---|---|
| `Begin*` | `get_current_user`, `get_current_org` and the first SELECT | remembers the memberships its session loads (`seen`) |
| `slug` | `_unique_slug`, one SELECT per turn | committed slugs |
| `check` | `_require_role` and the other conditions | committed rows, but roles as in `seen` |
| `flush` | `await db.flush()` | waits for locks (`Conflict`), evaluates constraints and the matched-row count (`ConstraintsHold`), keeps its locks |
| `commit` | `get_db` after the handler | the committed rows change, the locks go |

`Expire` lets the time of an invitation pass. Decisions of the abstraction:

* The SELECTs of one handler's check are one step. Splitting them adds
  interleavings between reads only; the step that matters, between the checks
  and the write, is there. `_unique_slug` loops, so each of its probes is a step.
* A flush takes all locks of its request at once. PostgreSQL takes them row by
  row, so two requests can wait for each other; it then aborts one, which is
  `Abort`.
* All organizations have the same name: the slug is the counter `_unique_slug`
  appends, bounded by `MaxSlug`. With another name nothing conflicts.
* A user is identified with their address (`users.email` is unique and
  `accept_invitation` compares lower-cased addresses).
* Ids are ULIDs: `Fresh*` picks one that no row and no request uses, so the
  finite sets of the runs are recycled.
* `update_org` changes name and logo only: it is `edit` of `PaidOrganizations`,
  where its row lock matters. Reading is left out.

### 2.3 `Accounts`

Accounts meet only in the unique address, so the module follows one address:
`user` is its committed row, or `None`. A handler is one step up to its
`save()`: it loads the row (`old`), checks it, assigns columns (`new`). `Flush`
takes the row lock, or fails an INSERT if the address is taken; `Commit` merges
the assigned columns that differ from the loaded ones into the row (`Merged`).

* A password, token or TOTP secret is a value; hashing is left out, and a code
  is the secret it is computed from (`key`). Hashes are salted: a password that
  is set to what it was is nevertheless written; the model leaves out
  requests that change nothing (`new # old`), which changes no reachable row.
* One OAuth identity per provider; a callback starts with the identity the
  exchange yields. Which account an identity belongs to when its address
  changes is the subject of `Identities`.
* `Age` lets the hours pass that a mail names. No handler looks at a time.
* A mail that cannot be sent is an `Abort`: it is sent before the commit and
  its failure rolls the request back. Names and avatars are left out.

### 2.4 `Sessions`

Tokens are JWTs without an identifier: `issued` is the set of those clients
hold, and two of a kind issued in the same second are one. `now` counts half
seconds, because `iat` and `exp` are whole seconds (`Whole`) and Redis' clock is
not. `black[t]` is when the blacklist entry of the refresh token issued at `t`
ends.

| phase | the code |
|---|---|
| `Refresh`, `Logout` (`Check`) | `is_token_blacklisted`: Redis has answered (`asked`) or failed, and then the token passes (`security.py:134-138`) |
| `decode` | the handler goes on: type and expiry; for a logout also the entry's time to live (`Ttl`) |
| `load` | the row has been read: `is_active`, and for `/mfa/validate` `mfa_enabled` |
| `store` | `SET ... EX ttl` on its way; the entry's life begins when Redis gets it |
| `answer` | tokens are made and the response is sent |

`Alive` is python-jose's test: a token is refused from the second *after* the
one it expires in. `AccountChanges` is what the requests of `Accounts` commit.
`signed` is a ghost: it becomes true when a sign-in is complete. OAuth asks
neither for `is_active` nor for a code (`auth_service.py:188-215`), so its
callback is a complete sign-in. That Redis loses entries (eviction, a restart
without persistence) is not modelled; a failing Redis is.

### 2.5 `Billing`

`pay` is Paystack's view of each subscription code, `inbox` the webhooks it has
announced and `done` those that were handled. `After` says, per handler, in
which order it loads and flushes organization and subscription: the callback
takes the organization first, `subscription.create` the subscription, so they
lock in opposite orders (`Victim` is PostgreSQL's deadlock detection). The
cancellation reads, waits for Paystack (`Call`), then writes. `MergedOrg` and
`MergedSub` are the UPDATEs with only changed columns.

The environment is as kind as a run wants: `Quirks` allows it to reorder and
repeat webhooks (`reorder`), the customer to subscribe while a subscription is
active (`again`) or to return to an old callback URL (`replay`), and payloads
without `organization_id` or subscription (`bare`).

* Amounts, periods, the HMAC and the manage URL are left out. Periods are new
  values each time, so an upsert always sends an UPDATE (`SubDirty`).
* A payload that names no plan the configuration knows is not modelled.
* The organization exists; its deletion is in `PaidOrganizations`.
* `Lose`, the quirk `lose`: the handler of a webhook has answered and its commit
  fails, so the event is gone.

### 2.6 `Ledger` and `PaidOrganizations`

`Ledger` promises, of the committed rows alone: a purchase may be settled on its
organization, as a whole or in part (`Settle`), and an organization may go
together with its subscription (`Close`). `PaidOrganizations` has five
endpoints with the phases of table `After`: the payment callback (`verify`),
`subscription.create` (`create`), the cancellation, the deletion, and `edit`,
which stands for `update_org` and `charge.success`, one UPDATE of the
organization's row.

| phase | the code |
|---|---|
| `org`, `sub` | the SELECTs; what was loaded decides later which columns are sent |
| `children` | the ORM looks for the subscription before `DELETE`; the relationship has no cascade (`organization.py:48`), so it would set `organization_id` to NULL, which the column refuses |
| `flushOrg`, `flushSub` | UPDATE or INSERT: waits for row locks and for whoever is about to take or give up the customer, then fails or keeps its locks |
| `cascade` | the database deletes what has been committed since the ORM looked |

`key`, `row` and `share` are PostgreSQL's row locks FOR UPDATE (DELETE and
updates of a unique column), FOR NO KEY UPDATE and FOR KEY SHARE (taken by a
foreign key); `sub` is the lock of the subscription's row or of its unique key.
`WaitsFor` is who waits for whom, `Victim` the deadlock detector.

* An INSERT or UPDATE that waits for a unique key already holds its row lock in
  PostgreSQL; here it waits before it takes any. A third request that meets that
  row lock waits a little longer there; a deadlock it may add is an `Abort`.
* The webhooks `disable` and `payment_failed` take the locks of the
  cancellation, and what they write is in `Billing`. The call to Paystack in a
  cancellation is a delay or an `Abort`.

### 2.7 `Identities`

`account[e]` is the pair of provider and id in the row of address `e`. A
callback gets the code's identity and the address the provider has for it now
(`Exchange`), looks for an account with the identity, then for one with the
address, and links or inserts. `Move` lets a user take another address at the
provider; `had` is which addresses each identity has had and `home` the account
it signed in to last, both history. Two assumptions are guards of `Move`: nobody
takes an address that another user of the same provider has had, and an
identity does not move while one of its own callbacks is under way. Without
either the code ends with two accounts of one identity or a pair nobody has
(section 4).

### 2.8 `Notifications`

A request that creates rows is one transaction: its rows have its start as
`created_at` (`base.py:16`), so they are equal in time, two transactions may be
too, and an older row may appear after a newer one. The list is ordered by
`created_at` alone (`notifications.py:23`), which leaves the order of equal times
to the database; after an UPDATE of `is_read` it may be another one. `Pages` is
the set of pages that some such order gives, chosen anew for every page. Marking is an UPDATE in three steps:
the rows its snapshot selects, the wait for their locks, the commit. `reader`
asks for one page after the other, with offsets, until one is short.

* Marking one row sets `read_at` again if it was set: that is in the model as a
  write that changes no `unread`. The count of unread rows is a second SELECT
  and may disagree with the rows next to it.
* `/admin/users` pages the same way. `/admin/organizations` does too, and
  organizations *are* deleted: a client that reads on may miss one there.

### 2.9 `Schema`

A process runs the statements of its plan in one transaction, each with the
locks and the conditions PostgreSQL gives it (`Locks`, `Legal`, `Effect`); the
revisions and the seed are sequences of statements, written as the files have
them. `Models` is what `src/app/models` expects. The application (`Store`)
inserts whenever its table is as its model says, and the rows are kept with the
set of columns that hold their values (`filled`).

* Column types, lengths, server defaults and the names of indexes are left out:
  the catalog knows that a column is unique, not whether by constraint or index.
* The creation of `alembic_version` itself is left out.

## 3. Runs

Names such as `Users` are sets of model values; `Endpoints` bounds which
endpoints the clients of a run use. "states" are distinct states.

| Run | At a time | What it shows | states |
|---|---|---|---|
| `orgs_serial` | 1 request | the checks of the handlers do what they are for when nothing overlaps: one pending invitation per address, redeemed means accepted, a token works once, owners are changed by owners | 84 885 |
| `orgs_overlap` | 2, all endpoints | one seat, origin of members, the inductive invariant (types, keys, no orphans), and every commit is a step of `Tenancy` | 914 674 |
| `orgs_owner_removed` | 1 | violation, section 4 | |
| `accounts_serial` | 1 | a reset spends its token, MFA is switched on and off with the secret in force and never on without one | 5 123 |
| `accounts_overlap` | 2, all endpoints | an account stays verifiable, columns of different handlers do not undo each other, the inductive invariant | 682 623 |
| `identities` | 2 sign-ins or registrations | no identity is shared, torn or taken over; it comes back to its account | 821 826 |
| `sessions_overlap` | 2, with time and failing Redis | a written revocation holds, pairs come from sign-ins, the inductive invariant | 4 229 540 |
| `billing_in_order` | 1, webhooks once and in order | when all webhooks are handled, plan and subscription are what the customer pays for; what is canceled is disabled | 77 308 |
| `billing_overlap` | 2, all quirks | plans were bought; code and plan of the row are of one subscription unless a plan was bought twice; the inductive invariant | 2 798 572 |
| `paid_orgs` | 2 | every commit is a step of `Ledger`, a subscribed organization is not deleted, every request ends although locks are taken in two orders | 447 820 |
| `notifications` | 2 and a reader | a row is missed only for another of the same time that came twice; marking all leaves none unread | 1 647 631 |
| `schema` | 3 processes and the application | tables, revision and models agree at every commit; rows survive renaming; the seed is whole or absent; a migrated database stores no subscription | 12 456 |

**Bounds.** Two requests are enough for every check-then-write race: a third
only adds another committed change, which slots and ids that are recycled
allow over time. Two users are inviter and invitee, or two owners; two
organizations compete for a slug. `accounts_*` have two passwords, and as many
tokens and secrets as one row and the requests in flight can hold or one more.
`sessions_overlap` runs for two seconds (`MaxTime = 4`) with a refresh token of
two and an `mfa_pending` token of zero seconds: a pending token expires, a
refresh token reaches its last second, an entry is written up to two seconds
late. `billing_in_order` has three codes, two for one plan, and six webhooks:
two whole subscriptions and a renewal or a third. `billing_overlap` runs the
three handlers that insert a row or wait for Paystack; `charge`, `disable` and
`failed` run in `billing_in_order`, and the proof covers their overlaps. `paid_orgs` has two
organizations of one payer, so that they compete for the customer, and three
codes, so that one of them is paid for twice. Its endpoints are those that touch
more than the organization's row; `edit`, which takes the lock that `verify`
takes in its first flush, is in the proofs and left out of the run. `identities`
has three addresses, two Google users and one GitHub user: two users of one
provider who pass an address on, and two providers at one account.
`notifications` has pages of one row, three rows and two times, so that rows
come up before, between and after those already read, and beside rows of their
own time; with a third time (`MaxTime = 2`) the run passes too, on 4 444 922
states. In `schema` the application stores
a user and an organization under the very keys the seed wants, and a
subscription. `MaxSlug`, `MemberLimit`, `MaxEvents`, `MaxTime`, `MaxRows`
and `Endpoints` are the bounds; nothing else is capped.

The type invariants are conjuncts of `IInv`, and so are the keys, the foreign
keys and the unique columns of `Tenancy` and `Ledger`.

**Deadlock** is checked in every run.

**Fairness.** `PaidOrganizations!FairSpec` assumes strong fairness of each
request's own steps (`Continue(r)`), and weak fairness of `Victim(r)`. A handler
is a task of the event loop that is resumed when its query is answered, and
PostgreSQL queues the waiters of a lock in order, so a request that is able to
go on again and again does go on; deadlocks are detected after
`deadlock_timeout`. Nothing is assumed of clients, of Paystack's webhooks, or of
`Abort`; that Paystack answers the call in a cancellation is (httpx has a
timeout, and then the handler raises). The run uses no symmetry. No handler
waits for anything but a lock or an outside call, so this is the liveness the
system has: retries and jobs do not exist in it.

**Mutants.** Each property of a passing run has a mutant in `PROJECT.json`: a
plausible bug in one mapped operator under which TLC finds the property
violated.

## 4. Where code and documentation disagree

One run expects a violation, the finding of `PROJECT.json`:
`orgs_owner_removed`, one request at a time, in which an admin removes an owner,
against `CONTEXT.md:21`.

TLC shows more: races of the kind section 1.2 lists, and features that are
missing. They are not runs of their own; each is a change of a line or two to a
configuration, the last one to a guard:

| To see | change |
|---|---|
| two pending invitations of one address (no constraint behind `org_service.py:149`); a redeemed invitation that ends as `revoked`; a user admitted twice with one token; an owner demoted by one who is no owner any more | `Requests = {r1, r2}` in `OrgsSerial.cfg`: `OnePendingInvitation`, `RedeemedIsAccepted`, `SingleUse`, `OwnersOnlyByOwners` |
| more members than the plan allows: members are not counted | `INVARIANT WithinMemberLimit` and `MemberLimit = 1` in `OrgsSerial.cfg` |
| one reset link used by two requests; MFA switched on with a secret nobody verified | `Requests = {r1, r2}` in `AccountsSerial.cfg`: `ResetOnce`, `ActiveIsVerified` |
| a password changed by who knew the one before: a reset commits between the load and the commit of the change (`users.py:36`) | the same with `PROPERTY CurrentPassword` |
| a lockout: two `/mfa/verify` and a `/mfa/disable` overlap, the late verification assigns `mfa_enabled` only, on a row that has no secret by then, and the user can neither log in nor disable MFA | `Requests = {r1, r2}` in `AccountsSerial.cfg`: `MfaUsable` |
| links that work after the hours their mail names (`email.py:44,56`) | `PROPERTY LinksExpire` in `AccountsSerial.cfg` |
| a paid subscription marked canceled: `cancel_subscription` waits for Paystack while a callback stores a new one, and then marks that (`billing_service.py:162`) | `Requests = {r1, r2}` in `BillingInOrder.cfg`: `CanceledIsDisabled`; also `InStep` |
| the code of one subscription beside the plan of another: the row has `(c1, pro)`, the upsert of `c3`, another `pro`, changes the code only, the overlapping one of `c2` both columns, and the row ends as `(c3, enterprise)` (`billing_service.py:314`) | `Requests = {r1, r2}`, `Quirks = {"again"}` and `INVARIANT CodeMatchesPlan` in `BillingInOrder.cfg` |
| the end of the old subscription takes the plan of the new one (`billing_service.py:275` sets `free` whatever the row's code is) | `Quirks = {"again"}` in `BillingInOrder.cfg`: `InStep` |
| a late or repeated webhook, an old reference, or a webhook answered and rolled back leaves a plan nobody pays for, or none where one is paid | `Quirks = {"reorder"}`, `{"replay"}` or `{"lose"}` in `BillingInOrder.cfg`: `InStep` |
| a page that skips a row: of two rows of one transaction on two pages the same one comes first both times (`notifications.py:23`) | `INVARIANT NothingSkipped` in `Notifications.cfg` |
| two accounts with one identity, after which `get_by_oauth` raises for good (`user_repo.py:34`) | `Identities.cfg` without the second conjunct of `MayMove`: `OneAccountPerIdentity` |

More that the models make visible:

* *One payer, one organization.* `paystack_customer_id` is unique
  (`organization.py:37`) and Paystack has one customer per e-mail address. For
  the second organization of a payer `verify_transaction` fails in its flush,
  every time. The webhooks still set its plan, and `manage` answers that there
  is no billing account.
* *A subscribed organization cannot be deleted* (`SubscribedStays`): deleting
  one that has ever had a subscription sets a NOT NULL column to NULL
  (`organization.py:48`). If the subscription is committed after the ORM looked,
  the database deletes it silently, and Paystack goes on billing.
* *No subscription can be stored in a migrated database*
  (`SubscriptionsNeverStored`): `SubscriptionStatus` is the one enum without
  `values_callable` (`subscription.py:40`), so SQLAlchemy writes `ACTIVE` where
  the type of `0001_initial.py` has `active`. `Billing` and `PaidOrganizations`
  are about databases made by `create_all`, or with the labels repaired.
  For the same reason the renamed columns of `subscriptions` never hold a value,
  and `RowsKept` says something of the one in `organizations` only.
* The seed fails on revision `0001`, whose columns are not those of the models,
  and rolls back whole.
* A refresh token that is revoked is accepted in the second it expires in,
  because nothing is written when less than a second is left (`security.py:113`)
  and decoding is inclusive; `RevokedIsRefused` states the exception. A refresh
  in flight when a logout writes its entry still yields a pair: refresh tokens
  are not rotated, so that pair is a session of its own.
* Without callers: `deps.get_org_member`, `require_org_role`, the writing half
  of the audit log, `NotificationService.create`, `PagedResponse`,
  `assert_member_limit`.

## 5. Proofs

All hold for any number of requests and rows, any sets of users, codes,
passwords and so on, under the named assumptions of the modules, which say that
constants are of the right kind and `None` (and `Founder`) is no id.

Every safety property that a run checks without a violation is proved. Each
inductive invariant was first an INVARIANT of a run of TLC, those that are
defined in the proof modules too.

**Tenancy.** `TablesConsistent`, `AtomicCommits => []TablesInv`: behaviours of
the abstract specification keep the tables typed and keyed, with one
organization per slug, one seat per user and organization, no orphans, and every
member the founder or the addressee of an invitation of that organization.

**Organizations.** `LocksHold`: `Spec => []IInv`. Neither the type invariant
nor any property of the tables is inductive, because what a request writes at
its commit was checked earlier. `IInv` says what carries a check over to the
commit: `Filled` (a request that will write has filled in what), `Unused` (ids
it was handed are in no table), `SameRow` (a row it names is the row it was, or
gone), `StillHolds` (the constraints evaluated at the flush still hold at the
commit) and `Apart` (two requests that have both flushed do not conflict, which
makes `StillHolds` survive the other's commit). From it, `CommitsAreAtomic`
proves that `Organizations` implements `Tenancy` with the tables as they are (no
history variables: a request's effect is its commit, every other step
stutters), and `TenancySafe` carries the invariants of `Tenancy` over.

The last five theorems assume `Alone` (one request at a time). `SerialInv` adds
to `IInv` that the session has the rows as they are and that what a handler
checked is so when it writes (`SerialSound`): no pending invitation before
another is added, the status `pending` before it changes, an owner who acts
before an owner is demoted. `ChecksHold` proves it, and `InvitationsPendOnce`,
`RedeemedForGood`, `TokensWorkOnce` and `OwnersDemoteOwners` follow. Without
`Alone` all four are false (section 4).

**Accounts.** `Invariant` proves `IInv`, whose parts are `OneWriter` (the row
lock), `Confined` (a request assigns the columns of its endpoint only) and
`Rising` (`is_verified` is never lowered, and who spends the verification token
raises it, also relative to the row as it was loaded). `AlwaysVerifiable` and
`NoLostUpdates` follow. `SerialInvariant` and the other `Serial*` theorems assume
`Serial` (one request at a time): then the row a handler has checked is still
the row (`Unchanged`), so what it checked (`Grounded`) is true of the row it
changes. `SerialMfaUsable` is an invariant; `SerialReset`, `SerialActivation` and
`SerialDisabling` say it of the steps of three endpoints.
Without `Serial` they are false (section 4).

**Sessions.** `Invariant` proves `IInv`: an entry, also one that is still to be
written (`now + ttl`), ends no earlier than its token (`Lasting`), and what a
request in progress will give rests on a sign-in (`Founded`). The arithmetic is
in `TtlCovers`: rounding the present down makes the time to live longer, never
shorter. `RevocationHolds` and `EveryPairIsEarned` follow, for all lifetimes
that are whole seconds.

**Billing.** `Invariant` proves `IInv`: rows, announced webhooks, and what
every request has loaded and assigned name subscriptions that were bought, in
every interleaving and under all quirks. `PlansAreBought` and `EndsAreDated`
follow. So does `MixesNeedTwins`, from `MatchInv`: each row that is committed,
loaded or assigned has the plan of its code, and while no two codes that were
bought are for one plan (`Twins`), two such rows differ in both columns or in
neither, so that an UPDATE sends both or none. Two theorems assume `Alone` (one
request at a time) but still any quirk, so webhooks may come late, twice, or be
lost: `OneAfterTheOther` proves `SerialInv`, that the rows a request will write
are the rows it loaded (`SerialSound`) and that a request which marks the end of
a subscription knows it has ended; `CancelingEnds` follows.

`PlansInStep` is about what webhooks are for: once all of them are handled, the
plan is the one that is paid for. It assumes `Alone` and `Quirks = {}`, which is
the run `billing_in_order` without its bounds: a webhook that is lost, repeated
or overtaken leaves another plan until the next one (section 4). `SyncInv` says
how far the rows may lag: webhooks are handled in their order (`Orderly`), what
the rows lack is what a webhook still to come will write (`Settled`), and a
request in progress works for the next webhook, or writes what is right or will
be overwritten (`InTurn`, `Overtaken`), from rows that are still as it loaded
them (`Carries`).

**PaidOrganizations.** `LocksHold` proves `IInv`. A commit writes what was
decided at a flush, so the invariant says what locks mean: `LocksMean` (what the
database found when it granted them still holds), `Holds` (which locks each
phase has behind it), `Compatible` (no two requests hold conflicting ones) and
`Founded` (a request is about a code that was bought for its organization).
`CommitsSettle` proves that the module implements `Ledger`: a commit is
`Settle` or `Close`, every other step stutters. `CustomersApart` and
`NoneOrphaned` follow; `DeletionsSpareSubscribed` is the action property that
rests on `StaysSubscribed`.

**Identities.** `SignInsSound` proves `IInv`: nothing in the database makes an
identity unique, so uniqueness rests on `Unheld` (since a callback found nobody
with its identity, at most the account of its own address has got it), on
`Carried` (what it will write is real) and on `OneWriter`. `PairsAreWhole`,
`IdentitiesApart`, `IdentitiesReturn` and `LinksLast` follow, for any number of
providers, users and requests. They rest on the guards of `Move` (2.7).

**Notifications.** `Invariant` proves `IInv` for any page size. The argument
counts, for each row the client had at its first page, the rows of the same time
(`Tied`) and the newer ones (`Newer`). Unless a tied row came twice, either all
tied rows it had are seen, or the newer rows and the tied ones seen are at least
as many as the offset (`Reached`, `OnTrack`): a new row only raises the count,
and a page that goes into the tied rows begins, by the count, behind as many of
them as were seen, so that with no repetition it shows others. A last page that
is short goes to the end, and `PagesMissOnlyTies` follows. For `AllAreMarked`,
`Covers` says that what an UPDATE waiting for locks has not found is read, or is
among the rows it will write when it looks again.

**Schema.** `Invariant` proves `IInv` for any number of processes. A process
holds the locks of all it has changed to its end (`Apart`), so what it has
copied is what the database still has, up to its own statements (`Held`,
`RowsOf`); that needs the statements themselves only as far as `Sound` and the
lemmas `*_Script` say what kinds of statements a script has, and that the
scripts that make or drop tables make or drop all three of the seed
(`Together`). The type of `subscriptions.status` stays as long as its table
(`TypeStays`), and its labels are those of the migration, not those the ORM
writes. `NoSubscriptions`, `SeedsAreWhole` and `RowsStay` follow.

`TablesAtRevision` needs what the scripts make of every table. `After` is the
effect of a statement on the definition of one table, without its rows, and
`Made` and `Latest` are what both upgrades make of it; the lemmas `*Shapes` find
the models in them, under the Stripe names and under their own, and `Route` that
every script leads from the definitions of its revision to those of its goal, so
that `downgrade` undoes `upgrade`. `RoutesLead` proves the invariant `RevInv`
beside `IInv`: the committed tables are those of the revision (`Noted`), and what
a migration has still to do leads from what it sees to its goal (`UnderWay`). It
needs that no migration gets ahead of another. A command reads the revision
before it locks anything, so two may find the same one; but the first statement
of each script locks the same table for all that left from the same revision
(`KeyTable`, `OneAtATime`), and at another revision it is not legal
(`FirstAllowed`). The one script whose first statement would be legal later is
the way back to the base; its stamp finds no row then, and it is undone.

The assumption says that rows are of tables of the models, and that the
application is no worker.

**Model-checked only:** `EveryRequestEnds` of `PaidOrganizations`, because
liveness is out of the prover's reach.

## 6. Not modelled

* Reading for its own sake; the redirects and the state of the OAuth handlers;
  the count of unread notifications.
* The audit log beyond its table: nothing writes it. Pagination (`PagedResponse`)
  and the plan limits nobody calls.
* Health checks, logging, middleware, start-up, request and response schemas: no
  state the handlers read back.
* The connection pool, rate limits (the middleware of a library), mail texts,
  HMAC.
* What an access token opens: the other modules' requests start authenticated.
* Column types, lengths and defaults of the catalog.

## 7. Order of work

`Tenancy` and `Organizations` came first, then `Accounts`, `Billing` and
`Sessions`, each with its proofs; then the composition `PaidOrganizations` with
its abstract specification `Ledger`, `Identities`, `Notifications`, `Schema`;
then the proofs about one request at a time, and those of `InStep`,
`Notifications` and `Schema`. Open ends:

1. An abstract specification of what a plan means over time (an organization has
   what it pays for) that `Billing` implements for one request at a time.
2. `Sessions` composed with the removal of members: what an access token still
   opens between a change of rights and its expiry.
