------------------------------ MODULE Notifications ------------------------------
(***************************************************************************)
(* Notifications: created in the transactions of other requests, marked as *)
(* read one by one or all at once, and listed by pages of limit and offset,*)
(* newest first.                                                           *)
(*                                                                         *)
(* created_at is PostgreSQL's now(), the start of the transaction: an older*)
(* row may appear after a newer one, and the rows of one transaction, or   *)
(* of two that began in the same instant, have the same time.  A query that*)
(* orders by created_at alone leaves the order of those to the database,   *)
(* which may choose another one for every page.                            *)
(* Rows are not deleted: no endpoint does.                                 *)
(***************************************************************************)
EXTENDS Naturals, FiniteSets

CONSTANTS
  Users,
  Client,    \* the user whose client lists
  Requests,  \* slots for requests in progress at the same time
  Rows,      \* ids of notifications; a bound of the model
  Limit,     \* rows on a page
  MaxTime    \* bound on the times of creation

ASSUME PageAssumption ==
  Client \in Users /\ IsFiniteSet(Rows) /\ Limit \in Nat \ {0} /\ MaxTime \in Nat

VARIABLES
  clock,          \* the time the latest creating transaction began
  notifications,  \* the committed rows by id: user_id and created_at
  unread,         \* those with is_read false
  req,            \* the requests in progress
  reader          \* a client that reads all its pages

vars == <<clock, notifications, unread, req, reader>>

Own(u) == {n \in DOMAIN notifications : notifications[n].user_id = u}

Time(n) == notifications[n].created_at

(* A request in progress is a transaction with new rows (op "create"), or  *)
(* marks one row or all (op "one", "all") of a user: pc is "begin", "wait" *)
(* or "commit", rows those asked for, then those its UPDATE found, then    *)
(* those it locked, and had those there were when it began (history).      *)
Idle == [op |-> "idle"]

(* The client that lists: where its next page starts, what its user had at *)
(* the first page (history), what it has seen, once and again, and whether *)
(* it is through.                                                          *)
Init ==
  /\ clock = 0
  /\ notifications = [n \in {} |-> n]
  /\ unread = {}
  /\ req = [r \in Requests |-> Idle]
  /\ reader = [offset |-> 0, had |-> {}, seen |-> {}, again |-> {}, done |-> TRUE]

Set(r, q) == req' = [req EXCEPT ![r] = q]

Creating(r) == req[r].op = "create"

Marking(r) == req[r].op \in {"one", "all"}

(* A new ULID is that of no row and of none about to be created. *)
Unused == (Rows \ DOMAIN notifications)
            \ UNION {DOMAIN req[s].new : s \in {s \in Requests : Creating(s)}}

Create(r) == \E ids \in (SUBSET Unused) \ {{}}, t \in clock .. clock + 1 :
  \E user \in [ids -> Users] :
    /\ req[r] = Idle
    /\ t <= MaxTime
    /\ clock' = t
    /\ Set(r, [op |-> "create", pc |-> "commit",
               new |-> [n \in ids |-> [user_id |-> user[n], created_at |-> t]]])
    /\ UNCHANGED <<notifications, unread, reader>>

Mark(r) == \E u \in Users :
  /\ req[r] = Idle
  /\ \/ \E n \in DOMAIN notifications :
          Set(r, [op |-> "one", pc |-> "begin", user |-> u, had |-> {}, rows |-> {n}])
     \/ Set(r, [op |-> "all", pc |-> "begin", user |-> u, had |-> Own(u), rows |-> {}])
  /\ UNCHANGED <<clock, notifications, unread, reader>>

Locked(r) == UNION {req[s].rows : s \in {s \in Requests \ {r} :
                                           Marking(s) /\ req[s].pc = "commit"}}

(* Mutant: rows another request has locked are skipped. *)
FoundUnlocked(r) == LET q == req[r] IN
  IF q.op = "one" THEN q.rows \cap Own(q.user)
                  ELSE (Own(q.user) \cap unread) \ Locked(r)

(* The rows the WHERE clause of an UPDATE selects in its snapshot. *)
Found(r) == LET q == req[r] IN
  IF q.op = "one" THEN q.rows \cap Own(q.user) ELSE Own(q.user) \cap unread

Select(r) ==
  /\ Marking(r) /\ req[r].pc = "begin"
  /\ Set(r, [req[r] EXCEPT !.pc = "wait", !.rows = Found(r)])
  /\ UNCHANGED <<clock, notifications, unread, reader>>

Unlocked(r) == req[r].rows \cap Locked(r) = {}

(* It waits for who has locked one of them, and looks at the row again:    *)
(* marking all leaves those that became read alone.                        *)
Update(r) ==
  /\ Marking(r) /\ req[r].pc = "wait"
  /\ Unlocked(r)
  /\ Set(r, [req[r] EXCEPT !.pc = "commit",
                           !.rows = IF req[r].op = "one" THEN @ ELSE @ \cap unread])
  /\ UNCHANGED <<clock, notifications, unread, reader>>

Inserted(new) == [n \in DOMAIN notifications \cup DOMAIN new |->
                    IF n \in DOMAIN new THEN new[n] ELSE notifications[n]]

Commit(r) == LET q == req[r] IN
  /\ q # Idle /\ q.pc = "commit"
  /\ \/ /\ q.op = "create"
        /\ notifications' = Inserted(q.new)
        /\ unread' = unread \cup DOMAIN q.new
     \/ /\ q.op # "create"
        /\ unread' = unread \ q.rows
        /\ UNCHANGED notifications
  /\ Set(r, Idle)
  /\ UNCHANGED <<clock, reader>>

Abort(r) ==
  /\ req[r] # Idle
  /\ Set(r, Idle)
  /\ UNCHANGED <<clock, notifications, unread, reader>>

-----------------------------------------------------------------------------
(* Mutant: only unread ones are listed. *)
ListedUnread(u) == Own(u) \cap unread

Listed(u) == Own(u)

(* What may come first, k rows or all, when the newest come first. *)
Firsts(u, k) == {S \in SUBSET Listed(u) :
  /\ Cardinality(S) <= k
  /\ Cardinality(S) < k => S = Listed(u)
  /\ \A s \in S, n \in Listed(u) \ S : Time(n) <= Time(s)}

(* The pages the database may answer with: what comes after offset rows in *)
(* one of the orders that put the newest first.                            *)
Pages(u, offset) == {page \in SUBSET Listed(u) :
  \E before \in Firsts(u, offset) :
    before \cap page = {} /\ before \cup page \in Firsts(u, offset + Limit)}

(* A client asks for one page after the other until one is short. *)
List == \E page \in Pages(Client, reader.offset) :
  LET seen  == IF reader.done THEN {} ELSE reader.seen
      again == IF reader.done THEN {} ELSE reader.again
      short == Cardinality(page) < Limit
  IN /\ reader' = [offset |-> IF short THEN 0 ELSE reader.offset + Limit,
                   had    |-> IF reader.done THEN Listed(Client) ELSE reader.had,
                   seen   |-> seen \cup page,
                   again  |-> again \cup (seen \cap page),
                   done   |-> short]
     /\ UNCHANGED <<clock, notifications, unread, req>>

Next == \/ List
        \/ \E r \in Requests : \/ Create(r) \/ Mark(r) \/ Select(r) \/ Update(r)
                               \/ Commit(r) \/ Abort(r)

Spec == Init /\ [][Next]_vars

-----------------------------------------------------------------------------
(* notifications.py:23: of what its user had at the first page, a client   *)
(* that went through all pages has missed nothing, unless the row has the  *)
(* time of another one that came twice.  New rows between two pages, late  *)
(* ones and marks never hide a row, only the order of equal times does.    *)
MissedOnlyInTies == reader.done =>
  \A n \in reader.had \ reader.seen : \E s \in reader.again : Time(s) = Time(n)

(* Not so: that nothing is missed.  Of two rows of one transaction on two   *)
(* pages the same one may come first both times.                           *)
NothingSkipped == reader.done => reader.had \subseteq reader.seen

(* notifications.py:59: all that a user had when asking to mark all as     *)
(* read is read once the request has committed, whether it wrote a row or  *)
(* none, also what another request was just marking and gave up.           *)
MarkedAll == [][\A r \in Requests :
  Commit(r) /\ req[r].op = "all" => req[r].had \cap unread' = {}]_vars

=============================================================================
