-------------------------- MODULE NotificationsProofs --------------------------
(***************************************************************************)
(* Proofs about Notifications.tla for any users, any number of requests    *)
(* and rows, any times and any length of a page: who goes through all      *)
(* pages misses a row only for another of the same time, who marks all as  *)
(* read has all read.                                                      *)
(***************************************************************************)
EXTENDS Notifications, FiniteSetTheorems, TLAPS

USE PageAssumption

-----------------------------------------------------------------------------
(* The inductive invariant behind both. *)
Row == [user_id : Users, created_at : Nat]

CreateRequest == [op : {"create"}, pc : {"commit"},
                  new : UNION {[ids -> Row] : ids \in SUBSET Rows}]

MarkRequest == [op : {"one", "all"}, pc : {"begin", "wait", "commit"}, user : Users,
                had : SUBSET Rows, rows : SUBSET Rows]

Request == CreateRequest \cup MarkRequest

TypeOK ==
  /\ clock \in Nat
  /\ DOMAIN notifications \subseteq Rows
  /\ notifications \in [DOMAIN notifications -> Row]
  /\ unread \subseteq DOMAIN notifications
  /\ req \in [Requests -> Request \cup {Idle}]
  /\ reader \in [offset : Nat, had : SUBSET Rows, seen : SUBSET Rows, again : SUBSET Rows,
                 done : BOOLEAN]

(* The rows that a request is about to create are in no table yet. *)
Fresh(q) == q.op = "create" => DOMAIN q.new \cap DOMAIN notifications = {}

DifferentRows(p, q) ==
  p.op = "create" /\ q.op = "create" => DOMAIN p.new \cap DOMAIN q.new = {}

(* What an UPDATE has not found or has let go of is read for good. *)
Covers(q) == q.op = "all" =>
  /\ q.had \subseteq Own(q.user)
  /\ q.pc # "begin" => q.had \cap unread \subseteq q.rows

(* The client's rows of the time of one of them, and the newer ones. *)
Tied(n) == {s \in Own(Client) : Time(s) = Time(n)}

Newer(n) == {s \in Own(Client) : Time(s) > Time(n)}

(* If no row of n's time came twice, as many of them have been seen as lie *)
(* before the next page, or all that the client had.                       *)
Reached(n, had, seen, offset) ==
  \/ Tied(n) \cap had \subseteq seen
  \/ Cardinality(Tied(n) \cap seen) + Cardinality(Newer(n)) >= offset

OnTrack(n, had, seen, again, offset) ==
  Tied(n) \cap again = {} => Reached(n, had, seen, offset)

Ahead ==
  /\ reader.had \subseteq Own(Client)
  /\ reader.seen \subseteq Own(Client)
  /\ reader.again \subseteq Own(Client)
  /\ IF reader.done THEN reader.offset = 0
     ELSE \A n \in reader.had :
            OnTrack(n, reader.had, reader.seen, reader.again, reader.offset)

IInv ==
  /\ TypeOK
  /\ \A r \in Requests : Fresh(req[r]) /\ Covers(req[r])
  /\ \A r, s \in Requests : r # s => DifferentRows(req[r], req[s])
  /\ Ahead
  /\ MissedOnlyInTies

-----------------------------------------------------------------------------
(* Pages.                                                                  *)

LEMMA OwnIsFinite ==
  ASSUME TypeOK, NEW u
  PROVE  /\ Own(u) \in SUBSET Rows /\ IsFiniteSet(Own(u))
         /\ \A n \in Own(u) : n \in DOMAIN notifications /\ Time(n) \in Nat
<1>1. Own(u) \in SUBSET Rows
  BY DEF TypeOK, Own
<1>2. \A n \in Own(u) : n \in DOMAIN notifications /\ Time(n) \in Nat
  BY DEF TypeOK, Own, Row, Time
<1> QED BY <1>1, <1>2, FS_Subset

(* V is made of two parts, which have nothing in common. *)
Split(S, T, U, V) ==
  IsFiniteSet(S) /\ V = T \cup U /\ V \in SUBSET S /\ T \cap U = {}

LEMMA Parts ==
  ASSUME NEW S, NEW T, NEW U, NEW V, Split(S, T, U, V)
  PROVE  /\ Cardinality(T) \in Nat /\ Cardinality(U) \in Nat /\ Cardinality(S) \in Nat
         /\ Cardinality(V) = Cardinality(T) + Cardinality(U)
         /\ Cardinality(V) <= Cardinality(S)
<1>1. IsFiniteSet(S) /\ V = T \cup U /\ V \in SUBSET S /\ T \cap U = {}
  BY DEF Split
<1>2. IsFiniteSet(T) /\ IsFiniteSet(U)
  BY <1>1, FS_Subset
<1>3. /\ Cardinality(T) \in Nat /\ Cardinality(U) \in Nat /\ Cardinality(S) \in Nat
      /\ Cardinality({}) = 0
  BY <1>1, <1>2, FS_CardinalityType, FS_EmptySet
<1>4. Cardinality(T \cup U) = Cardinality(T) + Cardinality(U) - Cardinality(T \cap U)
  BY <1>2, FS_Union
<1>5. Cardinality(V) <= Cardinality(S)
  BY <1>1, FS_Subset
<1>6. Cardinality(T \cap U) = 0 /\ Cardinality(T \cup U) = Cardinality(V)
  BY <1>1, <1>3
<1> QED BY <1>3, <1>4, <1>5, <1>6

(* What comes before a page holds no more of a time than was seen of it. *)
LEMMA BeforePage ==
  ASSUME TypeOK, NEW offset \in Nat, NEW before \in Firsts(Client, offset),
         NEW n \in Own(Client), NEW seen \in SUBSET Own(Client),
         Cardinality(Tied(n) \cap seen) + Cardinality(Newer(n)) >= offset
  PROVE  Cardinality(Tied(n) \cap before) <= Cardinality(Tied(n) \cap seen)
<1> DEFINE own == Own(Client)
<1>1. /\ IsFiniteSet(own) /\ before \in SUBSET own /\ Cardinality(before) <= offset
      /\ \A s \in before, t \in own \ before : Time(t) <= Time(s)
  BY OwnIsFinite DEF Firsts, Listed
<1>2. /\ Tied(n) \in SUBSET own /\ Newer(n) \in SUBSET own
      /\ \A s \in own : Time(s) \in Nat
  BY OwnIsFinite DEF Tied, Newer
<1>3. IsFiniteSet(before) /\ IsFiniteSet(Tied(n) \cap seen)
  BY <1>1, <1>2, FS_Subset
<1>4. Cardinality(before) \in Nat /\ Cardinality(Tied(n) \cap seen) \in Nat
  BY <1>3, FS_CardinalityType
<1>5. CASE Tied(n) \cap before = {}
  <2>1. Cardinality(Tied(n) \cap before) = 0
    BY <1>5, FS_EmptySet
  <2> QED BY <1>4, <2>1
<1>6. CASE Tied(n) \cap before # {}
  <2>1. Newer(n) \in SUBSET before
    BY <1>1, <1>2, <1>6 DEF Tied, Newer
  <2>2. Newer(n) \cap (Tied(n) \cap before) = {}
    BY <1>2 DEF Tied, Newer
  <2>3. PICK part : part = Tied(n) \cap before
    OBVIOUS
  <2>4. part \in SUBSET before /\ Newer(n) \cap part = {}
    BY <2>2, <2>3
  <2>5. /\ Cardinality(Newer(n)) \in Nat /\ Cardinality(part) \in Nat
        /\ Cardinality(Newer(n)) + Cardinality(part) <= Cardinality(before)
    <3>1. Split(before, Newer(n), part, Newer(n) \cup part)
      BY <1>3, <2>1, <2>4 DEF Split
    <3> QED BY <3>1, Parts
  <2> QED BY <1>1, <1>4, <2>3, <2>5
<1> QED BY <1>5, <1>6

(* Turning a page that repeats no row of a time keeps that time on track;  *)
(* if the page is short, all rows of the time have been seen.              *)
LEMMA PageTurned ==
  ASSUME TypeOK, NEW offset \in Nat, NEW page \in Pages(Client, offset),
         NEW n \in Own(Client), NEW had, NEW seen \in SUBSET Own(Client),
         Tied(n) \cap (seen \cap page) = {}, Reached(n, had, seen, offset)
  PROVE  /\ Reached(n, had, seen \cup page, offset + Limit)
         /\ Cardinality(page) < Limit => Tied(n) \cap had \subseteq seen \cup page
<1> DEFINE own  == Own(Client)
           tied == Tied(n)
<1>1. PICK before \in Firsts(Client, offset) :
        before \cap page = {} /\ before \cup page \in Firsts(Client, offset + Limit)
  BY DEF Pages
<1>2. PICK through : through = before \cup page
  OBVIOUS
<1>3. /\ IsFiniteSet(own) /\ \A s \in own : Time(s) \in Nat
      /\ tied \in SUBSET own /\ Newer(n) \in SUBSET own
      /\ page \in SUBSET own /\ before \in SUBSET own /\ through \in SUBSET own
  BY <1>2, OwnIsFinite DEF Tied, Newer, Pages, Firsts, Listed
<1>4. CASE tied \cap had \subseteq seen
  BY <1>4 DEF Reached
<1>5. CASE Cardinality(tied \cap seen) + Cardinality(Newer(n)) >= offset
  <2>1. PICK before1, seen1, page1, through1, seen2 :
          /\ before1 = tied \cap before /\ through1 = tied \cap through
          /\ page1 = tied \cap page
          /\ seen1 = tied \cap seen /\ seen2 = tied \cap (seen \cup page)
    OBVIOUS
  <2>2. /\ before1 \in SUBSET own /\ page1 \in SUBSET own /\ seen1 \in SUBSET own
        /\ before1 \cup page1 = through1 /\ before1 \cap page1 = {}
        /\ seen1 \cup page1 = seen2 /\ seen1 \cap page1 = {}
    BY <1>1, <1>2, <1>3, <2>1
  <2>3. /\ Cardinality(through1) = Cardinality(before1) + Cardinality(page1)
        /\ Cardinality(seen2) = Cardinality(seen1) + Cardinality(page1)
        /\ Cardinality(before1) \in Nat /\ Cardinality(page1) \in Nat
        /\ Cardinality(seen1) \in Nat
    <3>1. Split(own, before1, page1, through1) /\ Split(own, seen1, page1, seen2)
      BY <1>3, <2>2 DEF Split
    <3> QED BY <3>1, Parts
  <2>4. Cardinality(through1) <= Cardinality(seen2)
    <3>1. Cardinality(before1) <= Cardinality(seen1)
      BY <1>1, <1>5, <2>1, BeforePage
    <3> QED BY <2>3, <3>1
  <2>5. ASSUME tied \subseteq through PROVE tied \subseteq seen \cup page
    <3>1. through1 = tied /\ seen2 \in SUBSET tied
      BY <2>1, <2>5
    <3>2. IsFiniteSet(tied)
      BY <1>3, FS_Subset
    <3> HIDE DEF tied
    <3>3. /\ Cardinality(tied) \in Nat /\ Cardinality(seen2) <= Cardinality(tied)
          /\ Cardinality(seen2) = Cardinality(tied) => seen2 = tied
      BY <3>1, <3>2, FS_Subset, FS_CardinalityType
    <3>4. Cardinality(seen2) = Cardinality(tied)
      BY <2>3, <2>4, <3>1, <3>3
    <3> QED BY <2>1, <3>3, <3>4
  <2>6. ASSUME ~(tied \subseteq through)
        PROVE  /\ Cardinality(through1) + Cardinality(Newer(n)) >= offset + Limit
               /\ Cardinality(through) >= offset + Limit
    <3>1. PICK s \in tied : s \notin through
      BY <2>6
    <3>2. /\ \A t \in through : Time(s) <= Time(t)
          /\ ~(Cardinality(through) < offset + Limit)
      BY <1>1, <1>2, <1>3, <3>1 DEF Firsts, Listed
    <3>3. through \in SUBSET (through1 \cup Newer(n))
      BY <1>3, <2>1, <3>1, <3>2 DEF Tied, Newer
    <3>4. through1 \in SUBSET own /\ through1 \cap Newer(n) = {}
      BY <1>3, <2>1 DEF Tied, Newer
    <3> HIDE DEF tied, own
    <3>5. PICK union : union = through1 \cup Newer(n)
      OBVIOUS
    <3>6. union \in SUBSET own /\ IsFiniteSet(union)
      BY <1>3, <3>4, <3>5, FS_Subset
    <3>7. Cardinality(union) = Cardinality(through1) + Cardinality(Newer(n))
      <4>1. Split(own, through1, Newer(n), union)
        BY <1>3, <3>4, <3>5, <3>6 DEF Split
      <4> QED BY <4>1, Parts
    <3>8. Cardinality(through) <= Cardinality(union) /\ IsFiniteSet(through)
      BY <3>3, <3>5, <3>6, FS_Subset
    <3>9. Cardinality(through) \in Nat /\ Cardinality(union) \in Nat
      BY <3>6, <3>8, FS_CardinalityType
    <3> QED BY <3>2, <3>7, <3>8, <3>9
  <2>7. Cardinality(page) < Limit => tied \subseteq through
    <3>1. /\ Cardinality(through) = Cardinality(before) + Cardinality(page)
          /\ Cardinality(before) \in Nat /\ Cardinality(page) \in Nat
      <4>1. Split(own, before, page, through)
        BY <1>1, <1>2, <1>3 DEF Split
      <4> QED BY <4>1, Parts
    <3>2. Cardinality(before) <= offset
      BY DEF Firsts
    <3> QED BY <2>6, <3>1, <3>2
  <2>8. Cardinality(Newer(n)) \in Nat
    BY <1>3, FS_Subset, FS_CardinalityType
  <2> HIDE DEF tied
  <2>9. CASE tied \subseteq through
    BY <2>5, <2>9 DEF Reached, tied
  <2>10. CASE ~(tied \subseteq through)
    <3>1. Cardinality(seen2) + Cardinality(Newer(n)) >= offset + Limit
      BY <2>3, <2>4, <2>6, <2>8, <2>10
    <3> QED BY <2>1, <2>7, <2>10, <3>1 DEF Reached, tied
  <2> QED BY <2>9, <2>10
<1> QED BY <1>4, <1>5 DEF Reached

-----------------------------------------------------------------------------
LEMMA Initially == Init => IInv
<1> SUFFICES ASSUME Init PROVE IInv
  OBVIOUS
<1>1. DOMAIN notifications = {} /\ \A r \in Requests : req[r].op = "idle"
  BY DEF Init, Idle
<1>2. TypeOK
  BY <1>1 DEF Init, TypeOK
<1>3. Ahead /\ MissedOnlyInTies
  BY DEF Init, Ahead, MissedOnlyInTies
<1> QED BY <1>1, <1>2, <1>3 DEF IInv, Fresh, Covers, DifferentRows

(* Rows are not deleted and do not change. *)
RowsStay ==
  /\ DOMAIN notifications \subseteq DOMAIN notifications'
  /\ \A n \in DOMAIN notifications : notifications'[n] = notifications[n]

LEMMA OwnStay ==
  ASSUME RowsStay
  PROVE  /\ \A u : Own(u) \subseteq Own(u)'
         /\ \A u : \A n \in Own(u) : Time(n)' = Time(n)
BY DEF RowsStay, Own, Time

(* New rows do not take a time off its track: those of the client that it  *)
(* had or has seen stay what they are, newer ones are only added.          *)
LEMMA TrackKept ==
  ASSUME TypeOK, TypeOK', RowsStay, NEW n \in Own(Client),
         NEW had \in SUBSET Own(Client), NEW seen \in SUBSET Own(Client),
         NEW again \in SUBSET Own(Client), NEW offset \in Nat,
         OnTrack(n, had, seen, again, offset)
  PROVE  OnTrack(n, had, seen, again, offset)'
<1>1. /\ Tied(n)' \cap had = Tied(n) \cap had
      /\ Tied(n)' \cap seen = Tied(n) \cap seen
      /\ Tied(n)' \cap again = Tied(n) \cap again
  BY OwnStay DEF Tied
<1>2. PICK newer : newer = Newer(n)'
  OBVIOUS
<1>3. Newer(n) \in SUBSET newer
  BY <1>2, OwnStay DEF Newer
<1>4. newer \in SUBSET Rows
  BY <1>2 DEF Newer, Own, TypeOK
<1>5. IsFiniteSet(newer) /\ IsFiniteSet(Newer(n)) /\ IsFiniteSet(Tied(n) \cap seen)
  <2>1. IsFiniteSet(newer)
    BY <1>4, FS_Subset
  <2>2. Tied(n) \cap seen \in SUBSET Rows
    BY OwnIsFinite
  <2> QED BY <1>3, <2>1, <2>2, FS_Subset
<1>6. /\ Cardinality(Newer(n)) <= Cardinality(newer) /\ Cardinality(newer) \in Nat
      /\ Cardinality(Newer(n)) \in Nat /\ Cardinality(Tied(n) \cap seen) \in Nat
  BY <1>3, <1>5, FS_Subset, FS_CardinalityType
<1>7. ASSUME Tied(n) \cap again = {} PROVE Reached(n, had, seen, offset)'
  <2>1. CASE Tied(n) \cap had \subseteq seen
    BY <1>1, <2>1 DEF Reached
  <2>2. CASE Cardinality(Tied(n) \cap seen) + Cardinality(Newer(n)) >= offset
    <3>1. Cardinality(Tied(n) \cap seen) + Cardinality(newer) >= offset
      BY <1>6, <2>2
    <3> QED BY <1>1, <1>2, <3>1 DEF Reached
  <2> QED BY <1>7, <2>1, <2>2 DEF OnTrack, Reached
<1> QED BY <1>1, <1>7 DEF OnTrack

(* A step that leaves the rows alone and one that only adds some keep the  *)
(* client on its way.                                                      *)
LEMMA AheadKept ==
  ASSUME IInv, TypeOK', RowsStay, UNCHANGED reader
  PROVE  Ahead' /\ MissedOnlyInTies'
<1>1. PICK had, seen, again, offset :
        /\ had = reader.had /\ seen = reader.seen /\ again = reader.again
        /\ offset = reader.offset
  OBVIOUS
<1>2. /\ had \in SUBSET Own(Client) /\ seen \in SUBSET Own(Client)
      /\ again \in SUBSET Own(Client) /\ offset \in Nat
  BY <1>1 DEF IInv, Ahead, TypeOK
<1>3. /\ had \subseteq Own(Client)' /\ seen \subseteq Own(Client)'
      /\ again \subseteq Own(Client)'
  BY <1>2, OwnStay
<1>4. ASSUME ~reader.done, NEW n \in had PROVE OnTrack(n, had, seen, again, offset)'
  <2>1. OnTrack(n, had, seen, again, offset)
    BY <1>1, <1>4 DEF IInv, Ahead
  <2> QED BY <1>2, <1>4, <2>1, TrackKept DEF IInv
<1>5. Ahead'
  BY <1>1, <1>3, <1>4 DEF IInv, Ahead
<1>6. ASSUME reader.done, NEW n \in had \ seen PROVE \E s \in again : Time(s)' = Time(n)'
  <2>1. PICK s \in again : Time(s) = Time(n)
    BY <1>1, <1>6 DEF IInv, MissedOnlyInTies
  <2> QED BY <1>2, <2>1, OwnStay
<1> QED BY <1>1, <1>5, <1>6 DEF MissedOnlyInTies

(* A step of one request that leaves the rows alone. *)
LEMMA RequestStep ==
  ASSUME IInv, NEW r \in Requests, NEW q \in Request \cup {Idle}, Set(r, q),
         clock' \in Nat, UNCHANGED <<notifications, unread, reader>>,
         Fresh(q), Covers(q),
         \A s \in Requests \ {r} : DifferentRows(q, req[s]) /\ DifferentRows(req[s], q)
  PROVE  IInv'
<1> USE DEF IInv
<1>1. /\ req' \in [Requests -> Request \cup {Idle}] /\ req'[r] = q
      /\ \A s \in Requests \ {r} : req'[s] = req[s]
  BY DEF Set, TypeOK
<1>2. TypeOK'
  BY <1>1 DEF TypeOK
<1>3. ASSUME NEW s \in Requests PROVE Fresh(req[s])' /\ Covers(req[s])'
  <2>1. CASE s = r
    BY <1>1, <2>1 DEF Covers, Own, Fresh
  <2>2. CASE s # r
    BY <1>1, <2>2 DEF Covers, Own, Fresh, TypeOK
  <2> QED BY <2>1, <2>2
<1>4. (\A p, s \in Requests : p # s => DifferentRows(req[p], req[s]))'
  BY <1>1 DEF DifferentRows
<1>5. Ahead' /\ MissedOnlyInTies'
  BY <1>2, AheadKept DEF RowsStay
<1> QED BY <1>2, <1>3, <1>4, <1>5

(* A transaction takes ids that no row has and no other one has taken. *)
LEMMA CreateStep == ASSUME IInv, NEW r \in Requests, Create(r) PROVE IInv'
<1> USE DEF IInv
<1>1. PICK ids \in (SUBSET Unused) \ {{}}, t \in clock .. clock + 1 :
        \E user \in [ids -> Users] :
          /\ req[r] = Idle
          /\ t <= MaxTime
          /\ clock' = t
          /\ Set(r, [op |-> "create", pc |-> "commit",
                     new |-> [n \in ids |-> [user_id |-> user[n], created_at |-> t]]])
          /\ UNCHANGED <<notifications, unread, reader>>
  BY Zenon DEF Create
<1>2. PICK user \in [ids -> Users] :
        Set(r, [op |-> "create", pc |-> "commit",
                new |-> [n \in ids |-> [user_id |-> user[n], created_at |-> t]]])
  BY <1>1
<1>3. UNCHANGED <<notifications, unread, reader>> /\ clock' = t /\ t \in Nat
  BY <1>1 DEF TypeOK
<1>4. PICK new : new = [n \in ids |-> [user_id |-> user[n], created_at |-> t]]
  OBVIOUS
<1>5. PICK q : q = [op |-> "create", pc |-> "commit", new |-> new]
  OBVIOUS
<1>6. /\ ids \in SUBSET Rows /\ ids \cap DOMAIN notifications = {}
      /\ \A s \in Requests : Creating(s) => ids \cap DOMAIN req[s].new = {}
  BY <1>1 DEF Unused
<1>7. new \in [ids -> Row] /\ DOMAIN new = ids
  BY <1>3, <1>4 DEF Row
<1>8. q \in Request
  BY <1>5, <1>6, <1>7 DEF Request, CreateRequest
<1>9. Fresh(q) /\ Covers(q)
  BY <1>5, <1>6, <1>7 DEF Fresh, Covers
<1>10. \A s \in Requests : DifferentRows(q, req[s]) /\ DifferentRows(req[s], q)
  BY <1>5, <1>6, <1>7 DEF DifferentRows, Creating
<1> QED BY <1>2, <1>3, <1>4, <1>5, <1>8, <1>9, <1>10, RequestStep

LEMMA MarkStep == ASSUME IInv, NEW r \in Requests, Mark(r) PROVE IInv'
<1> USE DEF IInv
<1>1. UNCHANGED <<clock, notifications, unread, reader>> /\ clock \in Nat
  BY DEF Mark, TypeOK
<1>2. ASSUME NEW q \in MarkRequest, Set(r, q), q.pc = "begin", q.had \subseteq Own(q.user)
      PROVE  IInv'
  <2>1. Fresh(q) /\ Covers(q)
    BY <1>2 DEF MarkRequest, Fresh, Covers
  <2>2. \A s \in Requests : DifferentRows(q, req[s]) /\ DifferentRows(req[s], q)
    BY DEF MarkRequest, DifferentRows
  <2> QED BY <1>1, <1>2, <2>1, <2>2, RequestStep DEF Request
<1>3. ASSUME NEW u \in Users, NEW n \in DOMAIN notifications,
             Set(r, [op |-> "one", pc |-> "begin", user |-> u, had |-> {}, rows |-> {n}])
      PROVE  IInv'
  <2>1. PICK q : q = [op |-> "one", pc |-> "begin", user |-> u, had |-> {}, rows |-> {n}]
    OBVIOUS
  <2>2. q \in MarkRequest /\ q.pc = "begin" /\ q.had \subseteq Own(q.user)
    BY <2>1 DEF MarkRequest, TypeOK
  <2> QED BY <1>2, <1>3, <2>1, <2>2
<1>4. ASSUME NEW u \in Users,
             Set(r, [op |-> "all", pc |-> "begin", user |-> u, had |-> Own(u), rows |-> {}])
      PROVE  IInv'
  <2>1. PICK q : q = [op |-> "all", pc |-> "begin", user |-> u, had |-> Own(u),
                      rows |-> {}]
    OBVIOUS
  <2>2. q \in MarkRequest /\ q.pc = "begin" /\ q.had \subseteq Own(q.user)
    BY <2>1, OwnIsFinite DEF MarkRequest
  <2> QED BY <1>2, <1>4, <2>1, <2>2
<1> QED BY <1>3, <1>4 DEF Mark

(* An UPDATE finds what is unread, waits, and lets go of what became read. *)
LEMMA UpdateStep == ASSUME IInv, NEW r \in Requests, Select(r) \/ Update(r) PROVE IInv'
<1> USE DEF IInv
<1>1. PICK q : q = req[r]
  OBVIOUS
<1>2. /\ q \in MarkRequest /\ Covers(q)
      /\ UNCHANGED <<clock, notifications, unread, reader>> /\ clock \in Nat
      /\ Own(q.user) \in SUBSET Rows
  BY <1>1, OwnIsFinite
     DEF TypeOK, Select, Update, Marking, Request, CreateRequest, Idle
<1>3. ASSUME NEW p, Set(r, p), p \in MarkRequest, p.op = q.op, p.user = q.user,
             p.had = q.had, q.op = "all" => q.had \cap unread \subseteq p.rows
      PROVE  IInv'
  <2>1. Fresh(p) /\ Covers(p)
    BY <1>2, <1>3 DEF MarkRequest, Fresh, Covers
  <2>2. \A s \in Requests : DifferentRows(p, req[s]) /\ DifferentRows(req[s], p)
    BY <1>3 DEF MarkRequest, DifferentRows
  <2> QED BY <1>2, <1>3, <2>1, <2>2, RequestStep DEF Request
<1>4. CASE Select(r)
  <2>1. PICK rows : rows = Found(r)
    OBVIOUS
  <2>2. rows \in SUBSET Rows /\ (q.op = "all" => rows = Own(q.user) \cap unread)
    BY <1>1, <1>2, <2>1 DEF Found
  <2>3. PICK p : p = [q EXCEPT !.pc = "wait", !.rows = rows]
    OBVIOUS
  <2>4. p \in MarkRequest /\ p.op = q.op /\ p.user = q.user /\ p.had = q.had /\ p.rows = rows
    BY <1>2, <2>2, <2>3 DEF MarkRequest
  <2>5. Set(r, p)
    BY <1>1, <1>4, <2>1, <2>3 DEF Select
  <2> QED BY <1>2, <1>3, <2>2, <2>4, <2>5 DEF Covers
<1>5. CASE Update(r)
  <2>1. PICK rows : rows = IF q.op = "one" THEN q.rows ELSE q.rows \cap unread
    OBVIOUS
  <2>2. /\ q.pc = "wait" /\ rows \in SUBSET Rows
        /\ q.op = "all" => rows = q.rows \cap unread
    BY <1>1, <1>2, <1>5, <2>1 DEF Update, MarkRequest
  <2>3. PICK p : p = [q EXCEPT !.pc = "commit", !.rows = rows]
    OBVIOUS
  <2>4. p \in MarkRequest /\ p.op = q.op /\ p.user = q.user /\ p.had = q.had /\ p.rows = rows
    BY <1>2, <2>2, <2>3 DEF MarkRequest
  <2>5. Set(r, p)
    BY <1>1, <1>5, <2>1, <2>3 DEF Update
  <2> QED BY <1>2, <1>3, <2>2, <2>4, <2>5 DEF Covers
<1> QED BY <1>4, <1>5

LEMMA AbortStep == ASSUME IInv, NEW r \in Requests, Abort(r) PROVE IInv'
<1>1. Idle.op = "idle" /\ clock \in Nat
  BY DEF Idle, IInv, TypeOK
<1> QED BY <1>1, RequestStep DEF Abort, Fresh, Covers, DifferentRows

(* A commit adds rows that were in no table, or marks rows as read. *)
LEMMA CommitRows ==
  ASSUME IInv, NEW r \in Requests, Commit(r)
  PROVE  /\ TypeOK' /\ RowsStay
         /\ DOMAIN notifications' \subseteq DOMAIN notifications \cup
              (IF req[r].op = "create" THEN DOMAIN req[r].new ELSE {})
         /\ unread' \cap DOMAIN notifications \subseteq unread
<1> USE DEF IInv
<1>1. PICK q : q = req[r]
  OBVIOUS
<1>2. q \in Request /\ Fresh(q) /\ UNCHANGED <<clock, reader>>
  BY <1>1 DEF TypeOK, Commit
<1>3. req' \in [Requests -> Request \cup {Idle}]
  BY DEF TypeOK, Commit, Set
<1>4. CASE q.op = "create"
  <2>1. PICK new : new = q.new
    OBVIOUS
  <2>2. /\ DOMAIN new \in SUBSET Rows /\ new \in [DOMAIN new -> Row]
        /\ DOMAIN new \cap DOMAIN notifications = {}
    BY <1>2, <1>4, <2>1 DEF Fresh, Request, CreateRequest, MarkRequest
  <2>3. notifications' = Inserted(new) /\ unread' = unread \cup DOMAIN new
    BY <1>1, <1>4, <2>1 DEF Commit
  <2>4. /\ DOMAIN notifications' = DOMAIN notifications \cup DOMAIN new
        /\ notifications' \in [DOMAIN notifications' -> Row]
    BY <2>2, <2>3 DEF TypeOK, Inserted
  <2>5. RowsStay
    BY <2>2, <2>3, <2>4 DEF RowsStay, Inserted
  <2>6. DOMAIN notifications' \subseteq Rows /\ unread' \subseteq DOMAIN notifications'
    BY <2>2, <2>3, <2>4 DEF TypeOK
  <2>7. TypeOK'
    BY <1>2, <1>3, <2>4, <2>6 DEF TypeOK
  <2> QED BY <1>1, <1>4, <2>1, <2>2, <2>3, <2>4, <2>5, <2>7
<1>5. CASE q.op # "create"
  <2>1. unread' = unread \ q.rows /\ UNCHANGED notifications
    BY <1>1, <1>5 DEF Commit
  <2> QED BY <1>1, <1>2, <1>3, <1>5, <2>1 DEF TypeOK, RowsStay
<1> QED BY <1>4, <1>5

LEMMA CommitStep == ASSUME IInv, NEW r \in Requests, Commit(r) PROVE IInv'
<1> USE DEF IInv
<1>1. /\ req'[r] = Idle /\ Idle.op = "idle" /\ UNCHANGED <<clock, reader>>
      /\ \A s \in Requests \ {r} : req'[s] = req[s]
  BY DEF TypeOK, Commit, Set, Idle
<1>2. Ahead' /\ MissedOnlyInTies'
  BY <1>1, CommitRows, AheadKept
<1>3. ASSUME NEW s \in Requests \ {r} PROVE Fresh(req[s])' /\ Covers(req[s])'
  <2>1. PICK p : p = req[s]
    OBVIOUS
  <2>2. req'[s] = p /\ Fresh(p) /\ Covers(p) /\ DifferentRows(p, req[r])
    BY <1>1, <2>1
  <2>3. Fresh(p)'
    BY <1>1, <2>2, CommitRows DEF Fresh, DifferentRows
  <2>4. Covers(p)'
    <3>1. unread' \cap Own(p.user) \subseteq unread
      BY CommitRows DEF Own
    <3>2. Own(p.user) \subseteq Own(p.user)'
      BY CommitRows, OwnStay
    <3> QED BY <2>2, <3>1, <3>2 DEF Covers
  <2> QED BY <2>2, <2>3, <2>4 DEF Fresh, Covers, Own
<1>4. (\A s \in Requests : Fresh(req[s]) /\ Covers(req[s]))'
  BY <1>1, <1>3 DEF Fresh, Covers
<1>5. (\A p, s \in Requests : p # s => DifferentRows(req[p], req[s]))'
  BY <1>1 DEF DifferentRows
<1> QED BY <1>2, <1>4, <1>5, CommitRows

-----------------------------------------------------------------------------
(* A page that is not short leaves each time on its track, one that is     *)
(* short ends it.                                                          *)
LEMMA ListStep == ASSUME IInv, List PROVE IInv'
<1> USE DEF IInv
<1>1. PICK offset : offset = reader.offset
  OBVIOUS
<1>2. PICK page \in Pages(Client, offset) :
        LET seen  == IF reader.done THEN {} ELSE reader.seen
            again == IF reader.done THEN {} ELSE reader.again
            short == Cardinality(page) < Limit
        IN reader' = [offset |-> IF short THEN 0 ELSE reader.offset + Limit,
                      had    |-> IF reader.done THEN Listed(Client) ELSE reader.had,
                      seen   |-> seen \cup page,
                      again  |-> again \cup (seen \cap page),
                      done   |-> short]
  BY <1>1, Zenon DEF List
<1>3. PICK had, seen, again :
        /\ had = IF reader.done THEN Own(Client) ELSE reader.had
        /\ seen = IF reader.done THEN {} ELSE reader.seen
        /\ again = IF reader.done THEN {} ELSE reader.again
  OBVIOUS
<1>4. PICK short : short = (Cardinality(page) < Limit)
  OBVIOUS
<1>5. reader' = [offset |-> IF short THEN 0 ELSE offset + Limit, had |-> had,
                 seen |-> seen \cup page, again |-> again \cup (seen \cap page),
                 done |-> short]
  BY <1>1, <1>2, <1>3, <1>4 DEF Listed
<1>6. /\ reader'.offset = (IF short THEN 0 ELSE offset + Limit) /\ reader'.had = had
      /\ reader'.seen = seen \cup page /\ reader'.again = again \cup (seen \cap page)
      /\ reader'.done = short
  BY <1>5
<1>7. UNCHANGED <<clock, notifications, unread, req>>
  BY DEF List
<1>8. /\ page \in SUBSET Own(Client) /\ Own(Client) \in SUBSET Rows
      /\ had \in SUBSET Own(Client) /\ seen \in SUBSET Own(Client)
      /\ again \in SUBSET Own(Client) /\ offset \in Nat /\ short \in BOOLEAN
  BY <1>1, <1>3, <1>4, OwnIsFinite DEF Pages, Listed, Ahead, TypeOK
<1>9. TypeOK'
  <2>1. (IF short THEN 0 ELSE offset + Limit) \in Nat
    BY <1>8
  <2>2. reader' \in [offset : Nat, had : SUBSET Rows, seen : SUBSET Rows,
                     again : SUBSET Rows, done : BOOLEAN]
    BY <1>5, <1>8, <2>1
  <2> QED BY <1>7, <2>2 DEF TypeOK
<1>10. ASSUME NEW n \in had, Tied(n) \cap (again \cup (seen \cap page)) = {}
       PROVE  /\ Reached(n, had, seen \cup page, offset + Limit)
              /\ short => Tied(n) \cap had \subseteq seen \cup page
  <2>1. ASSUME reader.done PROVE Reached(n, had, seen, offset)
    <3>1. offset = 0 /\ seen = {}
      BY <1>1, <1>3, <2>1 DEF Ahead
    <3>2. Tied(n) \cap seen \in SUBSET Own(Client) /\ Newer(n) \in SUBSET Own(Client)
      BY <1>8 DEF Newer
    <3>3. Cardinality(Tied(n) \cap seen) \in Nat /\ Cardinality(Newer(n)) \in Nat
      BY <3>2, OwnIsFinite, FS_Subset, FS_CardinalityType
    <3> QED BY <3>1, <3>3 DEF Reached
  <2>2. ASSUME ~reader.done PROVE Reached(n, had, seen, offset)
    <3>1. OnTrack(n, had, seen, again, offset)
      BY <1>1, <1>3, <1>10, <2>2 DEF Ahead
    <3> QED BY <1>10, <3>1 DEF OnTrack
  <2>3. Reached(n, had, seen, offset)
    BY <2>1, <2>2
  <2>4. n \in Own(Client) /\ Tied(n) \cap (seen \cap page) = {}
    BY <1>8, <1>10
  <2>5. /\ Reached(n, had, seen \cup page, offset + Limit)
        /\ Cardinality(page) < Limit => Tied(n) \cap had \subseteq seen \cup page
    BY <1>8, <2>3, <2>4, PageTurned
  <2> QED BY <1>4, <2>5
<1>11. PICK seen2, again2 : seen2 = seen \cup page /\ again2 = again \cup (seen \cap page)
  OBVIOUS
<1>12. /\ \A n : Time(n)' = Time(n) /\ Tied(n)' = Tied(n) /\ Newer(n)' = Newer(n)
       /\ \A u : Own(u)' = Own(u)
  BY <1>7 DEF Time, Tied, Newer, Own
<1>13. ASSUME ~short, NEW n \in had PROVE OnTrack(n, had, seen2, again2, offset + Limit)'
  <2>1. Tied(n) \cap again2 = {} => Reached(n, had, seen2, offset + Limit)
    BY <1>10, <1>11, <1>13
  <2> QED BY <1>12, <2>1 DEF OnTrack, Reached
<1>14. ASSUME short, NEW n \in had \ seen2 PROVE \E s \in again2 : Time(s) = Time(n)
  <2>1. n \in Tied(n) \cap had
    BY <1>8, <1>14 DEF Tied
  <2>2. PICK s \in Tied(n) : s \in again2
    BY <1>10, <1>11, <1>14, <2>1
  <2> QED BY <2>2 DEF Tied
<1>15. Ahead'
  BY <1>6, <1>8, <1>11, <1>12, <1>13 DEF Ahead
<1>16. MissedOnlyInTies'
  BY <1>6, <1>11, <1>12, <1>14 DEF MissedOnlyInTies
<1>17. (\A r \in Requests : Fresh(req[r]) /\ Covers(req[r]))'
  BY <1>7, <1>12 DEF Fresh, Covers
<1>18. (\A r, s \in Requests : r # s => DifferentRows(req[r], req[s]))'
  BY <1>7 DEF DifferentRows
<1> QED BY <1>9, <1>15, <1>16, <1>17, <1>18

LEMMA Inductive == IInv /\ [Next]_vars => IInv'
<1> SUFFICES ASSUME IInv, [Next]_vars PROVE IInv'
  OBVIOUS
<1>1. CASE List
  BY <1>1, ListStep
<1>2. ASSUME NEW r \in Requests,
             Create(r) \/ Mark(r) \/ Select(r) \/ Update(r) \/ Commit(r) \/ Abort(r)
      PROVE  IInv'
  BY <1>2, CreateStep, MarkStep, UpdateStep, CommitStep, AbortStep
<1>3. CASE UNCHANGED vars
  <2>1. UNCHANGED <<clock, notifications, unread, req, reader>>
    BY <1>3 DEF vars
  <2> QED BY <2>1 DEF IInv, TypeOK, Fresh, Covers, DifferentRows, Ahead, MissedOnlyInTies,
                      OnTrack, Reached, Tied, Newer, Own, Time
<1> QED BY <1>1, <1>2, <1>3 DEF Next

(* Who marks all as read and commits has read all there was, whatever      *)
(* others marked, gave up or added meanwhile.                              *)
LEMMA MarksAll ==
  ASSUME IInv, NEW r \in Requests, Commit(r), req[r].op = "all"
  PROVE  req[r].had \cap unread' = {}
<1>1. unread' = unread \ req[r].rows /\ req[r].pc = "commit"
  BY DEF Commit
<1> QED BY <1>1 DEF IInv, Covers

-----------------------------------------------------------------------------
(* IInv is an invariant: what a request is about to create is in no table, *)
(* what marking all has not found is read, and of each time whose rows came*)
(* once the client has seen as many as lie before its next page            *)
(* (notification_service.py:34, notifications.py:23,59).                   *)
THEOREM Invariant == Spec => []IInv
<1> QED BY Initially, Inductive, PTL DEF Spec

(* A client that went through all pages has missed a notification it had   *)
(* at the first only if another one of the same time came twice, whatever  *)
(* was created between two pages and however the database orders equal     *)
(* times (notifications.py:23).                                            *)
THEOREM PagesMissOnlyTies == Spec => []MissedOnlyInTies
<1>1. IInv => MissedOnlyInTies
  BY DEF IInv
<1> QED BY <1>1, Invariant, PTL

(* Marking all as read leaves nothing unread that was there when it was    *)
(* asked for (notifications.py:59).                                        *)
THEOREM AllAreMarked == Spec => MarkedAll
<1>1. IInv /\ [Next]_vars => [\A r \in Requests :
        Commit(r) /\ req[r].op = "all" => req[r].had \cap unread' = {}]_vars
  BY MarksAll
<1> QED BY <1>1, Invariant, PTL DEF Spec, MarkedAll

=============================================================================
