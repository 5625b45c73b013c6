--------------------------- MODULE SchTableProofs ---------------------------
(***************************************************************************)
(* Proofs about SchTable and SchQueries for every set of uids, inputs,     *)
(* timetables and queries.                                                 *)
(*                                                                         *)
(* The lemmas go from one index of a table (SequenceFacts) to the table    *)
(* methods, to the handlers.  What a table method preserves is Good, the   *)
(* inductive invariant at the level of a table; the queries need no more   *)
(* of a table than it, and their loops are unrolled round by round.        *)
(***************************************************************************)
EXTENDS SchQueries, SequenceFacts

-----------------------------------------------------------------------------
(* What AddSch accepts. *)

ExclusiveIn(recs) ==
    \A u, v \in DOMAIN recs :
        (u # v /\ ~recs[u].stack) =>
            ~(/\ recs[u].startTime <= recs[v].startTime
              /\ recs[v].startTime < recs[u].endTime)

\* The positions from lower to upper hold exactly the schedules starting at k,
\* those before lower the earlier and those from upper the later ones.
Bracket(recs, idx, k, lower, upper) ==
    /\ lower \in 1 .. Len(idx) + 1 /\ upper \in 1 .. Len(idx) + 1
    /\ lower <= upper
    /\ \A i \in 1 .. Len(idx) :
          /\ recs[idx[i].uid].startTime < k => i < lower
          /\ i < lower => recs[idx[i].uid].startTime < k
          /\ recs[idx[i].uid].startTime = k => lower <= i /\ i < upper
          /\ lower <= i /\ i < upper => recs[idx[i].uid].startTime = k
          /\ recs[idx[i].uid].startTime > k => upper <= i

\* In a coherent index, the entries from lower_bound to upper_bound are those
\* of the schedules that start at the given time.
LEMMA NeighbourPositions ==
    ASSUME NEW recs, NEW idx \in Seq(Entry), Coherent(idx, recs, "startTime"),
           NEW k \in Nat,
           NEW lower, lower = LowerBound(idx, k),
           NEW upper, upper = UpperBound(idx, k)
    PROVE  Bracket(recs, idx, k, lower, upper)
<1>1. Sorted(idx) /\ EntriesMatch(idx, recs, "startTime")
  BY DEF Coherent
<1>2. /\ lower \in 1 .. Len(idx) + 1
      /\ \A i \in 1 .. lower - 1 : idx[i].key < k
      /\ \A i \in lower .. Len(idx) : idx[i].key >= k
  BY <1>1, LowerBoundSplits
<1>3. /\ upper \in 1 .. Len(idx) + 1
      /\ \A i \in 1 .. upper - 1 : idx[i].key <= k
      /\ \A i \in upper .. Len(idx) : idx[i].key > k
  BY <1>1, UpperBoundSplits
<1>4. lower <= upper
  <2>. SUFFICES ASSUME upper < lower PROVE FALSE
    BY <1>2, <1>3
  <2>1. /\ upper \in 1 .. lower - 1 /\ upper \in upper .. Len(idx)
        /\ upper \in 1 .. Len(idx)
    BY <1>2, <1>3
  <2>2. idx[upper].key < k /\ idx[upper].key > k
    BY <2>1, <1>2, <1>3
  <2>3. idx[upper].key \in Nat
    BY <2>1, EntryFields
  <2>. QED
    BY <2>2, <2>3
<1>5. ASSUME NEW i \in 1 .. Len(idx)
      PROVE  /\ recs[idx[i].uid].startTime < k => i < lower
             /\ i < lower => recs[idx[i].uid].startTime < k
             /\ recs[idx[i].uid].startTime = k => lower <= i /\ i < upper
             /\ lower <= i /\ i < upper => recs[idx[i].uid].startTime = k
             /\ recs[idx[i].uid].startTime > k => upper <= i
  <2>1. idx[i].key = recs[idx[i].uid].startTime
    BY <1>1 DEF EntriesMatch
  <2>2. idx[i].key \in Nat
    BY EntryFields
  <2>3. /\ i < lower => idx[i].key < k
        /\ lower <= i => idx[i].key >= k
        /\ i < upper => idx[i].key <= k
        /\ upper <= i => idx[i].key > k
    BY <1>2, <1>3
  <2>. QED
    BY <2>1, <2>2, <2>3, <1>2, <1>3
<1>. QED
  BY <1>2, <1>3, <1>4, <1>5 DEF Bracket

\* A schedule that AddSch accepts starts inside no non-stackable one, and no
\* schedule starts inside it if it is not stackable: although AddSch looks at
\* the nearest neighbours only, a non-stackable schedule it does not look at
\* would have a start inside it already.
LEMMA AcceptedKeepsExclusive ==
    ASSUME NEW D \in SUBSET Uid, NEW recs \in [D -> Schedule],
           NEW idx \in Seq(Entry), Coherent(idx, recs, "startTime"),
           ExclusiveIn(recs), NEW sch \in Schedule, ~Conflict(recs, idx, sch),
           NEW uid \in Uid, uid \notin D,
           NEW more, DOMAIN more = D \cup {uid}, more[uid] = sch,
           \A u \in D : more[u] = recs[u]
    PROVE  ExclusiveIn(more)
<1>. DEFINE k == sch.startTime
<1>1. PICK lower : lower = LowerBound(idx, k)
  OBVIOUS
<1>2. PICK upper : upper = UpperBound(idx, k)
  OBVIOUS
<1>3. /\ k \in Nat /\ sch.endTime \in Nat /\ sch.stack \in BOOLEAN
      /\ \A u \in D : /\ recs[u].startTime \in Nat /\ recs[u].endTime \in Nat
                      /\ recs[u].stack \in BOOLEAN
  BY DEF Schedule
<1>. HIDE DEF k
<1>B. Bracket(recs, idx, k, lower, upper)
  BY <1>1, <1>2, <1>3, NeighbourPositions
<1>4. /\ lower \in 1 .. Len(idx) + 1 /\ upper \in 1 .. Len(idx) + 1
      /\ lower <= upper
      /\ \A i \in 1 .. Len(idx) :
            /\ recs[idx[i].uid].startTime < k => i < lower
            /\ i < lower => recs[idx[i].uid].startTime < k
            /\ recs[idx[i].uid].startTime = k => lower <= i /\ i < upper
            /\ lower <= i /\ i < upper => recs[idx[i].uid].startTime = k
            /\ recs[idx[i].uid].startTime > k => upper <= i
  BY <1>B DEF Bracket
<1>5. /\ \A i \in 1 .. Len(idx) : idx[i].uid \in D
      /\ \A u \in D : \E i \in 1 .. Len(idx) : idx[i].uid = u
      /\ \A i, j \in 1 .. Len(idx) : idx[i].uid = idx[j].uid => i = j
      /\ \A i, j \in 1 .. Len(idx) : i < j => idx[i].key <= idx[j].key
      /\ \A i \in 1 .. Len(idx) : idx[i].key = recs[idx[i].uid].startTime
  BY DEF Coherent, EntriesMatch, EntriesComplete, Sorted
<1>6. \/ lower = 1
      \/ \A p \in lower - 1 .. upper - 1 :
            \/ recs[idx[p].uid].stack /\ sch.stack
            \/ ~(recs[idx[p].uid].endTime > k)
  <2>1. ~PredecessorConflict(recs, idx, sch)
    BY DEF Conflict
  <2>2. ~(/\ lower > 1
          /\ \E p \in lower - 1 .. upper - 1 :
                ~BothStack(recs[idx[p].uid], sch) /\ recs[idx[p].uid].endTime > k)
    BY ONLY <1>1, <1>2, <2>1 DEF PredecessorConflict, k
  <2>3. lower = 1 \/ lower > 1
    BY ONLY <1>4
  <2>. QED
    BY ONLY <2>2, <2>3 DEF BothStack
<1>7. lower < upper => recs[idx[lower].uid].stack /\ sch.stack
  BY <1>1, <1>2 DEF Conflict, EqualStartConflict, BothStack, k
<1>8. (upper <= Len(idx) /\ idx[upper].key < sch.endTime)
          => recs[idx[upper].uid].stack /\ sch.stack
  BY <1>1, <1>2 DEF Conflict, SuccessorConflict, BothStack, k
<1>9. ASSUME NEW v \in D, ~sch.stack
      PROVE  ~(k <= recs[v].startTime /\ recs[v].startTime < sch.endTime)
  <2>1. PICK q \in 1 .. Len(idx) : idx[q].uid = v
    BY <1>5
  <2>2. ~(lower < upper)
    BY <1>7, <1>9
  <2>3. CASE recs[v].startTime = k
    BY <2>1, <2>2, <2>3, <1>4
  <2>4. CASE recs[v].startTime > k
    <3>1. upper <= q /\ upper \in 1 .. Len(idx)
      BY <2>1, <2>4, <1>4
    <3>2. idx[upper].key <= idx[q].key /\ idx[q].key = recs[v].startTime
      BY <3>1, <2>1, <1>3, <1>5
    <3>3. ~(idx[upper].key < sch.endTime)
      BY <3>1, <1>8, <1>9
    <3>4. idx[upper].key \in Nat
      BY <3>1, EntryFields
    <3>. QED
      BY <3>2, <3>3, <3>4, <1>3
  <2>. QED
    BY <2>3, <2>4, <1>3
<1>10. ASSUME NEW u \in D, ~recs[u].stack
       PROVE  ~(recs[u].startTime <= k /\ k < recs[u].endTime)
  <2>. SUFFICES ASSUME recs[u].startTime <= k, k < recs[u].endTime PROVE FALSE
    OBVIOUS
  <2>1. PICK q \in 1 .. Len(idx) : idx[q].uid = u
    BY <1>5
  <2>2. ASSUME NEW w \in D, recs[u].startTime <= recs[w].startTime,
               recs[w].startTime <= k
        PROVE  w = u
    BY <2>2, <1>3, <1>10 DEF ExclusiveIn
  <2>3. CASE recs[u].startTime = k
    <3>1. lower <= q /\ q < upper /\ lower \in 1 .. Len(idx)
      BY <2>1, <2>3, <1>4
    <3>2. idx[lower].uid \in D /\ recs[idx[lower].uid].startTime = k
      BY <3>1, <1>4, <1>5
    <3>3. idx[lower].uid = u
      BY <3>2, <2>2, <2>3, <1>3
    <3>4. recs[idx[lower].uid].stack
      <4>1. lower < upper
        BY <3>1, <1>4
      <4>. QED
        BY <4>1, <1>7, Zenon
    <3>. QED
      BY <3>3, <3>4, <1>10, Zenon
  <2>4. CASE recs[u].startTime < k
    <3>1. q < lower /\ lower - 1 \in 1 .. Len(idx)
      BY <2>1, <2>4, <1>4
    <3>2. /\ idx[lower - 1].uid \in D
          /\ recs[idx[lower - 1].uid].startTime < k
          /\ recs[u].startTime <= recs[idx[lower - 1].uid].startTime
      <4>1. lower - 1 < lower /\ (q = lower - 1 \/ q < lower - 1)
        BY <3>1, <1>4
      <4>2. idx[q].key <= idx[lower - 1].key
        <5>1. CASE q = lower - 1
          <6>1. idx[q].key \in Nat
            BY EntryFields
          <6>. QED
            BY <5>1, <6>1
        <5>2. CASE q < lower - 1
          BY <5>2, <3>1, <1>5
        <5>. QED
          BY <4>1, <5>1, <5>2
      <4>. QED
        BY <3>1, <4>1, <4>2, <2>1, <1>4, <1>5
    <3>3. idx[lower - 1].uid = u
      BY <3>2, <2>2, <1>3
    <3>4. lower # 1 /\ lower - 1 \in lower - 1 .. upper - 1
      BY <3>1, <1>4
    <3>. QED
      BY <3>3, <3>4, <1>3, <1>6, <1>10
  <2>. QED
    BY <2>3, <2>4, <1>3
<1>. SUFFICES ASSUME NEW u \in DOMAIN more, NEW v \in DOMAIN more,
                     u # v, ~more[u].stack
              PROVE  ~(/\ more[u].startTime <= more[v].startTime
                       /\ more[v].startTime < more[u].endTime)
  BY DEF ExclusiveIn
<1>11. CASE u = uid
  BY <1>9, <1>11 DEF k
<1>12. CASE v = uid
  BY <1>10, <1>12 DEF k
<1>13. CASE u \in D /\ v \in D
  BY <1>13 DEF ExclusiveIn
<1>. QED
  BY <1>11, <1>12, <1>13

-----------------------------------------------------------------------------
(* The table methods. *)

\* The inductive invariant, of a table.
Good(recs, ix) ==
    /\ \E D \in SUBSET Uid : recs \in [D -> Schedule]
    /\ ix \in [Column -> Seq(Entry)]
    /\ \A c \in Column : Coherent(ix[c], recs, c)
    /\ ExclusiveIn(recs)

GoodTable(tab) == Good(tab.records, tab.index)

\* The five keys of a schedule are naturals.
LEMMA ScheduleKeys ==
    ASSUME NEW sch \in Schedule, NEW c \in Column
    PROVE  sch[c] \in Nat
BY DEF Schedule, Column

\* Storing a schedule that CanAdd lets through keeps a table good.
LEMMA InsertedGood ==
    ASSUME NEW tab, GoodTable(tab), NEW uid \in Uid, NEW sch \in Schedule,
           CanAdd(tab, uid, sch)
    PROVE  GoodTable(Inserted(tab, uid, sch))
<1>1. PICK D \in SUBSET Uid : tab.records \in [D -> Schedule]
  BY DEF GoodTable, Good
<1>2. PICK more : more = [u \in DOMAIN tab.records \cup {uid} |->
                             IF u = uid THEN sch ELSE tab.records[u]]
  OBVIOUS
<1>3. uid \notin D /\ ~Conflict(tab.records, tab.index["startTime"], sch)
  BY <1>1 DEF CanAdd
<1>4. /\ more \in [D \cup {uid} -> Schedule]
      /\ DOMAIN more = DOMAIN tab.records \cup {uid}
      /\ DOMAIN more = D \cup {uid} /\ more[uid] = sch
      /\ \A u \in D : more[u] = tab.records[u]
  BY <1>1, <1>2, <1>3
<1>5. PICK ix : ix = AddEntries(tab.index, uid, sch)
  OBVIOUS
<1>6. ASSUME NEW c \in Column
      PROVE  ix[c] \in Seq(Entry) /\ Coherent(ix[c], more, c)
  <2>1. PICK idx \in Seq(Entry) : idx = tab.index[c]
    BY DEF GoodTable, Good
  <2>2. Coherent(idx, tab.records, c)
    BY <2>1 DEF GoodTable, Good
  <2>3. ix[c] = AddIndex(idx, uid, more[uid][c])
    BY <2>1, <1>4, <1>5 DEF AddEntries
  <2>4. more[uid][c] \in Nat
    BY <1>4, ScheduleKeys
  <2>5. /\ uid \notin DOMAIN tab.records
        /\ \A u \in DOMAIN tab.records : more[u] = tab.records[u]
    BY <1>1, <1>3, <1>4
  <2>6. uid \in Nat
    BY UidAssumption
  <2>. QED
    BY <2>2, <2>3, <2>4, <2>5, <2>6, <1>4, AddKeepsCoherent
<1>7. ix \in [Column -> Seq(Entry)]
  <2>1. ix = [c \in Column |-> ix[c]]
    BY <1>5 DEF AddEntries
  <2>. QED
    BY <2>1, <1>6
<1>8. ExclusiveIn(more)
  <2>1. PICK idx \in Seq(Entry) : idx = tab.index["startTime"]
    BY DEF GoodTable, Good, Column
  <2>2. Coherent(idx, tab.records, "startTime") /\ ExclusiveIn(tab.records)
    BY <2>1 DEF GoodTable, Good, Column
  <2>3. ~Conflict(tab.records, idx, sch)
    BY <2>1, <1>3
  <2>. QED
    BY <2>2, <2>3, <1>1, <1>3, <1>4, AcceptedKeepsExclusive
<1>9. Inserted(tab, uid, sch) = Table(more, ix)
  BY <1>2, <1>5 DEF Inserted
<1>10. D \cup {uid} \in SUBSET Uid
  BY <1>1
<1>11. Good(more, ix)
  BY <1>4, <1>6, <1>7, <1>8, <1>10 DEF Good
<1>. QED
  BY <1>9, <1>11 DEF GoodTable, Table

\* AddSch keeps a table good, whether it accepts the schedule or not.
LEMMA AddSchGood ==
    ASSUME NEW tab, GoodTable(tab), NEW uid \in Uid, NEW sch \in Schedule
    PROVE  GoodTable(AddSch(tab, uid, sch))
BY InsertedGood DEF AddSch

\* DeleteSch keeps a table good.
LEMMA DeleteSchGood ==
    ASSUME NEW tab, GoodTable(tab), NEW uid \in Uid
    PROVE  GoodTable(DeleteSch(tab, uid))
<1>1. CASE uid \notin DOMAIN tab.records
  BY <1>1 DEF DeleteSch
<1>2. CASE uid \in DOMAIN tab.records
  <2>1. PICK D \in SUBSET Uid : tab.records \in [D -> Schedule]
    BY DEF GoodTable, Good
  <2>2. PICK less : less = [u \in DOMAIN tab.records \ {uid} |-> tab.records[u]]
    OBVIOUS
  <2>3. /\ less \in [D \ {uid} -> Schedule]
        /\ DOMAIN less = DOMAIN tab.records \ {uid}
        /\ \A u \in DOMAIN less : less[u] = tab.records[u]
    BY <2>1, <2>2
  <2>4. PICK ix : ix = RemoveEntries(tab.index, uid)
    OBVIOUS
  <2>5. ASSUME NEW c \in Column
        PROVE  ix[c] \in Seq(Entry) /\ Coherent(ix[c], less, c)
    <3>1. PICK idx \in Seq(Entry) : idx = tab.index[c]
      BY DEF GoodTable, Good
    <3>2. Coherent(idx, tab.records, c)
      BY <3>1 DEF GoodTable, Good
    <3>3. ix[c] = RemoveIndex(idx, uid)
      BY <3>1, <2>4 DEF RemoveEntries
    <3>4. uid \in Nat
      BY UidAssumption
    <3>. QED
      BY <3>2, <3>3, <3>4, <1>2, <2>3, RemoveKeepsCoherent
  <2>6. ix \in [Column -> Seq(Entry)]
    <3>1. ix = [c \in Column |-> ix[c]]
      BY <2>4 DEF RemoveEntries
    <3>. QED
      BY <3>1, <2>5
  <2>7. ExclusiveIn(less)
    BY <2>3 DEF GoodTable, Good, ExclusiveIn
  <2>8. DeleteSch(tab, uid) = Table(less, ix)
    BY <1>2, <2>2, <2>4 DEF DeleteSch
  <2>9. D \ {uid} \in SUBSET Uid
    OBVIOUS
  <2>10. Good(less, ix)
    BY <2>3, <2>5, <2>6, <2>7, <2>9 DEF Good
  <2>. QED
    BY <2>8, <2>10 DEF GoodTable, Table
<1>. QED
  BY <1>1, <1>2

\* UpdateSch keeps a table good, also when it loses the schedule.
LEMMA UpdateSchGood ==
    ASSUME NEW tab, GoodTable(tab), NEW uid \in Uid, NEW sch \in Schedule
    PROVE  GoodTable(UpdateSch(tab, uid, sch))
<1>1. GoodTable(DeleteSch(tab, uid))
  BY DeleteSchGood
<1>2. GoodTable(AddSch(DeleteSch(tab, uid), uid, sch))
  BY <1>1, AddSchGood
<1>3. CanAdd(DeleteSch(tab, uid), uid, sch) =>
          GoodTable(Inserted(DeleteSch(tab, uid), uid, sch))
  BY <1>1, InsertedGood
<1>. QED
  BY <1>2, <1>3 DEF UpdateSch

-----------------------------------------------------------------------------
(* The handlers. *)

IInv == TypeOK /\ Good(records, index)

\* A submitted schedule stays one when errands are made stackable.
LEMMA NormalisedSchedule ==
    ASSUME NEW input \in UserInput
    PROVE  Normalised(input) \in Schedule
BY InputAssumption DEF Normalised, Schedule

\* A step that leaves a good table behind and types the rest keeps IInv.
LEMMA GoodStep ==
    ASSUME NEW tab, GoodTable(tab), SetTable(tab),
           importing' \in SUBSET Timetable,
           removing' \in Removal,
           reply' \in Replies
    PROVE  IInv'
<1>1. Good(records', index')
  BY DEF GoodTable, SetTable
<1>2. TypeOK'
  BY <1>1 DEF TypeOK, Good
<1>. QED
  BY <1>1, <1>2 DEF IInv

\* The invariant holds of the empty tables the program starts with.
LEMMA InitIInv == Init => IInv
<1>. SUFFICES ASSUME Init PROVE IInv
  OBVIOUS
<1>1. /\ records = << >> /\ index = [c \in Column |-> << >>]
      /\ importing = {} /\ removing = NoLoop /\ reply = "none"
  BY DEF Init
<1>2. {} \in SUBSET Uid /\ records \in [{} -> Schedule]
  BY <1>1
<1>3. << >> \in Seq(Entry) /\ DOMAIN << >> = {}
  OBVIOUS
<1>4. index \in [Column -> Seq(Entry)]
  BY <1>1, <1>3
<1>5. removing \in Removal
  BY <1>1 DEF NoLoop, Removal
<1>6. TypeOK
  BY <1>1, <1>2, <1>4, <1>5 DEF TypeOK, Replies
<1>7. \A c \in Column : Coherent(index[c], records, c)
  BY <1>1, <1>3 DEF Coherent, Sorted, EntriesMatch, EntriesComplete
<1>8. ExclusiveIn(records)
  BY <1>2 DEF ExclusiveIn
<1>. QED
  BY <1>2, <1>4, <1>6, <1>7, <1>8 DEF IInv, Good

\* Every step keeps the invariant.
LEMMA NextIInv == IInv /\ [Next]_vars => IInv'
<1>. SUFFICES ASSUME IInv, [Next]_vars PROVE IInv'
  OBVIOUS
<1>1. /\ importing \in SUBSET Timetable
      /\ removing \in Removal
      /\ reply \in Replies
  BY DEF IInv, TypeOK
<1>2. GoodTable(Current)
  BY DEF IInv, GoodTable, Current, Table
<1>3. UNCHANGED <<records, index>> => SetTable(Current)
  BY DEF SetTable, Current, Table
<1>4. ASSUME NEW uid \in Uid, NEW input \in UserInput, Add(uid, input)
      PROVE  IInv'
  <2>1. GoodTable(AddSch(Current, uid, Normalised(input)))
    BY <1>2, AddSchGood, NormalisedSchedule
  <2>2. importing' = importing /\ removing' = removing /\ reply' \in Replies
    BY <1>4 DEF Add, Replies
  <2>3. \/ SetTable(AddSch(Current, uid, Normalised(input)))
        \/ SetTable(Current)
    BY <1>3, <1>4 DEF Add
  <2>. QED
    BY <1>1, <1>2, <2>1, <2>2, <2>3, GoodStep
<1>5. ASSUME NEW uid \in Uid, NEW input \in UserInput, Update(uid, input)
      PROVE  IInv'
  <2>1. GoodTable(UpdateSch(Current, uid, Normalised(input)))
    BY <1>2, UpdateSchGood, NormalisedSchedule
  <2>2. importing' = importing /\ removing' \in Removal /\ reply' \in Replies
    BY <1>1, <1>5 DEF Update, LoseIterator, NoLoop, Removal, Replies
  <2>3. \/ SetTable(UpdateSch(Current, uid, Normalised(input)))
        \/ SetTable(Current)
    BY <1>3, <1>5 DEF Update
  <2>. QED
    BY <1>1, <1>2, <2>1, <2>2, <2>3, GoodStep
<1>6. ASSUME NEW uid \in Uid, Delete(uid)
      PROVE  IInv'
  <2>1. GoodTable(DeleteSch(Current, uid))
    BY <1>2, DeleteSchGood
  <2>2. importing' = importing /\ removing' \in Removal /\ reply' \in Replies
    BY <1>1, <1>6 DEF Delete, LoseIterator, NoLoop, Removal, Replies
  <2>3. SetTable(DeleteSch(Current, uid)) \/ SetTable(Current)
    BY <1>3, <1>6 DEF Delete
  <2>. QED
    BY <1>1, <1>2, <2>1, <2>2, <2>3, GoodStep
<1>7. ASSUME NEW todo \in SUBSET Timetable, ImportStart(todo)
      PROVE  IInv'
  <2>1. /\ importing' \in SUBSET Timetable /\ removing' = removing
        /\ reply' \in Replies /\ SetTable(Current)
    BY <1>3, <1>7 DEF ImportStart, Replies
  <2>. QED
    BY <1>1, <1>2, <2>1, GoodStep
<1>8. ASSUME NEW uid \in Uid, NEW sch \in importing, ImportStep(uid, sch)
      PROVE  IInv'
  <2>1. sch \in Schedule
    BY <1>1, TimetableAssumption
  <2>2. GoodTable(AddSch(Current, uid, sch))
    BY <1>2, <2>1, AddSchGood
  <2>3. /\ importing' \in SUBSET Timetable /\ removing' = removing
        /\ reply' \in Replies /\ SetTable(AddSch(Current, uid, sch))
    BY <1>1, <1>8 DEF ImportStep, Replies
  <2>. QED
    BY <1>1, <2>2, <2>3, GoodStep
<1>9. ASSUME NEW tag \in {ClassTag, ExamTag}, RemoveStart(tag)
      PROVE  IInv'
  <2>1. /\ importing' = importing /\ reply' \in Replies /\ SetTable(Current)
        /\ removing' \in Removal
    BY <1>3, <1>9 DEF RemoveStart, Removal, Replies
  <2>. QED
    BY <1>1, <1>2, <2>1, GoodStep
<1>10. ASSUME NEW uid \in Uid, RemoveStep(uid)
       PROVE  IInv'
  <2>1. GoodTable(DeleteSch(Current, uid))
    BY <1>2, DeleteSchGood
  <2>2. /\ importing' = importing /\ reply' \in Replies
        /\ removing' \in Removal
        /\ SetTable(DeleteSch(Current, uid))
    BY <1>1, <1>10 DEF RemoveStep, Removal, Replies
  <2>. QED
    BY <1>1, <2>1, <2>2, GoodStep
<1>11. CASE RemoveEnd
  <2>1. /\ importing' = importing /\ reply' \in Replies /\ SetTable(Current)
        /\ removing' \in Removal
    BY <1>3, <1>11 DEF RemoveEnd, Removal, Replies, NoLoop
  <2>. QED
    BY <1>1, <1>2, <2>1, GoodStep
<1>12. CASE UNCHANGED vars
  <2>1. /\ importing' = importing /\ removing' = removing /\ reply' = reply
        /\ SetTable(Current)
    BY <1>3, <1>12 DEF vars
  <2>. QED
    BY <1>1, <1>2, <2>1, GoodStep
<1>. QED
  BY <1>4, <1>5, <1>6, <1>7, <1>8, <1>9, <1>10, <1>11, <1>12 DEF Next

LEMMA InvariantHolds == Spec => []IInv
<1>. QED
  BY InitIInv, NextIInv, PTL DEF Spec

-----------------------------------------------------------------------------
(* The theorems. *)

\* Type correctness, for every set of uids, inputs and timetables.
THEOREM TypeCorrect == Spec => []TypeOK
<1>1. IInv => TypeOK
  BY DEF IInv
<1>. QED
  BY <1>1, InvariantHolds, PTL

\* The hand-kept indices always list exactly the stored schedules, in key
\* order: after any interleaving of Add, Update, Delete and the import and
\* removal loops, a reader may dereference what an entry names.
THEOREM IndicesCoherent == Spec => []IndexCoherent
<1>1. IInv => IndexCoherent
  BY DEF IInv, Good, Coherent, IndexCoherent
<1>. QED
  BY <1>1, InvariantHolds, PTL

\* AddSch's look at the nearest neighbours is enough for this: no schedule
\* ever starts while a non-stackable one is running.
THEOREM ExclusiveStarts == Spec => []NothingStartsInsideExclusive
<1>1. IInv => NothingStartsInsideExclusive
  BY DEF IInv, Good, ExclusiveIn, NothingStartsInsideExclusive
<1>. QED
  BY <1>1, InvariantHolds, PTL

\* No two non-stackable schedules overlap, those included whose file says
\* that they end before they start.
THEOREM NoDoubleBooking == Spec => []ExclusiveNeverOverlap
<1>1. ASSUME IInv, NEW u \in DOMAIN records, NEW v \in DOMAIN records,
             u # v, ~records[u].stack, ~records[v].stack
      PROVE  ~Overlap(records[u], records[v])
  <2>1. /\ records[u].startTime \in Nat /\ records[u].endTime \in Nat
        /\ records[v].startTime \in Nat /\ records[v].endTime \in Nat
    BY <1>1 DEF IInv, TypeOK, Schedule
  <2>2. /\ ~(/\ records[u].startTime <= records[v].startTime
             /\ records[v].startTime < records[u].endTime)
        /\ ~(/\ records[v].startTime <= records[u].startTime
             /\ records[u].startTime < records[v].endTime)
    BY <1>1 DEF IInv, Good, ExclusiveIn
  <2>. QED
    BY <2>1, <2>2 DEF Overlap
<1>2. IInv => ExclusiveNeverOverlap
  BY <1>1 DEF ExclusiveNeverOverlap
<1>. QED
  BY <1>2, InvariantHolds, PTL

-----------------------------------------------------------------------------
(* The queries.  What they read is a table of which the invariant holds.   *)

\* What they rely on: the index by start time lists each schedule once.
Read ==
    /\ \A u \in DOMAIN records : records[u] \in Schedule
    /\ DOMAIN records \subseteq Nat
    /\ Starts \in Seq(Entry) /\ Coherent(Starts, records, "startTime")

LEMMA ReadTable == IInv => Read
<1>. SUFFICES ASSUME IInv PROVE Read
  OBVIOUS
<1>1. Good(records, index)
  BY DEF IInv
<1>2. PICK D \in SUBSET Uid : records \in [D -> Schedule]
  BY <1>1 DEF Good
<1>3. "startTime" \in Column
  BY DEF Column
<1>. QED
  BY <1>1, <1>2, <1>3, UidAssumption DEF Good, Read, Starts

LEMMA ReadTimes ==
    ASSUME Read, NEW u \in DOMAIN records
    PROVE  records[u].startTime \in Nat /\ records[u].endTime \in Nat
BY DEF Read, Schedule

\* The schedule of an entry, and the entry of a schedule.
LEMMA ReadEntry ==
    ASSUME Read, NEW p \in 1 .. Len(Starts)
    PROVE  /\ Starts[p].key \in Nat /\ Starts[p].uid \in DOMAIN records
           /\ Starts[p].key = records[Starts[p].uid].startTime
<1>1. p \in DOMAIN Starts
  BY DEF Read
<1>. QED
  BY <1>1, EntryFields DEF Read, Coherent, EntriesMatch

LEMMA EntryOf ==
    ASSUME Read, NEW u \in DOMAIN records
    PROVE  \E p \in 1 .. Len(Starts) : Starts[p].uid = u /\ Starts[p].key = records[u].startTime
<1>1. PICK p \in DOMAIN Starts : Starts[p].uid = u
  BY DEF Read, Coherent, EntriesComplete
<1>2. p \in 1 .. Len(Starts)
  BY <1>1 DEF Read
<1>. QED
  BY <1>1, <1>2, ReadEntry

\* There are as many schedules as entries.
LEMMA ReadSize ==
    ASSUME Read
    PROVE  IsFiniteSet(DOMAIN records) /\ Cardinality(DOMAIN records) = Len(Starts)
<1>. DEFINE f == [p \in 1 .. Len(Starts) |-> Starts[p].uid]
<1>1. Len(Starts) \in Nat /\ DOMAIN Starts = 1 .. Len(Starts)
  BY DEF Read
<1>2. f \in [1 .. Len(Starts) -> DOMAIN records]
  BY ReadEntry
<1>3. \A a, b \in 1 .. Len(Starts) : f[a] = f[b] => a = b
  BY <1>1 DEF Read, Coherent, EntriesComplete
<1>4. \A u \in DOMAIN records : \E p \in 1 .. Len(Starts) : f[p] = u
  BY EntryOf
<1>5. f \in Bijection(1 .. Len(Starts), DOMAIN records)
  <2>. HIDE DEF f
  <2>. QED
    BY <1>2, <1>3, <1>4 DEF Bijection, Injection, Surjection, IsInjective
<1>6. ExistsBijection(1 .. Len(Starts), DOMAIN records)
  BY <1>5 DEF ExistsBijection
<1>. QED
  BY <1>1, <1>6, FS_CountingElements, FS_NatBijection

-----------------------------------------------------------------------------
(* The free time of a day. *)

\* No schedule starts from a on and before b.
NoStart(a, b) ==
    \A u \in DOMAIN records : ~(a <= records[u].startTime /\ records[u].startTime < b)

InSlot(slots, t) == \E i \in 1 .. Len(slots) : slots[i].from <= t /\ t < slots[i].to

\* What the loop has found when it has come to walk.start.
WalkOK(walk, day) ==
    /\ walk \in [start : Nat, slots : Seq([from : Nat, to : Nat]), done : BOOLEAN]
    /\ \A i \in 1 .. Len(walk.slots) : NoStart(walk.slots[i].from, walk.slots[i].to)
    /\ \A t \in Nat :
          day + DayStart <= t /\ t < walk.start /\ ~Covered(t) => InSlot(walk.slots, t)
    /\ walk.done => NoStart(walk.start, day + DayEnd)

\* How many schedules it has passed.
Passed(walk) == LowerBound(Starts, walk.start) - 1

\* One more free slot, or none.
Longer(slots, from, to) == IF to > from THEN Append(slots, Slot(from, to)) ELSE slots

LEMMA LongerSlots ==
    ASSUME NEW slots \in Seq([from : Nat, to : Nat]), NEW a \in Nat, NEW b \in Nat,
           NEW new, new = Longer(slots, a, b)
    PROVE  /\ new \in Seq([from : Nat, to : Nat])
           /\ \A i \in 1 .. Len(new) :
                 \/ i \in 1 .. Len(slots) /\ new[i] = slots[i]
                 \/ new[i].from = a /\ new[i].to = b
           /\ \A t \in Nat : InSlot(slots, t) \/ (a <= t /\ t < b) => InSlot(new, t)
<1>1. CASE ~(b > a)
  BY <1>1 DEF Longer
<1>2. CASE b > a
  <2>1. new = Append(slots, Slot(a, b)) /\ Slot(a, b) \in [from : Nat, to : Nat]
    BY <1>2 DEF Longer, Slot
  <2>2. /\ new \in Seq([from : Nat, to : Nat]) /\ Len(new) = Len(slots) + 1
        /\ \A i \in 1 .. Len(slots) : new[i] = slots[i]
        /\ new[Len(slots) + 1] = Slot(a, b) /\ Len(slots) \in Nat
    BY <2>1, AppendProperties
  <2>3. Slot(a, b).from = a /\ Slot(a, b).to = b
    BY DEF Slot
  <2>4. ASSUME NEW t \in Nat, InSlot(slots, t) PROVE InSlot(new, t)
    <3>1. PICK i \in 1 .. Len(slots) : slots[i].from <= t /\ t < slots[i].to
      BY <2>4 DEF InSlot
    <3>2. i \in 1 .. Len(new) /\ new[i] = slots[i]
      BY <2>2
    <3>. QED
      BY <3>1, <3>2 DEF InSlot
  <2>5. ASSUME NEW t \in Nat, a <= t, t < b PROVE InSlot(new, t)
    <3>1. Len(slots) + 1 \in 1 .. Len(new)
      BY <2>2
    <3>. QED
      BY <2>2, <2>3, <2>5, <3>1 DEF InSlot
  <2>6. ASSUME NEW i \in 1 .. Len(new)
        PROVE  \/ i \in 1 .. Len(slots) /\ new[i] = slots[i]
               \/ new[i].from = a /\ new[i].to = b
    <3>1. PICK n \in Nat : n = Len(slots)
      BY <2>2
    <3>2. i \in 1 .. n + 1
      BY <2>2, <3>1
    <3>3. CASE i = n + 1
      BY <2>2, <2>3, <3>1, <3>3
    <3>4. CASE i # n + 1
      <4>1. i \in 1 .. n
        BY ONLY <3>2, <3>4, n \in Nat
      <4>. QED
        BY <2>2, <3>1, <4>1
    <3>. QED
      BY <3>3, <3>4
  <2>. QED
    BY <2>2, <2>4, <2>5, <2>6
<1>. QED
  BY <1>1, <1>2

\* Where the loop stands in the index by start time.
LEMMA Standing ==
    ASSUME Read, NEW a \in Nat, NEW p, p = LowerBound(Starts, a)
    PROVE  /\ p \in 1 .. Len(Starts) + 1 /\ Len(Starts) \in Nat
           /\ \A u \in DOMAIN records :
                 a <= records[u].startTime =>
                    /\ p <= Len(Starts)
                    /\ Starts[p].key <= records[u].startTime
           /\ p <= Len(Starts) => a <= Starts[p].key
<1>1. Starts \in Seq(Entry) /\ Sorted(Starts)
  BY DEF Read, Coherent
<1>2. /\ p \in 1 .. Len(Starts) + 1
      /\ \A i \in 1 .. p - 1 : Starts[i].key < a
      /\ \A i \in p .. Len(Starts) : Starts[i].key >= a
  BY <1>1, LowerBoundSplits
<1>3. ASSUME NEW u \in DOMAIN records, a <= records[u].startTime
      PROVE  p <= Len(Starts) /\ Starts[p].key <= records[u].startTime
  <2>1. PICK i \in 1 .. Len(Starts) : Starts[i].key = records[u].startTime
    BY EntryOf
  <2>2. Starts[i].key \in Nat
    BY <2>1, ReadTimes
  <2>3. ~(i < p)
    BY <1>2, <1>3, <2>1, <2>2
  <2>4. p <= i /\ p \in 1 .. Len(Starts)
    BY <1>2, <2>3
  <2>5. Starts[p].key \in Nat
    BY <2>4, ReadEntry
  <2>6. Starts[p].key <= Starts[i].key
    <3>1. CASE p = i
      BY <3>1, <2>5
    <3>2. CASE p # i
      <4>1. p < i /\ p \in DOMAIN Starts /\ i \in DOMAIN Starts
        BY <1>1, <2>4, <3>2
      <4>. QED
        BY <1>1, <4>1 DEF Sorted
    <3>. QED
      BY <3>1, <3>2
  <2>. QED
    BY <2>1, <2>4, <2>6
<1>. QED
  BY <1>1, <1>2, <1>3

LEMMA StandsSomewhere ==
    ASSUME Read, NEW a \in Nat
    PROVE  LowerBound(Starts, a) \in 1 .. Len(Starts) + 1 /\ Len(Starts) \in Nat
<1>1. PICK p : p = LowerBound(Starts, a)
  OBVIOUS
<1>. QED
  BY <1>1, Standing

\* A round of the loop: it has passed more schedules, or it is done.
LEMMA RoundWalks ==
    ASSUME Read, Positive, NEW day \in Nat, NEW walk, WalkOK(walk, day), ~walk.done,
           NEW new, new = SlotStep(walk, day)
    PROVE  /\ WalkOK(new, day)
           /\ new.done \/ LowerBound(Starts, walk.start) < LowerBound(Starts, new.start)
<1>. DEFINE a == walk.start
            p == LowerBound(Starts, a)
            key == Starts[p].key
            end == records[Starts[p].uid].endTime
<1>1. /\ walk \in [start : Nat, slots : Seq([from : Nat, to : Nat]), done : BOOLEAN]
      /\ a \in Nat
  BY DEF WalkOK
<1>2. /\ p \in 1 .. Len(Starts) + 1 /\ Len(Starts) \in Nat
      /\ \A u \in DOMAIN records :
            a <= records[u].startTime => p <= Len(Starts) /\ key <= records[u].startTime
      /\ p <= Len(Starts) => a <= key
  BY <1>1, Standing
<1>3. CASE p > Len(Starts) \/ (p <= Len(Starts) /\ key >= day + DayEnd)
  <2>1. new = [walk EXCEPT !.done = TRUE]
    BY <1>3 DEF SlotStep
  <2>2. /\ new \in [start : Nat, slots : Seq([from : Nat, to : Nat]), done : BOOLEAN]
        /\ new.start = a /\ new.slots = walk.slots /\ new.done
    BY <1>1, <2>1
  <2>3. NoStart(a, day + DayEnd)
    <3>1. SUFFICES ASSUME NEW u \in DOMAIN records,
                          a <= records[u].startTime, records[u].startTime < day + DayEnd
                   PROVE  FALSE
      BY DEF NoStart
    <3>2. p <= Len(Starts) /\ key <= records[u].startTime /\ p \in 1 .. Len(Starts)
      BY <1>2, <3>1
    <3>3. key \in Nat /\ records[u].startTime \in Nat
      BY <3>2, ReadEntry, ReadTimes
    <3>4. day + DayEnd \in Nat /\ key >= day + DayEnd
      BY <1>2, <1>3, <3>2, DayAssumption
    <3>. QED
      BY <3>1, <3>2, <3>3, <3>4
  <2>. QED
    BY <2>2, <2>3 DEF WalkOK
<1>4. CASE ~(p > Len(Starts) \/ (p <= Len(Starts) /\ key >= day + DayEnd))
  <2>1. p \in 1 .. Len(Starts) /\ a <= key
    BY <1>2, <1>4
  <2>2. PICK u \in DOMAIN records : u = Starts[p].uid /\ key = records[u].startTime
    BY <2>1, ReadEntry
  <2>3. key \in Nat /\ end \in Nat /\ key < end /\ end = records[u].endTime
    BY <2>2, ReadTimes DEF Positive
  <2>4. new = [walk EXCEPT !.slots = Longer(walk.slots, a, key), !.start = end]
    BY <1>4 DEF SlotStep, Longer
  <2>5. Longer(walk.slots, a, key) \in Seq([from : Nat, to : Nat])
    BY <1>1, <2>3, LongerSlots
  <2>6. /\ new \in [start : Nat, slots : Seq([from : Nat, to : Nat]), done : BOOLEAN]
        /\ new.start = end /\ new.slots = Longer(walk.slots, a, key) /\ ~new.done
    BY <1>1, <2>3, <2>4, <2>5
  <2>7. NoStart(a, key)
    <3>1. SUFFICES ASSUME NEW v \in DOMAIN records,
                          a <= records[v].startTime, records[v].startTime < key
                   PROVE  FALSE
      BY DEF NoStart
    <3>. QED
      BY <1>2, <2>3, <3>1, ReadTimes
  <2>8. ASSUME NEW i \in 1 .. Len(new.slots)
        PROVE  NoStart(new.slots[i].from, new.slots[i].to)
    <3>1. \/ i \in 1 .. Len(walk.slots) /\ new.slots[i] = walk.slots[i]
          \/ new.slots[i].from = a /\ new.slots[i].to = key
      BY <1>1, <2>3, <2>6, LongerSlots
    <3>. QED
      BY <2>7, <3>1 DEF WalkOK
  <2>9. ASSUME NEW t \in Nat, day + DayStart <= t, t < new.start, ~Covered(t)
        PROVE  InSlot(new.slots, t)
    <3>1. \A s \in Nat : InSlot(walk.slots, s) \/ (a <= s /\ s < key) => InSlot(new.slots, s)
      BY <1>1, <2>3, <2>6, LongerSlots
    <3>2. CASE t < a
      BY <2>9, <3>1, <3>2 DEF WalkOK
    <3>3. CASE a <= t /\ t < key
      BY <3>1, <3>3
    <3>4. CASE key <= t
      <4>1. Covered(t)
        BY <2>2, <2>3, <2>6, <2>9, <3>4 DEF Covered
      <4>. QED
        BY <2>9, <4>1
    <3>. QED
      BY <1>1, <2>3, <3>2, <3>3, <3>4
  <2>10. LowerBound(Starts, a) < LowerBound(Starts, end)
    <3>1. PICK q \in 1 .. Len(Starts) + 1 : /\ q = LowerBound(Starts, end)
                                            /\ \A i \in q .. Len(Starts) : Starts[i].key >= end
      <4>1. Starts \in Seq(Entry) /\ Sorted(Starts)
        BY DEF Read, Coherent
      <4>. QED
        BY <2>3, <4>1, LowerBoundSplits
    <3>2. ~(q <= p)
      BY <1>2, <2>1, <2>3, <3>1
    <3>3. p \in Nat /\ q \in Nat
      <4>1. p \in 1 .. Len(Starts) + 1 /\ Len(Starts) \in Nat
        BY <1>2
      <4>2. q \in 1 .. Len(Starts) + 1
        OBVIOUS
      <4>. QED
        BY ONLY <4>1, <4>2
    <3>4. p < q
      BY ONLY <3>2, <3>3
    <3>. QED
      BY <3>1, <3>4
  <2>. QED
    BY <2>6, <2>8, <2>9, <2>10 DEF WalkOK
<1>. QED
  BY <1>3, <1>4

\* The loop as a whole: the walk before its first round, a round of a walk that
\* may be done, and the walks after 0 to n rounds.
FirstWalk(day) == [start |-> day + DayStart, slots |-> << >>, done |-> FALSE]

Round(walk, day) == IF walk.done THEN walk ELSE SlotStep(walk, day)

Rounds(f, n, day) ==
    f = [i \in 0 .. n |-> IF i = 0 THEN FirstWalk(day) ELSE Round(f[i - 1], day)]

LEMMA RoundsExist ==
    ASSUME NEW n \in Nat, NEW day
    PROVE  \E f : Rounds(f, n, day)
<1>. DEFINE Exists(k) == \E f : Rounds(f, k, day)
            Runs == {k \in Nat : Exists(k)}
<1>1. Exists(0)
  <2>1. PICK f : f = [i \in 0 .. 0 |-> FirstWalk(day)]
    OBVIOUS
  <2>2. Rounds(f, 0, day)
    BY <2>1 DEF Rounds
  <2>. QED
    BY <2>2
<1>2. ASSUME NEW k \in Nat, Exists(k) PROVE Exists(k + 1)
  <2>1. PICK f : Rounds(f, k, day)
    BY <1>2
  <2>2. PICK g : g = [i \in 0 .. k + 1 |->
                        IF i = 0 THEN FirstWalk(day) ELSE Round(f[i - 1], day)]
    OBVIOUS
  <2>3. ASSUME NEW i \in 0 .. k PROVE g[i] = f[i]
    BY <2>1, <2>2 DEF Rounds
  <2>4. ASSUME NEW i \in 0 .. k + 1, i # 0 PROVE Round(g[i - 1], day) = Round(f[i - 1], day)
    <3>1. i - 1 \in 0 .. k
      BY <2>4
    <3>. QED
      BY <2>3, <3>1
  <2>5. Rounds(g, k + 1, day)
    BY <2>2, <2>4 DEF Rounds
  <2>. QED
    BY <2>5
<1>3. 0 \in Runs /\ \A k \in Runs : k + 1 \in Runs
  <2>. HIDE DEF Exists
  <2>. QED
    BY <1>1, <1>2
<1>4. n \in Runs
  <2>. HIDE DEF Runs
  <2>. QED
    BY <1>3, AllNaturals
<1>. QED
  BY <1>4

\* The loop after as many rounds as there are schedules, and one, is done.
LEMMA WalkDone ==
    ASSUME Read, Positive, NEW day \in Nat
    PROVE  WalkOK(SlotWalk(day), day) /\ SlotWalk(day).done
<1>1. PICK n \in Nat : n = Cardinality(DOMAIN records) + 1
  BY ReadSize, FS_CardinalityType
<1>2. n = Len(Starts) + 1
  BY <1>1, ReadSize
<1>3. PICK f : Rounds(f, n, day) /\ SlotWalk(day) = f[n]
  <2>1. PICK f : f = CHOOSE g : Rounds(g, n, day)
    OBVIOUS
  <2>2. Rounds(f, n, day)
    BY <2>1, RoundsExist
  <2>3. SlotWalk(day) = f[n]
    BY <1>1, <2>1 DEF SlotWalk, Rounds, Round, FirstWalk
  <2>. QED
    BY <2>2, <2>3
<1>. DEFINE Far(i) == /\ WalkOK(f[i], day)
                      /\ f[i].done \/ i < LowerBound(Starts, f[i].start)
            Fine == {i \in Nat : i <= n => Far(i)}
<1>4. Far(0)
  <2>1. f[0] = FirstWalk(day)
    BY <1>3 DEF Rounds
  <2>2. PICK a \in Nat : a = day + DayStart
    BY DayAssumption
  <2>3. /\ f[0] \in [start : Nat, slots : Seq([from : Nat, to : Nat]), done : BOOLEAN]
        /\ f[0].start = a /\ f[0].slots = << >> /\ ~f[0].done
    BY <2>1, <2>2 DEF FirstWalk
  <2>4. WalkOK(f[0], day)
    BY <2>2, <2>3 DEF WalkOK
  <2>5. 0 < LowerBound(Starts, a)
    BY StandsSomewhere
  <2>. QED
    BY <2>3, <2>4, <2>5
<1>5. ASSUME NEW i \in Nat, i + 1 <= n, Far(i) PROVE Far(i + 1)
  <2>1. f[i + 1] = Round(f[i], day)
    <3>1. i + 1 \in 0 .. n /\ i + 1 # 0 /\ (i + 1) - 1 = i
      BY <1>5
    <3>. QED
      BY <1>3, <3>1 DEF Rounds
  <2>2. CASE f[i].done
    BY <1>5, <2>1, <2>2 DEF Round
  <2>3. CASE ~f[i].done
    <3>1. PICK w : w = SlotStep(f[i], day)
      OBVIOUS
    <3>2. /\ WalkOK(w, day)
          /\ w.done \/ LowerBound(Starts, f[i].start) < LowerBound(Starts, w.start)
      BY <1>5, <2>3, <3>1, RoundWalks
    <3>3. f[i].start \in Nat /\ w.start \in Nat
      BY <1>5, <3>2 DEF WalkOK
    <3>4. PICK p \in Nat, q \in Nat : /\ p = LowerBound(Starts, f[i].start)
                                      /\ q = LowerBound(Starts, w.start)
      <4>1. /\ LowerBound(Starts, f[i].start) \in 1 .. Len(Starts) + 1
            /\ LowerBound(Starts, w.start) \in 1 .. Len(Starts) + 1
            /\ Len(Starts) \in Nat
        BY <3>3, StandsSomewhere
      <4>. QED
        BY <4>1
    <3>5. f[i + 1] = w
      BY <2>1, <2>3, <3>1 DEF Round
    <3>. QED
      BY <1>5, <2>3, <3>2, <3>4, <3>5
  <2>. QED
    BY <2>2, <2>3
<1>6. 0 \in Fine /\ \A i \in Fine : i + 1 \in Fine
  <2>. HIDE DEF Far
  <2>. QED
    BY <1>4, <1>5
<1>7. n \in Fine
  <2>. HIDE DEF Fine
  <2>. QED
    BY <1>6, AllNaturals
<1>8. Far(n)
  BY <1>7
<1>9. f[n].done
  <2>1. f[n].start \in Nat
    BY <1>8 DEF WalkOK
  <2>2. LowerBound(Starts, f[n].start) <= n /\ LowerBound(Starts, f[n].start) \in Nat
    <3>1. LowerBound(Starts, f[n].start) \in 1 .. Len(Starts) + 1 /\ Len(Starts) \in Nat
      BY <2>1, StandsSomewhere
    <3>. QED
      BY <1>2, <3>1
  <2>. QED
    BY <1>8, <2>2
<1>. QED
  BY <1>3, <1>8, <1>9

\* What the loop has found, with the slot after the last schedule.
LEMMA FreeTimeFound ==
    ASSUME Read, Positive, NEW day \in Nat,
           NEW slots, slots = FreeSlots(SlotWalk(day), day)
    PROVE  /\ slots \in Seq([from : Nat, to : Nat])
           /\ \A i \in 1 .. Len(slots) : NoStart(slots[i].from, slots[i].to)
           /\ \A t \in Nat : day + DayStart <= t /\ t < day + DayEnd /\ ~Covered(t)
                               => InSlot(slots, t)
<1>1. PICK walk : walk = SlotWalk(day)
  OBVIOUS
<1>2. WalkOK(walk, day) /\ walk.done
  BY <1>1, WalkDone
<1>3. walk.start \in Nat /\ walk.slots \in Seq([from : Nat, to : Nat])
  BY <1>2 DEF WalkOK
<1>4. PICK end \in Nat : end = day + DayEnd
  BY DayAssumption
<1>5. slots = Longer(walk.slots, walk.start, end)
  <2>1. walk.start < end <=> end > walk.start
    BY <1>3
  <2>. QED
    BY <1>1, <1>4, <2>1 DEF FreeSlots, Longer
<1>6. /\ slots \in Seq([from : Nat, to : Nat])
      /\ \A i \in 1 .. Len(slots) :
            \/ i \in 1 .. Len(walk.slots) /\ slots[i] = walk.slots[i]
            \/ slots[i].from = walk.start /\ slots[i].to = end
      /\ \A t \in Nat : InSlot(walk.slots, t) \/ (walk.start <= t /\ t < end)
                          => InSlot(slots, t)
  BY <1>3, <1>5, LongerSlots
<1>7. ASSUME NEW i \in 1 .. Len(slots) PROVE NoStart(slots[i].from, slots[i].to)
  BY <1>2, <1>4, <1>6 DEF WalkOK
<1>8. ASSUME NEW t \in Nat, day + DayStart <= t, t < end, ~Covered(t)
      PROVE  InSlot(slots, t)
  <2>1. CASE t < walk.start
    BY <1>2, <1>6, <1>8, <2>1 DEF WalkOK
  <2>2. CASE walk.start <= t
    BY <1>6, <1>8, <2>2
  <2>. QED
    BY <1>3, <2>1, <2>2
<1>. QED
  BY <1>4, <1>6, <1>7, <1>8

LEMMA ReadFreeTime == Read => SlotsAreFreeTime
<1>. SUFFICES ASSUME Read, Positive, NEW sch \in UserInput, NEW day, day = DateOf(sch.startTime)
              PROVE  /\ SlotWalk(day).done
                     /\ \A s \in Range(FreeSlots(SlotWalk(day), day)) : NoStart(s.from, s.to)
                     /\ \A t \in day + DayStart .. day + DayEnd - 1 :
                          ~Covered(t) => \E s \in Range(FreeSlots(SlotWalk(day), day)) :
                                            s.from <= t /\ t < s.to
  BY DEF SlotsAreFreeTime, NoStart
<1>1. day \in Nat
  <2>1. PICK t \in Nat : t = sch.startTime
    BY InputAssumption DEF Schedule
  <2>2. t - (t % DayTime) \in Nat
    BY DayAssumption
  <2>. QED
    BY <2>1, <2>2 DEF DateOf
<1>2. PICK slots : slots = FreeSlots(SlotWalk(day), day)
  OBVIOUS
<1>3. /\ slots \in Seq([from : Nat, to : Nat])
      /\ \A i \in 1 .. Len(slots) : NoStart(slots[i].from, slots[i].to)
      /\ \A t \in Nat : day + DayStart <= t /\ t < day + DayEnd /\ ~Covered(t)
                          => InSlot(slots, t)
  BY <1>1, <1>2, FreeTimeFound
<1>4. DOMAIN slots = 1 .. Len(slots)
  BY <1>3
<1>5. ASSUME NEW s \in Range(slots) PROVE NoStart(s.from, s.to)
  BY <1>3, <1>4, <1>5 DEF Range
<1>6. ASSUME NEW t \in day + DayStart .. day + DayEnd - 1, ~Covered(t)
      PROVE  \E s \in Range(slots) : s.from <= t /\ t < s.to
  <2>1. t \in Nat /\ day + DayStart <= t /\ t < day + DayEnd
    BY <1>1, DayAssumption
  <2>2. PICK i \in 1 .. Len(slots) : slots[i].from <= t /\ t < slots[i].to
    BY <1>3, <1>6, <2>1 DEF InSlot
  <2>. QED
    BY <1>4, <2>2 DEF Range
<1>. QED
  BY <1>1, <1>2, <1>5, <1>6, WalkDone

\* The free time a refused schedule is answered with: the loop over the index
\* by start time ends, no schedule starts in one of its slots, and none of the
\* free moments of the day is left out.
THEOREM FreeTimeIsFound == Spec => []SlotsAreFreeTime
<1>1. IInv => SlotsAreFreeTime
  BY ReadTable, ReadFreeTime
<1>. QED
  BY <1>1, InvariantHolds, PTL

-----------------------------------------------------------------------------
(* The schedules of a week. *)

\* The week of d seconds after the first one began, when a week does not hold
\* its first moment and holds that of the next.
LEMMA WeekOf ==
    ASSUME NEW n \in Nat \ {0}, NEW d \in Nat \ {0}, NEW w \in Nat,
           NEW own, own = IF d % n = 0 THEN d \div n - 1 ELSE d \div n
    PROVE  w * n < d /\ d <= w * n + n <=> w = own
<1>1. PICK q \in Nat, r \in Nat : q = d \div n /\ r = d % n /\ r < n /\ d = q * n + r
  BY DivMod
<1>2. PICK a \in Nat, b \in Nat : a = w * n /\ b = q * n
  <2>1. w * n \in Nat /\ q * n \in Nat
    OBVIOUS
  <2>. QED
    BY <2>1
<1>3. d = b + r /\ (own = IF r = 0 THEN q - 1 ELSE q)
  BY <1>1, <1>2
<1>4. CASE w = q
  <2>1. a = b
    BY <1>2, <1>4
  <2>. QED
    BY <1>1, <1>2, <1>3, <1>4, <2>1
<1>5. CASE w > q
  <2>1. b + n <= a
    BY <1>2, <1>5, ProductGrows
  <2>. QED
    BY <1>1, <1>2, <1>3, <1>5, <2>1
<1>6. CASE w + 1 = q
  <2>1. b = a + n
    BY <1>2, <1>6
  <2>. QED
    BY <1>1, <1>2, <1>3, <1>6, <2>1
<1>7. CASE w + 1 < q
  <2>1. PICK c : c = (w + 1) * n
    OBVIOUS
  <2>2. c = a + n
    BY <1>2, <2>1
  <2>3. c + n <= b
    BY <1>2, <1>7, <2>1, ProductGrows
  <2>. QED
    BY <1>1, <1>2, <1>3, <1>7, <2>2, <2>3
<1>. QED
  BY <1>1, <1>4, <1>5, <1>6, <1>7

\* The entries of a multimap after a, up to b.
Stretch(idx, a, b) == SubSeq(idx, UpperBound(idx, a), UpperBound(idx, b) - 1)

\* list has the entries of idx with such keys, each once.
ListsBetween(list, idx, a, b) ==
    /\ \A j \in DOMAIN list : \E i \in 1 .. Len(idx) :
          list[j] = idx[i] /\ a < idx[i].key /\ idx[i].key <= b
    /\ \A i, j \in DOMAIN list : i # j =>
          \E r, s \in 1 .. Len(idx) : r # s /\ list[i] = idx[r] /\ list[j] = idx[s]
    /\ \A k \in 1 .. Len(idx) :
          a < idx[k].key /\ idx[k].key <= b => \E j \in DOMAIN list : list[j] = idx[k]

LEMMA StretchHolds ==
    ASSUME NEW idx \in Seq(Entry), Sorted(idx), NEW a \in Nat, NEW b \in Nat, a <= b,
           NEW list, list = Stretch(idx, a, b)
    PROVE  ListsBetween(list, idx, a, b)
<1>. PICK n \in Nat : n = Len(idx)
  OBVIOUS
<1>1. PICK p \in 1 .. n + 1 :
         /\ p = UpperBound(idx, a)
         /\ \A i \in 1 .. p - 1 : idx[i].key <= a
         /\ \A i \in p .. n : idx[i].key > a
  BY UpperBoundSplits
<1>2. PICK q \in 1 .. n + 1 :
         /\ q = UpperBound(idx, b)
         /\ \A i \in 1 .. q - 1 : idx[i].key <= b
         /\ \A i \in q .. n : idx[i].key > b
  BY UpperBoundSplits
<1>3. p <= q
  <2>. SUFFICES ASSUME q < p PROVE FALSE
    OBVIOUS
  <2>1. q \in 1 .. p - 1 /\ q \in q .. n /\ q \in 1 .. Len(idx)
    OBVIOUS
  <2>2. idx[q].key \in Nat /\ idx[q].key <= a /\ idx[q].key > b
    BY <1>1, <1>2, <2>1, EntryFields
  <2>. QED
    BY <2>2
<1>4. /\ list \in Seq(Entry) /\ Len(list) = q - p
      /\ \A j \in 1 .. q - p : list[j] = idx[p + j - 1]
  <2>1. PICK m : m = q - 1
    OBVIOUS
  <2>2. m \in p - 1 .. Len(idx) /\ p \in 1 .. Len(idx) + 1
    BY <1>3, <2>1
  <2>3. list = SubSeq(idx, p, m)
    BY <1>1, <1>2, <2>1 DEF Stretch
  <2>4. /\ list \in Seq(Entry) /\ Len(list) = m - p + 1
        /\ \A j \in 1 .. m - p + 1 : list[j] = idx[p + j - 1]
    BY <2>2, <2>3, Slice
  <2>5. m - p + 1 = q - p
    BY <2>1
  <2>. QED
    BY <2>4, <2>5
<1>5. DOMAIN list = 1 .. q - p
  BY <1>4
<1>6. ASSUME NEW j \in DOMAIN list
      PROVE  \E i \in 1 .. n : list[j] = idx[i] /\ a < idx[i].key /\ idx[i].key <= b
  <2>1. PICK i \in 1 .. n : i = p + j - 1 /\ i \in p .. n /\ i \in 1 .. q - 1
    BY <1>5
  <2>2. idx[i].key \in Nat /\ list[j] = idx[i]
    BY <1>4, <1>5, <2>1, EntryFields
  <2>. QED
    BY <1>1, <1>2, <2>1, <2>2
<1>7. ASSUME NEW i \in DOMAIN list, NEW j \in DOMAIN list, i # j
      PROVE  \E r, s \in 1 .. n : r # s /\ list[i] = idx[r] /\ list[j] = idx[s]
  <2>1. i \in 1 .. q - p /\ j \in 1 .. q - p
    BY <1>5
  <2>2. p + i - 1 \in 1 .. n
    BY ONLY <2>1, n \in Nat, p \in 1 .. n + 1, q \in 1 .. n + 1
  <2>3. p + j - 1 \in 1 .. n
    BY ONLY <2>1, n \in Nat, p \in 1 .. n + 1, q \in 1 .. n + 1
  <2>4. p + i - 1 # p + j - 1
    BY ONLY <1>7, <2>1, p \in 1 .. n + 1
  <2>. QED
    BY <1>4, <2>1, <2>2, <2>3, <2>4
<1>8. ASSUME NEW k \in 1 .. n, a < idx[k].key, idx[k].key <= b PROVE \E j \in DOMAIN list : list[j] = idx[k]
  <2>1. idx[k].key \in Nat
    BY EntryFields
  <2>2. p <= k /\ k < q
    <3>1. ASSUME k \in 1 .. p - 1 PROVE FALSE
      <4>1. idx[k].key <= a
        BY <1>1, <3>1
      <4>. QED
        BY <1>8, <2>1, <4>1
    <3>2. ASSUME k \in q .. n PROVE FALSE
      <4>1. idx[k].key > b
        BY <1>2, <3>2
      <4>. QED
        BY <1>8, <2>1, <4>1
    <3>. QED
      BY <3>1, <3>2
  <2>3. k - p + 1 \in 1 .. q - p /\ p + (k - p + 1) - 1 = k
    BY <2>2
  <2>. QED
    BY <1>4, <1>5, <2>3
<1>. QED
  BY <1>6, <1>7, <1>8 DEF ListsBetween

\* What a week lists: the entries after its first moment, up to that of the next.
LEMMA WeekLists ==
    ASSUME Read, NEW a \in Nat, NEW b \in Nat, a <= b, NEW u \in DOMAIN records,
           NEW list, list = Stretch(Starts, a, b)
    PROVE  Cardinality({p \in DOMAIN list : list[p].uid = u}) =
              IF a < records[u].startTime /\ records[u].startTime <= b THEN 1 ELSE 0
<1>. DEFINE meets == {p \in DOMAIN list : list[p].uid = u}
<1>1. /\ Starts \in Seq(Entry) /\ Sorted(Starts)
      /\ \A i, j \in DOMAIN Starts : Starts[i].uid = Starts[j].uid => i = j
  BY DEF Read, Coherent, EntriesComplete
<1>2. DOMAIN Starts = 1 .. Len(Starts)
  BY <1>1
<1>3. PICK k \in 1 .. Len(Starts) :
         Starts[k].uid = u /\ Starts[k].key = records[u].startTime
  BY EntryOf
<1>4. ListsBetween(list, Starts, a, b)
  BY <1>1, StretchHolds
<1>5. \A i \in 1 .. Len(Starts) : Starts[i].uid = u => i = k
  BY <1>1, <1>2, <1>3
<1>6. CASE a < records[u].startTime /\ records[u].startTime <= b
  <2>1. PICK j \in DOMAIN list : list[j] = Starts[k]
    BY <1>3, <1>4, <1>6 DEF ListsBetween
  <2>2. ASSUME NEW i \in DOMAIN list, list[i].uid = u, i # j PROVE FALSE
    <3>1. PICK r \in 1 .. Len(Starts), s \in 1 .. Len(Starts) :
             r # s /\ list[i] = Starts[r] /\ list[j] = Starts[s]
      BY <1>4, <2>2 DEF ListsBetween
    <3>. QED
      BY <1>3, <1>5, <2>1, <2>2, <3>1
  <2>3. meets = {j}
    BY <1>3, <2>1, <2>2
  <2>. QED
    BY <1>6, <2>3, FS_Singleton
<1>7. CASE ~(a < records[u].startTime /\ records[u].startTime <= b)
  <2>1. ASSUME NEW j \in DOMAIN list, list[j].uid = u PROVE FALSE
    <3>1. PICK i \in 1 .. Len(Starts) :
             list[j] = Starts[i] /\ a < Starts[i].key /\ Starts[i].key <= b
      BY <1>4, <2>1 DEF ListsBetween
    <3>. QED
      BY <1>3, <1>5, <1>7, <2>1, <3>1
  <2>2. meets = {}
    BY <2>1
  <2>. QED
    BY <1>7, <2>2, FS_EmptySet
<1>. QED
  BY <1>6, <1>7

LEMMA ReadWeeks == Read => EachInItsWeek
<1>. SUFFICES
        ASSUME Read, NEW u \in DOMAIN records,
               NEW t, t = records[u].startTime, t > WeekOffset,
               NEW own, own = IF (t - WeekOffset) % WeekTime = 0
                              THEN WeekIndex(t) - 1 ELSE WeekIndex(t),
               NEW w \in 0 .. (WeekIndex(t) + 1),
               NEW meets, meets = {p \in DOMAIN ByWeek(w) : ByWeek(w)[p].uid = u}
        PROVE  Cardinality(meets) = IF w = own THEN 1 ELSE 0
  BY DEF EachInItsWeek
<1>1. PICK n \in Nat \ {0}, o \in Nat : n = WeekTime /\ o = WeekOffset
  BY WeekAssumption
<1>2. t \in Nat
  BY ReadTimes
<1>3. PICK d \in Nat \ {0} : d = t - o
  BY <1>1, <1>2
<1>4. WeekIndex(t) = d \div n /\ d \div n \in Nat
  BY <1>1, <1>2, <1>3, DivMod DEF WeekIndex
<1>5. own = IF d % n = 0 THEN d \div n - 1 ELSE d \div n
  BY <1>1, <1>3, <1>4
<1>6. w \in Nat
  BY <1>4
<1>7. w * n < d /\ d <= w * n + n <=> w = own
  BY <1>5, <1>6, WeekOf
<1>8. PICK a \in Nat : a = o + w * n
  BY <1>6
<1>9. a < t /\ t <= a + n <=> w * n < d /\ d <= w * n + n
  <2>1. w * n \in Nat
    BY <1>6
  <2>2. PICK m \in Nat : m = w * n
    BY <2>1
  <2>. QED
    BY <1>2, <1>3, <1>8, <2>2
<1>10. PICK list : list = Stretch(Starts, a, a + n)
  OBVIOUS
<1>11. ByWeek(w) = list
  BY <1>1, <1>8, <1>10 DEF ByWeek, Stretch
<1>12. Cardinality(meets) = IF a < t /\ t <= a + n THEN 1 ELSE 0
  <2>1. a + n \in Nat /\ a <= a + n
    BY <1>1, <1>8
  <2>2. meets = {p \in DOMAIN list : list[p].uid = u}
    BY <1>11
  <2>3. PICK b \in Nat : b = a + n /\ a <= b
    BY <2>1
  <2>4. list = Stretch(Starts, a, b)
    BY <1>10, <2>3
  <2>. QED
    BY <2>2, <2>3, <2>4, WeekLists
<1>. QED
  BY <1>7, <1>9, <1>12

\* getByWeek and getWeekIndex: going through the weeks a page meets a schedule
\* once, in the week it starts in or, at the first moment of one, in the week
\* before.
THEOREM MetInOneWeek == Spec => []EachInItsWeek
<1>1. IInv => EachInItsWeek
  BY ReadTable, ReadWeeks
<1>. QED
  BY <1>1, InvariantHolds, PTL

-----------------------------------------------------------------------------
(* The filtered list. *)

\* What GetByFilter relies on: every index lists each schedule once.
Columns == \A c \in Column : index[c] \in Seq(Entry) /\ Coherent(index[c], records, c)

LEMMA ReadColumns == IInv => Columns
BY DEF IInv, Good, Columns

\* Some of the schedules, and an index of just these.
Part(recs, U) == [u \in U |-> recs[u]]

Gathers(list, U, c) ==
    /\ U \subseteq DOMAIN records
    /\ list \in Seq(Entry) /\ Coherent(list, Part(records, U), c)

\* The same, entry by entry.
EachGathered(list, U, c) ==
    /\ U \subseteq DOMAIN records
    /\ list \in Seq(Entry) /\ Sorted(list) /\ DOMAIN list = 1 .. Len(list)
    /\ \A p \in 1 .. Len(list) :
          list[p].uid \in U /\ list[p].key = records[list[p].uid][c]
    /\ \A u \in U : \E p \in 1 .. Len(list) : list[p].uid = u
    /\ \A p, q \in 1 .. Len(list) : list[p].uid = list[q].uid => p = q

LEMMA Gathered ==
    ASSUME NEW list, NEW U, NEW c
    PROVE  Gathers(list, U, c) <=> EachGathered(list, U, c)
<1>1. DOMAIN Part(records, U) = U /\ \A u \in U : Part(records, U)[u] = records[u]
  BY DEF Part
<1>2. list \in Seq(Entry) => DOMAIN list = 1 .. Len(list)
  OBVIOUS
<1>3. ASSUME Gathers(list, U, c) PROVE EachGathered(list, U, c)
  BY <1>1, <1>2, <1>3 DEF Gathers, EachGathered, Coherent, EntriesMatch, EntriesComplete
<1>4. ASSUME EachGathered(list, U, c) PROVE Gathers(list, U, c)
  BY <1>1, <1>4 DEF Gathers, EachGathered, Coherent, EntriesMatch, EntriesComplete
<1>. QED
  BY <1>3, <1>4

LEMMA GatheredLen ==
    ASSUME NEW list, NEW U, NEW c, EachGathered(list, U, c)
    PROVE  \E n \in Nat : n = Len(list) /\ DOMAIN list = 1 .. n
<1>1. list \in Seq(Entry)
  BY DEF EachGathered
<1>. QED
  BY <1>1

\* One more schedule.
LEMMA GatherOne ==
    ASSUME Read, NEW list, NEW U, NEW c \in Column, Gathers(list, U, c),
           NEW uid \in DOMAIN records, uid \notin U,
           NEW new, new = AddIndex(list, uid, records[uid][c])
    PROVE  Gathers(new, U \cup {uid}, c)
<1>1. list \in Seq(Entry) /\ Coherent(list, Part(records, U), c) /\ U \subseteq DOMAIN records
  BY DEF Gathers
<1>2. uid \in Nat /\ records[uid][c] \in Nat
  BY ScheduleKeys DEF Read
<1>3. PICK recs, more : recs = Part(records, U) /\ more = Part(records, U \cup {uid})
  OBVIOUS
<1>4. /\ DOMAIN recs = U /\ DOMAIN more = DOMAIN recs \cup {uid}
      /\ \A u \in DOMAIN recs : more[u] = recs[u]
      /\ more[uid] = records[uid]
  BY <1>3 DEF Part
<1>5. new = AddIndex(list, uid, more[uid][c]) /\ more[uid][c] \in Nat
  BY <1>2, <1>4
<1>6. Coherent(list, recs, c) /\ uid \notin DOMAIN recs
  BY <1>1, <1>3, <1>4
<1>7. new \in Seq(Entry) /\ Coherent(new, more, c)
  BY <1>1, <1>2, <1>4, <1>5, <1>6, AddKeepsCoherent
<1>. QED
  BY <1>1, <1>3, <1>7 DEF Gathers

\* An entry with the greatest key goes to the end.
LEMMA AddedLast ==
    ASSUME NEW idx \in Seq(Entry), Sorted(idx), NEW e \in Entry,
           \A i \in 1 .. Len(idx) : idx[i].key <= e.key
    PROVE  AddIndex(idx, e.uid, e.key) = Append(idx, e)
<1>1. e.key \in Nat /\ e = [key |-> e.key, uid |-> e.uid]
  BY DEF Entry
<1>2. PICK n \in Nat : n = Len(idx)
  OBVIOUS
<1>3. PICK p \in 1 .. n + 1 : /\ p = UpperBound(idx, e.key)
                              /\ \A i \in p .. n : idx[i].key > e.key
  BY <1>1, <1>2, UpperBoundSplits
<1>4. p = n + 1
  <2>. SUFFICES ASSUME p \in 1 .. n PROVE FALSE
    OBVIOUS
  <2>1. idx[p].key > e.key /\ idx[p].key <= e.key /\ idx[p].key \in Nat
    BY <1>2, <1>3, EntryFields
  <2>. QED
    BY <1>1, <2>1
<1>5. AddIndex(idx, e.uid, e.key) = InsertAt(idx, n + 1, e)
  BY <1>1, <1>3, <1>4 DEF AddIndex
<1>6. SubSeq(idx, 1, (n + 1) - 1) = idx /\ SubSeq(idx, n + 1, n) = << >>
  BY <1>2
<1>7. InsertAt(idx, n + 1, e) = (idx \o << e >>) \o << >>
  BY <1>2, <1>6 DEF InsertAt
<1>8. (idx \o << e >>) \o << >> = Append(idx, e)
  OBVIOUS
<1>. QED
  BY <1>5, <1>7, <1>8

\* The entries from one position to before another.
Cut(idx, p, q) == SubSeq(idx, p, q - 1)

\* They are the ones with such keys.
Spans(idx, p, q, K) ==
    /\ p <= q
    /\ \A i \in 1 .. Len(idx) : idx[i].key \in K <=> p <= i /\ i < q

\* The schedules with such values.
Within(c, K) == {u \in DOMAIN records : records[u][c] \in K}

CutTo(list, idx, p, q) ==
    /\ list \in Seq(Entry) /\ Len(list) = q - p
    /\ \A j \in 1 .. q - p : list[j] = idx[p + j - 1]

LEMMA CutElements ==
    ASSUME NEW idx \in Seq(Entry), NEW p \in 1 .. Len(idx) + 1, NEW q \in 1 .. Len(idx) + 1,
           p <= q, NEW list, list = Cut(idx, p, q)
    PROVE  CutTo(list, idx, p, q)
<1>1. PICK n \in Nat : n = Len(idx)
  OBVIOUS
<1>2. PICK m : m = q - 1
  OBVIOUS
<1>3. m \in p - 1 .. Len(idx)
  BY <1>1, <1>2
<1>4. list = SubSeq(idx, p, m)
  BY <1>2 DEF Cut
<1>5. /\ list \in Seq(Entry) /\ Len(list) = m - p + 1
      /\ \A j \in 1 .. m - p + 1 : list[j] = idx[p + j - 1]
  BY <1>3, <1>4, Slice
<1>6. m - p + 1 = q - p
  BY <1>1, <1>2
<1>. QED
  BY <1>5, <1>6 DEF CutTo

LEMMA CutGathers ==
    ASSUME NEW c, NEW idx \in Seq(Entry), Coherent(idx, records, c), NEW K,
           NEW p \in 1 .. Len(idx) + 1, NEW q \in 1 .. Len(idx) + 1, Spans(idx, p, q, K),
           NEW list, list = Cut(idx, p, q)
    PROVE  Gathers(list, Within(c, K), c)
<1>. PICK n \in Nat : n = Len(idx)
  OBVIOUS
<1>1. DOMAIN idx = 1 .. n
  OBVIOUS
<1>2. /\ Sorted(idx)
      /\ \A i \in 1 .. n : idx[i].uid \in DOMAIN records /\ idx[i].key = records[idx[i].uid][c]
      /\ \A u \in DOMAIN records : \E i \in 1 .. n : idx[i].uid = u
      /\ \A i, j \in 1 .. n : idx[i].uid = idx[j].uid => i = j
  BY <1>1 DEF Coherent, EntriesMatch, EntriesComplete
<1>3. p <= q /\ \A i \in 1 .. n : idx[i].key \in K <=> p <= i /\ i < q
  BY DEF Spans
<1>4. /\ list \in Seq(Entry) /\ Len(list) = q - p
      /\ \A j \in 1 .. q - p : list[j] = idx[p + j - 1]
  <2>1. p <= q
    BY <1>3
  <2>2. CutTo(list, idx, p, q)
    BY <2>1, CutElements
  <2>. QED
    BY <2>2 DEF CutTo
<1>5. ASSUME NEW j \in 1 .. q - p
      PROVE  p + j - 1 \in 1 .. n /\ p <= p + j - 1 /\ p + j - 1 < q
  <2>1. p \in 1 .. n + 1 /\ q \in 1 .. n + 1
    OBVIOUS
  <2>. QED
    BY ONLY <2>1, n \in Nat, j \in 1 .. q - p
<1>6. ASSUME NEW j \in 1 .. q - p
      PROVE  /\ list[j].uid \in Within(c, K)
             /\ list[j].key = records[list[j].uid][c]
  <2>1. PICK i \in 1 .. n : i = p + j - 1 /\ p <= i /\ i < q
    BY <1>5
  <2>2. list[j] = idx[i]
    BY <1>4, <2>1
  <2>. QED
    BY <1>2, <1>3, <2>1, <2>2 DEF Within
<1>7. ASSUME NEW u \in Within(c, K) PROVE \E j \in 1 .. q - p : list[j].uid = u
  <2>1. PICK i \in 1 .. n : idx[i].uid = u /\ idx[i].key \in K
    <3>1. u \in DOMAIN records /\ records[u][c] \in K
      BY DEF Within
    <3>2. PICK i \in 1 .. n : idx[i].uid = u
      BY <1>2, <3>1
    <3>. QED
      BY <1>2, <3>1, <3>2
  <2>2. p <= i /\ i < q
    BY <1>3, <2>1
  <2>3. p \in Nat /\ q \in Nat /\ i \in Nat
    <3>1. p \in 1 .. n + 1 /\ q \in 1 .. n + 1 /\ i \in 1 .. n
      OBVIOUS
    <3>. QED
      BY ONLY <3>1, n \in Nat
  <2>4. i - p + 1 \in 1 .. q - p /\ p + (i - p + 1) - 1 = i
    BY ONLY <2>2, <2>3
  <2>. QED
    BY <1>4, <2>1, <2>4
<1>8. ASSUME NEW i \in 1 .. q - p, NEW j \in 1 .. q - p
      PROVE  /\ list[i].uid = list[j].uid => i = j
             /\ i < j => list[i].key <= list[j].key
  <2>1. PICK r \in 1 .. n, s \in 1 .. n : r = p + i - 1 /\ s = p + j - 1
    BY <1>5
  <2>2. list[i] = idx[r] /\ list[j] = idx[s]
    BY <1>4, <2>1
  <2>3. r = s => i = j
    BY <2>1
  <2>4. i < j => r < s
    BY <2>1
  <2>5. r < s => idx[r].key <= idx[s].key
    BY <1>1, <1>2 DEF Sorted
  <2>. QED
    BY <1>2, <2>2, <2>3, <2>4, <2>5
<1>9. DOMAIN list = 1 .. q - p
  BY <1>4
<1>10. Sorted(list)
  BY <1>8, <1>9 DEF Sorted
<1>11. Within(c, K) \subseteq DOMAIN records
  BY DEF Within
<1>12. PICK m \in Nat : m = q - p /\ m = Len(list)
  BY <1>3, <1>4
<1>13. EachGathered(list, Within(c, K), c)
  BY <1>4, <1>6, <1>7, <1>8, <1>9, <1>10, <1>11, <1>12 DEF EachGathered
<1>. QED
  BY <1>13, Gathered

\* What lies between lower_bound and upper_bound.
LEMMA BoundsSpan ==
    ASSUME NEW idx \in Seq(Entry), Sorted(idx), NEW a \in Nat, NEW b \in Nat, a <= b,
           NEW p, p = LowerBound(idx, a), NEW q, q = UpperBound(idx, b)
    PROVE  /\ p \in 1 .. Len(idx) + 1 /\ q \in 1 .. Len(idx) + 1
           /\ Spans(idx, p, q, a .. b)
<1>. PICK n \in Nat : n = Len(idx)
  OBVIOUS
<1>1. /\ p \in 1 .. n + 1
      /\ \A i \in 1 .. p - 1 : idx[i].key < a
      /\ \A i \in p .. n : idx[i].key >= a
  BY LowerBoundSplits
<1>2. /\ q \in 1 .. n + 1
      /\ \A i \in 1 .. q - 1 : idx[i].key <= b
      /\ \A i \in q .. n : idx[i].key > b
  BY UpperBoundSplits
<1>3. p <= q
  <2>. SUFFICES ASSUME q < p PROVE FALSE
    BY <1>1, <1>2
  <2>1. q \in 1 .. p - 1 /\ q \in q .. n /\ q \in 1 .. n
    BY <1>1, <1>2
  <2>2. idx[q].key \in Nat /\ idx[q].key < a /\ idx[q].key > b
    BY <1>1, <1>2, <2>1, EntryFields
  <2>. QED
    BY <2>2
<1>4. ASSUME NEW i \in 1 .. n PROVE idx[i].key \in a .. b <=> p <= i /\ i < q
  <2>1. PICK k \in Nat : k = idx[i].key
    BY EntryFields
  <2>2. i < p => k < a
    BY <1>1, <2>1
  <2>3. p <= i => k >= a
    BY <1>1, <2>1
  <2>4. i < q => k <= b
    BY <1>2, <2>1
  <2>5. q <= i => k > b
    BY <1>2, <2>1
  <2>6. k \in a .. b <=> a <= k /\ k <= b
    BY <2>1
  <2>7. (i < p \/ p <= i) /\ (i < q \/ q <= i)
    BY <1>1, <1>2
  <2>8. k \in a .. b <=> p <= i /\ i < q
    <3>1. p \in Nat /\ q \in Nat /\ i \in Nat
      BY <1>1, <1>2
    <3>. QED
      BY ONLY <2>2, <2>3, <2>4, <2>5, <2>6, <2>7, <3>1, k \in Nat, a \in Nat, b \in Nat
  <2>. QED
    BY <2>1, <2>8
<1>. QED
  BY <1>1, <1>2, <1>3, <1>4 DEF Spans

\* The index that is searched.
LEMMA SearchColumn ==
    ASSUME NEW q \in Query, ~Refused(q)
    PROVE  SearchBy(q) \in {"name", "startTime", "tags"} /\ SearchBy(q) \in Column
<1>1. q.orderBy \in Order
  BY QueryAssumption
<1>2. SearchBy(q) # "endTime"
  BY DEF Refused
<1>3. CASE Cardinality(Given(q)) > 1 /\ q.orderBy # "other"
  <2>1. SearchBy(q) = q.orderBy
    BY <1>3 DEF SearchBy
  <2>. QED
    BY <1>1, <1>2, <1>3, <2>1 DEF Order, Column
<1>4. CASE ~(Cardinality(Given(q)) > 1 /\ q.orderBy # "other")
  <2>1. SearchBy(q) = IF "tags" \in Given(q) THEN "tags"
                      ELSE IF Given(q) = {"name"} THEN "name" ELSE "startTime"
    BY <1>4 DEF SearchBy
  <2>. QED
    BY <2>1 DEF Column
<1>. QED
  BY <1>3, <1>4

\* The searches that may find all there is, and the schedules they are to find.
Answerable(q) ==
    /\ SearchBy(q) = "startTime" => q.endTime > 0
    /\ SearchBy(q) = "tags" => q.tags > 0

Fits(u, q) ==
    /\ u \in DOMAIN records
    /\ records[u].startTime <= records[u].endTime
    /\ InTimes("name", records[u], q)
    /\ Has(records[u].name, q.name)
    /\ q.tags > 0 => records[u].tags = q.tags

LEMMA WholeGathers ==
    ASSUME Columns, NEW c \in Column
    PROVE  Gathers(index[c], DOMAIN records, c)
<1>1. index[c] \in Seq(Entry) /\ Coherent(index[c], records, c)
  BY DEF Columns
<1>2. DOMAIN index[c] = 1 .. Len(index[c])
  BY <1>1
<1>3. EachGathered(index[c], DOMAIN records, c)
  BY <1>1, <1>2 DEF EachGathered, Coherent, EntriesMatch, EntriesComplete
<1>. QED
  BY <1>3, Gathered

\* From a to b in an index.
LEMMA BetweenGathers ==
    ASSUME Columns, NEW c \in Column, NEW a \in Nat, NEW b \in Nat, a <= b,
           NEW list, list = Cut(index[c], LowerBound(index[c], a), UpperBound(index[c], b))
    PROVE  Gathers(list, Within(c, a .. b), c)
<1>1. index[c] \in Seq(Entry) /\ Coherent(index[c], records, c) /\ Sorted(index[c])
  BY DEF Columns, Coherent
<1>2. PICK p, q : p = LowerBound(index[c], a) /\ q = UpperBound(index[c], b)
  OBVIOUS
<1>3. PICK idx : idx = index[c]
  OBVIOUS
<1>4. /\ p \in 1 .. Len(idx) + 1 /\ q \in 1 .. Len(idx) + 1
      /\ Spans(idx, p, q, a .. b)
  BY <1>1, <1>2, <1>3, BoundsSpan
<1>5. idx \in Seq(Entry) /\ Coherent(idx, records, c) /\ list = Cut(idx, p, q)
  BY <1>1, <1>2, <1>3
<1>. QED
  BY <1>4, <1>5, CutGathers

LEMMA CandidatesGathered ==
    ASSUME Read, Columns, NEW q \in Query, ~Refused(q)
    PROVE  \E U : /\ Gathers(Candidates(q), U, SearchBy(q))
                  /\ Answerable(q) => \A u : Fits(u, q) => u \in U
<1>1. /\ q.startTime \in Nat /\ q.endTime \in Nat /\ q.tags \in Nat
      /\ q.startTime <= q.endTime
  BY QueryAssumption
<1>2. SearchBy(q) \in {"name", "startTime", "tags"}
  BY SearchColumn
<1>3. CASE SearchBy(q) = "name"
  <2>1. "name" \in Column
    BY DEF Column
  <2>2. Candidates(q) = index["name"]
    BY <1>3 DEF Candidates
  <2>3. Gathers(Candidates(q), DOMAIN records, SearchBy(q))
    BY <1>3, <2>1, <2>2, WholeGathers
  <2>4. \A u : Fits(u, q) => u \in DOMAIN records
    BY DEF Fits
  <2>. QED
    BY <2>3, <2>4
<1>4. CASE SearchBy(q) = "startTime"
  <2>1. "startTime" \in Column
    BY DEF Column
  <2>2. Candidates(q) = Cut(index["startTime"], LowerBound(index["startTime"], q.startTime),
                            UpperBound(index["startTime"], q.endTime))
    BY <1>4 DEF Candidates, Cut, Starts
  <2>3. PICK U : U = Within("startTime", q.startTime .. q.endTime)
    OBVIOUS
  <2>4. Gathers(Candidates(q), U, SearchBy(q))
    BY <1>1, <1>4, <2>1, <2>2, <2>3, BetweenGathers
  <2>5. ASSUME Answerable(q), NEW u, Fits(u, q) PROVE u \in U
    <3>1. /\ u \in DOMAIN records /\ records[u].startTime <= records[u].endTime
          /\ InTimes("name", records[u], q) /\ q.endTime > 0
      BY <1>4, <2>5 DEF Fits, Answerable
    <3>2. records[u].startTime \in Nat /\ records[u].endTime \in Nat
      BY <3>1, ReadTimes
    <3>3. /\ q.startTime > 0 => records[u].startTime >= q.startTime
          /\ records[u].endTime <= q.endTime
      BY <3>1 DEF InTimes
    <3>4. records[u].startTime \in q.startTime .. q.endTime
      BY <1>1, <3>1, <3>2, <3>3
    <3>. QED
      BY <2>3, <3>1, <3>4 DEF Within
  <2>. QED
    BY <2>4, <2>5
<1>5. CASE SearchBy(q) = "tags"
  <2>1. "tags" \in Column
    BY DEF Column
  <2>2. Candidates(q) = Cut(index["tags"], LowerBound(index["tags"], q.tags),
                            UpperBound(index["tags"], q.tags))
    BY <1>5 DEF Candidates, Cut
  <2>3. PICK U : U = Within("tags", q.tags .. q.tags)
    OBVIOUS
  <2>4. Gathers(Candidates(q), U, SearchBy(q))
    <3>1. PICK t \in Nat : t = q.tags /\ t <= t
      BY <1>1
    <3>2. PICK list : list = Cut(index["tags"], LowerBound(index["tags"], t),
                                 UpperBound(index["tags"], t))
      OBVIOUS
    <3>3. Gathers(list, Within("tags", t .. t), "tags")
      BY <2>1, <3>1, <3>2, BetweenGathers
    <3>. QED
      BY <1>5, <2>2, <2>3, <3>1, <3>2, <3>3
  <2>5. ASSUME Answerable(q), NEW u, Fits(u, q) PROVE u \in U
    <3>1. u \in DOMAIN records /\ records[u].tags = q.tags
      BY <1>5, <2>5 DEF Fits, Answerable
    <3>2. q.tags \in q.tags .. q.tags
      BY <1>1
    <3>. QED
      BY <2>3, <3>1, <3>2 DEF Within
  <2>. QED
    BY <2>4, <2>5
<1>. QED
  BY <1>2, <1>3, <1>4, <1>5

\* What fits passes the filter of every search.
LEMMA FitsAccepted ==
    ASSUME Read, NEW q \in Query, NEW by, NEW u, Fits(u, q)
    PROVE  Accepted(by, records[u], q)
<1>1. /\ u \in DOMAIN records /\ records[u].startTime <= records[u].endTime
      /\ InTimes("name", records[u], q) /\ Has(records[u].name, q.name)
      /\ q.tags > 0 => records[u].tags = q.tags
  BY DEF Fits
<1>2. /\ records[u].startTime \in Nat /\ records[u].endTime \in Nat
      /\ q.startTime \in Nat /\ q.endTime \in Nat
  BY <1>1, ReadTimes, QueryAssumption
<1>3. /\ q.startTime > 0 => records[u].startTime >= q.startTime
      /\ q.endTime > 0 => records[u].endTime <= q.endTime
  BY <1>1 DEF InTimes
<1>4. InTimes(by, records[u], q)
  BY <1>1, <1>2, <1>3 DEF InTimes
<1>5. q.tags > 0 => Has(q.tags, records[u].tags)
  BY <1>1 DEF Has
<1>. QED
  BY <1>1, <1>4, <1>5 DEF Accepted

\* One round of the loop that filters or of the one that sorts.
LoopStep(mode, q, list, i, r) ==
    IF mode = "sort" THEN AddIndex(r, list[i].uid, records[list[i].uid][q.orderBy])
    ELSE IF Accepted(SearchBy(q), records[list[i].uid], q) THEN Append(r, list[i]) ELSE r

Loop(f, n, mode, q, list) ==
    f = [i \in 0 .. n |-> IF i = 0 THEN << >> ELSE LoopStep(mode, q, list, i, f[i - 1])]

LEMMA LoopExists ==
    ASSUME NEW n \in Nat, NEW mode, NEW q, NEW list
    PROVE  \E f : Loop(f, n, mode, q, list)
<1>. DEFINE Exists(k) == \E f : Loop(f, k, mode, q, list)
            Runs == {k \in Nat : Exists(k)}
<1>1. Exists(0)
  <2>1. PICK f : f = [i \in 0 .. 0 |-> << >>]
    OBVIOUS
  <2>2. Loop(f, 0, mode, q, list)
    BY <2>1 DEF Loop
  <2>. QED
    BY <2>2
<1>2. ASSUME NEW k \in Nat, Exists(k) PROVE Exists(k + 1)
  <2>1. PICK f : Loop(f, k, mode, q, list)
    BY <1>2
  <2>2. PICK g : g = [i \in 0 .. k + 1 |->
                        IF i = 0 THEN << >> ELSE LoopStep(mode, q, list, i, f[i - 1])]
    OBVIOUS
  <2>3. ASSUME NEW i \in 0 .. k PROVE g[i] = f[i]
    BY <2>1, <2>2 DEF Loop
  <2>4. ASSUME NEW i \in 0 .. k + 1, i # 0
        PROVE  LoopStep(mode, q, list, i, g[i - 1]) = LoopStep(mode, q, list, i, f[i - 1])
    <3>1. i - 1 \in 0 .. k
      BY <2>4
    <3>. QED
      BY <2>3, <3>1
  <2>5. Loop(g, k + 1, mode, q, list)
    BY <2>2, <2>4 DEF Loop
  <2>. QED
    BY <2>5
<1>3. 0 \in Runs /\ \A k \in Runs : k + 1 \in Runs
  <2>. HIDE DEF Exists
  <2>. QED
    BY <1>1, <1>2
<1>4. n \in Runs
  <2>. HIDE DEF Runs
  <2>. QED
    BY <1>3, AllNaturals
<1>. QED
  BY <1>4

\* The schedules such a loop takes, and those it has taken after n rounds.
Takes(mode, q, u) == mode = "sort" \/ Accepted(SearchBy(q), records[u], q)

TakenOf(mode, q, U) == {u \in U : Takes(mode, q, u)}

TakenBy(n, mode, q, list, U) ==
    {u \in U : Takes(mode, q, u) /\ \E i \in 1 .. n : list[i].uid = u}

\* The column the result is in the order of.  The filter keeps that of the list.
LoopColumn(mode, q, by, c) ==
    /\ c = IF mode = "sort" THEN q.orderBy ELSE SearchBy(q)
    /\ mode = "sort" \/ by = c

\* One round.  The filter keeps the order of the index it goes through.
LEMMA RoundGathers ==
    ASSUME Read, NEW list, NEW U, NEW by, Gathers(list, U, by), NEW q, NEW mode,
           NEW c \in Column, LoopColumn(mode, q, by, c),
           NEW n \in Nat, n + 1 <= Len(list),
           NEW r, Gathers(r, TakenBy(n, mode, q, list, U), c),
           NEW new, new = LoopStep(mode, q, list, n + 1, r)
    PROVE  Gathers(new, TakenBy(n + 1, mode, q, list, U), c)
<1>1. EachGathered(list, U, by)
  BY Gathered
<1>2. PICK m \in Nat : m = Len(list) /\ n + 1 \in 1 .. m /\ n + 1 \in DOMAIN list
  <2>1. PICK m \in Nat : m = Len(list) /\ DOMAIN list = 1 .. m
    BY <1>1, GatheredLen
  <2>2. n + 1 \in 1 .. m
    BY <2>1
  <2>. QED
    BY <2>1, <2>2
<1>3. PICK e \in Entry : e = list[n + 1] /\ e.uid \in U /\ e.key = records[e.uid][by]
  <2>1. n + 1 \in 1 .. Len(list) /\ list \in Seq(Entry)
    BY <1>1, <1>2 DEF EachGathered
  <2>2. list[n + 1] \in Entry
    BY <2>1, ElementOfSeq
  <2>. QED
    BY <1>1, <2>1, <2>2 DEF EachGathered
<1>4. e.uid \in DOMAIN records
  BY <1>1, <1>3 DEF EachGathered
<1>5. \A i \in 1 .. m : list[i].uid = e.uid => i = n + 1
  BY <1>1, <1>2, <1>3 DEF EachGathered
<1>6. \A i : i \in 1 .. n + 1 <=> i \in 1 .. n \/ i = n + 1
  OBVIOUS
<1>7. CASE ~Takes(mode, q, e.uid)
  <2>1. new = r
    BY <1>3, <1>7 DEF LoopStep, LoopColumn, Takes
  <2>2. TakenBy(n + 1, mode, q, list, U) = TakenBy(n, mode, q, list, U)
    BY <1>3, <1>6, <1>7 DEF TakenBy
  <2>. QED
    BY <2>1, <2>2
<1>8. CASE Takes(mode, q, e.uid)
  <2>1. TakenBy(n + 1, mode, q, list, U) = TakenBy(n, mode, q, list, U) \cup {e.uid}
    BY <1>3, <1>6, <1>8 DEF TakenBy
  <2>2. e.uid \notin TakenBy(n, mode, q, list, U)
    <3>1. ASSUME NEW i \in 1 .. n PROVE i \in 1 .. m /\ i # n + 1
      BY <1>2
    <3>. QED
      BY <1>5, <3>1 DEF TakenBy
  <2>3. new = AddIndex(r, e.uid, records[e.uid][c])
    <3>1. CASE mode = "sort"
      BY <1>3, <3>1 DEF LoopStep, LoopColumn
    <3>2. CASE mode # "sort"
      <4>1. new = Append(r, e) /\ by = c /\ e.key = records[e.uid][c]
        BY <1>3, <1>8, <3>2 DEF LoopStep, LoopColumn, Takes
      <4>2. EachGathered(r, TakenBy(n, mode, q, list, U), c)
        BY Gathered
      <4>3. ASSUME NEW p \in 1 .. Len(r) PROVE r[p].key <= e.key
        <5>1. r[p].uid \in TakenBy(n, mode, q, list, U) /\ r[p].key = records[r[p].uid][c]
          BY <4>2 DEF EachGathered
        <5>2. PICK i \in 1 .. n : list[i].uid = r[p].uid
          BY <5>1 DEF TakenBy
        <5>3. i \in 1 .. Len(list) /\ i \in DOMAIN list /\ i < n + 1
          BY <1>1, <1>2 DEF EachGathered
        <5>4. list[i].key = r[p].key
          BY <1>1, <4>1, <5>1, <5>2, <5>3 DEF EachGathered
        <5>5. list[i].key <= list[n + 1].key
          BY <1>1, <1>2, <5>3 DEF EachGathered, Sorted
        <5>. QED
          BY <1>3, <5>4, <5>5
      <4>4. r \in Seq(Entry) /\ Sorted(r)
        BY <4>2 DEF EachGathered
      <4>5. AddIndex(r, e.uid, e.key) = Append(r, e)
        BY <4>3, <4>4, AddedLast
      <4>. QED
        BY <4>1, <4>5
    <3>. QED
      BY <3>1, <3>2
  <2>4. Gathers(new, TakenBy(n, mode, q, list, U) \cup {e.uid}, c)
    BY <1>4, <2>2, <2>3, GatherOne
  <2>. QED
    BY <2>1, <2>4
<1>. QED
  BY <1>7, <1>8

\* A whole loop.
LEMMA LoopGathers ==
    ASSUME Read, NEW list, NEW U, NEW by, Gathers(list, U, by), NEW q, NEW mode,
           NEW c \in Column, LoopColumn(mode, q, by, c),
           NEW n \in Nat, n = Len(list), NEW f, Loop(f, n, mode, q, list),
           NEW taken, taken = TakenOf(mode, q, U)
    PROVE  Gathers(f[n], taken, c)
<1>. DEFINE Fine(i) == Gathers(f[i], TakenBy(i, mode, q, list, U), c)
            Runs == {i \in Nat : i <= n => Fine(i)}
<1>1. EachGathered(list, U, by)
  BY Gathered
<1>2. Fine(0)
  <2>1. f[0] = << >>
    BY DEF Loop
  <2>2. PICK none : none = TakenBy(0, mode, q, list, U)
    OBVIOUS
  <2>3. none = {}
    BY <2>2 DEF TakenBy
  <2>4. EachGathered(<< >>, {}, c)
    BY DEF EachGathered, Sorted
  <2>5. Gathers(<< >>, {}, c)
    BY <2>4, Gathered
  <2>. QED
    BY <2>1, <2>2, <2>3, <2>5
<1>3. ASSUME NEW i \in Nat, i + 1 <= n, Fine(i) PROVE Fine(i + 1)
  <2>1. i + 1 \in 0 .. n /\ i + 1 # 0 /\ (i + 1) - 1 = i
    BY <1>3
  <2>2. f[i + 1] = LoopStep(mode, q, list, i + 1, f[i])
    BY <2>1 DEF Loop
  <2>3. PICK r, new : r = f[i] /\ new = f[i + 1]
    OBVIOUS
  <2>4. /\ i + 1 <= Len(list) /\ Gathers(r, TakenBy(i, mode, q, list, U), c)
        /\ new = LoopStep(mode, q, list, i + 1, r)
    BY <1>3, <2>2, <2>3
  <2>5. Gathers(new, TakenBy(i + 1, mode, q, list, U), c)
    BY <2>4, RoundGathers
  <2>. QED
    BY <2>3, <2>5
<1>4. 0 \in Runs /\ \A i \in Runs : i + 1 \in Runs
  <2>. HIDE DEF Fine
  <2>1. 0 \in Runs
    BY <1>2
  <2>2. ASSUME NEW i \in Runs PROVE i + 1 \in Runs
    <3>1. CASE i + 1 <= n
      BY <1>3, <2>2, <3>1
    <3>2. CASE ~(i + 1 <= n)
      BY <2>2, <3>2
    <3>. QED
      BY <3>1, <3>2
  <2>. QED
    BY <2>1, <2>2
<1>5. n \in Runs
  <2>. HIDE DEF Runs
  <2>. QED
    BY <1>4, AllNaturals
<1>6. Fine(n)
  BY <1>5
<1>7. TakenBy(n, mode, q, list, U) = taken
  <2>1. \A u \in U : \E i \in 1 .. n : list[i].uid = u
    BY <1>1 DEF EachGathered
  <2>. QED
    BY <2>1 DEF TakenBy, TakenOf
<1>. QED
  BY <1>6, <1>7

\* The filtered candidates.
LEMMA FoundGathered ==
    ASSUME Read, Columns, NEW q \in Query, ~Refused(q)
    PROVE  \E U : /\ Gathers(Found(q), U, SearchBy(q))
                  /\ Answerable(q) => \A u : Fits(u, q) => u \in U
<1>1. PICK U : /\ Gathers(Candidates(q), U, SearchBy(q))
               /\ Answerable(q) => \A u : Fits(u, q) => u \in U
  BY CandidatesGathered
<1>2. PICK list : list = Candidates(q)
  OBVIOUS
<1>3. EachGathered(list, U, SearchBy(q))
  BY <1>1, <1>2, Gathered
<1>4. PICK n \in Nat : n = Len(list)
  BY <1>3, GatheredLen
<1>5. PICK f : Loop(f, n, "filter", q, list) /\ Found(q) = f[n]
  <2>1. PICK f : f = CHOOSE g : Loop(g, n, "filter", q, list)
    OBVIOUS
  <2>2. Loop(f, n, "filter", q, list)
    BY <2>1, LoopExists
  <2>3. Found(q) = f[n]
    BY <1>2, <1>4, <2>1 DEF Found, Loop, LoopStep
  <2>. QED
    BY <2>2, <2>3
<1>6. PICK taken : taken = TakenOf("filter", q, U)
  OBVIOUS
<1>7. PICK c \in Column : c = SearchBy(q)
  BY SearchColumn
<1>8. Gathers(f[n], taken, c)
  <2>1. Gathers(list, U, c) /\ c = SearchBy(q)
    BY <1>1, <1>2, <1>7
  <2>2. PICK mode : mode = "filter"
    OBVIOUS
  <2>3. /\ LoopColumn(mode, q, c, c)
        /\ Loop(f, n, mode, q, list) /\ taken = TakenOf(mode, q, U)
    BY <1>5, <1>6, <1>7, <2>2 DEF LoopColumn
  <2>. QED
    BY <1>4, <2>1, <2>3, LoopGathers
<1>9. ASSUME Answerable(q), NEW u, Fits(u, q) PROVE u \in taken
  BY <1>1, <1>6, <1>9, FitsAccepted DEF TakenOf, Takes
<1>. QED
  BY <1>5, <1>7, <1>8, <1>9

\* The same in the order asked for.
LEMMA OrderGathered ==
    ASSUME Read, Columns, NEW q \in Query, ~Refused(q)
    PROVE  \E U, c : /\ Gathers(InOrder(q), U, c)
                     /\ q.orderBy \in {"name", "startTime", "tags"} => c = q.orderBy
                     /\ Answerable(q) => \A u : Fits(u, q) => u \in U
<1>1. PICK U : /\ Gathers(Found(q), U, SearchBy(q))
               /\ Answerable(q) => \A u : Fits(u, q) => u \in U
  BY FoundGathered
<1>2. CASE q.orderBy \in {"name", "startTime", "tags"} \ {SearchBy(q)}
  <2>1. PICK list : list = Found(q)
    OBVIOUS
  <2>2. EachGathered(list, U, SearchBy(q))
    BY <1>1, <2>1, Gathered
  <2>3. PICK n \in Nat : n = Len(list)
    BY <2>2, GatheredLen
  <2>4. PICK f : Loop(f, n, "sort", q, list) /\ InOrder(q) = f[n]
    <3>1. PICK f : f = CHOOSE g : Loop(g, n, "sort", q, list)
      OBVIOUS
    <3>2. Loop(f, n, "sort", q, list)
      BY <3>1, LoopExists
    <3>3. SortedBy(list, q.orderBy) = f[n]
      BY <2>3, <3>1 DEF SortedBy, Loop, LoopStep
    <3>. QED
      BY <1>2, <2>1, <3>2, <3>3 DEF InOrder
  <2>5. PICK taken : taken = TakenOf("sort", q, U)
    OBVIOUS
  <2>6. taken = U
    BY <2>5 DEF TakenOf, Takes
  <2>7. PICK c \in Column : c = q.orderBy
    BY <1>2 DEF Column
  <2>8. Gathers(f[n], taken, c)
    <3>1. PICK by, mode : by = SearchBy(q) /\ mode = "sort"
      OBVIOUS
    <3>2. /\ Gathers(list, U, by) /\ LoopColumn(mode, q, by, c)
          /\ Loop(f, n, mode, q, list) /\ taken = TakenOf(mode, q, U)
      BY <1>1, <2>1, <2>4, <2>5, <2>7, <3>1 DEF LoopColumn
    <3>. QED
      BY <2>3, <3>2, LoopGathers
  <2>. QED
    BY <1>1, <2>4, <2>6, <2>7, <2>8
<1>3. CASE ~(q.orderBy \in {"name", "startTime", "tags"} \ {SearchBy(q)})
  <2>1. InOrder(q) = Found(q)
    BY <1>3 DEF InOrder
  <2>2. q.orderBy \in {"name", "startTime", "tags"} => SearchBy(q) = q.orderBy
    BY <1>3
  <2>. QED
    BY <1>1, <2>1, <2>2
<1>. QED
  BY <1>2, <1>3

\* The list as it is answered: each uid once, all of U, in the order of the keys.
LEMMA AnswerListed ==
    ASSUME Read, NEW q, NEW U, NEW c, Gathers(InOrder(q), U, c),
           NEW list, list = Listed(q)
    PROVE  /\ IsInjective(list) /\ Range(list) = U
           /\ \A i, j \in DOMAIN list : i < j =>
                 IF q.asc THEN records[list[i]][c] <= records[list[j]][c]
                 ELSE records[list[i]][c] >= records[list[j]][c]
<1>1. PICK order : order = InOrder(q)
  OBVIOUS
<1>2. EachGathered(order, U, c)
  BY <1>1, Gathered
<1>3. PICK n \in Nat : n = Len(order) /\ DOMAIN order = 1 .. n
  BY <1>2, GatheredLen
<1>4. PICK uids : uids = [i \in 1 .. n |-> order[i].uid]
  OBVIOUS
<1>5. /\ \A i, j \in 1 .. n : uids[i] = uids[j] => i = j
      /\ \A u \in U : \E i \in 1 .. n : uids[i] = u
      /\ \A i \in 1 .. n : uids[i] \in U /\ order[i].key = records[uids[i]][c]
  BY <1>2, <1>3, <1>4 DEF EachGathered
<1>6. ASSUME NEW i \in 1 .. n, NEW j \in 1 .. n, i < j
      PROVE  records[uids[i]][c] <= records[uids[j]][c]
  <2>1. Sorted(order)
    BY <1>2 DEF EachGathered
  <2>2. order[i].key <= order[j].key
    BY <1>3, <1>6, <2>1 DEF Sorted
  <2>. QED
    BY <1>5, <2>2
<1>7. ASSUME NEW i \in 1 .. n PROVE records[uids[i]][c] \in Nat
  <2>1. i \in 1 .. Len(order) /\ order \in Seq(Entry)
    BY <1>2, <1>3 DEF EachGathered
  <2>2. order[i].key \in Nat
    BY <2>1, EntryFields
  <2>. QED
    BY <1>5, <2>2
<1>8. Listed(q) = IF q.asc THEN uids ELSE Reverse(uids)
  <2>1. DOMAIN InOrder(q) = 1 .. n
    BY <1>1, <1>3
  <2>. QED
    BY <1>1, <1>4, <2>1 DEF Listed
<1>9. CASE q.asc
  <2>1. list = uids /\ DOMAIN list = 1 .. n
    BY <1>4, <1>8, <1>9
  <2>2. IsInjective(list) /\ Range(list) = U
    BY <1>5, <2>1 DEF IsInjective, Range
  <2>. QED
    BY <1>6, <1>9, <2>1, <2>2
<1>10. CASE ~q.asc
  <2>1. list = [i \in 1 .. n |-> uids[n - i + 1]]
    <3>1. uids \in Seq(U) /\ Len(uids) = n
      BY <1>4, <1>5
    <3>. QED
      BY <1>8, <1>10, <3>1 DEF Reverse
  <2>2. DOMAIN list = 1 .. n /\ \A i \in 1 .. n : list[i] = uids[n - i + 1]
    BY <2>1
  <2>3. ASSUME NEW i \in 1 .. n PROVE n - i + 1 \in 1 .. n /\ n - (n - i + 1) + 1 = i
    OBVIOUS
  <2>4. IsInjective(list)
    <3>. SUFFICES ASSUME NEW i \in 1 .. n, NEW j \in 1 .. n, list[i] = list[j] PROVE i = j
      BY <2>2 DEF IsInjective
    <3>1. n - i + 1 = n - j + 1
      BY <1>5, <2>2, <2>3
    <3>. QED
      BY <3>1
  <2>5. Range(list) = U
    <3>1. ASSUME NEW u \in U PROVE u \in Range(list)
      <4>1. PICK k \in 1 .. n : uids[k] = u
        BY <1>5
      <4>2. list[n - k + 1] = u /\ n - k + 1 \in 1 .. n
        BY <2>2, <2>3, <4>1
      <4>. QED
        BY <2>2, <4>2 DEF Range
    <3>2. ASSUME NEW u \in Range(list) PROVE u \in U
      <4>1. PICK i \in 1 .. n : list[i] = u
        BY <2>2, <3>2 DEF Range
      <4>. QED
        BY <1>5, <2>2, <2>3, <4>1
    <3>. QED
      BY <3>1, <3>2
  <2>6. ASSUME NEW i \in 1 .. n, NEW j \in 1 .. n, i < j
        PROVE  records[list[i]][c] >= records[list[j]][c]
    <3>1. PICK a \in 1 .. n, b \in 1 .. n : a = n - i + 1 /\ b = n - j + 1
      BY <2>3
    <3>2. b < a
      BY <2>6, <3>1
    <3>3. list[i] = uids[a] /\ list[j] = uids[b]
      BY <2>2, <3>1
    <3>4. records[uids[b]][c] <= records[uids[a]][c]
      BY <1>6, <3>2
    <3>5. records[uids[b]][c] \in Nat /\ records[uids[a]][c] \in Nat
      BY <1>7
    <3>. QED
      BY <3>3, <3>4, <3>5
  <2>. QED
    BY <1>10, <2>2, <2>4, <2>5, <2>6
<1>. QED
  BY <1>9, <1>10

LEMMA ReadFilter == Read /\ Columns => FilterFindsAll
<1>. SUFFICES ASSUME Read, Columns, NEW q \in Query, ~Refused(q), NEW list, list = Listed(q)
              PROVE  /\ IsInjective(list)
                     /\ Answerable(q) => \A u : Fits(u, q) => u \in Range(list)
                     /\ q.orderBy \in {"name", "startTime", "tags"} =>
                           \A i, j \in DOMAIN list : i < j =>
                              IF q.asc
                              THEN records[list[i]][q.orderBy] <= records[list[j]][q.orderBy]
                              ELSE records[list[i]][q.orderBy] >= records[list[j]][q.orderBy]
  BY DEF FilterFindsAll, Answerable, Fits
<1>1. PICK U, c : /\ Gathers(InOrder(q), U, c)
                  /\ q.orderBy \in {"name", "startTime", "tags"} => c = q.orderBy
                  /\ Answerable(q) => \A u : Fits(u, q) => u \in U
  BY OrderGathered
<1>2. /\ IsInjective(list) /\ Range(list) = U
      /\ \A i, j \in DOMAIN list : i < j =>
            IF q.asc THEN records[list[i]][c] <= records[list[j]][c]
            ELSE records[list[i]][c] >= records[list[j]][c]
  BY <1>1, AnswerListed
<1>. QED
  BY <1>1, <1>2

\* GetByFilter: whichever index a query is answered from, the list has each
\* schedule that fits, none twice, in the order asked for.
THEOREM FilterIsComplete == Spec => []FilterFindsAll
<1>1. IInv => FilterFindsAll
  BY ReadTable, ReadColumns, ReadFilter
<1>. QED
  BY <1>1, InvariantHolds, PTL
=============================================================================
