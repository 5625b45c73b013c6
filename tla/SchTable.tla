------------------------------ MODULE SchTable ------------------------------
(***************************************************************************)
(* The schedule table of the logged-in user (database/table.cpp, SchTable  *)
(* over database/db.cpp, Table) and the api/sch.cpp handlers that change   *)
(* it.  A table is a map of records and five multimap indices, kept by     *)
(* hand next to it.  A multimap is the sequence of its entries in key      *)
(* order, equal keys in insertion order, as std::multimap keeps them.      *)
(*                                                                         *)
(* Strings used as keys (tags, name) are their rank in the string order.   *)
(* The location of a schedule is left out: nothing depends on it.  One     *)
(* table method runs to its end before another one starts here.            *)
(***************************************************************************)
EXTENDS Integers, FiniteSets, TableIndex

CONSTANTS
    Uid,          \* identifiers GenUid may draw or a page may send
    UserInput,    \* schedules a page may submit
    Timetable,    \* schedules ImportClass and ImportExam may generate
    ClassTag, ExamTag,   \* the tags of imported classes and exams
    TempTags,     \* kTempActivity: tags that force a schedule to be stackable
    DayTime, DayStart, DayEnd   \* kDayTime, kDayStart, kDayEnd

Column == {"linkId", "startTime", "endTime", "tags", "name"}

Schedule == [linkId : Nat, startTime : Nat, endTime : Nat,
             tags : Nat, name : Nat, stack : BOOLEAN]

\* GenUid never draws 0, which Update refuses as an id.
ASSUME UidAssumption == Uid \subseteq Nat \ {0}
ASSUME InputAssumption == UserInput \subseteq Schedule
ASSUME TimetableAssumption ==
    /\ Timetable \subseteq Schedule
    /\ \A s \in Timetable : ~s.stack /\ s.tags \in {ClassTag, ExamTag}
ASSUME DayAssumption ==
    /\ DayTime \in Nat \ {0} /\ DayStart \in Nat /\ DayEnd \in Nat
    /\ DayStart < DayEnd /\ DayEnd <= DayTime

VARIABLES
    records,     \* Table::records, a function from some Uids to schedules
    index,       \* the five indices of SchTable, by the column they are keyed on
    importing,   \* the schedules a running ImportClass/ImportExam loop has left
    removing,    \* a running RemoveClass/RemoveExam loop: the tag it looks for, the
                 \* uid its iterator has passed, and whether the record under
                 \* the iterator may have been erased; or NoLoop
    reply        \* what the last handler answered

vars == <<records, index, importing, removing, reply>>

NoLoop == [tag |-> -1, passed |-> -1, lost |-> FALSE]
Replies == {"none", "ok", "badTime", "addConflict", "updateConflict", "notFound"}

-----------------------------------------------------------------------------
(* The indices of the table as a whole. *)

AddEntries(ix, uid, sch) ==
    [c \in Column |-> AddIndex(ix[c], uid, sch[c])]

\* Mutant of RemoveEntries: the name index is forgotten.
RemoveEntriesButName(ix, uid) ==
    [c \in Column |-> IF c = "name" THEN ix[c] ELSE RemoveIndex(ix[c], uid)]

RemoveEntries(ix, uid) == [c \in Column |-> RemoveIndex(ix[c], uid)]

-----------------------------------------------------------------------------
(* What SchTable::AddSch compares a new schedule with. *)

BothStack(s, t) == s.stack /\ t.stack

\* The first loop: from the entry before lower_bound to the last entry with
\* the same start.  With no entry before it, --begin() of this build's
\* std::multimap is end() and the loop does nothing.
PredecessorConflict(recs, idx, sch) ==
    LET lower == LowerBound(idx, sch.startTime)
        upper == UpperBound(idx, sch.startTime)
    IN  /\ lower > 1
        /\ \E p \in lower - 1 .. upper - 1 :
              LET s == recs[idx[p].uid]
              IN  ~BothStack(s, sch) /\ s.endTime > sch.startTime

\* find(start): the first entry with the same start, whatever its length.
EqualStartConflict(recs, idx, sch) ==
    LET lower == LowerBound(idx, sch.startTime)
    IN  /\ lower < UpperBound(idx, sch.startTime)
        /\ ~BothStack(recs[idx[lower].uid], sch)

\* upper_bound(start): the first entry that starts later, and only that one.
\* Mutant of SuccessorConflict: the next start is compared off by one.
LateSuccessorConflict(recs, idx, sch) ==
    LET upper == UpperBound(idx, sch.startTime)
    IN  /\ upper <= Len(idx)
        /\ idx[upper].key + 1 < sch.endTime
        /\ ~BothStack(recs[idx[upper].uid], sch)

SuccessorConflict(recs, idx, sch) ==
    LET upper == UpperBound(idx, sch.startTime)
    IN  /\ upper <= Len(idx)
        /\ idx[upper].key < sch.endTime
        /\ ~BothStack(recs[idx[upper].uid], sch)

Conflict(recs, idx, sch) ==
    \/ PredecessorConflict(recs, idx, sch)
    \/ EqualStartConflict(recs, idx, sch)
    \/ SuccessorConflict(recs, idx, sch)

-----------------------------------------------------------------------------
(* The table methods: tables before and after, as records and indices. *)

Table(recs, ix) == [records |-> recs, index |-> ix]

\* AddSch refuses a conflict and AddRec refuses a uid it already has.
CanAdd(tab, uid, sch) ==
    /\ ~Conflict(tab.records, tab.index["startTime"], sch)
    /\ uid \notin DOMAIN tab.records

\* Mutant of Inserted: the record goes under its second column, value[1].
InsertedUnderLink(tab, uid, sch) ==
    Table([u \in DOMAIN tab.records \cup {sch.linkId} |->
              IF u = sch.linkId THEN sch ELSE tab.records[u]],
          AddEntries(tab.index, uid, sch))

Inserted(tab, uid, sch) ==
    Table([u \in DOMAIN tab.records \cup {uid} |->
              IF u = uid THEN sch ELSE tab.records[u]],
          AddEntries(tab.index, uid, sch))

AddSch(tab, uid, sch) ==
    IF CanAdd(tab, uid, sch) THEN Inserted(tab, uid, sch) ELSE tab

DeleteSch(tab, uid) ==
    IF uid \in DOMAIN tab.records
    THEN Table([u \in DOMAIN tab.records \ {uid} |-> tab.records[u]],
               RemoveEntries(tab.index, uid))
    ELSE tab

\* UpdateSch deletes, adds, and on a conflict adds oldSch, the copy it took
\* of its own argument.
UpdateSch(tab, uid, sch) ==
    LET oldSch  == sch
        deleted == DeleteSch(tab, uid)
    IN  IF CanAdd(deleted, uid, sch)
        THEN Inserted(deleted, uid, sch)
        ELSE AddSch(deleted, uid, oldSch)

Current == Table(records, index)

SetTable(tab) == records' = tab.records /\ index' = tab.index

-----------------------------------------------------------------------------
(* The handlers. *)

\* isSomeActivity(s, kTempActivity): running errands may overlap anything.
Normalised(sch) ==
    [sch EXCEPT !.stack = (sch.stack \/ sch.tags \in TempTags)]

DateOf(t) == t - (t % DayTime)      \* getDate: midnight of that day

InDayWindow(sch) ==
    /\ sch.startTime >= DateOf(sch.startTime) + DayStart
    /\ sch.endTime <= DateOf(sch.endTime) + DayEnd

Init ==
    /\ records = << >>
    /\ index = [c \in Column |-> << >>]
    /\ importing = {}
    /\ removing = NoLoop
    /\ reply = "none"

Add(uid, input) ==
    LET sch == Normalised(input) IN
    /\ \/ /\ sch.startTime >= sch.endTime \/ ~InDayWindow(sch)
          /\ reply' = "badTime"
          /\ UNCHANGED <<records, index>>
       \/ /\ sch.startTime < sch.endTime /\ InDayWindow(sch)
          /\ reply' = IF CanAdd(Current, uid, sch) THEN "ok" ELSE "addConflict"
          /\ SetTable(AddSch(Current, uid, sch))
    /\ UNCHANGED <<importing, removing>>

\* What the erasure of a record is to the iterator of a loop that runs.
LoseIterator ==
    removing' = IF removing = NoLoop THEN NoLoop ELSE [removing EXCEPT !.lost = TRUE]

\* Unlike Add, Update does not look at the hours of the day.
Update(uid, input) ==
    LET sch == Normalised(input) IN
    /\ \/ /\ uid \notin DOMAIN records
          /\ reply' = "notFound"
          /\ UNCHANGED <<records, index, removing>>
       \/ /\ uid \in DOMAIN records
          /\ sch.startTime >= sch.endTime
          /\ reply' = "badTime"
          /\ UNCHANGED <<records, index, removing>>
       \/ /\ uid \in DOMAIN records
          /\ sch.startTime < sch.endTime
          /\ reply' = IF CanAdd(DeleteSch(Current, uid), uid, sch)
                      THEN "ok" ELSE "updateConflict"
          /\ SetTable(UpdateSch(Current, uid, sch))
          /\ LoseIterator
    /\ UNCHANGED importing

Delete(uid) ==
    /\ \/ /\ uid \notin DOMAIN records
          /\ reply' = "notFound"
          /\ UNCHANGED <<records, index, removing>>
       \/ /\ uid \in DOMAIN records
          /\ reply' = "ok"
          /\ SetTable(DeleteSch(Current, uid))
          /\ LoseIterator
    /\ UNCHANGED importing

\* ImportClass and ImportExam generate a schedule per class and week and per
\* exam and add them one by one, with no look at the hours or the order of
\* start and end and no look at the answer.  One loop at a time.
ImportStart(todo) ==
    /\ importing = {}
    /\ importing' = todo
    /\ reply' = "none"
    /\ UNCHANGED <<records, index, removing>>

ImportStep(uid, sch) ==
    /\ sch \in importing
    /\ importing' = importing \ {sch}
    /\ SetTable(AddSch(Current, uid, sch))
    /\ reply' = "none"
    /\ UNCHANGED removing

RemoveStart(tag) ==
    /\ removing = NoLoop
    /\ removing' = [tag |-> tag, passed |-> -1, lost |-> FALSE]
    /\ reply' = "none"
    /\ UNCHANGED <<records, index, importing>>

Ahead == {u \in DOMAIN records : /\ u > removing.passed
                                 /\ records[u].tags = removing.tag}

\* RemoveClass erases the record its iterator stands on.  A node with two
\* children takes over its successor's record, which ++it then passes; any
\* other node is freed and ++it reads freed memory.  So after an erasure, the
\* loop's own or that of a call beside it, the loop may pass over records it
\* should have removed, or end.
RemoveStep(uid) ==
    /\ removing # NoLoop
    /\ uid \in Ahead
    /\ removing.lost \/ \A u \in Ahead : uid <= u
    /\ removing' = [removing EXCEPT !.passed = uid, !.lost = TRUE]
    /\ SetTable(DeleteSch(Current, uid))
    /\ reply' = "none"
    /\ UNCHANGED importing

RemoveEnd ==
    /\ removing # NoLoop
    /\ removing.lost \/ Ahead = {}
    /\ removing' = NoLoop
    /\ reply' = "ok"
    /\ UNCHANGED <<records, index, importing>>

Next ==
    \/ \E uid \in Uid, input \in UserInput : Add(uid, input)
    \/ \E uid \in Uid, input \in UserInput : Update(uid, input)
    \/ \E uid \in Uid : Delete(uid)
    \/ \E todo \in SUBSET Timetable : ImportStart(todo)
    \/ \E uid \in Uid, sch \in importing : ImportStep(uid, sch)
    \/ \E tag \in {ClassTag, ExamTag} : RemoveStart(tag)
    \/ \E uid \in Uid : RemoveStep(uid)
    \/ RemoveEnd

Spec == Init /\ [][Next]_vars

-----------------------------------------------------------------------------
(* Properties. *)

Removal == [tag : {ClassTag, ExamTag, -1}, passed : Uid \cup {-1}, lost : BOOLEAN]

\* The variables keep their types.
TypeOK ==
    /\ \E D \in SUBSET Uid : records \in [D -> Schedule]
    /\ index \in [Column -> Seq(Entry)]
    /\ importing \in SUBSET Timetable
    /\ removing \in Removal
    /\ reply \in Replies

\* The five hand-kept indices list exactly the stored schedules, in order,
\* after any sequence of handlers (readers dereference an entry's record
\* without looking: SchQueries).
IndexCoherent ==
    \A c \in Column : /\ Sorted(index[c])
                      /\ EntriesMatch(index[c], records, c)
                      /\ EntriesComplete(index[c], records)

\* No schedule starts while a non-stackable one is running, whichever of the
\* two was stored first.  This much AddSch guarantees, although it looks at
\* the nearest neighbours only.
NothingStartsInsideExclusive ==
    \A u, v \in DOMAIN records :
        (u # v /\ ~records[u].stack) =>
            ~(/\ records[u].startTime <= records[v].startTime
              /\ records[v].startTime < records[u].endTime)

Overlap(s, t) == s.startTime < t.endTime /\ t.startTime < s.endTime

\* Two non-stackable schedules never occupy the same time: no class, exam or
\* appointment is double-booked by Add, Update or the imports.
ExclusiveNeverOverlap ==
    \A u, v \in DOMAIN records :
        (u # v /\ ~records[u].stack /\ ~records[v].stack) =>
            ~Overlap(records[u], records[v])

\* An update that is answered "conflict, not modified" modifies nothing.
FailedUpdateModifiesNothing ==
    [][reply' = "updateConflict" => UNCHANGED records]_vars
=============================================================================
