----------------------------- MODULE SchQueries -----------------------------
(***************************************************************************)
(* The reading side of api/sch.cpp over the table of SchTable: the free    *)
(* time a refused schedule is answered with, the schedules of a week and   *)
(* the filtered list.  They are functions of the table; the properties     *)
(* hold of every table SchTable reaches, between any two of its steps.     *)
(*                                                                         *)
(* A string is its rank, 0 the empty one.  What is rendered of an answer   *)
(* (the text of a slot, its hours) is left out.                            *)
(***************************************************************************)
EXTENDS SchTable

CONSTANTS
    WeekTime, WeekOffset,    \* a week of seconds, and where week 0 starts
    Query,                   \* the filters a page may send
    Parts                    \* <<s, t>>: the string s contains another one, t

Order == {"name", "startTime", "endTime", "tags", "other"}

ASSUME WeekAssumption == WeekTime \in Nat \ {0} /\ WeekOffset \in Nat

\* The times of a query are both there or both not: with a start and no end the
\* code would walk from lower_bound(start) to an end before it, off the index.
ASSUME QueryAssumption ==
    /\ Query \subseteq [name : Nat, startTime : Nat, endTime : Nat, tags : Nat,
                        orderBy : Order, asc : BOOLEAN]
    /\ \A q \in Query : q.startTime <= q.endTime
ASSUME PartsAssumption == Parts \subseteq Nat \X Nat

-----------------------------------------------------------------------------
(* getAvailableTimeStr: the loop over the schedules of a day. *)

Starts == index["startTime"]

Slot(from, to) == [from |-> from, to |-> to]

\* Mutant of SlotStep: on to the start of the schedule.
StartStep(walk, day) ==
    LET p == LowerBound(Starts, walk.start) IN
    IF p > Len(Starts) \/ (p <= Len(Starts) /\ Starts[p].key >= day + DayEnd)
    THEN [walk EXCEPT !.done = TRUE]
    ELSE [walk EXCEPT
             !.slots = IF Starts[p].key > walk.start
                       THEN Append(@, Slot(walk.start, Starts[p].key)) ELSE @,
             !.start = Starts[p].key]

\* One round: on to the end of the first schedule that starts from here on.
SlotStep(walk, day) ==
    LET p == LowerBound(Starts, walk.start) IN
    IF p > Len(Starts) \/ (p <= Len(Starts) /\ Starts[p].key >= day + DayEnd)
    THEN [walk EXCEPT !.done = TRUE]
    ELSE [walk EXCEPT
             !.slots = IF Starts[p].key > walk.start
                       THEN Append(@, Slot(walk.start, Starts[p].key)) ELSE @,
             !.start = records[Starts[p].uid].endTime]

\* The state of the loop after as many rounds as there are schedules, and one.
SlotWalk(day) ==
    LET after[n \in 0..(Cardinality(DOMAIN records) + 1)] ==
            IF n = 0 THEN [start |-> day + DayStart, slots |-> << >>, done |-> FALSE]
            ELSE LET walk == after[n - 1]
                 IN  IF walk.done THEN walk ELSE SlotStep(walk, day)
    IN  after[Cardinality(DOMAIN records) + 1]

FreeSlots(walk, day) ==
    IF walk.start < day + DayEnd
    THEN Append(walk.slots, Slot(walk.start, day + DayEnd))
    ELSE walk.slots

-----------------------------------------------------------------------------
(* getWeekIndex and getByWeek. *)

\* Integer division drops the fraction, so the week before the first is 0 too.
WeekIndex(t) ==
    IF t >= WeekOffset THEN (t - WeekOffset) \div WeekTime
    ELSE -((WeekOffset - t) \div WeekTime)

\* Mutant of ByWeek: the end bound leaves the last entries out.
ByWeekShort(week) ==
    LET start == WeekOffset + week * WeekTime
    IN  SubSeq(Starts, UpperBound(Starts, start), LowerBound(Starts, start + WeekTime) - 1)

\* The product is computed in ints, which is enough up to week 3550.
ByWeek(week) ==
    LET start == WeekOffset + week * WeekTime
    IN  SubSeq(Starts, UpperBound(Starts, start), UpperBound(Starts, start + WeekTime) - 1)

-----------------------------------------------------------------------------
(* GetByFilter. *)

Given(q) == {c \in {"name", "startTime", "tags"} : q[c] > 0}

\* The index that is searched.
SearchBy(q) ==
    CASE Cardinality(Given(q)) > 1 /\ q.orderBy # "other" -> q.orderBy
      [] OTHER -> IF "tags" \in Given(q) THEN "tags"
                  ELSE IF Given(q) = {"name"} THEN "name" ELSE "startTime"

Candidates(q) ==
    LET by == SearchBy(q) IN
    CASE by = "name" -> index["name"]
      [] by = "startTime" -> SubSeq(Starts, LowerBound(Starts, q.startTime),
                                    UpperBound(Starts, q.endTime) - 1)
      [] by = "tags" -> SubSeq(index["tags"], LowerBound(index["tags"], q.tags),
                               UpperBound(index["tags"], q.tags) - 1)

Has(string, part) == part \in {0, string} \/ <<string, part>> \in Parts

\* schFilterNameFirst wants the schedule within the times, schFilterTimeFirst
\* and schFilterTagsFirst only that it touches them.
InTimes(by, s, q) ==
    LET first == IF by = "name" THEN s.startTime ELSE s.endTime
        last  == IF by = "name" THEN s.endTime ELSE s.startTime
    IN  /\ q.startTime > 0 => first >= q.startTime
        /\ q.endTime > 0 => last <= q.endTime

\* The tags asked for are searched for those of the schedule, not the reverse.
Accepted(by, s, q) ==
    /\ InTimes(by, s, q)
    /\ Has(s.name, q.name)
    /\ q.tags > 0 => Has(q.tags, s.tags)

\* The loop over the candidates: those that pass the filter, in their order.
Found(q) ==
    LET all == Candidates(q)
        kept[n \in 0 .. Len(all)] ==
            IF n = 0 THEN << >>
            ELSE IF Accepted(SearchBy(q), records[all[n].uid], q)
                 THEN Append(kept[n - 1], all[n]) ELSE kept[n - 1]
    IN  kept[Len(all)]

\* The sort is by way of another multimap, filled in the order of the list.
SortedBy(list, c) ==
    LET sorted[n \in 0 .. Len(list)] ==
            IF n = 0 THEN << >>
            ELSE AddIndex(sorted[n - 1], list[n].uid, records[list[n].uid][c])
    IN  sorted[Len(list)]

\* Mutant of InOrder: no sorting.
AsFound(q) == Found(q)

\* What is found is in the order of the index already when that is asked for.
InOrder(q) ==
    IF q.orderBy \in {"name", "startTime", "tags"} \ {SearchBy(q)}
    THEN SortedBy(Found(q), q.orderBy) ELSE Found(q)

\* The uids in the answer.
Listed(q) ==
    LET uids == [i \in DOMAIN InOrder(q) |-> InOrder(q)[i].uid]
    IN  IF q.asc THEN uids ELSE Reverse(uids)

\* A search by the end time is refused.
Refused(q) == SearchBy(q) = "endTime"

-----------------------------------------------------------------------------
(* Properties. *)

Positive == \A u \in DOMAIN records : records[u].startTime < records[u].endTime
Covered(t) == \E u \in DOMAIN records : records[u].startTime <= t /\ t < records[u].endTime

\* When every schedule ends later than it starts, the loop that collects the
\* free time of a day ends, no schedule starts in a slot, and every moment of
\* the opening hours that no schedule covers is in one.
SlotsAreFreeTime ==
    Positive =>
        \A day \in {DateOf(s.startTime) : s \in UserInput} :
            LET walk == SlotWalk(day)
                slots == Range(FreeSlots(walk, day))
            IN  /\ walk.done
                /\ \A s \in slots : \A u \in DOMAIN records :
                      ~(s.from <= records[u].startTime /\ records[u].startTime < s.to)
                /\ \A t \in day + DayStart .. day + DayEnd - 1 :
                      ~Covered(t) => \E s \in slots : s.from <= t /\ t < s.to

\* Going through the weeks one by one a page meets every schedule that starts
\* after the first one began exactly once.  GetByWeek of its own start lists it,
\* unless it starts with a week: then the week before does.
EachInItsWeek ==
    \A u \in DOMAIN records :
        LET t == records[u].startTime
            last == WeekIndex(t)
            meets(w) == {p \in DOMAIN ByWeek(w) : ByWeek(w)[p].uid = u}
            own == IF (t - WeekOffset) % WeekTime = 0 THEN last - 1 ELSE last
        IN  t > WeekOffset =>
                \A w \in 0..(last + 1) : Cardinality(meets(w)) = IF w = own THEN 1 ELSE 0

\* Whichever index is searched, the filtered list has every schedule that ends
\* no earlier than it starts, lies within the times, has the name in its own and
\* just the tags; it has none twice and is in the order asked for.  The search
\* by start time needs the times to be there for that, and the search by tags,
\* which a page gets by asking for a name and times in the order of the tags,
\* needs the tags: without, it finds the schedules that have none.
FilterFindsAll ==
    \A q \in Query :
        ~Refused(q) =>
            LET list == Listed(q)
                value(i) == records[list[i]][q.orderBy]
            IN  /\ IsInjective(list)
                /\ (/\ SearchBy(q) = "startTime" => q.endTime > 0
                    /\ SearchBy(q) = "tags" => q.tags > 0) =>
                      \A u \in DOMAIN records :
                         (/\ records[u].startTime <= records[u].endTime
                          /\ InTimes("name", records[u], q)
                          /\ Has(records[u].name, q.name)
                          /\ q.tags > 0 => records[u].tags = q.tags)
                             => u \in Range(list)
                /\ q.orderBy \in {"name", "startTime", "tags"} =>
                      \A i, j \in DOMAIN list : i < j =>
                         IF q.asc THEN value(i) <= value(j) ELSE value(i) >= value(j)
=============================================================================
