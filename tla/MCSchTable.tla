----------------------------- MODULE MCSchTable -----------------------------
(***************************************************************************)
(* Instances of SchTable and its queries.  Times are 0 .. 5 with days of   *)
(* four ticks open from 1 to 3, so that opening, closing and a schedule    *)
(* across midnight occur; three uids make a schedule with a neighbour on   *)
(* each side.  A week of two ticks from 1 on makes schedules start before  *)
(* the first week, with a week and within one.  Schedules that end at      *)
(* different times have different names.                                   *)
(***************************************************************************)
EXTENDS SchQueries

Plain == 1
Class == 2
Exam == 3
Errand == 4

MCSchedule(start, end, tag, stack) ==
    [linkId |-> 0, startTime |-> start, endTime |-> end,
     tags |-> tag, name |-> 9 - end, stack |-> stack]

MCTempTags == {Errand}

\* Appointments inside the hours and past closing, each stackable or not; one
\* before opening, one that ends before it starts, and an errand.
UserInputs ==
    {MCSchedule(t[1], t[2], Plain, b) : t \in {<<1, 3>>, <<2, 4>>}, b \in BOOLEAN}
    \cup {MCSchedule(0, 2, Plain, FALSE), MCSchedule(3, 1, Plain, FALSE),
          MCSchedule(1, 2, Errand, FALSE)}

\* A few appointments beside the timetable, an errand among them.
SomeInput ==
    {MCSchedule(1, 3, Plain, FALSE), MCSchedule(1, 2, Errand, FALSE),
     MCSchedule(2, 4, Plain, TRUE)}

\* An exam, and a class whose file has its end before its start.
OddTimetable == {MCSchedule(3, 1, Class, FALSE), MCSchedule(2, 4, Exam, FALSE)}

OneClass == {MCSchedule(2, 3, Class, FALSE)}

Ask(name, start, end, tags, orderBy, asc) ==
    [name |-> name, startTime |-> start, endTime |-> end, tags |-> tags,
     orderBy |-> orderBy, asc |-> asc]

\* Each index is searched with each kind of filter there is beside its own: the
\* tags also with no tags to look for, the times also with some that a schedule
\* touches only because it ends before it starts.
Queries ==
    {Ask(5, 0, 0, 0, "startTime", TRUE), Ask(0, 1, 4, 0, "name", FALSE),
     Ask(0, 0, 0, Plain, "startTime", FALSE), Ask(5, 1, 3, Plain, "name", TRUE),
     Ask(6, 1, 4, 0, "startTime", TRUE), Ask(7, 1, 3, Exam, "tags", TRUE),
     Ask(7, 1, 4, 0, "tags", TRUE), Ask(0, 1, 2, 0, "startTime", TRUE)}

\* The names of schedules that end at 2, 3 and 4 are 7, 6 and 5: each is a part
\* of the next.  The tags asked for may be more than those of a schedule.
MCParts == {<<5, 6>>, <<6, 7>>, <<Exam, Plain>>}
=============================================================================
