---------------------------- MODULE MCAlarmClock ----------------------------
(***************************************************************************)
(* Instances of AlarmClock.  A day has four seconds: 22:00 is second 2     *)
(* and 23:00 is second 3 of it, so that both halves of the rule for the    *)
(* nightly alarm occur; the shortest interval is two seconds, so that an   *)
(* interval below it occurs.                                               *)
(***************************************************************************)
EXTENDS AlarmClock

Once(t) == [time |-> t, interval |-> 0]
Repeated(t, i) == [time |-> t, interval |-> i]

\* One alarm that rings once and one that repeats, each early and late, and
\* one that repeats too fast.
SomeAlarms == {Once(3), Repeated(3, 2), Repeated(4, 1)}

NoFile == {<< >>}

\* A file with an alarm that is overdue at the first start and one ahead.
SavedAlarms == {<< >>, [u \in {2} |-> Repeated(3, 2)]}

TwoAlarms == {Once(2), Once(4)}
None == {}

\* For a clock that is set: an alarm at the time of the first nightly one, speeds
\* forward past it and back, and a step that takes the clock before 1970.
OneRepeats == {Repeated(2, 2)}
BackAndForth == {-2, 2}
StepBack == {-2}
=============================================================================
