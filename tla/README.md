# Verification of the schedule manager

The schedule manager is a desktop calendar for students: a Chromium page whose
JavaScript calls a C++ back end through CEF.  This directory holds TLA+ models
of the back end, the TLC configurations that check them on small instances and
TLAPS proofs of theorems about them for every value of their constants.

Paths below are relative to `src/schmgr/core/`, lines are of the commit modelled.

## 1. The system

| Part | Source | State it keeps | Operations |
|---|---|---|---|
| API bridge | `core.cpp`, `api.cpp`, `back/api_back.cpp` | `callbackMap` (call id to promise), `mainFrame`, `currentBrowser` | `Execute`, both message handlers, `ApiCall`, `ApiCallback`, `sysInit` |
| Identifiers | `utils.cpp` | `uidLast` under a mutex | `GenUid`, `CefValToI64` |
| Mini database | `back/database/db.*` | per table: a name, a map of records | `LoadTable`, `SaveTable`, `Clear`, `AddRec`, `DeleteRec`, `UpdateRec`, `Find`, `AddIndex`, `RemoveIndex` |
| Tables | `back/database/table.*` | per table: multimap indices kept by hand | `SchTable`, `ClassTable`, `CourseTable`, `ExamTable`, `UserTable`, `AlarmTable` |
| Schedules | `back/api/sch.cpp` | (the schedule table) | add, update, delete, import and removal of classes and exams, queries |
| Courses, classes, exams | `back/api/course.cpp` | (their tables) | add, update, delete, list |
| Clock and timers | `back/timer/*`, `back/api/clock.cpp` | `time_`, `startTime_`, `offset_`, `speed_`, `isRunning_`, `timerList_`, `nextTimer_` | get, set, speed, pause, resume, `AddTimer`, `RemoveTimer`, a thread that updates every 100 ms |
| Alarms | `back/api/alarm.cpp` | `alarms`, `preAlarms` | add, update, delete, `AlarmTimeout` |
| Session | `back/api/user.cpp` | which user's tables are loaded | `Login`, `Logout`, `Register` |
| Containers | `mtl/*` | red-black tree, vector, list | the standard ones |
| Navigation | `back/nav/*`, `back/api/nav.cpp` | a graph read once | shortest path, distance, greedy trip |
| Logger, resources, md5, strings, CEF | | | not part of any property |

How they interact.  A call of the page becomes a promise and a process message;
the browser process starts **a detached thread for every call**
(`api_back.cpp:75`), which works on global tables, alarms and the clock and
answers with another message.  The clock thread updates the clock, and through
it calls the timers' callbacks, at the same time; so does every call that reads
the time.  Only the logger and `GenUid` take a lock.  `Login` loads the tables,
imports classes and exams as schedules, loads the alarms and arms them;
`Logout` removes the imports and saves.

What is hard here:

* one hand-kept index per column beside the records, and a conflict test that
  looks at a new schedule's nearest neighbours only;
* loops that erase what they walk over, and operations that undo badly;
* timers whose callbacks change the list the clock is walking;
* a clock whose fields are written one by one under readers;
* a session whose tables are replaced, saved and cleared under running calls,
  and of which alarms and timers survive the logout;
* promises answered in any order, or never.

What makes each part correct:

* schedules: every index lists exactly the records, in key order; a
  non-stackable schedule is never double-booked; what an answer says of the
  table is so;
* clock and alarms: timers in order, the next one never overlooked, each alarm
  armed once and for its own time, ticking when due and not before, and a clock
  that does not jump on its own;
* session: what is saved is the user's own data, all of it; no entry of a table
  that was cleared is read;
* course tables: as for schedules, with the filter by the user's courses;
* bridge: each promise is settled at most once and by its own answer, and
  settled in the end;
* containers, navigation: as their reference definitions.

`PROJECT.json` lists the hazards behind this, line by line, with the properties
that cover them.

## 2. Modules

| Module | Models | Composed of |
|---|---|---|
| `TableIndex` | the multimaps a table keeps by hand | |
| `SchTable` | schedule table and the handlers that change it | `TableIndex` |
| `SchQueries` | free time, weeks and filters over that table | `SchTable` |
| `MCSchTable` | instances for TLC | `SchQueries` |
| `CourseTables` | tables of courses, classes, exams, their handlers, and what a session does to them | `TableIndex` |
| `MCCourseTables` | an instance for TLC | `CourseTables` |
| `UserData` | what a user may rely on about his stored data (abstract) | |
| `Session` | register, login, logout, files, reloads and crashes, for several users | implements `UserData` twice |
| `MCSession` | an instance for TLC | `Session` |
| `OrderedMap` | what the users of `mtl::map` rely on (abstract) | |
| `RBTree` | the red-black tree of `mtl` | implements `OrderedMap` |
| `MCRBTree` | an instance for TLC | `RBTree` |
| `Nav` | the campus map, shortest paths and trips | |
| `MCNav` | instances for TLC | `Nav` |
| `AlarmClock` | clock, timers, alarms, and the alarm half of login and logout, on interleaved threads | |
| `MCAlarmClock` | instances for TLC | `AlarmClock` |
| `PageCalls` | what a page may rely on when it makes calls (abstract) | |
| `ApiBridge` | calls, promises, messages, the thread per call, page loads | implements `PageCalls` |
| `MCApiBridge` | an instance for TLC | `ApiBridge` |
| `SequenceFacts` | lemmas about least and greatest elements, induction, iteration and division, sequences, and `TableIndex` | `TableIndex` |
| `SchTableProofs` | theorems about `SchTable` and `SchQueries` | `SchQueries`, `SequenceFacts` |
| `CourseTablesProofs` | theorems about `CourseTables` | `CourseTables`, `SequenceFacts` |
| `SessionProofs` | theorems about `Session` | `Session`, `UserData` |
| `AlarmClockProofs` | theorems about `AlarmClock` | `AlarmClock`, `SequenceFacts` |
| `ApiBridgeProofs` | theorems about `ApiBridge` | `ApiBridge`, `PageCalls` |
| `NavProofs` | theorems about `Nav` | `Nav`, `SequenceFacts` |
| `RBTreeProofs` | theorems about `RBTree` | `RBTree`, `OrderedMap`, `SequenceFacts` |

### SchTable

`records` is `Table::records`; `index[c]` is the multimap on column `c`, as the
sequence of its entries in key order, entries of equal keys in the order they
were inserted (as `std::multimap`, which `mtl.h` aliases, keeps them).
`AddIndex`, `RemoveIndex`, `CalcIndex`, `AddSch`, `DeleteSch` and `UpdateSch` are
operators from table to table, statement by statement; the three parts of
`AddSch`'s conflict test are operators of their own.  `--begin()`, which `AddSch`
computes when no schedule starts earlier, is undefined; the model takes what
the build's library does, which yields `end()`.

`Add`, `Update` and `Delete` are the handlers with their checks and answers.
The loops of `ImportClass`, `ImportExam`, `RemoveClass` and `RemoveExam` are one
action per record, so handlers of other threads run between them.  `importing`
holds what the import loop has left (in any order), `removing` the tag, the
uid the removal loop has passed and whether the record under its iterator may have
been erased.  `RemoveClass` erases the node its iterator is on, and so may a call
beside it (`LoseIterator`); after an erasure the iterator is on a successor's record
or in freed memory, so the loop may then skip records or end: `RemoveStep` and
`RemoveEnd` allow every such outcome.  `Update` refuses an id of 0 by itself; since
`GenUid` draws none, `UidAssumption` leaves it out.  The location of a schedule is left out, tags and
names are ranks.  Midnight is `t - t % DayTime`: the time zone is left out.

A table method runs to its end before another starts: two calls inside `AddSch`
at once would be a data race on five multimaps.

Two things `SchTable` shows that no run states.  `AddSch` looks at the nearest
neighbours only, so a non-stackable schedule is accepted on top of a stackable
one that began before the nearest neighbour and ends after it; what is never
double-booked are the non-stackable ones.  And `RemoveClass` may end with classes
left in the table, which `Logout` then saves as the user's own.

### SchQueries

The queries change nothing: they are functions of the table, and their
properties are invariants of the runs of `SchTable`.  `SlotStep` is one round of
the loop of `getAvailableTimeStr`, `SlotWalk` as many rounds as there are schedules
and one more, by when it must have ended if each round passes a schedule.  It does
not when a schedule ends no later than it starts, which a class from the file may:
the loop comes back to it for ever and the call is never answered.  A slot may
overlap a schedule that began before the slot; what the property says is that
none starts in it and that no free moment is left out.

`WeekIndex` divides as C++ does, toward zero.  `Listed` is the whole of `GetByFilter`:
which index is searched, its bounds, the filter that goes with it, the sort by
another multimap and the reversal.  The three filters differ: by name a schedule
must lie within the times, by start time or tags it need only touch them.
`FilterFindsAll` says what all three have in common.  A search by the start time
with no end time finds nothing, and one with a start and no end would walk off
the index (`QueryAssumption` excludes it).  A page that asks for a name and times
in the order of the tags has the index of tags searched for the tags it did not
give: the answer has only schedules without tags.  And a schedule that ends
before it starts may lie within the times without touching them.  The property
leaves both out; the first attempt at its proof did not, and failed there.

### CourseTables

The three tables with the indices that are read: `nameIndex`, `courseIndex`,
`startTimeIndex` and the exams' `courseIndex`.  `ClassTable::weekIndex` is left out:
`AddClass` and `UpdateClass` pass key and uid the wrong way round and only commented
code reads it.  (The weeks themselves come back from the file through `stoll`, which
throws when bit 63 is set.)  `Login` loads all three tables and lists only the records of the user's
courses; `Logout` saves classes and exams, never courses, and clears the records
but not the indices.  `sysInit` loads the classes again for every page, after it has
cleared their table; when the users or the classes do not load (`ReloadFails`), or a
login fails at the exams, records and indices are out of step with no logout
involved.  The history variable `stale` names the tables for which that is so; it ends
with the next load or login that comes through.

A login on files with a class of the user, or an exam of anybody, whose course is
not in the course file ends the program: `ImportClass` and `ImportExam` read an empty
record, and `stoll` throws.  `Importable` excludes such a login, and the step the
program takes instead is `Restart`.  `Logout` saves each of the two tables or, where its
file does not open, does not, and tells nobody; an exam table that was never named
saves nothing.  It is one step: a crash within it, or a page loaded between its saves and
its clearing, is followed for schedules and alarms in `Session` only.

### Session

Whose data are where.  `page` is the user whose screens are shown; `schName` and
`alarmName` are the names of the two tables of one user, set by `SetName` before a
load that may fail; `records` and `indexed` are what `schTable` and its indices hold.
`at` and `todo` are the place of `Logout` or `Register` between two writes, a line
each: `Crash` may come at any of them.  `LoginFailsAtSch` and `LoginFailsLater` are the
early returns.  `Reload` is `sysInit` for a page loaded again, in the middle of
anything but a registration.

The page is not in this repository.  It is taken to offer login and register
while nobody is logged in and everything else while somebody is, to wait for the
answer to either and to a logout, and, after a reload, not to log in before a
logout under way is done.  Without that, the second of two logouts saves tables
that the first has cleared, and a login in the middle of a logout has its tables
written to the other user's files: all of this is in the code's reach, and all
the code has against it is that a page does not do so.

`UserData` is what a user may rely on: he opens what is stored for him, edits a
copy, and either saves the copy line by line or leaves without.  `SchedulesKept` and
`AlarmsKept` are two instances of it with refinement mappings that read off who is
active and what his copy is.  For alarms `Extra` is not empty: the map of alarms
outlives a logout, so alarms deleted in a later session, or held from another
one, may come back; none is lost.  Register writes the whole file of users anew:
a crash within forgets users, nothing else does.

### RBTree

`tree` is the root and the nodes by address; `at`, `cur` and `up` are the loop that is
running and its arguments, so the rounds of `fix_insert` and `fix_erase` are steps of
their own.  The mirrored halves of the code are one with the side as an argument.
The property `ImplementsMap` says that at each of these steps `find` answers as the
plain map `OrderedMap` does.  Erasing a node with two children moves the next record
into it and frees the node of the next one: `IteratorsStay` says that this, and the
erased key, are the only iterators that are lost.

### Nav

Reading the map, the search by visited vertex, the path by inserted vertex, and
the calls.  `call`, `search`, `path` and `trip` are the locals of the functions.
`InsertVertex` follows `Vector::insert` into memory that was just given back when the
vector is full, at 16 vertices: what the path holds after that is one of the two
orders the old and the new block may have in memory.  The reference definition is
`Walks`: all walks with fewer edges than there are vertices, with their lengths.
Distances are added as integers: on a map with a way of 2^31 or more the program's
`int` overflows and the model does not follow it.

A trip is greedy, as its comment says; that it is not the best route
(`nav.cpp:119` calls it so) is no property here.  A destination that cannot be reached has
distance 0 and is therefore visited first.  `getDistance` takes the first of
parallel edges, so `getShortestDistance` may be too long on a map with two.

### AlarmClock

The variables are the fields of `Clock`, the two maps of alarms, the user's alarm
file and, per thread, a label `pc`, the call it executes `job` and its local copy
of the first timer `it`.  Three are history variables.  `shownAt` is the wall clock at the
last update.  `missed` has the alarms a login found overdue and left without a timer.
`irregular` notes what the code does nothing against: that two threads have been
under way at once (`"overlap"`), and that a time was before 1970 (`"before1970"`, where
second 0 of a timer means to `nextTimer_` that there is none).  One user; an alarm is
its time and its interval.

The wall clock counts in ticks, `TicksPerSecond` of them, all else in seconds, as in the
code: `GetDoubleT` (the tick) is what `updateTime` computes with, `GetTimeT` (`WholeSeconds`)
is what `SetTime` and `SetNow` keep as `startTime_`.  `ClockFace` is the expression of
`updateTime`, `Truncated` its conversion to `time_t`.  So a speed change or a resume in
mid-second makes the clock jump by the fraction that `startTime_` loses, times the
speed.  Speeds and steps may be negative, as the calls take any number.

A call is the sequence of its steps: `GetTime` or the check it begins with, then
`update` (`UpdateTime`), the loop over timers (`Loop`, `Pop`, `Fire`, `LoopEnd`) and
what it does with the time (`FinishAdd`, `FinishUpdate`, `ArmLoaded`,
`FinishLogin`, ...).  `SetTime` and `SetNow` are `SetStart` and `SetOffset`;
`clockThread` is `Check`, `Wake` and an update; `Reload` is `sysInit` run again for a page,
which sets the clock to now and starts it under whatever alarms and timers there are.  The steps are cut where one
thread reads what another writes; the walks over `timerList_` and the maps are
not split, nor is `AlarmTimeout`, nor what a call does after its last look at the
clock.  Their own races (two threads inside `List::insert`, say) are undefined
behaviour that the model does not follow.

`RemoveTimer` follows `List::erase` to its null write: `crashed` stops everything
but `Restart`, which keeps the file only.  `UpdatedTime` is the 0 that
`CefValToI64` answers for an argument that is not there, since `Update` insists on
one argument and reads the second: with a clock above 0 every `updateAlarm` is
refused (`alarm.cpp:102`, `123-126`).  When an alarm `Login` stands on is called and
erased while it reads the clock, the model goes on with the next uid; the
program goes on in freed memory.

`Clock::Reset` and the handlers `Start` and `SetTime`, which nothing reaches, are
left out, as are the alarm queries.

`Logout` leaves the nightly timer armed and the next `Login` arms it again, after which it
ticks for an occurrence a day ahead: with `MaxLogins = 2` TLC finds `ArmedOnce` and
`TickIsDue` violated, and they are checked for one login per run of the program.  What
holds with any number of them is `NextTimerNotLate` and `AlarmsStayArmed`.

With `Interleaved = TRUE` the threads interleave as the code lets them.  With
`FALSE` a call, or an update by the clock thread, is not interrupted: while a
thread is between its labels only it moves, or the wall clock does.  That
separates what the code does wrong on its own from what threads do to each other,
and keeps the runs small; the properties that need it do not rest on that constant
but on `irregular`, so that they say of a program whose threads do interleave what holds up
to the moment they first do.  At rest a clock thread sleeps, and counts as such.
The handlers here and those of `SchTable` share no table, so the two modules are
checked apart.

### ApiBridge

`callbackMap`, `mainFrame` and `uidLast` are the program's, `toBrowser` and
`toPage` the process messages under way, `handlers` the calls that detached threads
work on.  `promise` is what V8 knows of each call's promise, `answer` a history
variable: the call whose answer settled it.  A call is a model value that is made
once; its name, arguments and result are left out, so a handler is a thread that
answers in the end, with `ApiCallback` or `ApiErrorCallback`, after any number of
others.  That each path of each handler in `jsAsyncFunsMap` does so exactly once was
read off the code, and the loop of `getAvailableTimeStr`, which may never end
(`SchQueries`), is the exception that `EveryCallSettles` does not cover.

`Execute` draws an id, stores the promise, sends the call.  `OnContextReleased`
forgets the frame and leaves `callbackMap` as it is; `OnContextCreated` takes the new
frame, whose identifier may be the old one's, and sends `sysInit`; the code does not
look whether there is a page already, and that there is none rests on CEF, which
releases a page's context before it creates the next, and on pages without inner frames.  `OnMessage` has
both early returns, and the crash of a call through the null promise that
`operator[]` makes of an id it does not find; it settles only a promise that its
page still waits for.  The browser's two steps are `OnBackMessage` and
`ApiCallback`.  Each channel keeps its order, as CEF's do; the renderer process is
the same through a reload.

`GenUid` is integer arithmetic here: `now * 1000`, computed with doubles, is a whole
number of milliseconds up to January 2038.  After that, until September 2039,
some are a fraction above one, and two calls within such a millisecond may get
the same id; the model is the program as it runs before.

`PageCalls` is what a page sees: it may load and go, make a call, and see it
settled once, by its own answer.  The refinement mapping is
`open <- mainFrame # NoFrame`; ids, messages and threads are hidden.

## 3. Runs

| Run | Question | Result |
|---|---|---|
| `schedules` | Are the indices coherent, is nothing exclusive double-booked, under all handlers and loops, and do the queries answer with what is there? | holds |
| `schedule_update` | Does a refused update modify nothing? | violated: the schedule is deleted |
| `course_tables` | Does each index list every record it should, once, and none that is gone, with a filter by user, and logins and page loads that fail half way? | holds, where the index is not stale |
| `session` | Does each user find what he stored, through failed logins, reloads and crashes? | holds, a crash within a save aside |
| `red_black_tree` | Is the tree a map, in order, balanced; do its repairs end; which iterators survive? | holds |
| `nav` | Are paths and distances the shortest, do trips pass everything, is each call answered? | holds |
| `long_path` | The same of the path past seventeen places | violated: `Vector::insert` uses memory it gave back |
| `alarms` | One call at a time, one login per start: are timers, `nextTimer_`, alarms and file in step, does each alarm tick when due, not before, and in the end? | holds |
| `clock_settings` | One call at a time: does each alarm keep a timer, and the clock run on without a jump beyond the fraction it loses, through pauses, speeds of either sign, steps back, page loads and two logins? | holds |
| `alarm_delete` | Does deleting an alarm leave the program running? | violated: null write in `List::erase` |
| `alarm_twice` | Is each alarm armed once when all is at rest? | violated: two threads call one timer |
| `api_bridge` | Does each promise get its own answer, once, in the end; is every id that is let in found; is `PageCalls` implemented? | holds |

Deadlock is checked for `SchTable`, `CourseTables`, `Session`, `RBTree` and `Nav`, which can
always take another call (not in `long_path`, where a vector may break).  It is not
for `AlarmClock`: the program may crash, and at the bounds everything may have
been done; nor for `ApiBridge`, where all calls may have been made.

### Bounds

`SchTable`: three uids, so that a schedule has a neighbour on either side, or two
of equal start; times 0 to 5 in days of four ticks that are open from 1 to 3:
before opening, after closing and across midnight occur; appointments that
contain, overlap, touch and equal each other, stackable or not, an errand that is
made stackable, and inputs that end before they start.  The violation run takes
fewer inputs.  For the queries a week has two ticks and begins at 1, so schedules
start before the first week, with one and within one; there are filters for each
index with each kind of further condition.

`CourseTables`: two classes that trade courses and an exam, two users of whom one
takes the course on file (saves, loads and logins may fail at each place);
`MaxEntries` = 2 bounds an index, in which `Logout` leaves
entries that pile up.  `Session`: two users with an alarm each, a schedule and a
lesson a removal may leave, so that each file has a state between two lines.

`RBTree`: seven keys, the least with which a missing black node moves up two levels.
`MaxMoved` = 1: at most one node is not at the address of its key, which only
erasures bring about; addresses make no difference to the code, so the bound
only keeps the number of trees small.  `Nav`: all maps of at most four places with
edges of 1 or 3 (a detour of two edges is shorter than, one of three as long as,
a direct one), some with parallel edges, and trips to none, two and three places;
`long_path` is one road of seventeen.

`ApiBridge`: three calls, so that an answer that is late, one that is fresh and a
call under way meet; two page loads, so that answers to the first page reach the
second, under the same frame identifier or another; two instants, so that the
clock stands still, goes on and is set back between calls.

`AlarmClock`: one page thread and one clock thread; a resume starts it anew once it has
seen the pause.  In `alarms` `MaxWall` stops the wall clock after three seconds, enough
for two alarms and the nightly one to be set, pass and repeat; `MaxTime` keeps times in
range; a day of four ticks with its night from 2 to 3 makes both cases of the nightly
rule occur; `MaxLogins` is 1 (section 2), with any number of restarts.  In
`clock_settings` a second has two ticks and the program starts in the middle of one, so
that each change of the clock is made on and off a whole second; speeds of 2 and -2 and
steps of -2 take it forward, back, and below 0 (`MaxTime` = 2), where alone an alarm can
be updated; two logins arm the alarms twice.  More clock threads than one, of which a
pause and a resume within 100 ms leave two, are in the theorems only.

### Fairness

`OverdueAlarmTicks` is checked under `FairSpec`: strong fairness of every
thread's own steps.  A thread in the middle of a call is always able to go on, and
the operating system schedules it; weak fairness would do for it in the program.
Strong fairness is needed because without interleaving a thread that waits for its turn is
disabled while another is in a call and enabled again after: the serial turns are
the model's, and a scheduler that served the others forever is not the program's.
No fairness is assumed of calls of the page, the wall clock or `Restart`.

`CallsReturn` (`RBTree`) and `CallsAnswered` (`Nav`) are checked under weak fairness of the
steps of the function that is running: a thread in a loop goes on.

`EveryCallSettles` is checked under weak fairness of `OnMessage` and `OnBackMessage`
(CEF delivers messages) and, per call, of its thread's answer (the operating
system schedules detached threads, and the handlers end).  Nothing is assumed of
`Execute` or of page loads.

## 4. Proofs

`SequenceFacts` proves what the library modules do not give in the form needed: the
minimum of a non-empty set of naturals is its least element, the maximum of a
finite one its greatest, the elements of `InsertAt` and `RemoveAt`, division with
remainder, and induction.  The induction theorems of the library take an operator
as a parameter and cannot be instantiated here; `AllNaturals` says the same of a
set: one that has 0 and with each number the next has all of them.  With it
a recursive function is shown to exist and to obey its equation; `Iteration` does it
once for all functions that are computed step by step.  Its last part is about
`TableIndex`: what adding an entry to a multimap and taking one out make of it, alone and
as the index of a table.

**`SchTableProofs`**, for every set of uids, inputs and timetables that meets the
assumptions: `TypeCorrect`, `IndicesCoherent`, `ExclusiveStarts` and
`NoDoubleBooking`.  The inductive invariant adds to the types two parts.
*Coherent*: each index is sorted and its entries are exactly the records' under
their current values.  *Exclusive*: no record starts inside a non-stackable one.
Neither is inductive alone: `AddSch` decides by looking at the index, so its
answer says something of the records only if the index is coherent and sorted;
given that, the nearest later start bounds all later ones, and the entries
before the new start need the exclusive part of the invariant itself, since
`AddSch` looks only at those of the latest earlier start.  Index coherence is
proved per column from two lemmas, that `AddIndex` keeps a coherent index
coherent with the record added, and `RemoveIndex` with the record removed; these
lemmas are in `SequenceFacts`.

The queries come next: `FreeTimeIsFound`, `MetInOneWeek` and `FilterIsComplete` state the
three properties of `SchQueries`.  They follow from the coherence of the indices; no
further invariant is needed.  For free time the induction is over the rounds of the
loop: all free moments before the one it has come to are in a slot, and each round
passes a schedule, so it ends in as many rounds as there are schedules.  For the weeks
it is that an index in order has what lies between two bounds in one piece.
For the filter it is the same, and that sorting by another index, which is done by
walking that index, loses nothing because that index lists every record too.

**`CourseTablesProofs`**, for any uids (finitely many), records, files and users:
`TypeCorrect`, `ClassListsAreSound`, `ExamListIsSound`, `TakenAreListed` and
`CourseNamesAreCoherent`.  The invariant is their conjunction, table by table.  It
is `stale` that makes it inductive: after a logout, or a login or page load that failed
half way, an index may list uids of no record and some of them twice, and nothing
but its type is claimed until `Reload`, `Restart` or `Login` build it anew.  What
they build is the work of a recursive function, `IndexOf`.  That the function exists
and lists exactly the records walked is an induction on the number of uids, done by
contradiction with the least number for which the claim fails, which exists by
`MinIsLeast`.  After that `ListsSome` is kept by each handler, from
the lemmas on indices in `SequenceFacts` applied to the records that are listed.

**`SessionProofs`**, for any users, schedules and alarms: `TypeCorrect`,
`IndexStaysCurrent`, `NobodyForgotten`, `SchedulesAreKept` and `AlarmsAreKept`.  The invariant
adds to the types that every table that may be saved bears the name of the user
at work, and that within a save what the file holds and what `todo` has left are
together the table.  Both
step simulations have a case per action of `Session`; the steps of `Logout` map to
`BeginSave`, `Truncate`, `Write` and `EndSave` of the one instance and to stutters of
the other, failed logins and reloads to stutters or to `Abort`.

**`AlarmClockProofs`**, for every set of threads, alarms, speeds and times and any number
of logins, page loads and restarts.  Two theorems
hold under **every** interleaving: `TypeCorrect` and `TimersStaySorted`.  The invariant is the
conjunction of the two: `InsertTimer` yields a list of timers because `Min` of the
positions it looks for exists, and it keeps the list in order because what it
compares are integers.  There is one lemma per operation on the list, one per
operation on the maps, one for a thread's move, begin and end, and one per group
of actions with a step per action and part.

The other three assume nothing of the constants either.  They speak of the states up to
the first in which two threads are under way at once, which the property itself says:
past it the fields of the clock may hold any mixture, and TLC finds
each of them false.  `ClockRunsOn` says that the clock is continuous.  Its invariant
`ClockInv` ties the clock's fields together: they are *settled*, when `time` is what start,
speed and offset gave at the last update, or one thread is *adjusting* them: it is to set
the time the clock showed, from a start less than a second before that
update, which bounds the jump.

`NextTimerStaysInTime` and `AlarmsKeepTimers` need in addition that no time was before
1970, where `nextTimer_` cannot tell a timer from none.  Their invariant `Core` is about the
one thread under way: all others rest (`OthersRest`), what it has read of the list and
the clock is still so (`Here`), `nextTimer_` is not later than the first timer unless that
thread is about to set it (`InTime`), and each alarm that is neither missed nor in
that thread's hands, about to be armed, has a timer no later than its own time
(`AllArmed`).  A second login adds timers and takes none away; with
two timers for an alarm the earlier one rings, moves the alarm on and arms it for its new
time, which is why the property asks for a timer at the alarm's time *or before*.

**`ApiBridgeProofs`**, for every set of calls, frames and instants and any number of
page loads: `TypeCorrect`, `AnswersAreOwn`, `BridgeImplements` and `NeverNull`.  The invariant
adds to the types that no request under way, at work or answered has an id
`GenUid` has not drawn, that none in `callbackMap` is younger than `uidLast`, and
that what the map has under a request's id, if anything, is the request's own call.
It is kept because a fresh id is larger than all before it, whatever the clock
shows; `AnswerIsOwn` follows at the step that settles.  The step simulation has one
case per action; `OnMessage` maps to `Settle` of the one call that waits under
the id or to a stutter.  `NeverNull` needs more: that every call that is sent, worked
on or answered still has its id in the map, and, since each answer erases one, that
no id is in two of these places.  Leaving a page must not empty the map for this.

**`NavProofs`**, for every file, every list of destinations and every capacity:
`TypeCorrect`, `SettledStayFinal`, `AnswersStayShortest` and `TripsStayComplete`.  The loops
over neighbours and the sums along a path are recursive functions; one induction
each shows what they yield.  The invariant of the search, `Searching`, is that of
Dijkstra's algorithm: every finite distance is that of a walk of as many edges as
vertices were visited (`Hops`), the predecessor is one edge nearer (`Back`), no
visited vertex is farther than one that is not (`Nearer`), each edge out of a visited
vertex has been tried (`Explored`), and what is not visited has its distance in the
queue (`Queued`).  From it each distance is the least of all walks with fewer edges
than there are vertices: a shorter one would have to leave the visited vertices by
an edge that was not tried.  After the search, the path is a chain of predecessors
whose distances rise, so it names no vertex twice and is no longer than there are
vertices.

That is where the second hypothesis comes from.  `AnswersStayShortest` and
`TripsStayComplete` assume `[]Fits`: the map has no more vertices than a new vector
has room for (`long_path` shows what happens on a larger one), and no walk of
`Walks` is as long as the greatest `int`, which the code takes for "not reached".
All maps of run `nav` meet it.  For trips the invariant says that the route so far
leads along the roads from the start to where the trip is, that what is not
in it is still a goal, and that roads lead both ways, which `addEdge` sees to: with
that a vertex that reaches one destination reaches them all.

**`RBTreeProofs`**, for all integer keys, values and addresses: `TreeStaysSound`, `TypeCorrect`,
`TreeStaysBalanced`, `TreeIsAMap`, `IteratorsStayWhereTheyAre` and `EveryLoopMeetsAll`.
All six rest on one inductive invariant, `IInv`.  It says that two functions on the nodes
exist.  `K` gives what is below each node: it makes the tree a search tree (`Tree`: all keys
below on the left are smaller, all on the right greater, each child's link up leads
back), and this holds in every state, within a repair too.  `b` gives the number of black
nodes on each way down: it carries the colours.  At rest (`Repaired`) `b` is the same
on both sides of every node, the root is black and no red node is below a red one.  In
`fix_insert` (`Growing`) one red node, `cur`, may be below a red one; in
`fix_erase` (`Shrinking`) one black node is missing below `up` on the side of
`cur`, and `cur` may have red nodes next to it.  Neither half is inductive without the other:
that a rotation of the repair has a node to rotate follows from the count of black
nodes, and that a repainting reaches the nodes it means from the links.

The step of a branch is put together from lemmas about one assignment each
(`Paint`, `Adopt`, `Link`), then about `Rotate`, about placing a node and about
taking one out.  What the recursive functions answer is told from `K`: each way down a
tree (`Find`, `ParentFor`, `Leftmost`, the successor) is a function that exists because `K`
gets smaller, and `Find` answers the node of a key exactly if there is one; so a step
that leaves `K` and the data as they are is a stutter of `OrderedMap`, and the others are its
`Insert`, `Assign`, `Erase` and `Clear`.  `++` leads to the node with the next greater key: down on the right
if there is anything, else up to the first ancestor from the left.  With an
induction from the greatest key down a loop lists, from each node on, all keys that are
not smaller, in order.

TLC agrees with each theorem on an instance (`schedules`, `course_tables`, `session`,
`alarms`, `clock_settings`, `api_bridge`, `nav`, `red_black_tree`).

Constants have the assumptions the code gives them.  Those the proofs added are that
the night does not begin at midnight (it is 22:00 in the code) and that the program
does not first start in 1970.

`ExclusiveNeverOverlap`, of `NoDoubleBooking`, is in no run: it follows from
`NothingStartsInsideExclusive`, which is.

Only model-checked: `ArmedOnce` and `TickIsDue`, which hold for one call at a time and one
login per start only; and `OverdueAlarmTicks`, `EveryCallSettles`, `CallsReturn` and
`CallsAnswered`, the liveness properties, since TLAPS does not reason about fairness
and `ENABLED`.

## 5. Not modelled

* Text: records as CSV lines, conversion to CEF dictionaries, the messages of
  the answers, local time zones.
* Lookups by uid and lists of a whole table (`getTask`, `getAlarms`, `getCourses`,
  `getClass`, ...): they have no logic of their own.
* Data races within one table method, one list or one multimap: undefined
  behaviour whose outcomes the build does not bound.
* The map of the campus is read once: each `sysInit` clears and reads it again
  (`api_back.cpp:181`), the same file, also under searches that run.
* The failing saves of `Session`: there each file opens.
* More than one login, call or update under way at once, in what is proved of the clock
  and the alarms beyond types and order.
* `AddFromCsv`, `UpdateAlarm` of the alarm table, `ClassTable::weekIndex`, the copy
  of a red-black tree and its multimap members: nothing reaches or reads them.
* Logger, static resources, md5, strings, CEF: no property depends on them.

## 6. Plan

1. `SchTable`, `AlarmClock`, `ApiBridge` with `PageCalls`: done.
2. `CourseTables`, `Session` with `UserData`, `SchQueries`, `RBTree` with `OrderedMap`,
   `Nav`: done.
3. `AlarmClock`: page loads, fractions of a second, speeds of either sign, several logins: done.
4. Proofs: every invariant of the runs is proved but `ArmedOnce` and `TickIsDue`, and
   every action property.  Open: a failing `initTable` in the middle of a logout of `CourseTables`,
   line by line saves of classes and exams.
