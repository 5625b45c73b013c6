----------------------------- MODULE AlarmClock -----------------------------
(***************************************************************************)
(* The system clock with its timers (timer/clock.cpp), the alarms that are *)
(* armed on it (api/alarm.cpp, api/clock.cpp) and the part of Login and    *)
(* Logout (api/user.cpp) that loads, arms and saves them.                  *)
(*                                                                         *)
(* Every API call runs on a thread of its own and the clock updates itself *)
(* on another; none of them takes a lock.  A thread's program is split     *)
(* where it reads what another may write: a label of pc is the statement   *)
(* it executes next.  The walks over timerList and over a map of alarms    *)
(* are not split, nor is the callback of a timer, nor what a call does     *)
(* after its last look at the clock.  The threads interleave as the code   *)
(* lets them if Interleaved holds; if not, one call runs at a time.        *)
(*                                                                         *)
(* The wall clock counts ticks, fractions of a second; everything else is  *)
(* in seconds.  alarms and preAlarms map an identifier to the time and the *)
(* interval of its alarm; its name and place are left out.                 *)
(***************************************************************************)
EXTENDS Integers, FiniteSets, SequencesExt

CONSTANTS
    ApiThread, ClockThread,   \* threads; the second are used by Clock::Start
    Interleaved,              \* FALSE: a call or an update runs to its end first
    AlarmId,                  \* identifiers GenUid draws for alarms
    AlarmInput,               \* alarms a page may submit
    AlarmFile,                \* contents alarm_<uid>.csv may start with
    Speed, Seconds,           \* arguments of setTimeSpeed and nextSeconds
    TicksPerSecond,           \* how finely CefTime::Now reads the wall clock
    MinInterval,              \* the shortest interval of an alarm: 60 s
    DayLength, NightStart, NightEnd,   \* 24 h, 22:00 and 23:00
    FirstWall,                \* the wall clock when the program first starts
    MaxWall, MaxTime,         \* bounds on the wall clock and on the clock
    MaxLogins                 \* bound on the logins of one run of the program

NightlyId == 1                \* the identifier Login gives the nightly alarm

ASSUME IdAssumption == AlarmId \subseteq Nat \ {0, NightlyId}
ASSUME InputAssumption ==
    /\ AlarmInput \subseteq [time : Int, interval : Nat]
    /\ \A f \in AlarmFile : \E D \in SUBSET AlarmId : f \in [D -> AlarmInput]
ASSUME ThreadAssumption ==
    ApiThread \cap ClockThread = {} /\ ClockThread # {} /\ Interleaved \in BOOLEAN
ASSUME ClockAssumption ==
    /\ Speed \subseteq Int /\ Seconds \subseteq Int
    /\ TicksPerSecond \in Nat \ {0} /\ MinInterval \in Nat \ {0}
    /\ FirstWall \in Nat \ {0} /\ MaxWall \in Nat /\ MaxTime \in Nat
    /\ MaxLogins \in Nat
ASSUME NightAssumption ==
    /\ DayLength \in Nat \ {0} /\ NightStart \in Nat \ {0} /\ NightEnd \in Nat
    /\ NightStart < NightEnd /\ NightEnd < DayLength

VARIABLES
    wall,        \* CefTime::Now()
    shownAt,     \* history: the wall clock when time_ was last computed
    time, startTime, offset, speed, isRunning,   \* the fields of Clock
    timerList, nextTimer,
    alarms, preAlarms,
    file,        \* alarm_<uid>.csv
    logins,      \* how often this run of the program has logged in
    session,     \* whether the page shows the screens behind the login
    crashed,     \* a null pointer was written through
    pc, job, it, \* per thread: its label, its call, and the timer it holds
    missed,      \* history: alarms a login found overdue and left without a timer
    irregular    \* history: what has gone on that may put the timers out of step

clockVars == <<shownAt, time, startTime, offset, speed, isRunning>>
timerVars == <<timerList, nextTimer>>
alarmVars == <<alarms, preAlarms>>
sessionVars == <<file, logins, session>>
vars == <<wall, clockVars, timerVars, alarmVars, sessionVars, crashed,
          pc, job, it, missed, irregular>>

Thread == ApiThread \cup ClockThread
Alarm == [time : Int, interval : Nat]
Timer == [uid : AlarmId \cup {NightlyId}, timeOut : Int]

Op == {"getTime", "setTimeSpeed", "nextSeconds", "resumeTime", "backToNow",
       "sysInit", "addAlarm", "updateAlarm", "deleteAlarm", "login", "nightly", "tick"}

\* A call and its arguments; to is the time SetTime is called with.
Job ==
    {j \in [op : Op, uid : AlarmId \cup {NightlyId}, alarm : Alarm, to : Int] :
        j.op = "addAlarm" => j.uid \in AlarmId}

NoAlarm == [time |-> 0, interval |-> 0]
NoTimer == [uid |-> NightlyId, timeOut |-> 0]
Call(op) == [op |-> op, uid |-> NightlyId, alarm |-> NoAlarm, to |-> 0]

\* "dead", "check" and "sleep" are clockThread's resting places, "idle" is that
\* of an API thread.
Resting == {"dead", "check", "sleep", "idle"}
Label == Resting \cup
         {"setStart", "setOffset", "update", "loop", "noTimer", "later", "pop",
          "fire", "return", "unlist", "arm", "arming"}

Move(t, to) == pc' = [pc EXCEPT ![t] = to]

Begin(t, j, to) == Move(t, to) /\ job' = [job EXCEPT ![t] = j]

\* A clock thread goes back to the test of its loop, a call is answered (what,
\* is left out); the thread's locals are gone.
Finish(t) ==
    /\ Move(t, IF t \in ClockThread THEN "check" ELSE "idle")
    /\ job' = [job EXCEPT ![t] = Call("tick")]
    /\ it' = [it EXCEPT ![t] = NoTimer]

\* GetTime updates the clock only while it runs.
ReadClock == IF isRunning THEN "update" ELSE "return"

-----------------------------------------------------------------------------
(* The list of timers and the maps of alarms. *)

\* Mutant of InsertTimer: new timers go to the back.
AppendTimer(list, x) == Append(list, x)

\* Before the first timer that is due later; behind the ones due as late.
InsertTimer(list, x) ==
    LET p == Min({q \in 1 .. Len(list) + 1 :
                     q = Len(list) + 1 \/ list[q].timeOut > x.timeOut})
    IN  InsertAt(list, p, x)

\* Mutant of Armed: AddTimer leaves nextTimer_ alone when it is set.
ArmedLate(list, x, next) ==
    LET inserted == InsertTimer(list, x)
    IN  [list |-> inserted, next |-> IF next # 0 THEN next ELSE inserted[1].timeOut]

\* Clock::AddTimer.
Armed(list, x, next) ==
    LET inserted == InsertTimer(list, x)
    IN  [list |-> inserted, next |-> inserted[1].timeOut]

AddTimer(x) ==
    LET new == Armed(timerList, x, nextTimer)
    IN  timerList' = new.list /\ nextTimer' = new.next

\* Mutant of RemoveTimer: the list is left alone.
KeepTimer(uid) == UNCHANGED <<timerVars, crashed>>

\* Clock::RemoveTimer returns from its loop without a look at nextTimer_, and
\* List::erase writes q->prev for the node q behind the one it erases, unless
\* that one is the whole list.
RemoveTimer(uid) ==
    LET p == SelectInSeq(timerList, LAMBDA x : x.uid = uid) IN
    \/ /\ p = 0
       /\ nextTimer' = IF timerList = << >> THEN 0 ELSE timerList[1].timeOut
       /\ UNCHANGED <<timerList, crashed>>
    \/ /\ p # 0 /\ (p < Len(timerList) \/ Len(timerList) = 1)
       /\ timerList' = RemoveAt(timerList, p)
       /\ UNCHANGED <<nextTimer, crashed>>
    \/ /\ p # 0 /\ p = Len(timerList) /\ Len(timerList) > 1
       /\ crashed' = TRUE
       /\ UNCHANGED timerVars

With(f, uid, x) == [u \in DOMAIN f \cup {uid} |-> IF u = uid THEN x ELSE f[u]]
Without(f, uid) == [u \in DOMAIN f \ {uid} |-> f[u]]

\* map::insert keeps what the map already has.
Merge(f, g) == [u \in DOMAIN f \cup DOMAIN g |-> IF u \in DOMAIN f THEN f[u] ELSE g[u]]
Only(uid, x) == [u \in {uid} |-> x]

-----------------------------------------------------------------------------
(* The program starts, and starts again after it was closed or crashed. *)

FreshLabels ==
    {[t \in Thread |-> IF t = c THEN "check"
                       ELSE IF t \in ClockThread THEN "dead" ELSE "idle"] :
        c \in ClockThread}

\* GetTimeT: the wall clock without the fraction of its second.
WholeSeconds == wall \div TicksPerSecond

\* sysInit: SetNow and Start; the tables of the user wait for Login.
Init ==
    /\ wall = FirstWall
    /\ shownAt = wall /\ time = WholeSeconds /\ startTime = WholeSeconds
    /\ offset = 0 /\ speed = 1 /\ isRunning = TRUE
    /\ timerList = << >> /\ nextTimer = 0
    /\ alarms = << >> /\ preAlarms = << >>
    /\ file \in AlarmFile /\ logins = 0 /\ session = FALSE
    /\ crashed = FALSE
    /\ pc \in FreshLabels
    /\ job = [t \in Thread |-> Call("tick")]
    /\ it = [t \in Thread |-> NoTimer]
    /\ missed = {} /\ irregular = {}

\* Nothing but the file outlives the program.
Restart ==
    /\ shownAt' = wall /\ time' = WholeSeconds /\ startTime' = WholeSeconds
    /\ offset' = 0 /\ speed' = 1 /\ isRunning' = TRUE
    /\ timerList' = << >> /\ nextTimer' = 0
    /\ alarms' = << >> /\ preAlarms' = << >>
    /\ logins' = 0 /\ session' = FALSE
    /\ crashed' = FALSE
    /\ pc' \in FreshLabels
    /\ job' = [t \in Thread |-> Call("tick")]
    /\ it' = [t \in Thread |-> NoTimer]
    /\ missed' = {} /\ irregular' = {}
    /\ UNCHANGED <<wall, file>>

WallTicks ==
    /\ ~crashed
    /\ wall < MaxWall
    /\ wall' = wall + 1
    /\ UNCHANGED <<clockVars, timerVars, alarmVars, sessionVars, crashed,
                   pc, job, it, missed, irregular>>

-----------------------------------------------------------------------------
(* clockThread and the body of Clock, for any thread that calls it. *)

Busy == {t \in Thread : pc[t] \notin Resting}

\* nextTimer_ takes second 0 for no timer at all.
Before1970 == time < 0 \/ \E p \in DOMAIN timerList : timerList[p].timeOut <= 0

\* The threads step here, all of them: what is irregular about it is noted.
At(t, label) ==
    /\ ~crashed /\ pc[t] = label /\ (Interleaved \/ Busy \subseteq {t})
    /\ irregular' = irregular \cup (IF Busy \subseteq {t} THEN {} ELSE {"overlap"})
                              \cup (IF Before1970 THEN {"before1970"} ELSE {})

\* Every thread so far ran when the others rested, and nothing was before 1970.
Regular == irregular = {} /\ ~Before1970

Check(t) ==
    /\ At(t, "check")
    /\ Move(t, IF isRunning THEN "sleep" ELSE "dead")
    /\ UNCHANGED <<wall, clockVars, timerVars, alarmVars, sessionVars, crashed,
                   job, it, missed>>

Wake(t) ==
    /\ At(t, "sleep")
    /\ Move(t, "update")
    /\ UNCHANGED <<wall, clockVars, timerVars, alarmVars, sessionVars, crashed,
                   job, it, missed>>

\* SetTime and SetNow: startTime_, then offset_, each read by updateTime.  The
\* start is up to a second early.
SetStart(t) ==
    /\ At(t, "setStart")
    /\ startTime' = WholeSeconds
    /\ Move(t, "setOffset")
    /\ UNCHANGED <<wall, shownAt, time, offset, speed, isRunning, timerVars,
                   alarmVars, sessionVars, crashed, job, it, missed>>

\* Mutant of NewOffset: the offset is not reckoned from the new start.
TimeAsOffset(j) == IF j.op \in {"backToNow", "sysInit"} THEN 0 ELSE j.to

NewOffset(j) == IF j.op \in {"backToNow", "sysInit"} THEN 0 ELSE j.to - startTime

SetOffset(t) ==
    /\ At(t, "setOffset")
    /\ offset' = NewOffset(job[t])
    /\ Move(t, "update")
    /\ UNCHANGED <<wall, shownAt, time, startTime, speed, isRunning, timerVars,
                   alarmVars, sessionVars, crashed, job, it, missed>>

\* A double that becomes a time_t loses its fraction, towards 0.
Truncated(n, d) == IF n >= 0 THEN n \div d ELSE -((-n) \div d)

\* natureTime has fractions, in ticks; startTime_ and offset_ have none.
ClockFace ==
    LET start == startTime * TicksPerSecond
        shown == start + (wall - start) * speed + offset * TicksPerSecond
    IN  Truncated(shown, TicksPerSecond)

\* Mutant of Overdue: only the very second of the timer is looked for.
JustDue(now) == nextTimer # 0 /\ nextTimer = now

Overdue(now) == nextTimer # 0 /\ nextTimer < now

\* updateTime up to its loop, which it enters when a timer is overdue.
UpdateTime(t) ==
    /\ At(t, "update")
    /\ shownAt' = wall
    /\ time' = ClockFace
    /\ Move(t, IF Overdue(time') THEN "loop" ELSE "return")
    /\ UNCHANGED <<wall, startTime, offset, speed, isRunning, timerVars, alarmVars,
                   sessionVars, crashed, job, it, missed>>

\* Mutant of NotYet: a timer is called a second early.
NotSoon(x) == x.timeOut > time + 1

NotYet(x) == x.timeOut > time

\* The head of the loop: begin() is looked at, and copied when it is due.
Loop(t) ==
    /\ At(t, "loop")
    /\ IF timerList = << >>
       THEN Move(t, "noTimer") /\ UNCHANGED it
       ELSE /\ Move(t, IF NotYet(timerList[1]) THEN "later" ELSE "pop")
            /\ it' = [it EXCEPT ![t] = timerList[1]]
    /\ UNCHANGED <<wall, clockVars, timerVars, alarmVars, sessionVars, crashed,
                   job, missed>>

\* The loop ends, with nextTimer_ set from what its head saw.
LoopEnd(t) ==
    /\ \/ At(t, "noTimer") /\ nextTimer' = 0
       \/ At(t, "later") /\ nextTimer' = it[t].timeOut
    /\ Move(t, "return")
    /\ UNCHANGED <<wall, clockVars, timerList, alarmVars, sessionVars, crashed,
                   job, it, missed>>

\* pop_front takes the node that is first now.
Pop(t) ==
    /\ At(t, "pop")
    /\ timerList' = IF timerList = << >> THEN << >> ELSE Tail(timerList)
    /\ Move(t, "fire")
    /\ UNCHANGED <<wall, clockVars, nextTimer, alarmVars, sessionVars, crashed,
                   job, it, missed>>

NextOccurrence(a) == [a EXCEPT !.time = a.time + a.interval]

\* Mutant of Rearm: reckoned from the alarm when that has moved on already.
RearmLate(uid, a) ==
    AddTimer([uid |-> uid, timeOut |-> NextOccurrence(NextOccurrence(a)).time])

Rearm(uid, a) == AddTimer([uid |-> uid, timeOut |-> NextOccurrence(a).time])

\* AlarmTimeout, the callback of every timer: TickAlarm goes to the page, and
\* the alarm is dropped or armed again.  The user's alarms come first.
Fire(t) ==
    LET uid == it[t].uid IN
    /\ At(t, "fire")
    /\ \/ /\ uid \in DOMAIN alarms /\ alarms[uid].interval = 0
          /\ alarms' = Without(alarms, uid)
          /\ UNCHANGED <<preAlarms, timerVars>>
       \/ /\ uid \in DOMAIN alarms /\ alarms[uid].interval # 0
          /\ alarms' = With(alarms, uid, NextOccurrence(alarms[uid]))
          /\ Rearm(uid, alarms[uid])
          /\ UNCHANGED preAlarms
       \/ /\ uid \notin DOMAIN alarms /\ uid \in DOMAIN preAlarms
          /\ preAlarms' = With(preAlarms, uid, NextOccurrence(preAlarms[uid]))
          /\ Rearm(uid, preAlarms[uid])
          /\ UNCHANGED alarms
       \/ /\ uid \notin DOMAIN alarms \cup DOMAIN preAlarms
          /\ UNCHANGED <<alarmVars, timerVars>>
    /\ missed' = missed \ {uid}
    /\ Move(t, "loop")
    /\ UNCHANGED <<wall, clockVars, sessionVars, crashed, job, it>>

-----------------------------------------------------------------------------
(* The calls of api/clock.cpp that reach the page. *)

GetTime(t) ==
    /\ At(t, "idle")
    /\ Begin(t, Call("getTime"), ReadClock)
    /\ UNCHANGED <<wall, clockVars, timerVars, alarmVars, sessionVars, crashed, it, missed>>

\* nextSeconds
Add(t, seconds) ==
    /\ At(t, "idle")
    /\ ClockFace + seconds \in -MaxTime .. MaxTime
    /\ offset' = offset + seconds
    /\ Begin(t, Call("nextSeconds"), "update")
    /\ UNCHANGED <<wall, shownAt, time, startTime, speed, isRunning, timerVars,
                   alarmVars, sessionVars, crashed, it, missed>>

\* setTimeSpeed: the new speed is in force before the clock is set to the
\* time it showed.
SetSpeed(t, s) ==
    /\ At(t, "idle")
    /\ time \in -MaxTime .. MaxTime
    /\ speed' = s
    /\ Begin(t, [Call("setTimeSpeed") EXCEPT !.to = time], "setStart")
    /\ UNCHANGED <<wall, shownAt, time, startTime, offset, isRunning, timerVars,
                   alarmVars, sessionVars, crashed, it, missed>>

\* backToNow
SetNow(t) ==
    /\ At(t, "idle")
    /\ Begin(t, Call("backToNow"), "setStart")
    /\ UNCHANGED <<wall, clockVars, timerVars, alarmVars, sessionVars, crashed, it, missed>>

\* pauseTime
Stop(t) ==
    /\ At(t, "idle")
    /\ isRunning' = FALSE
    /\ UNCHANGED <<wall, shownAt, time, startTime, offset, speed, timerVars,
                   alarmVars, sessionVars, crashed, pc, job, it, missed>>

\* There are |ClockThread| threads at most: a bound, the code starts any number.
CanStart == isRunning \/ \E c \in ClockThread : pc[c] = "dead"

\* resumeTime: SetTime(time_), and Start when that has returned.
Resume(t) ==
    /\ At(t, "idle")
    /\ CanStart /\ time \in -MaxTime .. MaxTime
    /\ Begin(t, [Call("resumeTime") EXCEPT !.to = time], "setStart")
    /\ UNCHANGED <<wall, clockVars, timerVars, alarmVars, sessionVars, crashed, it, missed>>

\* A page that is loaded again has sysInit run again: SetNow and then Start, with
\* the alarms, their timers and the speed as they were.
Reload(t) ==
    /\ At(t, "idle")
    /\ CanStart
    /\ session' = FALSE
    /\ Begin(t, Call("sysInit"), "setStart")
    /\ UNCHANGED <<wall, clockVars, timerVars, alarmVars, file, logins, crashed, it, missed>>

\* Clock::Start: a new clock thread, beside one that has not seen the stop.
Start(t) ==
    /\ At(t, "return") /\ job[t].op \in {"resumeTime", "sysInit"}
    /\ isRunning' = TRUE
    /\ \/ isRunning /\ Move(t, "idle")
       \/ \E c \in ClockThread :
             /\ ~isRunning /\ pc[c] = "dead"
             /\ pc' = [pc EXCEPT ![t] = "idle", ![c] = "check"]
    /\ job' = [job EXCEPT ![t] = Call("tick")]
    /\ it' = [it EXCEPT ![t] = NoTimer]
    /\ UNCHANGED <<wall, shownAt, time, startTime, offset, speed, timerVars,
                   alarmVars, sessionVars, crashed, missed>>

\* A call that does nothing more when the clock has been read or set.
Return(t) ==
    /\ At(t, "return")
    /\ job[t].op \in {"tick", "getTime", "nextSeconds", "setTimeSpeed", "backToNow"}
    /\ Finish(t)
    /\ UNCHANGED <<wall, clockVars, timerVars, alarmVars, sessionVars, crashed, missed>>

-----------------------------------------------------------------------------
(* The calls of api/alarm.cpp that change something. *)

\* GenUid draws what it has not drawn before.
Unused(uid) ==
    /\ uid \notin DOMAIN alarms \cup DOMAIN file \cup missed
    /\ \A p \in DOMAIN timerList : timerList[p].uid # uid
    /\ \A t \in ApiThread : job[t].op = "addAlarm" => job[t].uid # uid

AddAlarm(t, uid, a) ==
    /\ At(t, "idle") /\ session
    /\ Unused(uid)
    /\ Begin(t, [Call("addAlarm") EXCEPT !.uid = uid, !.alarm = a], ReadClock)
    /\ UNCHANGED <<wall, clockVars, timerVars, alarmVars, sessionVars, crashed, it, missed>>

TooShort(a) == a.interval # 0 /\ a.interval < MinInterval

FinishAdd(t) ==
    LET uid == job[t].uid
        a   == job[t].alarm
    IN
    /\ At(t, "return") /\ job[t].op = "addAlarm"
    /\ Finish(t)
    /\ \/ /\ a.time <= time \/ TooShort(a)
          /\ UNCHANGED <<alarms, timerVars>>
       \/ /\ a.time > time /\ ~TooShort(a)
          /\ alarms' = Merge(alarms, Only(uid, a))
          /\ AddTimer([uid |-> uid, timeOut |-> a.time])
    /\ UNCHANGED <<wall, clockVars, preAlarms, sessionVars, crashed, missed>>

DeleteAlarm(t, uid) ==
    /\ At(t, "idle") /\ session
    /\ \/ /\ uid \notin DOMAIN alarms
          /\ Begin(t, Call("deleteAlarm"), "return")
          /\ UNCHANGED alarms
       \/ /\ uid \in DOMAIN alarms
          /\ Begin(t, [Call("deleteAlarm") EXCEPT !.uid = uid], "unlist")
          /\ alarms' = Without(alarms, uid)
    /\ UNCHANGED <<wall, clockVars, timerVars, preAlarms, sessionVars, crashed, it, missed>>

UpdateAlarm(t, uid, a) ==
    /\ At(t, "idle") /\ session
    /\ \/ /\ uid \notin DOMAIN alarms
          /\ Begin(t, Call("deleteAlarm"), "return")
       \/ /\ uid \in DOMAIN alarms
          /\ Begin(t, [Call("updateAlarm") EXCEPT !.uid = uid, !.alarm = a], ReadClock)
    /\ UNCHANGED <<wall, clockVars, timerVars, alarmVars, sessionVars, crashed, it, missed>>

NotFound(t) ==
    /\ At(t, "return") /\ job[t].op = "deleteAlarm"
    /\ Finish(t)
    /\ UNCHANGED <<wall, clockVars, timerVars, alarmVars, sessionVars, crashed, missed>>

\* Update takes the new time from a second argument although it insists on
\* one: CefValToI64 answers 0 for it.  The record found before the clock was
\* read may be gone by now; what is written to it then is lost.
UpdatedTime == 0

FinishUpdate(t) ==
    LET uid == job[t].uid IN
    /\ At(t, "return") /\ job[t].op = "updateAlarm"
    /\ \/ /\ UpdatedTime <= time
          /\ Finish(t)
          /\ UNCHANGED alarms
       \/ /\ UpdatedTime > time
          /\ Move(t, "unlist")
          /\ alarms' = IF uid \in DOMAIN alarms
                       THEN With(alarms, uid, job[t].alarm) ELSE alarms
          /\ UNCHANGED <<job, it>>
    /\ UNCHANGED <<wall, clockVars, timerVars, preAlarms, sessionVars, crashed, missed>>

\* The timer goes after the alarm; Update then arms a new one.
Unlist(t) ==
    /\ At(t, "unlist")
    /\ RemoveTimer(job[t].uid)
    /\ \/ job[t].op = "deleteAlarm" /\ Finish(t)
       \/ job[t].op = "updateAlarm" /\ Move(t, "arm") /\ UNCHANGED <<job, it>>
    /\ UNCHANGED <<wall, clockVars, alarmVars, sessionVars, missed>>

Arm(t) ==
    /\ At(t, "arm")
    /\ AddTimer([uid |-> job[t].uid, timeOut |-> UpdatedTime])
    /\ Finish(t)
    /\ UNCHANGED <<wall, clockVars, alarmVars, sessionVars, crashed, missed>>

-----------------------------------------------------------------------------
(* What Login and Logout do about alarms. *)

Login(t) ==
    /\ At(t, "idle")
    /\ logins < MaxLogins
    /\ logins' = logins + 1
    /\ alarms' = Merge(alarms, file)
    /\ Begin(t, Call("login"), "arming")
    /\ UNCHANGED <<wall, clockVars, timerVars, preAlarms, file, session, crashed, it, missed>>

\* Tonight at 22:00, tomorrow from 23:00 on.
NightTime ==
    LET day == time - (time % DayLength)
    IN  day + NightStart + IF time % DayLength >= NightEnd THEN DayLength ELSE 0

\* Mutant of Nightly: its interval reckoned backwards.
NightlyBackwards == [time |-> NightTime, interval |-> NightStart - DayLength]

Nightly == [time |-> NightTime, interval |-> DayLength]

\* Login walks the alarms in the order of their uids, and reads the clock for
\* each of them and once more for the nightly one.
NextLoaded(t) ==
    LET left == {u \in DOMAIN alarms : u > job[t].uid} IN
    /\ At(t, "arming")
    /\ job' = [job EXCEPT ![t] = IF left = {} THEN Call("nightly")
                                ELSE [Call("login") EXCEPT !.uid = Min(left)]]
    /\ Move(t, ReadClock)
    /\ UNCHANGED <<wall, clockVars, timerVars, alarmVars, sessionVars, crashed, it, missed>>

\* Only an alarm still to come is armed.  Reading the clock may have called
\* it and dropped it; what the code reads then is no alarm, and is not armed.
ArmLoaded(t) ==
    LET uid == job[t].uid IN
    /\ At(t, "return") /\ job[t].op = "login"
    /\ \/ /\ uid \in DOMAIN alarms /\ alarms[uid].time > time
          /\ AddTimer([uid |-> uid, timeOut |-> alarms[uid].time])
          /\ missed' = missed \ {uid}
       \/ /\ ~(uid \in DOMAIN alarms /\ alarms[uid].time > time)
          /\ missed' = missed \cup ({uid} \cap DOMAIN alarms)
          /\ UNCHANGED timerVars
    /\ Move(t, "arming")
    /\ UNCHANGED <<wall, clockVars, alarmVars, sessionVars, crashed, job, it>>

\* The nightly alarm is armed whether it is still to come or not.
FinishLogin(t) ==
    /\ At(t, "return") /\ job[t].op = "nightly"
    /\ AddTimer([uid |-> NightlyId, timeOut |-> NightTime])
    /\ preAlarms' = Merge(preAlarms, Only(NightlyId, Nightly))
    /\ session' = TRUE
    /\ Finish(t)
    /\ UNCHANGED <<wall, clockVars, alarms, file, logins, crashed, missed>>

\* The alarms are saved; they, and their timers, stay in memory.
Logout(t) ==
    /\ At(t, "idle") /\ session
    /\ file' = alarms
    /\ session' = FALSE
    /\ UNCHANGED <<wall, clockVars, timerVars, alarmVars, logins, crashed, pc, job, it, missed>>

-----------------------------------------------------------------------------
Step(t) ==
    \/ Check(t) \/ Wake(t)
    \/ SetStart(t) \/ SetOffset(t) \/ UpdateTime(t)
    \/ Loop(t) \/ LoopEnd(t) \/ Pop(t) \/ Fire(t)
    \/ Start(t) \/ Return(t)
    \/ FinishAdd(t) \/ NotFound(t) \/ FinishUpdate(t) \/ Unlist(t) \/ Arm(t)
    \/ NextLoaded(t) \/ ArmLoaded(t) \/ FinishLogin(t)

Page(t) ==
    \/ GetTime(t) \/ SetNow(t) \/ Stop(t) \/ Resume(t) \/ Reload(t)
    \/ \E seconds \in Seconds : Add(t, seconds)
    \/ \E s \in Speed : SetSpeed(t, s)
    \/ \E uid \in AlarmId, a \in AlarmInput : AddAlarm(t, uid, a)
    \/ \E uid \in AlarmId : DeleteAlarm(t, uid)
    \/ \E uid \in AlarmId, a \in AlarmInput : UpdateAlarm(t, uid, a)
    \/ Login(t) \/ Logout(t)

Next ==
    \/ WallTicks
    \/ Restart
    \/ \E t \in Thread : Step(t)
    \/ \E t \in ApiThread : Page(t)

Spec == Init /\ [][Next]_vars
FairSpec == Spec /\ \A t \in Thread : SF_vars(Step(t))

\* No call and no update is under way.
Quiet == ~crashed /\ Busy = {}

-----------------------------------------------------------------------------
(* Properties. *)

IsBook(f, ids) == \E D \in SUBSET ids : f \in [D -> Alarm]

\* The variables keep their types; there is no thread that is lost between two
\* labels, and no timer or alarm without an identifier and a time.
TypeOK ==
    /\ wall \in Nat /\ shownAt \in Nat /\ startTime \in Nat
    /\ time \in Int /\ offset \in Int /\ speed \in Int /\ isRunning \in BOOLEAN
    /\ timerList \in Seq(Timer) /\ nextTimer \in Int
    /\ IsBook(alarms, AlarmId)
    /\ IsBook(preAlarms, {NightlyId})
    /\ IsBook(file, AlarmId)
    /\ logins \in 0 .. MaxLogins /\ session \in BOOLEAN /\ crashed \in BOOLEAN
    /\ pc \in [Thread -> Label] /\ job \in [Thread -> Job] /\ it \in [Thread -> Timer]
    /\ missed \subseteq AlarmId \cup {NightlyId}
    /\ irregular \subseteq {"overlap", "before1970"}

Ordered(list) ==
    \A p, q \in DOMAIN list : p < q => list[p].timeOut <= list[q].timeOut

\* The timers stay in the order they are due, equal ones in the order they
\* were armed, whichever threads arm, remove and pop them: updateTime looks
\* at the first one only.
TimersSorted == Ordered(timerList)

\* Until two threads are first under way at once, and with no time before 1970:
\* at rest nextTimer_ is not later than the first timer and not 0 while there is
\* one, so that the next update that finds a timer overdue calls it; however
\* often the page logs in, is loaded again, and changes the alarms and the clock.
NextTimerNotLate ==
    (Quiet /\ Regular /\ timerList # << >>) =>
        nextTimer # 0 /\ nextTimer <= timerList[1].timeOut

\* The alarm a timer's callback finds.
HasAlarm(uid) == uid \in DOMAIN alarms \cup DOMAIN preAlarms
AlarmOf(uid) == IF uid \in DOMAIN alarms THEN alarms[uid] ELSE preAlarms[uid]

Armings(uid) == {p \in DOMAIN timerList : timerList[p].uid = uid}

\* Between calls every timer is the timer of one alarm and is set to its time;
\* an alarm that has none was overdue when Login read it from the file.
ArmedOnce ==
    Quiet =>
        /\ \A p \in DOMAIN timerList :
              /\ HasAlarm(timerList[p].uid)
              /\ timerList[p].timeOut = AlarmOf(timerList[p].uid).time
              /\ Armings(timerList[p].uid) = {p}
        /\ \A u \in DOMAIN alarms : Armings(u) = {} => u \in missed

\* Until two threads are first under way at once, and with no time before 1970:
\* at rest no alarm is without a timer that calls it at its time or before, but
\* for those a login found overdue; also where a second login has armed an alarm
\* twice, or brought back one that was deleted while it had two timers.
AlarmsStayArmed ==
    (Quiet /\ Regular) =>
        \A u \in DOMAIN alarms \ missed :
            \E p \in Armings(u) : timerList[p].timeOut <= alarms[u].time

\* TickAlarm is never sent for an occurrence that lies ahead: what the timer
\* was set for is what the alarm is set for now, and the clock has reached it.
TickIsDue ==
    \A t \in Thread :
        (pc[t] = "fire" /\ ~crashed /\ HasAlarm(it[t].uid)) =>
            AlarmOf(it[t].uid).time <= time

\* Until two threads are first under way at once: pausing, resuming and changing
\* the speed make the clock jump by no more than a fraction of a second times the
\* speed, the fraction that startTime_ loses.  From one update to the next it runs
\* at its speed, within that and within the second that time_ is rounded to, and
\* not backwards unless the speed is negative; except where nextSeconds, backToNow
\* or a page that is loaded sets it.
Magnitude(n) == IF n >= 0 THEN n ELSE -n
ClockIsContinuous ==
    [][(/\ \E t \in Thread : UpdateTime(t)
        /\ "overlap" \notin irregular'
        /\ \A t \in ApiThread : job[t].op \notin {"nextSeconds", "backToNow", "sysInit"})
       => LET lost == TicksPerSecond - 1
              ran  == Magnitude(speed) * (shownAt' - shownAt + lost)
          IN  /\ TicksPerSecond * Magnitude(time' - time) <= ran + lost
              /\ speed >= 0 => time' >= time]_vars

\* The clock that runs calls an armed alarm once it is overdue, unless the
\* page takes the alarm or the time back first.
OverdueAlarmTicks ==
    \A u \in AlarmId :
        (/\ u \in DOMAIN alarms /\ Armings(u) # {}
         /\ alarms[u].time < time /\ isRunning)
        ~> (\/ u \notin DOMAIN alarms \/ alarms[u].time >= time
            \/ ~isRunning \/ crashed)

\* "Deletes the element at pos": deleting an alarm, like every other call,
\* leaves the program running.
NeverCrashes == ~crashed
=============================================================================

