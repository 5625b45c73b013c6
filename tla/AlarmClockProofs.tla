-------------------------- MODULE AlarmClockProofs --------------------------
(***************************************************************************)
(* Proofs about AlarmClock for every set of threads, alarms, speeds and    *)
(* times, and any number of logins: types and the order of the timers for  *)
(* every interleaving of the threads; the timers every alarm has, and the  *)
(* time the clock shows, until two threads are first under way at once.    *)
(***************************************************************************)
EXTENDS AlarmClock, SequenceFacts

-----------------------------------------------------------------------------
(* The list of timers. *)

\* A timer's due time is an integer.
LEMMA TimerFields ==
    ASSUME NEW list \in Seq(Timer), NEW i \in 1 .. Len(list)
    PROVE  list[i] \in Timer /\ list[i].timeOut \in Int
<1>1. list[i] \in Timer
  BY ElementOfSeq
<1>. QED
  BY <1>1 DEF Timer

\* InsertTimer puts a timer behind those due no later and before the others,
\* and so keeps the list ordered.
LEMMA InsertTimerOrdered ==
    ASSUME NEW list \in Seq(Timer), Ordered(list), NEW x \in Timer,
           NEW new, new = InsertTimer(list, x)
    PROVE  new \in Seq(Timer) /\ Ordered(new) /\ Len(new) = Len(list) + 1
<1>. DEFINE S == {q \in 1 .. Len(list) + 1 :
                    q = Len(list) + 1 \/ list[q].timeOut > x.timeOut}
<1>1. S \subseteq Nat /\ S # {}
  <2>1. Len(list) + 1 \in S
    OBVIOUS
  <2>. QED
    BY <2>1
<1>2. PICK p : p = Min(S)
  OBVIOUS
<1>3. p \in S /\ \A q \in S : p <= q
  <2>. HIDE DEF S
  <2>. QED
    BY <1>1, <1>2, MinIsLeast
<1>4. x.timeOut \in Int
  BY DEF Timer
<1>5. p \in 1 .. Len(list) + 1
  BY <1>3
<1>6. ASSUME NEW i \in 1 .. p - 1 PROVE list[i].timeOut <= x.timeOut
  <2>1. i \in 1 .. Len(list) /\ i < p
    BY <1>5
  <2>2. ~(list[i].timeOut > x.timeOut)
    BY <1>3, <2>1
  <2>. QED
    BY <2>1, <2>2, <1>4, TimerFields
<1>7. ASSUME NEW i \in p .. Len(list) PROVE list[i].timeOut > x.timeOut
  <2>1. p \in 1 .. Len(list) /\ i \in 1 .. Len(list) /\ list[p].timeOut > x.timeOut
    BY <1>3
  <2>2. list[p].timeOut \in Int /\ list[i].timeOut \in Int
    BY <2>1, TimerFields
  <2>3. list[p].timeOut <= list[i].timeOut
    <3>1. CASE p = i
      BY <3>1, <2>2
    <3>2. CASE p < i
      BY <3>2, <2>1 DEF Ordered
    <3>. QED
      BY <3>1, <3>2, <2>1
  <2>. QED
    BY <2>1, <2>2, <2>3, <1>4
<1>8. new = InsertAt(list, p, x)
  BY <1>2 DEF InsertTimer
<1>9. /\ new \in Seq(Timer) /\ Len(new) = Len(list) + 1
      /\ new[p] = x
      /\ \A j \in 1 .. p - 1 : new[j] = list[j]
      /\ \A j \in p .. Len(list) : new[j + 1] = list[j]
  <2>. HIDE DEF S
  <2>. QED
    BY <1>5, <1>8, InsertAtElements
<1>10. Ordered(new)
  <2>. HIDE DEF S
  <2>. SUFFICES ASSUME NEW i \in DOMAIN new, NEW j \in DOMAIN new, i < j
                PROVE  new[i].timeOut <= new[j].timeOut
    BY DEF Ordered
  <2>0. i \in 1 .. Len(list) + 1 /\ j \in 1 .. Len(list) + 1
    BY <1>9
  <2>1. CASE j < p
    <3>1. /\ i \in 1 .. Len(list) /\ j \in 1 .. Len(list)
          /\ new[i] = list[i] /\ new[j] = list[j]
      BY <2>0, <2>1, <1>5, <1>9
    <3>. QED
      BY <3>1 DEF Ordered
  <2>2. CASE j = p
    <3>1. new[i] = list[i] /\ list[i].timeOut <= x.timeOut
      BY <2>0, <2>2, <1>6, <1>9
    <3>. QED
      BY <3>1, <2>2, <1>9
  <2>3. CASE j > p /\ i < p
    <3>1. /\ i \in 1 .. Len(list) /\ i \in 1 .. p - 1 /\ j - 1 \in p .. Len(list)
          /\ j - 1 \in 1 .. Len(list)
      BY <2>0, <2>3, <1>5
    <3>2. new[(j - 1) + 1] = list[j - 1] /\ new[i] = list[i]
      BY <3>1, <1>9
    <3>3. list[i].timeOut <= x.timeOut /\ list[j - 1].timeOut > x.timeOut
      BY <3>1, <1>6, <1>7
    <3>4. list[i].timeOut \in Int /\ list[j - 1].timeOut \in Int
      BY <3>1, TimerFields
    <3>. QED
      BY <3>2, <3>3, <3>4, <1>4, <2>0
  <2>4. CASE j > p /\ i = p
    <3>1. j - 1 \in p .. Len(list) /\ j - 1 \in 1 .. Len(list)
      BY <2>0, <2>4, <1>5
    <3>2. new[(j - 1) + 1] = list[j - 1] /\ list[j - 1].timeOut > x.timeOut
      BY <3>1, <1>7, <1>9
    <3>3. list[j - 1].timeOut \in Int
      BY <3>1, TimerFields
    <3>. QED
      BY <3>2, <3>3, <2>0, <2>4, <1>4, <1>9
  <2>5. CASE j > p /\ i > p
    <3>1. /\ j - 1 \in p .. Len(list) /\ j - 1 \in 1 .. Len(list)
          /\ i - 1 \in p .. Len(list) /\ i - 1 \in 1 .. Len(list)
          /\ i - 1 < j - 1
      BY <2>0, <2>5, <1>5
    <3>2. new[(j - 1) + 1] = list[j - 1] /\ new[(i - 1) + 1] = list[i - 1]
      BY <3>1, <1>9
    <3>3. list[i - 1].timeOut <= list[j - 1].timeOut
      BY <3>1 DEF Ordered
    <3>. QED
      BY <3>2, <3>3, <2>0
  <2>. QED
    BY <2>0, <2>1, <2>2, <2>3, <2>4, <2>5, <1>5
<1>. QED
  BY <1>9, <1>10

\* Taking a timer out keeps the list ordered.
LEMMA RemoveTimerOrdered ==
    ASSUME NEW list \in Seq(Timer), Ordered(list), NEW p \in 1 .. Len(list),
           NEW new, new = RemoveAt(list, p)
    PROVE  new \in Seq(Timer) /\ Ordered(new)
<1>1. /\ new \in Seq(Timer) /\ Len(new) = Len(list) - 1
      /\ \A j \in 1 .. p - 1 : new[j] = list[j]
      /\ \A j \in p .. Len(list) - 1 : new[j] = list[j + 1]
  BY RemoveAtElements
<1>2. ASSUME NEW i \in DOMAIN new, NEW j \in DOMAIN new, i < j
      PROVE  new[i].timeOut <= new[j].timeOut
  <2>0. i \in 1 .. Len(list) - 1 /\ j \in 1 .. Len(list) - 1
    BY <1>1
  <2>1. CASE j < p
    <3>1. new[i] = list[i] /\ new[j] = list[j] /\ i \in DOMAIN list /\ j \in DOMAIN list
      BY <2>0, <2>1, <1>1, <1>2
    <3>. QED
      BY <3>1, <1>2 DEF Ordered
  <2>2. CASE i < p /\ j >= p
    <3>1. /\ new[i] = list[i] /\ new[j] = list[j + 1] /\ i < j + 1
          /\ i \in DOMAIN list /\ j + 1 \in DOMAIN list
      BY <2>0, <2>2, <1>1
    <3>. QED
      BY <3>1 DEF Ordered
  <2>3. CASE i >= p
    <3>1. /\ new[i] = list[i + 1] /\ new[j] = list[j + 1] /\ i + 1 < j + 1
          /\ i + 1 \in DOMAIN list /\ j + 1 \in DOMAIN list
      BY <2>0, <2>3, <1>1, <1>2
    <3>. QED
      BY <3>1 DEF Ordered
  <2>. QED
    BY <2>0, <2>1, <2>2, <2>3
<1>. QED
  BY <1>1, <1>2 DEF Ordered

\* So does popping the first one.
LEMMA PopOrdered ==
    ASSUME NEW list \in Seq(Timer), Ordered(list),
           NEW new, new = IF list = << >> THEN << >> ELSE Tail(list)
    PROVE  new \in Seq(Timer) /\ Ordered(new)
<1>1. CASE list = << >>
  BY <1>1
<1>2. CASE list # << >>
  <2>1. /\ new \in Seq(Timer) /\ Len(new) = Len(list) - 1
        /\ \A j \in 1 .. Len(new) : new[j] = list[j + 1]
    BY <1>2
  <2>2. ASSUME NEW i \in DOMAIN new, NEW j \in DOMAIN new, i < j
        PROVE  new[i].timeOut <= new[j].timeOut
    <3>1. /\ new[i] = list[i + 1] /\ new[j] = list[j + 1] /\ i + 1 < j + 1
          /\ i + 1 \in DOMAIN list /\ j + 1 \in DOMAIN list
      BY <2>1, <2>2
    <3>. QED
      BY <3>1 DEF Ordered
  <2>. QED
    BY <2>1, <2>2 DEF Ordered
<1>. QED
  BY <1>1, <1>2

-----------------------------------------------------------------------------
(* The maps of alarms. *)

LEMMA WithBook ==
    ASSUME NEW ids, NEW f, IsBook(f, ids), NEW u \in ids, NEW a \in Alarm
    PROVE  IsBook(With(f, u, a), ids)
<1>1. PICK D \in SUBSET ids : f \in [D -> Alarm]
  BY DEF IsBook
<1>2. D \cup {u} \in SUBSET ids /\ With(f, u, a) \in [D \cup {u} -> Alarm]
  BY <1>1 DEF With
<1>. QED
  BY <1>2 DEF IsBook

LEMMA WithoutBook ==
    ASSUME NEW ids, NEW f, IsBook(f, ids), NEW u
    PROVE  IsBook(Without(f, u), ids)
<1>1. PICK D \in SUBSET ids : f \in [D -> Alarm]
  BY DEF IsBook
<1>2. D \ {u} \in SUBSET ids /\ Without(f, u) \in [D \ {u} -> Alarm]
  BY <1>1 DEF Without
<1>. QED
  BY <1>2 DEF IsBook

LEMMA MergeBook ==
    ASSUME NEW ids, NEW f, IsBook(f, ids), NEW g, IsBook(g, ids)
    PROVE  IsBook(Merge(f, g), ids)
<1>1. PICK D \in SUBSET ids : f \in [D -> Alarm]
  BY DEF IsBook
<1>2. PICK E \in SUBSET ids : g \in [E -> Alarm]
  BY DEF IsBook
<1>3. D \cup E \in SUBSET ids /\ Merge(f, g) \in [D \cup E -> Alarm]
  BY <1>1, <1>2 DEF Merge
<1>. QED
  BY <1>3 DEF IsBook

LEMMA OnlyBook ==
    ASSUME NEW ids, NEW u \in ids, NEW a \in Alarm
    PROVE  IsBook(Only(u, a), ids)
<1>1. {u} \in SUBSET ids /\ Only(u, a) \in [{u} -> Alarm]
  BY DEF Only
<1>. QED
  BY <1>1 DEF IsBook

\* An alarm of a map.
LEMMA BookAlarm ==
    ASSUME NEW ids, NEW f, IsBook(f, ids), NEW u \in DOMAIN f
    PROVE  u \in ids /\ f[u] \in Alarm
BY DEF IsBook

LEMMA EmptyBook == ASSUME NEW ids PROVE IsBook(<< >>, ids)
<1>1. << >> \in [{} -> Alarm]
  OBVIOUS
<1>. QED
  BY <1>1 DEF IsBook

\* The next occurrence of an alarm, and the nightly one, are alarms.
LEMMA NextOccurrenceType ==
    ASSUME NEW a \in Alarm
    PROVE  NextOccurrence(a) \in Alarm
BY DEF NextOccurrence, Alarm

LEMMA NightlyType ==
    ASSUME time \in Int
    PROVE  NightTime \in Int /\ Nightly \in Alarm
<1>1. time % DayLength \in Int
  BY NightAssumption
<1>2. NightTime \in Int
  BY <1>1, NightAssumption DEF NightTime
<1>. QED
  BY <1>2, NightAssumption DEF Nightly, Alarm

\* A time of the wall clock in whole seconds, and one that loses its fraction.
LEMMA WholeSecondsType ==
    ASSUME wall \in Nat
    PROVE  WholeSeconds \in Nat
BY ClockAssumption DEF WholeSeconds

LEMMA TruncatedType ==
    ASSUME NEW n \in Int, NEW d \in Nat \ {0}
    PROVE  Truncated(n, d) \in Int
BY DEF Truncated

-----------------------------------------------------------------------------
(* The inductive invariant: the types and the order of the timers.  A step *)
(* that inserts a timer is well-typed because the list stays one, and the  *)
(* list stays ordered because what is inserted is a timer.                 *)

IInv == TypeOK /\ TimersSorted

\* The parts of TypeOK that a step of a thread may disturb.
TimersOK == timerList \in Seq(Timer) /\ Ordered(timerList) /\ nextTimer \in Int
AlarmsOK == IsBook(alarms, AlarmId) /\ IsBook(preAlarms, {NightlyId})
SessionOK == IsBook(file, AlarmId) /\ logins \in 0 .. MaxLogins /\ session \in BOOLEAN
ClockOK ==
    /\ shownAt \in Nat /\ startTime \in Nat
    /\ time \in Int /\ offset \in Int /\ speed \in Int /\ isRunning \in BOOLEAN
ThreadsOK ==
    /\ pc \in [Thread -> Label] /\ job \in [Thread -> Job] /\ it \in [Thread -> Timer]

PartsOK ==
    /\ wall \in Nat /\ crashed \in BOOLEAN
    /\ TimersOK /\ AlarmsOK /\ SessionOK /\ ClockOK /\ ThreadsOK
HistoryOK ==
    missed \subseteq AlarmId \cup {NightlyId} /\ irregular \subseteq {"overlap", "before1970"}

LEMMA IInvParts == IInv <=> PartsOK /\ HistoryOK
BY Zenon DEF IInv, TypeOK, TimersSorted, PartsOK, TimersOK, AlarmsOK, SessionOK,
             ClockOK, ThreadsOK, HistoryOK

LEMMA IInvPartsNext == PartsOK' /\ HistoryOK' => IInv'
BY Zenon DEF IInv, TypeOK, TimersSorted, PartsOK, TimersOK, AlarmsOK, SessionOK,
             ClockOK, ThreadsOK, HistoryOK

LEMMA AllParts ==
    /\ wall' \in Nat /\ crashed' \in BOOLEAN
    /\ TimersOK' /\ AlarmsOK' /\ SessionOK' /\ ClockOK' /\ ThreadsOK'
    => PartsOK'
BY Zenon DEF PartsOK

\* What each step leaves alone keeps its type.
LEMMA UnchangedParts ==
    /\ UNCHANGED timerVars /\ TimersOK => TimersOK'
    /\ UNCHANGED alarmVars /\ AlarmsOK => AlarmsOK'
    /\ UNCHANGED sessionVars /\ SessionOK => SessionOK'
    /\ UNCHANGED clockVars /\ ClockOK => ClockOK'
BY DEF timerVars, alarmVars, sessionVars, clockVars, TimersOK, AlarmsOK, SessionOK,
       ClockOK, Ordered

\* A thread moves to a label; its call begins; its call ends.
LEMMA MoveType ==
    ASSUME ThreadsOK, NEW t \in Thread, NEW l \in Label, Move(t, l)
    PROVE  pc' \in [Thread -> Label]
BY DEF ThreadsOK, Move

LEMMA MoveKeeps ==
    ASSUME ThreadsOK, NEW t \in Thread, NEW l \in Label, Move(t, l),
           UNCHANGED <<job, it>>
    PROVE  ThreadsOK'
BY MoveType DEF ThreadsOK

LEMMA CallType ==
    ASSUME NEW op \in Op, op # "addAlarm"
    PROVE  Call(op) \in Job /\ NoTimer \in Timer
BY DEF Call, Job, NoTimer, Timer, NoAlarm, Alarm, NightlyId

LEMMA BeginType ==
    ASSUME ThreadsOK, NEW t \in Thread, NEW j \in Job, NEW l \in Label,
           Begin(t, j, l), UNCHANGED it
    PROVE  ThreadsOK'
<1>1. pc' \in [Thread -> Label]
  BY MoveType DEF Begin
<1>. QED
  BY <1>1 DEF ThreadsOK, Begin

LEMMA FinishType ==
    ASSUME ThreadsOK, NEW t \in Thread, Finish(t)
    PROVE  ThreadsOK'
<1>1. (IF t \in ClockThread THEN "check" ELSE "idle") \in Label
  BY DEF Label, Resting
<1>2. pc' \in [Thread -> Label]
  BY <1>1, MoveType DEF Finish
<1>3. Call("tick") \in Job /\ NoTimer \in Timer
  BY CallType DEF Op
<1>. QED
  BY <1>2, <1>3 DEF ThreadsOK, Finish

\* Arming a timer keeps the list.
LEMMA AddTimerKeeps ==
    ASSUME TimersOK, NEW x \in Timer, AddTimer(x)
    PROVE  TimersOK'
<1>1. PICK new : new = InsertTimer(timerList, x)
  OBVIOUS
<1>2. new \in Seq(Timer) /\ Ordered(new) /\ Len(new) = Len(timerList) + 1
  BY <1>1, InsertTimerOrdered DEF TimersOK
<1>3. timerList' = new /\ nextTimer' = new[1].timeOut
  BY <1>1 DEF AddTimer, Armed
<1>4. 1 \in 1 .. Len(new)
  <2>1. Len(timerList) \in Nat
    BY DEF TimersOK
  <2>. QED
    BY <2>1, <1>2
<1>5. new[1].timeOut \in Int
  BY <1>2, <1>4, TimerFields
<1>6. Ordered(timerList')
  BY <1>2, <1>3
<1>. QED
  BY <1>2, <1>3, <1>5, <1>6 DEF TimersOK, Ordered

\* Removing one keeps it, also when it crashes the program.
LEMMA RemoveTimerKeeps ==
    ASSUME TimersOK, crashed \in BOOLEAN, NEW u, RemoveTimer(u)
    PROVE  TimersOK' /\ crashed' \in BOOLEAN
<1>1. PICK p : p = SelectInSeq(timerList, LAMBDA x : x.uid = u)
  OBVIOUS
<1>2. p = 0 \/ p \in 1 .. Len(timerList)
  <2>. DEFINE I == {i \in 1 .. Len(timerList) : timerList[i].uid = u}
  <2>1. p = IF I # {} THEN Min(I) ELSE 0
    BY <1>1 DEF SelectInSeq
  <2>2. I \subseteq Nat
    OBVIOUS
  <2>3. CASE I = {}
    BY <2>1, <2>3
  <2>4. CASE I # {}
    <3>1. Min(I) \in I
      <4>. HIDE DEF I
      <4>. QED
        BY <2>2, <2>4, MinIsLeast
    <3>. QED
      BY <2>1, <2>4, <3>1
  <2>. QED
    BY <2>3, <2>4
<1>3. CASE p = 0
  <2>1. /\ nextTimer' = (IF timerList = << >> THEN 0 ELSE timerList[1].timeOut)
        /\ UNCHANGED <<timerList, crashed>>
    BY <1>1, <1>3 DEF RemoveTimer
  <2>2. timerList # << >> => timerList[1].timeOut \in Int
    <3>1. timerList # << >> => 1 \in 1 .. Len(timerList)
      BY DEF TimersOK
    <3>. QED
      BY <3>1, TimerFields DEF TimersOK
  <2>. QED
    BY <2>1, <2>2 DEF TimersOK, Ordered
<1>0. PICK n \in Nat : n = Len(timerList)
  BY DEF TimersOK
<1>4. CASE p \in 1 .. Len(timerList) /\ (p < Len(timerList) \/ Len(timerList) = 1)
  <2>1. p # 0 /\ ~(p = Len(timerList) /\ Len(timerList) > 1)
    BY <1>0, <1>4
  <2>2. timerList' = RemoveAt(timerList, p) /\ UNCHANGED <<nextTimer, crashed>>
    BY <1>1, <2>1 DEF RemoveTimer
  <2>3. PICK new : new = RemoveAt(timerList, p)
    OBVIOUS
  <2>4. new \in Seq(Timer) /\ Ordered(new)
    BY <2>3, <1>4, RemoveTimerOrdered DEF TimersOK
  <2>. QED
    BY <2>2, <2>3, <2>4 DEF TimersOK, Ordered
<1>5. CASE p \in 1 .. Len(timerList) /\ p = Len(timerList) /\ Len(timerList) > 1
  <2>1. p # 0 /\ ~(p < Len(timerList) \/ Len(timerList) = 1)
    BY <1>0, <1>5
  <2>2. crashed' = TRUE /\ UNCHANGED timerVars
    BY <1>1, <2>1 DEF RemoveTimer
  <2>. QED
    BY <2>2, UnchangedParts
<1>6. \/ p = 0
      \/ p \in 1 .. Len(timerList) /\ (p < Len(timerList) \/ Len(timerList) = 1)
      \/ p \in 1 .. Len(timerList) /\ p = Len(timerList) /\ Len(timerList) > 1
  BY <1>0, <1>2
<1>. QED
  BY <1>3, <1>4, <1>5, <1>6

-----------------------------------------------------------------------------
(* The steps: of clockThread and Clock, of the page's calls about the      *)
(* clock, of the calls about alarms, and of Login and Logout.              *)

\* clockThread, and the clock's time.
LEMMA ClockSteps ==
    ASSUME PartsOK, NEW t \in Thread,
           \/ Check(t)
           \/ Wake(t)
           \/ SetStart(t)
           \/ SetOffset(t)
           \/ UpdateTime(t)
    PROVE  PartsOK'
<1>0. /\ wall \in Nat /\ crashed \in BOOLEAN
      /\ TimersOK /\ AlarmsOK /\ SessionOK /\ ClockOK /\ ThreadsOK
  BY DEF PartsOK
<1>1. CASE Check(t)
  <2>1. PICK l \in Label : Move(t, l)
    BY <1>1 DEF Check, Label, Resting
  <2>2. UNCHANGED <<job, it>>
    BY <1>1 DEF Check
  <2>3. ThreadsOK'
    BY <2>1, <2>2, <1>0, MoveKeeps
  <2>. QED
    BY <2>3, <1>0, <1>1, UnchangedParts, AllParts DEF Check
<1>2. CASE Wake(t)
  <2>1. "update" \in Label /\ Move(t, "update") /\ UNCHANGED <<job, it>>
    BY <1>2 DEF Wake, Label, Resting
  <2>2. ThreadsOK'
    BY <2>1, <1>0, MoveKeeps
  <2>. QED
    BY <2>2, <1>0, <1>2, UnchangedParts, AllParts DEF Wake
<1>3. CASE SetStart(t)
  <2>1. "setOffset" \in Label /\ Move(t, "setOffset") /\ UNCHANGED <<job, it>>
    BY <1>3 DEF SetStart, Label, Resting
  <2>2. ThreadsOK'
    BY <2>1, <1>0, MoveKeeps
  <2>3. ClockOK'
    BY <1>3, <1>0, WholeSecondsType DEF SetStart, ClockOK
  <2>. QED
    BY <2>2, <2>3, <1>0, <1>3, UnchangedParts, AllParts DEF SetStart
<1>4. CASE SetOffset(t)
  <2>1. "update" \in Label /\ Move(t, "update") /\ UNCHANGED <<job, it>>
    BY <1>4 DEF SetOffset, Label, Resting
  <2>2. ThreadsOK'
    BY <2>1, <1>0, MoveKeeps
  <2>3. NewOffset(job[t]) \in Int
    BY <1>0 DEF NewOffset, ThreadsOK, ClockOK, Job
  <2>4. ClockOK'
    BY <1>4, <2>3, <1>0 DEF SetOffset, ClockOK
  <2>. QED
    BY <2>2, <2>4, <1>0, <1>4, UnchangedParts, AllParts DEF SetOffset
<1>5. CASE UpdateTime(t)
  <2>1. PICK l \in Label : Move(t, l)
    BY <1>5 DEF UpdateTime, Label, Resting
  <2>2. UNCHANGED <<job, it>>
    BY <1>5 DEF UpdateTime
  <2>3. ThreadsOK'
    BY <2>1, <2>2, <1>0, MoveKeeps
  <2>4. ClockFace \in Int
    <3>. DEFINE start == startTime * TicksPerSecond
    <3>1. start \in Int /\ TicksPerSecond \in Nat \ {0} /\ offset * TicksPerSecond \in Int
      BY <1>0, ClockAssumption DEF ClockOK
    <3>2. (wall - start) * speed \in Int
      BY <3>1, <1>0 DEF ClockOK
    <3>3. start + (wall - start) * speed + offset * TicksPerSecond \in Int
      BY <3>1, <3>2
    <3>. QED
      BY <3>1, <3>3, TruncatedType DEF ClockFace
  <2>5. ClockOK'
    BY <1>5, <2>4, <1>0 DEF UpdateTime, ClockOK
  <2>. QED
    BY <2>3, <2>5, <1>0, <1>5, UnchangedParts, AllParts DEF UpdateTime
<1>. QED
  BY <1>1, <1>2, <1>3, <1>4, <1>5

\* The loop that calls the timers.
LEMMA TimerSteps ==
    ASSUME PartsOK, NEW t \in Thread,
           \/ Loop(t)
           \/ LoopEnd(t)
           \/ Pop(t)
           \/ Fire(t)
    PROVE  PartsOK'
<1>0. /\ wall \in Nat /\ crashed \in BOOLEAN
      /\ TimersOK /\ AlarmsOK /\ SessionOK /\ ClockOK /\ ThreadsOK
  BY DEF PartsOK
<1>1. CASE Loop(t)
  <2>1. PICK l \in Label : Move(t, l)
    BY <1>1 DEF Loop, Label, Resting
  <2>2. pc' \in [Thread -> Label]
    BY <2>1, <1>0, MoveType
  <2>3. timerList # << >> => timerList[1] \in Timer
    <3>1. timerList # << >> => 1 \in 1 .. Len(timerList)
      BY <1>0 DEF TimersOK
    <3>. QED
      BY <3>1, <1>0, TimerFields DEF TimersOK
  <2>4. it' \in [Thread -> Timer]
    BY <1>1, <2>3, <1>0 DEF Loop, ThreadsOK
  <2>5. UNCHANGED job
    BY <1>1 DEF Loop
  <2>6. ThreadsOK'
    BY <2>2, <2>4, <2>5, <1>0 DEF ThreadsOK
  <2>. QED
    BY <2>6, <1>0, <1>1, UnchangedParts, AllParts DEF Loop
<1>2. CASE LoopEnd(t)
  <2>1. "return" \in Label /\ Move(t, "return") /\ UNCHANGED <<job, it>>
    BY <1>2 DEF LoopEnd, Label, Resting
  <2>2. ThreadsOK'
    BY <2>1, <1>0, MoveKeeps
  <2>3. it[t].timeOut \in Int
    BY <1>0 DEF ThreadsOK, Timer
  <2>4. TimersOK'
    BY <1>2, <2>3, <1>0 DEF LoopEnd, TimersOK, Ordered
  <2>. QED
    BY <2>2, <2>4, <1>0, <1>2, UnchangedParts, AllParts DEF LoopEnd
<1>3. CASE Pop(t)
  <2>1. "fire" \in Label /\ Move(t, "fire") /\ UNCHANGED <<job, it>>
    BY <1>3 DEF Pop, Label, Resting
  <2>2. ThreadsOK'
    BY <2>1, <1>0, MoveKeeps
  <2>3. PICK new : new = IF timerList = << >> THEN << >> ELSE Tail(timerList)
    OBVIOUS
  <2>4. new \in Seq(Timer) /\ Ordered(new)
    BY <2>3, <1>0, PopOrdered DEF TimersOK
  <2>5. TimersOK'
    BY <1>3, <2>3, <2>4, <1>0 DEF Pop, TimersOK, Ordered
  <2>. QED
    BY <2>2, <2>5, <1>0, <1>3, UnchangedParts, AllParts DEF Pop
<1>4. CASE Fire(t)
  <2>1. "loop" \in Label /\ Move(t, "loop") /\ UNCHANGED <<job, it>>
    BY <1>4 DEF Fire, Label, Resting
  <2>2. ThreadsOK'
    BY <2>1, <1>0, MoveKeeps
  <2>3. PICK u : u = it[t].uid
    OBVIOUS
  <2>4. u \in AlarmId \cup {NightlyId}
    BY <2>3, <1>0 DEF ThreadsOK, Timer
  <2>5. ASSUME NEW a \in Alarm,
               AddTimer([uid |-> u, timeOut |-> NextOccurrence(a).time])
        PROVE  TimersOK'
    <3>1. NextOccurrence(a).time \in Int
      BY NextOccurrenceType DEF Alarm
    <3>2. [uid |-> u, timeOut |-> NextOccurrence(a).time] \in Timer
      BY <2>4, <3>1 DEF Timer
    <3>. QED
      BY <2>5, <3>2, <1>0, AddTimerKeeps
  <2>6. /\ u \in DOMAIN alarms => alarms[u] \in Alarm /\ u \in AlarmId
        /\ u \in DOMAIN preAlarms => preAlarms[u] \in Alarm /\ u \in {NightlyId}
    BY <1>0, BookAlarm DEF AlarmsOK
  <2>7. TimersOK' /\ AlarmsOK'
    <3>1. CASE /\ u \in DOMAIN alarms /\ alarms' = Without(alarms, u)
               /\ UNCHANGED <<preAlarms, timerVars>>
      BY <3>1, <1>0, WithoutBook, UnchangedParts DEF AlarmsOK
    <3>2. CASE /\ u \in DOMAIN alarms
               /\ alarms' = With(alarms, u, NextOccurrence(alarms[u]))
               /\ AddTimer([uid |-> u, timeOut |-> NextOccurrence(alarms[u]).time])
               /\ UNCHANGED preAlarms
      <4>1. TimersOK'
        BY <3>2, <2>5, <2>6
      <4>2. NextOccurrence(alarms[u]) \in Alarm /\ u \in AlarmId
        BY <3>2, <2>6, NextOccurrenceType
      <4>3. IsBook(With(alarms, u, NextOccurrence(alarms[u])), AlarmId)
        BY <4>2, <1>0, WithBook DEF AlarmsOK
      <4>. QED
        BY <3>2, <4>1, <4>3, <1>0 DEF AlarmsOK
    <3>3. CASE /\ u \in DOMAIN preAlarms
               /\ preAlarms' = With(preAlarms, u, NextOccurrence(preAlarms[u]))
               /\ AddTimer([uid |-> u, timeOut |-> NextOccurrence(preAlarms[u]).time])
               /\ UNCHANGED alarms
      <4>1. TimersOK'
        BY <3>3, <2>5, <2>6
      <4>2. NextOccurrence(preAlarms[u]) \in Alarm /\ u \in {NightlyId}
        BY <3>3, <2>6, NextOccurrenceType
      <4>3. IsBook(With(preAlarms, u, NextOccurrence(preAlarms[u])), {NightlyId})
        BY <4>2, <1>0, WithBook DEF AlarmsOK
      <4>. QED
        BY <3>3, <4>1, <4>3, <1>0 DEF AlarmsOK
    <3>4. CASE UNCHANGED <<alarmVars, timerVars>>
      BY <3>4, <1>0, UnchangedParts
    <3>. QED
      BY <1>4, <2>3, <3>1, <3>2, <3>3, <3>4, Zenon DEF Fire, Rearm
  <2>. QED
    BY <2>2, <2>7, <1>0, <1>4, UnchangedParts, AllParts DEF Fire
<1>. QED
  BY <1>1, <1>2, <1>3, <1>4

\* The page's calls about the clock that take no argument.
LEMMA ClockCalls ==
    ASSUME PartsOK, NEW t \in Thread,
           \/ GetTime(t)
           \/ SetNow(t)
           \/ Stop(t)
           \/ Resume(t)
           \/ Reload(t)
           \/ Start(t)
           \/ Return(t)
    PROVE  PartsOK'
<1>0. /\ wall \in Nat /\ crashed \in BOOLEAN
      /\ TimersOK /\ AlarmsOK /\ SessionOK /\ ClockOK /\ ThreadsOK
  BY DEF PartsOK
<1>1. CASE GetTime(t)
  <2>1. ReadClock \in Label
    BY Zenon DEF ReadClock, Label, Resting
  <2>2. Call("getTime") \in Job
    BY CallType DEF Op
  <2>3. ThreadsOK'
    BY <1>1, <2>1, <2>2, <1>0, BeginType DEF GetTime
  <2>. QED
    BY <2>3, <1>0, <1>1, UnchangedParts, AllParts DEF GetTime
<1>2. CASE SetNow(t)
  <2>1. "setStart" \in Label
    BY Zenon DEF Label
  <2>2. Call("backToNow") \in Job
    BY CallType DEF Op
  <2>3. ThreadsOK'
    BY <1>2, <2>1, <2>2, <1>0, BeginType DEF SetNow
  <2>. QED
    BY <2>3, <1>0, <1>2, UnchangedParts, AllParts DEF SetNow
<1>3. CASE Stop(t)
  <2>1. ClockOK'
    BY <1>3, <1>0 DEF Stop, ClockOK
  <2>2. ThreadsOK'
    BY <1>3, <1>0 DEF Stop, ThreadsOK
  <2>. QED
    BY <2>1, <2>2, <1>0, <1>3, UnchangedParts, AllParts DEF Stop
<1>4. CASE Resume(t)
  <2>1. "setStart" \in Label
    BY Zenon DEF Label
  <2>2. [Call("resumeTime") EXCEPT !.to = time] \in Job
    <3>1. Call("resumeTime") \in Job
      BY CallType DEF Op
    <3>. QED
      BY <3>1, <1>0 DEF Job, ClockOK
  <2>3. ThreadsOK'
    BY <1>4, <2>1, <2>2, <1>0, BeginType DEF Resume
  <2>. QED
    BY <2>3, <1>0, <1>4, UnchangedParts, AllParts DEF Resume
<1>5. CASE Start(t)
  <2>1. ClockOK'
    BY <1>5, <1>0 DEF Start, ClockOK
  <2>2. pc' \in [Thread -> Label]
    <3>1. CASE Move(t, "idle")
      <4>1. "idle" \in Label
        BY Zenon DEF Label, Resting
      <4>. QED
        BY <3>1, <4>1, <1>0, MoveType
    <3>2. CASE \E c \in ClockThread : pc' = [pc EXCEPT ![t] = "idle", ![c] = "check"]
      <4>1. "idle" \in Label /\ "check" \in Label
        BY DEF Label, Resting
      <4>. QED
        BY <3>2, <4>1, <1>0 DEF ThreadsOK, Thread
    <3>. QED
      BY <1>5, <3>1, <3>2 DEF Start
  <2>3. Call("tick") \in Job /\ NoTimer \in Timer
    BY CallType DEF Op
  <2>4. ThreadsOK'
    BY <1>5, <2>2, <2>3, <1>0 DEF Start, ThreadsOK
  <2>. QED
    BY <2>1, <2>4, <1>0, <1>5, UnchangedParts, AllParts DEF Start
<1>6. CASE Return(t)
  <2>1. ThreadsOK'
    BY <1>6, <1>0, FinishType DEF Return
  <2>. QED
    BY <2>1, <1>0, <1>6, UnchangedParts, AllParts DEF Return
<1>7. CASE Reload(t)
  <2>1. "setStart" \in Label
    BY Zenon DEF Label
  <2>2. Call("sysInit") \in Job
    BY CallType DEF Op
  <2>3. ThreadsOK'
    BY <1>7, <2>1, <2>2, <1>0, BeginType DEF Reload
  <2>4. SessionOK'
    BY <1>7, <1>0 DEF Reload, SessionOK
  <2>. QED
    BY <2>3, <2>4, <1>0, <1>7, UnchangedParts, AllParts DEF Reload
<1>. QED
  BY <1>1, <1>2, <1>3, <1>4, <1>5, <1>6, <1>7

\* nextSeconds and setTimeSpeed.
LEMMA ClockSettings ==
    ASSUME PartsOK, NEW t \in Thread, NEW n \in Int, NEW m \in Int,
           \/ Add(t, n)
           \/ SetSpeed(t, m)
    PROVE  PartsOK'
<1>0. /\ wall \in Nat /\ crashed \in BOOLEAN
      /\ TimersOK /\ AlarmsOK /\ SessionOK /\ ClockOK /\ ThreadsOK
  BY DEF PartsOK
<1>1. CASE Add(t, n)
  <2>1. ClockOK'
    BY <1>1, <1>0 DEF Add, ClockOK
  <2>2. "update" \in Label
    BY Zenon DEF Label
  <2>3. Call("nextSeconds") \in Job
    BY CallType DEF Op
  <2>4. ThreadsOK'
    BY <1>1, <2>2, <2>3, <1>0, BeginType DEF Add
  <2>. QED
    BY <2>1, <2>4, <1>0, <1>1, UnchangedParts, AllParts DEF Add
<1>2. CASE SetSpeed(t, m)
  <2>1. ClockOK'
    BY <1>2, <1>0 DEF SetSpeed, ClockOK
  <2>2. "setStart" \in Label
    BY Zenon DEF Label
  <2>3. [Call("setTimeSpeed") EXCEPT !.to = time] \in Job
    <3>1. Call("setTimeSpeed") \in Job
      BY CallType DEF Op
    <3>. QED
      BY <3>1, <1>0 DEF Job, ClockOK
  <2>4. ThreadsOK'
    BY <1>2, <2>2, <2>3, <1>0, BeginType DEF SetSpeed
  <2>. QED
    BY <2>1, <2>4, <1>0, <1>2, UnchangedParts, AllParts DEF SetSpeed
<1>. QED
  BY <1>1, <1>2

\* The page's calls about alarms, up to where they read the clock.
LEMMA AlarmCalls ==
    ASSUME PartsOK, NEW t \in Thread, NEW u \in AlarmId, NEW a \in Alarm,
           \/ AddAlarm(t, u, a)
           \/ DeleteAlarm(t, u)
           \/ UpdateAlarm(t, u, a)
    PROVE  PartsOK'
<1>0. /\ wall \in Nat /\ crashed \in BOOLEAN
      /\ TimersOK /\ AlarmsOK /\ SessionOK /\ ClockOK /\ ThreadsOK
  BY DEF PartsOK
<1>1. CASE AddAlarm(t, u, a)
  <2>1. ReadClock \in Label
    BY Zenon DEF ReadClock, Label, Resting
  <2>2. [Call("addAlarm") EXCEPT !.uid = u, !.alarm = a] \in Job
    <3>. DEFINE J == [op : Op, uid : AlarmId \cup {NightlyId}, alarm : Alarm, to : Int]
    <3>1. Call("addAlarm") \in J
      BY DEF Call, Op, NoAlarm, Alarm
    <3>2. PICK j : j = [Call("addAlarm") EXCEPT !.uid = u, !.alarm = a]
      OBVIOUS
    <3>3. j \in J
      BY <3>1, <3>2
    <3>4. j.uid = u
      BY <3>1, <3>2
    <3>. QED
      BY <3>2, <3>3, <3>4 DEF Job
  <2>3. ThreadsOK'
    BY <1>1, <2>1, <2>2, <1>0, BeginType DEF AddAlarm
  <2>. QED
    BY <2>3, <1>0, <1>1, UnchangedParts, AllParts DEF AddAlarm
<1>2. CASE DeleteAlarm(t, u)
  <2>1. "return" \in Label /\ "unlist" \in Label
    BY Zenon DEF Label
  <2>2. Call("deleteAlarm") \in Job
    BY CallType DEF Op
  <2>3. [Call("deleteAlarm") EXCEPT !.uid = u] \in Job
    <3>1. Call("deleteAlarm") \in Job
      BY CallType DEF Op
    <3>. QED
      BY <3>1 DEF Job
  <2>4. ThreadsOK'
    BY <1>2, <2>1, <2>2, <2>3, <1>0, BeginType DEF DeleteAlarm
  <2>5. AlarmsOK'
    BY <1>2, <1>0, WithoutBook DEF DeleteAlarm, AlarmsOK
  <2>. QED
    BY <2>4, <2>5, <1>0, <1>2, UnchangedParts, AllParts DEF DeleteAlarm
<1>3. CASE UpdateAlarm(t, u, a)
  <2>1. ReadClock \in Label
    BY Zenon DEF ReadClock, Label, Resting
  <2>2. "return" \in Label
    BY Zenon DEF Label
  <2>3. Call("deleteAlarm") \in Job
    BY CallType DEF Op
  <2>4. [Call("updateAlarm") EXCEPT !.uid = u, !.alarm = a] \in Job
    <3>1. Call("updateAlarm") \in Job
      BY CallType DEF Op
    <3>. QED
      BY <3>1 DEF Job
  <2>5. ThreadsOK'
    BY <1>3, <2>1, <2>2, <2>3, <2>4, <1>0, BeginType DEF UpdateAlarm
  <2>. QED
    BY <2>5, <1>0, <1>3, UnchangedParts, AllParts DEF UpdateAlarm
<1>. QED
  BY <1>1, <1>2, <1>3

\* What the calls about alarms do when the clock has been read.
LEMMA AlarmSteps ==
    ASSUME PartsOK, NEW t \in Thread,
           \/ FinishAdd(t)
           \/ NotFound(t)
           \/ FinishUpdate(t)
           \/ Unlist(t)
           \/ Arm(t)
    PROVE  PartsOK'
<1>0. /\ wall \in Nat /\ crashed \in BOOLEAN
      /\ TimersOK /\ AlarmsOK /\ SessionOK /\ ClockOK /\ ThreadsOK
  BY DEF PartsOK
<1>1. CASE FinishAdd(t)
  <2>1. ThreadsOK'
    BY <1>1, <1>0, FinishType DEF FinishAdd
  <2>2. PICK u : u = job[t].uid
    OBVIOUS
  <2>3. PICK a : a = job[t].alarm
    OBVIOUS
  <2>4. u \in AlarmId /\ a \in Alarm
    BY <2>2, <2>3, <1>0, <1>1 DEF FinishAdd, ThreadsOK, Job
  <2>5. TimersOK' /\ AlarmsOK'
    <3>1. CASE UNCHANGED <<alarms, timerVars, preAlarms>>
      BY <3>1, <1>0, UnchangedParts DEF alarmVars
    <3>2. CASE /\ alarms' = Merge(alarms, Only(u, a)) /\ UNCHANGED preAlarms
               /\ AddTimer([uid |-> u, timeOut |-> a.time])
      <4>1. [uid |-> u, timeOut |-> a.time] \in Timer
        BY <2>4 DEF Timer, Alarm
      <4>2. TimersOK'
        BY <3>2, <4>1, <1>0, AddTimerKeeps
      <4>3. IsBook(Merge(alarms, Only(u, a)), AlarmId)
        BY <2>4, <1>0, OnlyBook, MergeBook DEF AlarmsOK
      <4>. QED
        BY <3>2, <4>2, <4>3, <1>0 DEF AlarmsOK
    <3>3. UNCHANGED preAlarms
      BY <1>1 DEF FinishAdd
    <3>. QED
      BY <1>1, <2>2, <2>3, <3>1, <3>2, <3>3, Zenon DEF FinishAdd
  <2>. QED
    BY <2>1, <2>5, <1>0, <1>1, UnchangedParts, AllParts DEF FinishAdd
<1>2. CASE NotFound(t)
  <2>1. ThreadsOK'
    BY <1>2, <1>0, FinishType DEF NotFound
  <2>. QED
    BY <2>1, <1>0, <1>2, UnchangedParts, AllParts DEF NotFound
<1>3. CASE FinishUpdate(t)
  <2>1. "unlist" \in Label
    BY Zenon DEF Label
  <2>2. ThreadsOK'
    <3>1. CASE Finish(t)
      BY <3>1, <1>0, FinishType
    <3>2. CASE Move(t, "unlist") /\ UNCHANGED <<job, it>>
      BY <3>2, <2>1, <1>0, MoveKeeps
    <3>. QED
      BY <1>3, <3>1, <3>2, Zenon DEF FinishUpdate
  <2>3. AlarmsOK'
    <3>1. job[t].alarm \in Alarm
      BY <1>0 DEF ThreadsOK, Job
    <3>2. job[t].uid \in DOMAIN alarms => job[t].uid \in AlarmId
      BY <1>0, BookAlarm DEF AlarmsOK
    <3>3. job[t].uid \in DOMAIN alarms =>
             IsBook(With(alarms, job[t].uid, job[t].alarm), AlarmId)
      BY <3>1, <3>2, <1>0, WithBook DEF AlarmsOK
    <3>4. \/ alarms' = alarms
          \/ job[t].uid \in DOMAIN alarms /\ alarms' = With(alarms, job[t].uid, job[t].alarm)
      BY <1>3 DEF FinishUpdate
    <3>5. UNCHANGED preAlarms
      BY <1>3 DEF FinishUpdate
    <3>. QED
      BY <3>3, <3>4, <3>5, <1>0 DEF AlarmsOK
  <2>. QED
    BY <2>2, <2>3, <1>0, <1>3, UnchangedParts, AllParts DEF FinishUpdate
<1>4. CASE Unlist(t)
  <2>1. "arm" \in Label
    BY Zenon DEF Label
  <2>2. ThreadsOK'
    <3>1. CASE Finish(t)
      BY <3>1, <1>0, FinishType
    <3>2. CASE Move(t, "arm") /\ UNCHANGED <<job, it>>
      BY <3>2, <2>1, <1>0, MoveKeeps
    <3>. QED
      BY <1>4, <3>1, <3>2, Zenon DEF Unlist
  <2>3. TimersOK' /\ crashed' \in BOOLEAN
    BY <1>4, <1>0, RemoveTimerKeeps DEF Unlist
  <2>. QED
    BY <2>2, <2>3, <1>0, <1>4, UnchangedParts, AllParts DEF Unlist
<1>5. CASE Arm(t)
  <2>1. ThreadsOK'
    BY <1>5, <1>0, FinishType DEF Arm
  <2>2. [uid |-> job[t].uid, timeOut |-> UpdatedTime] \in Timer
    BY <1>0 DEF ThreadsOK, Job, Timer, UpdatedTime
  <2>3. TimersOK'
    BY <1>5, <2>2, <1>0, AddTimerKeeps DEF Arm
  <2>. QED
    BY <2>1, <2>3, <1>0, <1>5, UnchangedParts, AllParts DEF Arm
<1>. QED
  BY <1>1, <1>2, <1>3, <1>4, <1>5

\* Login and Logout.
LEMMA SessionSteps ==
    ASSUME PartsOK, NEW t \in Thread,
           \/ Login(t)
           \/ NextLoaded(t)
           \/ ArmLoaded(t)
           \/ FinishLogin(t)
           \/ Logout(t)
    PROVE  PartsOK'
<1>0. /\ wall \in Nat /\ crashed \in BOOLEAN
      /\ TimersOK /\ AlarmsOK /\ SessionOK /\ ClockOK /\ ThreadsOK
  BY DEF PartsOK
<1>1. CASE Login(t)
  <2>1. "arming" \in Label
    BY Zenon DEF Label
  <2>2. Call("login") \in Job
    BY CallType DEF Op
  <2>3. ThreadsOK'
    BY <1>1, <2>1, <2>2, <1>0, BeginType DEF Login
  <2>4. SessionOK'
    <3>1. logins' \in 0 .. MaxLogins
      BY <1>1, <1>0, ClockAssumption DEF Login, SessionOK
    <3>2. UNCHANGED <<file, session>>
      BY <1>1 DEF Login
    <3>. QED
      BY <3>1, <3>2, <1>0 DEF SessionOK
  <2>5. AlarmsOK'
    BY <1>1, <1>0, MergeBook DEF Login, AlarmsOK, SessionOK
  <2>. QED
    BY <2>3, <2>4, <2>5, <1>0, <1>1, UnchangedParts, AllParts DEF Login
<1>2. CASE NextLoaded(t)
  <2>1. ReadClock \in Label
    BY Zenon DEF ReadClock, Label, Resting
  <2>2. PICK left : left = {u \in DOMAIN alarms : u > job[t].uid}
    OBVIOUS
  <2>3. left # {} => Min(left) \in AlarmId
    <3>1. left \subseteq AlarmId
      BY <2>2, <1>0, BookAlarm DEF AlarmsOK
    <3>2. left \subseteq Nat
      BY <3>1, IdAssumption
    <3>. QED
      BY <3>1, <3>2, MinIsLeast
  <2>4. Call("nightly") \in Job /\ Call("login") \in Job
    BY CallType DEF Op
  <2>5. ASSUME NEW u \in AlarmId PROVE [Call("login") EXCEPT !.uid = u] \in Job
    BY <2>4 DEF Job
  <2>6. PICK j \in Job : job' = [job EXCEPT ![t] = j]
    BY <1>2, <2>2, <2>3, <2>4, <2>5 DEF NextLoaded
  <2>7. pc' \in [Thread -> Label]
    BY <1>2, <2>1, <1>0, MoveType DEF NextLoaded
  <2>8. ThreadsOK'
    BY <1>2, <2>6, <2>7, <1>0 DEF NextLoaded, ThreadsOK
  <2>. QED
    BY <2>8, <1>0, <1>2, UnchangedParts, AllParts DEF NextLoaded
<1>3. CASE ArmLoaded(t)
  <2>1. "arming" \in Label /\ Move(t, "arming") /\ UNCHANGED <<job, it>>
    BY <1>3 DEF ArmLoaded, Label, Resting
  <2>2. ThreadsOK'
    BY <2>1, <1>0, MoveKeeps
  <2>3. TimersOK'
    <3>1. CASE /\ job[t].uid \in DOMAIN alarms
               /\ AddTimer([uid |-> job[t].uid, timeOut |-> alarms[job[t].uid].time])
      <4>1. alarms[job[t].uid] \in Alarm /\ job[t].uid \in AlarmId
        BY <3>1, <1>0, BookAlarm DEF AlarmsOK
      <4>2. [uid |-> job[t].uid, timeOut |-> alarms[job[t].uid].time] \in Timer
        BY <4>1 DEF Timer, Alarm
      <4>. QED
        BY <3>1, <4>2, <1>0, AddTimerKeeps
    <3>2. CASE UNCHANGED timerVars
      BY <3>2, <1>0, UnchangedParts
    <3>. QED
      BY <1>3, <3>1, <3>2, Zenon DEF ArmLoaded
  <2>. QED
    BY <2>2, <2>3, <1>0, <1>3, UnchangedParts, AllParts DEF ArmLoaded
<1>4. CASE FinishLogin(t)
  <2>1. ThreadsOK'
    BY <1>4, <1>0, FinishType DEF FinishLogin
  <2>2. NightTime \in Int /\ Nightly \in Alarm
    BY <1>0, NightlyType DEF ClockOK
  <2>3. [uid |-> NightlyId, timeOut |-> NightTime] \in Timer
    BY <2>2 DEF Timer
  <2>4. TimersOK'
    BY <1>4, <2>3, <1>0, AddTimerKeeps DEF FinishLogin
  <2>5. IsBook(Only(NightlyId, Nightly), {NightlyId})
    BY <2>2, OnlyBook
  <2>6. AlarmsOK'
    BY <1>4, <2>5, <1>0, MergeBook DEF FinishLogin, AlarmsOK
  <2>7. SessionOK'
    BY <1>4, <1>0 DEF FinishLogin, SessionOK
  <2>. QED
    BY <2>1, <2>4, <2>6, <2>7, <1>0, <1>4, UnchangedParts, AllParts DEF FinishLogin
<1>5. CASE Logout(t)
  <2>1. ThreadsOK'
    BY <1>5, <1>0 DEF Logout, ThreadsOK
  <2>2. SessionOK'
    BY <1>5, <1>0 DEF Logout, SessionOK, AlarmsOK
  <2>. QED
    BY <2>1, <2>2, <1>0, <1>5, UnchangedParts, AllParts DEF Logout
<1>. QED
  BY <1>1, <1>2, <1>3, <1>4, <1>5

\* The program starts, and starts again, with no timer and no alarm.
LEMMA FreshThreads ==
    ASSUME pc' \in FreshLabels, job' = [t \in Thread |-> Call("tick")],
           it' = [t \in Thread |-> NoTimer]
    PROVE  ThreadsOK'
<1>1. pc' \in [Thread -> Label]
  BY DEF FreshLabels, Label, Resting
<1>2. Call("tick") \in Job /\ NoTimer \in Timer
  BY CallType DEF Op
<1>. QED
  BY <1>1, <1>2 DEF ThreadsOK

LEMMA NoTimersOK == << >> \in Seq(Timer) /\ Ordered(<< >>)
BY DEF Ordered

LEMMA InitIInv == Init => IInv
<1>. SUFFICES ASSUME Init PROVE IInv
  OBVIOUS
<1>1. wall \in Nat /\ crashed \in BOOLEAN
  BY ClockAssumption DEF Init
<1>2. TimersOK
  BY NoTimersOK DEF Init, TimersOK
<1>3. AlarmsOK
  BY EmptyBook DEF Init, AlarmsOK
<1>4. SessionOK
  <2>1. PICK D \in SUBSET AlarmId : file \in [D -> AlarmInput]
    BY InputAssumption DEF Init
  <2>2. file \in [D -> Alarm]
    BY <2>1, InputAssumption DEF Alarm
  <2>3. IsBook(file, AlarmId)
    BY <2>2 DEF IsBook
  <2>4. logins = 0 /\ session = FALSE
    BY DEF Init
  <2>5. logins \in 0 .. MaxLogins
    BY <2>4, ClockAssumption
  <2>6. session \in BOOLEAN
    BY <2>4, Zenon
  <2>. QED
    BY <2>3, <2>5, <2>6 DEF SessionOK
<1>5. ClockOK
  BY <1>1, WholeSecondsType DEF Init, ClockOK
<1>6. ThreadsOK
  <2>1. pc \in [Thread -> Label]
    BY DEF Init, FreshLabels, Label, Resting
  <2>2. Call("tick") \in Job /\ NoTimer \in Timer
    BY CallType DEF Op
  <2>. QED
    BY <2>1, <2>2 DEF Init, ThreadsOK
<1>7. HistoryOK
  BY DEF Init, HistoryOK
<1>. QED
  BY <1>1, <1>2, <1>3, <1>4, <1>5, <1>6, <1>7, IInvParts DEF PartsOK

LEMMA RestartKeeps == IInv /\ Restart => IInv'
<1>. SUFFICES ASSUME IInv, Restart PROVE IInv'
  OBVIOUS
<1>0. /\ wall \in Nat /\ crashed \in BOOLEAN
      /\ TimersOK /\ AlarmsOK /\ SessionOK /\ ClockOK /\ ThreadsOK
  BY IInvParts DEF PartsOK
<1>1. wall' \in Nat /\ crashed' \in BOOLEAN
  BY <1>0 DEF Restart
<1>2. TimersOK'
  BY NoTimersOK DEF Restart, TimersOK, Ordered
<1>3. AlarmsOK'
  BY EmptyBook DEF Restart, AlarmsOK
<1>4. SessionOK'
  <2>1. logins' = 0 /\ session' = FALSE /\ file' = file
    BY DEF Restart
  <2>2. logins' \in 0 .. MaxLogins
    BY <2>1, ClockAssumption
  <2>3. session' \in BOOLEAN
    BY <2>1, Zenon
  <2>. QED
    BY <1>0, <2>1, <2>2, <2>3 DEF SessionOK
<1>5. ClockOK'
  BY <1>0, WholeSecondsType DEF Restart, ClockOK
<1>6. ThreadsOK'
  BY FreshThreads DEF Restart
<1>7. HistoryOK'
  BY DEF Restart, HistoryOK
<1>. QED
  BY <1>1, <1>2, <1>3, <1>4, <1>5, <1>6, <1>7, AllParts, IInvPartsNext

LEMMA WallTicksKeeps == IInv /\ WallTicks => IInv'
<1>. SUFFICES ASSUME IInv, WallTicks PROVE IInv'
  OBVIOUS
<1>0. /\ wall \in Nat /\ crashed \in BOOLEAN
      /\ TimersOK /\ AlarmsOK /\ SessionOK /\ ClockOK /\ ThreadsOK
  BY IInvParts DEF PartsOK
<1>1. wall' \in Nat /\ crashed' \in BOOLEAN
  BY <1>0 DEF WallTicks
<1>2. ThreadsOK'
  BY <1>0 DEF WallTicks, ThreadsOK
<1>3. HistoryOK'
  BY IInvParts DEF WallTicks, HistoryOK
<1>. QED
  BY <1>0, <1>1, <1>2, <1>3, UnchangedParts, AllParts, IInvPartsNext DEF WallTicks

\* A step that changes nothing.
LEMMA StutterKeeps == IInv /\ UNCHANGED vars => IInv'
<1>. SUFFICES ASSUME IInv, UNCHANGED vars PROVE IInv'
  OBVIOUS
<1>0. /\ wall \in Nat /\ crashed \in BOOLEAN
      /\ TimersOK /\ AlarmsOK /\ SessionOK /\ ClockOK /\ ThreadsOK
  BY IInvParts DEF PartsOK
<1>1. wall' \in Nat /\ crashed' \in BOOLEAN
  BY <1>0 DEF vars
<1>2. ThreadsOK'
  BY <1>0 DEF vars, ThreadsOK
<1>3. HistoryOK'
  BY IInvParts DEF vars, HistoryOK
<1>. QED
  BY <1>0, <1>1, <1>2, <1>3, UnchangedParts, AllParts, IInvPartsNext DEF vars

\* The notes name alarms, and the two things that may put timers out of step.
LEMMA StepNotes ==
    ASSUME NEW t \in Thread, Step(t)
    PROVE  /\ missed' \subseteq missed \cup DOMAIN alarms
           /\ irregular' \subseteq irregular \cup {"overlap", "before1970"}
<1>1. CASE Check(t) \/ Wake(t) \/ SetStart(t) \/ SetOffset(t) \/ UpdateTime(t)
  BY <1>1 DEF Check, Wake, SetStart, SetOffset, UpdateTime, At
<1>2. CASE Loop(t) \/ LoopEnd(t) \/ Pop(t)
  BY <1>2 DEF Loop, LoopEnd, Pop, At
<1>3. CASE Fire(t)
  <2>1. missed' = missed \ {it[t].uid} /\ At(t, "fire")
    BY <1>3, Zenon DEF Fire
  <2>. QED
    BY <2>1 DEF At
<1>4. CASE Start(t) \/ Return(t) \/ FinishAdd(t) \/ NotFound(t)
  <2>1. At(t, "return") /\ UNCHANGED missed
    BY <1>4, Zenon DEF Start, Return, FinishAdd, NotFound
  <2>. QED
    BY <2>1 DEF At
<1>5. CASE FinishUpdate(t) \/ Unlist(t) \/ Arm(t) \/ NextLoaded(t) \/ FinishLogin(t)
  <2>1. UNCHANGED missed /\ \E l \in Label : At(t, l)
    <3>1. {"return", "unlist", "arm", "arming"} \subseteq Label
      BY DEF Label
    <3>. QED
      BY <1>5, <3>1 DEF FinishUpdate, Unlist, Arm, NextLoaded, FinishLogin
  <2>. QED
    BY <2>1 DEF At
<1>6. CASE ArmLoaded(t)
  <2>1. /\ At(t, "return")
        /\ \/ missed' = missed \ {job[t].uid}
           \/ missed' = missed \cup ({job[t].uid} \cap DOMAIN alarms)
    BY <1>6, Zenon DEF ArmLoaded
  <2>. QED
    BY <2>1 DEF At
<1>. QED
  BY <1>1, <1>2, <1>3, <1>4, <1>5, <1>6, Zenon DEF Step

LEMMA PageNotes ==
    ASSUME NEW t \in Thread, Page(t)
    PROVE  /\ UNCHANGED missed
           /\ irregular' \subseteq irregular \cup {"overlap", "before1970"}
<1>1. UNCHANGED missed /\ At(t, "idle")
  BY Zenon DEF Page, GetTime, SetNow, Stop, Resume, Reload, Add, SetSpeed, AddAlarm,
               DeleteAlarm, UpdateAlarm, Login, Logout
<1>. QED
  BY <1>1 DEF At

LEMMA StepKeeps ==
    ASSUME PartsOK, NEW t \in Thread, Step(t)
    PROVE  PartsOK'
<1>1. CASE Check(t) \/ Wake(t) \/ SetStart(t) \/ SetOffset(t) \/ UpdateTime(t)
  BY <1>1, ClockSteps
<1>2. CASE Loop(t) \/ LoopEnd(t) \/ Pop(t) \/ Fire(t)
  BY <1>2, TimerSteps
<1>3. CASE Start(t) \/ Return(t)
  BY <1>3, ClockCalls
<1>4. CASE FinishAdd(t) \/ NotFound(t) \/ FinishUpdate(t) \/ Unlist(t) \/ Arm(t)
  BY <1>4, AlarmSteps
<1>5. CASE NextLoaded(t) \/ ArmLoaded(t) \/ FinishLogin(t)
  BY <1>5, SessionSteps
<1>. QED
  BY <1>1, <1>2, <1>3, <1>4, <1>5, Zenon DEF Step

LEMMA PageKeeps ==
    ASSUME PartsOK, NEW t \in ApiThread, Page(t)
    PROVE  PartsOK'
<1>0. t \in Thread
  BY DEF Thread
<1>1. CASE GetTime(t) \/ SetNow(t) \/ Stop(t) \/ Resume(t) \/ Reload(t)
  BY <1>0, <1>1, ClockCalls
<1>2. CASE \E seconds \in Seconds : Add(t, seconds)
  <2>1. PICK seconds \in Seconds : Add(t, seconds)
    BY <1>2
  <2>2. seconds \in Int /\ 0 \in Int
    BY ClockAssumption
  <2>. QED
    BY <1>0, <2>1, <2>2, ClockSettings
<1>3. CASE \E s \in Speed : SetSpeed(t, s)
  <2>1. PICK s \in Speed : SetSpeed(t, s)
    BY <1>3
  <2>2. s \in Int /\ 0 \in Int
    BY ClockAssumption
  <2>. QED
    BY <1>0, <2>1, <2>2, ClockSettings
<1>4. AlarmInput \subseteq Alarm
  BY InputAssumption DEF Alarm
<1>5. CASE \E uid \in AlarmId, a \in AlarmInput : AddAlarm(t, uid, a) \/ UpdateAlarm(t, uid, a)
  BY <1>0, <1>4, <1>5, AlarmCalls
<1>6. CASE \E uid \in AlarmId : DeleteAlarm(t, uid)
  <2>1. NoAlarm \in Alarm
    BY DEF NoAlarm, Alarm
  <2>. QED
    BY <1>0, <1>6, <2>1, AlarmCalls
<1>7. CASE Login(t) \/ Logout(t)
  BY <1>0, <1>7, SessionSteps
<1>. QED
  BY <1>1, <1>2, <1>3, <1>5, <1>6, <1>7, Zenon DEF Page

LEMMA NextIInv == IInv /\ [Next]_vars => IInv'
<1>. SUFFICES ASSUME IInv, [Next]_vars PROVE IInv'
  OBVIOUS
<1>1. CASE WallTicks
  BY <1>1, WallTicksKeeps
<1>2. CASE Restart
  BY <1>2, RestartKeeps
<1>0. PartsOK /\ HistoryOK
  BY IInvParts
<1>3. CASE \E t \in Thread : Step(t)
  <2>1. PICK t \in Thread : Step(t)
    BY <1>3
  <2>2. PartsOK'
    BY <1>0, <2>1, StepKeeps
  <2>3. HistoryOK'
    <3>1. DOMAIN alarms \subseteq AlarmId
      BY <1>0, BookAlarm DEF PartsOK, AlarmsOK
    <3>. QED
      BY <1>0, <2>1, <3>1, StepNotes DEF HistoryOK
  <2>. QED
    BY <2>2, <2>3, IInvPartsNext
<1>4. CASE \E t \in ApiThread : Page(t)
  <2>1. PICK t \in ApiThread : Page(t)
    BY <1>4
  <2>2. PartsOK'
    BY <1>0, <2>1, PageKeeps
  <2>3. HistoryOK'
    BY <1>0, <2>1, PageNotes DEF HistoryOK, Thread
  <2>. QED
    BY <2>2, <2>3, IInvPartsNext
<1>5. CASE UNCHANGED vars
  BY <1>5, StutterKeeps
<1>. QED
  BY <1>1, <1>2, <1>3, <1>4, <1>5 DEF Next

-----------------------------------------------------------------------------
(* The theorems, of every interleaving of the threads. *)

LEMMA Invariant == Spec => []IInv
BY InitIInv, NextIInv, PTL DEF Spec

\* The variables keep their types, whatever the threads do to each other: no
\* thread is lost between two labels (clock.cpp, alarm.cpp, user.cpp).
THEOREM TypeCorrect == Spec => []TypeOK
<1>1. IInv => TypeOK
  BY DEF IInv
<1>. QED
  BY Invariant, <1>1, PTL

\* The timers stay in the order they are due although AddTimer, RemoveTimer
\* and updateTime run on any threads at once: the update, which looks at the
\* first timer only, misses none behind it (clock.cpp:91-164).
THEOREM TimersStaySorted == Spec => []TimersSorted
<1>1. IInv => TimersSorted
  BY DEF IInv
<1>. QED
  BY Invariant, <1>1, PTL

-----------------------------------------------------------------------------
(* The timers that every alarm has, until two threads are first under way  *)
(* at once.  Till then every thread but one is at rest, and what that one  *)
(* is about to do is all that the timers may lack.                         *)

\* A timer of u's that is due when the alarm is, or before.
Covered(u) == \E p \in Armings(u) : timerList[p].timeOut <= alarms[u].time

\* t is about to call it, or to arm it.
Coming(t, u) ==
    \/ pc[t] = "fire" /\ it[t].uid = u
    \/ pc[t] = "arming" /\ job[t].op = "login" /\ u > job[t].uid
    \/ pc[t] # "arming" /\ job[t].op = "login" /\ u >= job[t].uid

\* Where updateTime may have called timers and not set nextTimer_ yet.
InLoop == {"loop", "noTimer", "later", "pop", "fire"}

\* What t knows at its label.
Here(t) ==
    /\ pc[t] = "noTimer" => timerList = << >>
    /\ pc[t] \in {"later", "pop"} => timerList # << >> /\ it[t] = timerList[1]
    /\ pc[t] = "unlist" => job[t].op = "deleteAlarm" /\ job[t].uid \notin DOMAIN alarms
    /\ pc[t] # "arm"
    /\ pc[t] = "arming" => job[t].op = "login"

InTime(t) ==
    timerList # << >> /\ pc[t] \notin InLoop =>
        nextTimer # 0 /\ nextTimer <= timerList[1].timeOut

AllArmed(t) ==
    \A u \in DOMAIN alarms \ missed : Covered(u) \/ (pc[t] \notin Resting /\ Coming(t, u))

OthersRest(t) == \A s \in Thread : s # t => pc[s] \in Resting

Good(t) ==
    /\ OthersRest(t)
    /\ pc[t] \notin Resting => Here(t)
    /\ InTime(t) /\ AllArmed(t)

Core == ~crashed /\ Regular => \E t \in Thread : Good(t)

\* A thread that steps, and the run still regular after it, was alone.
LEMMA Alone ==
    ASSUME Core, NEW t \in Thread, NEW l, At(t, l), irregular' = {}
    PROVE  Good(t) /\ pc[t] = l /\ ~Before1970
<1>1. ~crashed /\ pc[t] = l /\ Busy \subseteq {t} /\ irregular = {} /\ ~Before1970
  BY DEF At
<1>2. PICK s \in Thread : Good(s)
  BY <1>1 DEF Core, Regular
<1>3. CASE s = t
  BY <1>1, <1>2, <1>3
<1>4. CASE s # t
  <2>1. pc[t] \in Resting /\ pc[s] \in Resting
    BY <1>1, <1>2, <1>4 DEF Good, OthersRest, Busy
  <2>2. OthersRest(t)
    BY <1>1 DEF OthersRest, Busy
  <2>3. pc[s] \notin InLoop
    BY <2>1 DEF Resting, InLoop
  <2>4. InTime(t)
    BY <1>2, <2>3 DEF Good, InTime
  <2>5. AllArmed(t)
    BY <1>2, <2>1 DEF Good, AllArmed
  <2>. QED
    BY <1>1, <2>1, <2>2, <2>4, <2>5 DEF Good
<1>. QED
  BY <1>3, <1>4

\* The others stay at rest when t moves.
LEMMA RestStays ==
    ASSUME ThreadsOK, NEW t \in Thread, OthersRest(t), NEW m, Move(t, m)
    PROVE  OthersRest(t)' /\ pc'[t] = m
BY DEF ThreadsOK, OthersRest, Move

\* An alarm stays covered while its time and its timers stay.
LEMMA CoveredStays ==
    ASSUME NEW u, Covered(u), alarms'[u] = alarms[u],
           \A p \in DOMAIN timerList : timerList[p].uid = u =>
              \E q \in DOMAIN timerList' : timerList'[q] = timerList[p]
    PROVE  Covered(u)'
<1>1. PICK p \in DOMAIN timerList :
         timerList[p].uid = u /\ timerList[p].timeOut <= alarms[u].time
  BY DEF Covered, Armings
<1>2. PICK q \in DOMAIN timerList' : timerList'[q] = timerList[p]
  BY <1>1
<1>3. q \in Armings(u)' /\ timerList'[q].timeOut <= alarms'[u].time
  BY <1>1, <1>2 DEF Armings
<1>. QED
  BY <1>3 DEF Covered

LEMMA CoveredSame ==
    ASSUME NEW u, Covered(u), UNCHANGED <<timerList, alarms>>
    PROVE  Covered(u)'
BY DEF Covered, Armings

\* A step that touches no timer and no alarm, outside the loop of updateTime.
LEMMA Passes ==
    ASSUME NEW t \in Thread, Good(t), OthersRest(t)', pc[t] \notin InLoop,
           UNCHANGED <<timerList, nextTimer, alarms, missed>>,
           pc'[t] \notin Resting => Here(t)',
           \A u \in DOMAIN alarms : pc[t] \notin Resting /\ Coming(t, u) =>
              pc'[t] \notin Resting /\ Coming(t, u)'
    PROVE  Good(t)'
<1>1. InTime(t)'
  BY DEF Good, InTime
<1>2. AllArmed(t)'
  <2>. SUFFICES ASSUME NEW u \in DOMAIN alarms \ missed
                PROVE  Covered(u)' \/ (pc'[t] \notin Resting /\ Coming(t, u)')
    BY DEF AllArmed
  <2>1. Covered(u) \/ (pc[t] \notin Resting /\ Coming(t, u))
    BY DEF Good, AllArmed
  <2>. QED
    BY <2>1, CoveredSame
<1>. QED
  BY <1>1, <1>2 DEF Good

\* list with x added to it, at position p.
Spliced(list, x, p, new) ==
    /\ p \in 1 .. Len(new) /\ new[p] = x
    /\ \A i \in 1 .. Len(new) : i # p =>
          /\ (IF i < p THEN i ELSE i - 1) \in 1 .. Len(list)
          /\ new[i] = list[IF i < p THEN i ELSE i - 1]
    /\ \A i \in 1 .. Len(list) :
          /\ (IF i < p THEN i ELSE i + 1) \in 1 .. Len(new)
          /\ new[IF i < p THEN i ELSE i + 1] = list[i]

\* InsertTimer adds a timer and moves none past another.
LEMMA InsertTimerSplices ==
    ASSUME NEW list \in Seq(Timer), NEW x \in Timer, NEW new, new = InsertTimer(list, x)
    PROVE  /\ new \in Seq(Timer) /\ Len(new) = Len(list) + 1
           /\ \E p : Spliced(list, x, p, new)
<1>. DEFINE S == {q \in 1 .. Len(list) + 1 :
                    q = Len(list) + 1 \/ list[q].timeOut > x.timeOut}
<1>1. S \subseteq Nat /\ S # {}
  <2>1. Len(list) + 1 \in S
    OBVIOUS
  <2>. QED
    BY <2>1
<1>2. Min(S) \in S
  <2>. HIDE DEF S
  <2>. QED
    BY <1>1, MinIsLeast
<1>3. PICK p \in 1 .. Len(list) + 1 : p = Min(S)
  BY <1>2
<1>4. new = InsertAt(list, p, x)
  BY <1>3 DEF InsertTimer
<1>. HIDE DEF S
<1>5. /\ new \in Seq(Timer) /\ Len(new) = Len(list) + 1
      /\ new[p] = x
      /\ \A j \in 1 .. p - 1 : new[j] = list[j]
      /\ \A j \in p .. Len(list) : new[j + 1] = list[j]
  BY <1>4, InsertAtElements
<1>6. ASSUME NEW i \in 1 .. Len(new), i # p
      PROVE  /\ (IF i < p THEN i ELSE i - 1) \in 1 .. Len(list)
             /\ new[i] = list[IF i < p THEN i ELSE i - 1]
  <2>1. CASE i < p
    BY <2>1, <1>5
  <2>2. CASE i > p
    <3>1. i - 1 \in p .. Len(list) /\ ~(i < p) /\ i - 1 \in 1 .. Len(list) /\ i = (i - 1) + 1
      BY <2>2, <1>5
    <3>2. new[(i - 1) + 1] = list[i - 1]
      BY ONLY <3>1, <1>5
    <3>. QED
      BY <3>1, <3>2
  <2>. QED
    BY <1>5, <1>6, <2>1, <2>2
<1>7. ASSUME NEW i \in 1 .. Len(list)
      PROVE  /\ (IF i < p THEN i ELSE i + 1) \in 1 .. Len(new)
             /\ new[IF i < p THEN i ELSE i + 1] = list[i]
  BY <1>5
<1>8. p \in 1 .. Len(new)
  BY <1>5
<1>9. Spliced(list, x, p, new)
  BY <1>5, <1>6, <1>7, <1>8 DEF Spliced
<1>. QED
  BY <1>5, <1>9

\* A timer that is added comes to the others; the first one is the next.
LEMMA AddTimerAdds ==
    ASSUME TimersOK, NEW x \in Timer, AddTimer(x)
    PROVE  /\ timerList' \in Seq(Timer) /\ timerList' # << >>
           /\ nextTimer' = timerList'[1].timeOut
           /\ \E q \in DOMAIN timerList' : timerList'[q] = x
           /\ \A p \in DOMAIN timerList :
                 \E q \in DOMAIN timerList' : timerList'[q] = timerList[p]
<1>1. PICK new : new = InsertTimer(timerList, x)
  OBVIOUS
<1>2. timerList' = new /\ nextTimer' = new[1].timeOut
  BY <1>1 DEF AddTimer, Armed
<1>3. timerList \in Seq(Timer)
  BY DEF TimersOK
<1>4. /\ new \in Seq(Timer) /\ Len(new) = Len(timerList) + 1
      /\ \E p : Spliced(timerList, x, p, new)
  BY <1>1, <1>3, InsertTimerSplices
<1>5. PICK k : Spliced(timerList, x, k, new)
  BY <1>4
<1>6. k \in DOMAIN new /\ new[k] = x
  BY <1>4, <1>5 DEF Spliced
<1>7. ASSUME NEW p \in DOMAIN timerList
      PROVE  \E q \in DOMAIN new : new[q] = timerList[p]
  <2>1. p \in 1 .. Len(timerList)
    BY <1>3
  <2>. DEFINE q == IF p < k THEN p ELSE p + 1
  <2>2. q \in 1 .. Len(new) /\ new[q] = timerList[p]
    BY <1>5, <2>1 DEF Spliced
  <2>. HIDE DEF q
  <2>3. q \in DOMAIN new
    BY <1>4, <2>2
  <2>. QED
    BY <2>2, <2>3
<1>8. new # << >>
  BY <1>6
<1>. QED
  BY <1>2, <1>4, <1>6, <1>7, <1>8

\* A timer that is removed leaves those of other alarms, and a nextTimer_ that is
\* that of the first one now, or of one before it.
LEMMA RemoveTimerRemoves ==
    ASSUME TimersOK, NEW u, RemoveTimer(u), ~crashed, ~crashed'
    PROVE  /\ \A p \in DOMAIN timerList : timerList[p].uid # u =>
                 \E q \in DOMAIN timerList' : timerList'[q] = timerList[p]
           /\ timerList' # << >> =>
                 \/ nextTimer' = timerList'[1].timeOut
                 \/ /\ nextTimer' = nextTimer /\ timerList # << >>
                    /\ timerList[1].timeOut <= timerList'[1].timeOut
<1>1. PICK p : p = SelectInSeq(timerList, LAMBDA x : x.uid = u)
  OBVIOUS
<1>2. p = 0 \/ (p \in 1 .. Len(timerList) /\ timerList[p].uid = u)
  <2>. DEFINE I == {i \in 1 .. Len(timerList) : timerList[i].uid = u}
  <2>1. p = IF I # {} THEN Min(I) ELSE 0
    BY <1>1 DEF SelectInSeq
  <2>2. I \subseteq Nat
    OBVIOUS
  <2>3. CASE I = {}
    BY <2>1, <2>3
  <2>4. CASE I # {}
    <3>1. Min(I) \in I
      <4>. HIDE DEF I
      <4>. QED
        BY <2>2, <2>4, MinIsLeast
    <3>. QED
      BY <2>1, <2>4, <3>1
  <2>. QED
    BY <2>3, <2>4
<1>3. CASE p = 0
  <2>1. /\ nextTimer' = (IF timerList = << >> THEN 0 ELSE timerList[1].timeOut)
        /\ timerList' = timerList
    BY <1>1, <1>3 DEF RemoveTimer
  <2>. QED
    BY <2>1
<1>4. CASE p # 0
  <2>1. timerList' = RemoveAt(timerList, p) /\ nextTimer' = nextTimer
    BY <1>1, <1>4 DEF RemoveTimer
  <2>2. p \in 1 .. Len(timerList) /\ timerList[p].uid = u /\ timerList \in Seq(Timer)
    BY <1>2, <1>4 DEF TimersOK
  <2>3. PICK new : new = RemoveAt(timerList, p)
    OBVIOUS
  <2>4. /\ new \in Seq(Timer) /\ Len(new) = Len(timerList) - 1
        /\ \A j \in 1 .. p - 1 : new[j] = timerList[j]
        /\ \A j \in p .. Len(timerList) - 1 : new[j] = timerList[j + 1]
    <3>1. timerList \in Seq(Timer) /\ p \in 1 .. Len(timerList)
      BY <2>2
    <3>. QED
      BY ONLY <3>1, <2>3, RemoveAtElements
  <2>5. ASSUME NEW i \in DOMAIN timerList, timerList[i].uid # u
        PROVE  \E q \in DOMAIN new : new[q] = timerList[i]
    <3>1. i \in 1 .. Len(timerList) /\ i # p
      BY <2>2, <2>5
    <3>2. CASE i < p
      <4>1. i \in 1 .. p - 1 /\ i \in 1 .. Len(new)
        BY <2>2, <2>4, <3>1, <3>2
      <4>2. i \in DOMAIN new /\ new[i] = timerList[i]
        BY <2>4, <4>1
      <4>. QED
        BY <4>2
    <3>3. CASE i > p
      <4>1. i - 1 \in p .. Len(timerList) - 1 /\ i - 1 \in 1 .. Len(new) /\ i = (i - 1) + 1
        BY <2>2, <2>4, <3>1, <3>3
      <4>2. i - 1 \in DOMAIN new /\ new[i - 1] = timerList[i]
        BY <2>4, <4>1
      <4>. QED
        BY <4>2
    <3>. QED
      BY <2>2, <3>1, <3>2, <3>3
  <2>6. ASSUME new # << >>
        PROVE  timerList # << >> /\ timerList[1].timeOut <= new[1].timeOut
    <3>1. PICK n \in Nat : n = Len(timerList) /\ n >= 2
      <4>1. Len(new) # 0 /\ Len(new) \in Nat /\ Len(timerList) \in Nat
        BY <2>2, <2>4, <2>6
      <4>. QED
        BY <2>4, <4>1
    <3>2. timerList # << >> /\ 1 \in DOMAIN timerList /\ 2 \in DOMAIN timerList
      BY <2>2, <3>1
    <3>3. CASE p = 1
      <4>1. 1 \in p .. Len(timerList) - 1
        BY <3>1, <3>3
      <4>2. new[1] = timerList[1 + 1]
        BY <2>4, <4>1
      <4>3. timerList[1].timeOut <= timerList[2].timeOut
        BY <3>2 DEF TimersOK, Ordered
      <4>. QED
        BY <3>2, <4>2, <4>3
    <3>4. CASE p # 1
      <4>1. 1 \in 1 .. p - 1
        BY <2>2, <3>4
      <4>2. new[1] = timerList[1]
        BY <2>4, <4>1
      <4>3. timerList[1].timeOut \in Int
        BY <2>2, <3>1, TimerFields
      <4>. QED
        BY <3>2, <4>2, <4>3
    <3>. QED
      BY <3>3, <3>4
  <2>. QED
    BY <2>1, <2>3, <2>5, <2>6
<1>. QED
  BY <1>3, <1>4

-----------------------------------------------------------------------------
(* The steps of the one thread.                                            *)

LEMMA ClockGood ==
    ASSUME IInv, Core, NEW t \in Thread, irregular' = {},
           \/ Check(t)
           \/ Wake(t)
           \/ SetStart(t)
           \/ SetOffset(t)
           \/ UpdateTime(t)
    PROVE  Good(t)'
<1>0. ThreadsOK
  BY IInvParts DEF PartsOK
<1>1. UNCHANGED <<timerList, nextTimer, alarms, missed, job, it>>
  BY DEF Check, Wake, SetStart, SetOffset, UpdateTime, timerVars, alarmVars
<1>2. PICK l \in {"check", "sleep", "setStart", "setOffset", "update"},
           m \in {"sleep", "dead", "update", "setOffset", "loop", "return"} :
         /\ At(t, l) /\ Move(t, m)
         /\ l \notin Resting => m \notin Resting
  BY DEF Check, Wake, SetStart, SetOffset, UpdateTime, Resting
<1>3. Good(t) /\ pc[t] = l
  BY <1>2, Alone
<1>4. OthersRest(t)' /\ pc'[t] = m
  BY <1>0, <1>2, <1>3, RestStays DEF Good
<1>5. Here(t)'
  BY <1>4 DEF Here
<1>6. \A u : pc[t] \notin Resting /\ Coming(t, u) => pc'[t] \notin Resting /\ Coming(t, u)'
  BY <1>1, <1>2, <1>3, <1>4 DEF Coming
<1>7. pc[t] \notin InLoop
  BY <1>3 DEF InLoop
<1>. QED
  BY <1>1, <1>3, <1>4, <1>5, <1>6, <1>7, Passes

\* The calls that begin: none but Login brings an alarm that is to be armed.
LEMMA BeginGood ==
    ASSUME IInv, Core, NEW t \in ApiThread, irregular' = {}, At(t, "idle"),
           NEW j, NEW m \in {"setStart", "update", "return"}, Begin(t, j, m),
           UNCHANGED <<timerVars, alarms, missed>>
    PROVE  Good(t)'
<1>0. ThreadsOK /\ t \in Thread
  BY IInvParts DEF PartsOK, Thread
<1>1. Good(t) /\ pc[t] = "idle"
  BY <1>0, Alone
<1>2. OthersRest(t)' /\ pc'[t] = m
  BY <1>0, <1>1, RestStays DEF Good, Begin
<1>3. Here(t)'
  BY <1>2 DEF Here
<1>4. pc[t] \in Resting /\ pc[t] \notin InLoop
  BY <1>1 DEF Resting, InLoop
<1>5. UNCHANGED <<timerList, nextTimer, alarms, missed>>
  BY DEF timerVars
<1>. QED
  BY <1>0, <1>1, <1>2, <1>3, <1>4, <1>5, Passes

LEMMA CallsGood ==
    ASSUME IInv, Core, NEW t \in ApiThread, irregular' = {}, NEW u, NEW a, NEW n,
           \/ GetTime(t) \/ SetNow(t) \/ Resume(t) \/ Reload(t)
           \/ Add(t, n) \/ SetSpeed(t, n)
           \/ AddAlarm(t, u, a) \/ UpdateAlarm(t, u, a)
    PROVE  Good(t)'
<1>1. At(t, "idle")
  BY DEF GetTime, SetNow, Resume, Reload, Add, SetSpeed, AddAlarm, UpdateAlarm
<1>2. UNCHANGED <<timerVars, alarms, missed>>
  BY DEF GetTime, SetNow, Resume, Reload, Add, SetSpeed, AddAlarm, UpdateAlarm, alarmVars
<1>3. \E j, m : m \in {"setStart", "update", "return"} /\ Begin(t, j, m)
  <2>1. ReadClock \in {"update", "return"}
    BY DEF ReadClock
  <2>. QED
    BY <2>1 DEF GetTime, SetNow, Resume, Reload, Add, SetSpeed, AddAlarm, UpdateAlarm
<1>. QED
  BY <1>1, <1>2, <1>3, BeginGood

\* pauseTime and Logout are done at once.
LEMMA AtOnceGood ==
    ASSUME IInv, Core, NEW t \in ApiThread, irregular' = {}, Stop(t) \/ Logout(t)
    PROVE  Good(t)'
<1>0. t \in Thread
  BY DEF Thread
<1>1. At(t, "idle") /\ UNCHANGED <<timerVars, alarms, missed, pc>>
  BY DEF Stop, Logout, alarmVars
<1>2. Good(t) /\ pc[t] = "idle"
  BY <1>0, <1>1, Alone
<1>3. OthersRest(t)' /\ pc'[t] \in Resting /\ pc[t] \in Resting /\ pc[t] \notin InLoop
  BY <1>1, <1>2 DEF Good, OthersRest, Resting, InLoop
<1>4. UNCHANGED <<timerList, nextTimer, alarms, missed>>
  BY <1>1 DEF timerVars
<1>. QED
  BY <1>0, <1>2, <1>3, <1>4, Passes

\* The first step of deleteAlarm: the alarm goes, its timer is still there.
LEMMA DeleteGood ==
    ASSUME IInv, Core, NEW t \in ApiThread, irregular' = {}, NEW v, DeleteAlarm(t, v)
    PROVE  Good(t)'
<1>0. ThreadsOK /\ t \in Thread
  BY IInvParts DEF PartsOK, Thread
<1>1. At(t, "idle") /\ UNCHANGED <<timerVars, missed>>
  BY DEF DeleteAlarm
<1>2. CASE v \notin DOMAIN alarms
  <2>1. Begin(t, Call("deleteAlarm"), "return") /\ UNCHANGED alarms
    BY <1>2 DEF DeleteAlarm
  <2>. QED
    BY <1>1, <2>1, BeginGood
<1>3. CASE v \in DOMAIN alarms
  <2>1. /\ Begin(t, [Call("deleteAlarm") EXCEPT !.uid = v], "unlist")
        /\ alarms' = Without(alarms, v)
    BY <1>3 DEF DeleteAlarm
  <2>2. Good(t) /\ pc[t] = "idle" /\ pc[t] \in Resting /\ pc[t] \notin InLoop
    BY <1>0, <1>1, Alone DEF Resting, InLoop
  <2>3. OthersRest(t)' /\ pc'[t] = "unlist"
    BY <1>0, <2>1, <2>2, RestStays DEF Good, Begin
  <2>4. job'[t].op = "deleteAlarm" /\ job'[t].uid = v
    BY <1>0, <2>1 DEF Begin, Call, ThreadsOK
  <2>5. DOMAIN alarms' = DOMAIN alarms \ {v} /\ \A u \in DOMAIN alarms' : alarms'[u] = alarms[u]
    BY <2>1 DEF Without
  <2>6. Here(t)'
    BY <2>3, <2>4, <2>5 DEF Here
  <2>7. UNCHANGED <<timerList, nextTimer, missed>>
    BY <1>1 DEF timerVars
  <2>8. InTime(t)'
    BY <2>2, <2>7 DEF Good, InTime
  <2>9. AllArmed(t)'
    <3>. SUFFICES ASSUME NEW u \in DOMAIN alarms' \ missed' PROVE Covered(u)'
      BY DEF AllArmed
    <3>1. Covered(u) /\ alarms'[u] = alarms[u]
      BY <2>2, <2>5, <2>7 DEF Good, AllArmed
    <3>. QED
      BY <2>7, <3>1, CoveredStays
  <2>. QED
    BY <2>3, <2>6, <2>8, <2>9 DEF Good
<1>. QED
  BY <1>2, <1>3

\* The calls that are over.
LEMMA EndsGood ==
    ASSUME IInv, Core, NEW t \in Thread, irregular' = {}, Start(t) \/ Return(t) \/ NotFound(t)
    PROVE  Good(t)'
<1>0. ThreadsOK
  BY IInvParts DEF PartsOK
<1>1. At(t, "return") /\ UNCHANGED <<timerVars, alarms, missed>>
  BY DEF Start, Return, NotFound, alarmVars
<1>2. Good(t) /\ pc[t] = "return" /\ pc[t] \notin InLoop
  BY <1>1, Alone DEF InLoop
<1>3. pc'[t] \in Resting /\ OthersRest(t)'
  <2>1. ASSUME NEW m \in Resting, Move(t, m) PROVE pc'[t] \in Resting /\ OthersRest(t)'
    BY <1>0, <1>2, <2>1, RestStays DEF Good
  <2>2. CASE Return(t) \/ NotFound(t)
    <3>1. \E m \in Resting : Move(t, m)
      BY <2>2 DEF Return, NotFound, Finish, Resting
    <3>. QED
      BY <2>1, <3>1
  <2>3. CASE Start(t)
    <3>1. CASE Move(t, "idle")
      BY <2>1, <3>1 DEF Resting
    <3>2. ASSUME NEW c \in ClockThread, pc' = [pc EXCEPT ![t] = "idle", ![c] = "check"]
          PROVE  pc'[t] \in Resting /\ OthersRest(t)'
      <4>1. c \in Thread /\ pc \in [Thread -> Label]
        BY <1>0 DEF Thread, ThreadsOK
      <4>2. \A s \in Thread : s # t => pc[s] \in Resting
        BY <1>2 DEF Good, OthersRest
      <4>3. \A s \in Thread : pc'[s] \in Resting
        BY <3>2, <4>1, <4>2 DEF Resting
      <4>. QED
        BY <4>3 DEF OthersRest
    <3>. QED
      BY <2>3, <3>1, <3>2 DEF Start
  <2>. QED
    BY <2>2, <2>3
<1>4. job[t].op # "login"
  BY DEF Start, Return, NotFound
<1>5. \A u : ~Coming(t, u)
  BY <1>2, <1>4 DEF Coming
<1>6. UNCHANGED <<timerList, nextTimer, alarms, missed>>
  BY <1>1 DEF timerVars
<1>. QED
  BY <1>2, <1>3, <1>5, <1>6, Passes

\* The loop of updateTime, up to where a timer is popped.
LEMMA LoopGood ==
    ASSUME IInv, Core, NEW t \in Thread, irregular' = {}, Loop(t)
    PROVE  Good(t)'
<1>0. ThreadsOK
  BY IInvParts DEF PartsOK
<1>1. At(t, "loop") /\ UNCHANGED <<timerVars, alarms, missed, job>>
  BY DEF Loop, alarmVars
<1>2. Good(t) /\ pc[t] = "loop"
  BY <1>1, Alone
<1>3. PICK m \in {"noTimer", "later", "pop"} :
         /\ Move(t, m)
         /\ IF m = "noTimer" THEN timerList = << >>
            ELSE timerList # << >> /\ it' = [it EXCEPT ![t] = timerList[1]]
  BY DEF Loop
<1>4. OthersRest(t)' /\ pc'[t] = m
  BY <1>0, <1>2, <1>3, RestStays DEF Good
<1>5. UNCHANGED <<timerList, nextTimer, alarms, missed>>
  BY <1>1 DEF timerVars
<1>6. Here(t)'
  <2>1. m # "noTimer" => it'[t] = timerList[1]
    BY <1>0, <1>3 DEF ThreadsOK
  <2>. QED
    BY <1>3, <1>4, <1>5, <2>1 DEF Here
<1>7. InTime(t)'
  BY <1>4 DEF InTime, InLoop
<1>8. AllArmed(t)'
  <2>. SUFFICES ASSUME NEW u \in DOMAIN alarms \ missed
                PROVE  Covered(u)' \/ (pc'[t] \notin Resting /\ Coming(t, u)')
    BY <1>5 DEF AllArmed
  <2>1. Covered(u) \/ Coming(t, u)
    BY <1>2 DEF Good, AllArmed
  <2>2. Coming(t, u) => pc'[t] \notin Resting /\ Coming(t, u)'
    BY <1>1, <1>2, <1>4 DEF Coming, Resting
  <2>. QED
    BY <1>5, <2>1, <2>2, CoveredSame
<1>. QED
  BY <1>4, <1>6, <1>7, <1>8 DEF Good

\* It ends: nextTimer_ is what its head saw, and that is still the first timer.
LEMMA LoopEndGood ==
    ASSUME IInv, Core, NEW t \in Thread, irregular' = {}, LoopEnd(t)
    PROVE  Good(t)'
<1>0. ThreadsOK /\ TimersOK
  BY IInvParts DEF PartsOK
<1>1. PICK l \in {"noTimer", "later"} :
         At(t, l) /\ (l = "later" => nextTimer' = it[t].timeOut)
  BY DEF LoopEnd
<1>2. Good(t) /\ pc[t] = l /\ ~Before1970 /\ pc[t] \notin Resting
  BY <1>1, Alone DEF Resting
<1>3. Move(t, "return") /\ UNCHANGED <<timerList, alarms, missed, job, it>>
  BY DEF LoopEnd, alarmVars
<1>4. OthersRest(t)' /\ pc'[t] = "return"
  BY <1>0, <1>2, <1>3, RestStays DEF Good
<1>5. Here(t)'
  BY <1>4 DEF Here
<1>6. InTime(t)'
  <2>. SUFFICES ASSUME timerList # << >>
                PROVE  nextTimer' # 0 /\ nextTimer' <= timerList[1].timeOut
    BY <1>3 DEF InTime
  <2>1. l = "later" /\ it[t] = timerList[1]
    BY <1>2 DEF Good, Here
  <2>2. 1 \in DOMAIN timerList /\ timerList[1].timeOut \in Int
    <3>1. 1 \in 1 .. Len(timerList) /\ timerList \in Seq(Timer)
      BY <1>0 DEF TimersOK
    <3>. QED
      BY <3>1, TimerFields
  <2>3. timerList[1].timeOut > 0
    BY <1>2, <2>2 DEF Before1970
  <2>. QED
    BY <1>1, <2>1, <2>2, <2>3
<1>7. AllArmed(t)'
  <2>. SUFFICES ASSUME NEW u \in DOMAIN alarms \ missed
                PROVE  Covered(u)' \/ (pc'[t] \notin Resting /\ Coming(t, u)')
    BY <1>3 DEF AllArmed
  <2>1. Covered(u) \/ Coming(t, u)
    BY <1>2 DEF Good, AllArmed
  <2>2. Coming(t, u) => pc'[t] \notin Resting /\ Coming(t, u)'
    BY <1>2, <1>3, <1>4 DEF Coming, Resting
  <2>. QED
    BY <1>3, <2>1, <2>2, CoveredSame
<1>. QED
  BY <1>4, <1>5, <1>6, <1>7 DEF Good

\* The timer that is popped is the one that was copied: its alarm is called next.
LEMMA PopGood ==
    ASSUME IInv, Core, NEW t \in Thread, irregular' = {}, Pop(t)
    PROVE  Good(t)'
<1>0. ThreadsOK /\ timerList \in Seq(Timer)
  BY IInvParts DEF PartsOK, TimersOK
<1>1. /\ At(t, "pop") /\ Move(t, "fire") /\ UNCHANGED <<alarms, missed, job, it>>
      /\ timerList' = IF timerList = << >> THEN << >> ELSE Tail(timerList)
  BY DEF Pop, alarmVars
<1>2. Good(t) /\ pc[t] = "pop"
  BY <1>1, Alone
<1>3. timerList # << >> /\ it[t] = timerList[1]
  BY <1>2 DEF Good, Here, Resting
<1>4. OthersRest(t)' /\ pc'[t] = "fire"
  BY <1>0, <1>1, <1>2, RestStays DEF Good
<1>5. Here(t)'
  BY <1>4 DEF Here
<1>6. InTime(t)'
  BY <1>4 DEF InTime, InLoop
<1>7. AllArmed(t)'
  <2>. SUFFICES ASSUME NEW u \in DOMAIN alarms \ missed
                PROVE  Covered(u)' \/ (pc'[t] \notin Resting /\ Coming(t, u)')
    BY <1>1 DEF AllArmed
  <2>1. Covered(u) \/ Coming(t, u)
    BY <1>2 DEF Good, AllArmed
  <2>2. Coming(t, u) => pc'[t] \notin Resting /\ Coming(t, u)'
    BY <1>1, <1>2, <1>4 DEF Coming, Resting
  <2>3. ASSUME u # it[t].uid, Covered(u) PROVE Covered(u)'
    <3>1. PICK new : new = Tail(timerList)
      OBVIOUS
    <3>2. /\ new \in Seq(Timer) /\ Len(new) = Len(timerList) - 1
          /\ \A q \in 1 .. Len(new) : new[q] = timerList[q + 1]
      BY <1>0, <1>3, <3>1
    <3>3. ASSUME NEW p \in DOMAIN timerList, timerList[p].uid = u
          PROVE  \E q \in DOMAIN new : new[q] = timerList[p]
      <4>1. p \in 1 .. Len(timerList) /\ p # 1
        BY <1>0, <1>3, <2>3, <3>3
      <4>2. p - 1 \in 1 .. Len(new) /\ p = (p - 1) + 1
        BY <1>0, <3>2, <4>1
      <4>3. new[p - 1] = timerList[p]
        BY <3>2, <4>2
      <4>4. p - 1 \in DOMAIN new
        BY <3>2, <4>2
      <4>. QED
        BY <4>3, <4>4
    <3>4. timerList' = new
      BY <1>1, <1>3, <3>1
    <3>. QED
      BY <1>1, <2>3, <3>3, <3>4, CoveredStays
  <2>4. u = it[t].uid => pc'[t] \notin Resting /\ Coming(t, u)'
    BY <1>1, <1>4 DEF Coming, Resting
  <2>. QED
    BY <2>1, <2>2, <2>3, <2>4
<1>. QED
  BY <1>4, <1>5, <1>6, <1>7 DEF Good

\* A timer that is armed for the time of its alarm covers it; the others stay
\* covered, and nextTimer_ is in time.
LEMMA ArmsAlarm ==
    ASSUME IInv, NEW t, ~Before1970', NEW u \in AlarmId \cup {NightlyId},
           NEW d \in Int, AddTimer([uid |-> u, timeOut |-> d])
    PROVE  /\ InTime(t)'
           /\ u \in DOMAIN alarms' /\ alarms'[u].time = d => Covered(u)'
           /\ \A v : Covered(v) /\ alarms'[v] = alarms[v] => Covered(v)'
<1>0. TimersOK
  BY IInvParts DEF PartsOK
<1>1. PICK x \in Timer : x = [uid |-> u, timeOut |-> d]
  BY DEF Timer
<1>2. AddTimer(x)
  BY <1>1
<1>3. /\ timerList' \in Seq(Timer) /\ timerList' # << >>
      /\ nextTimer' = timerList'[1].timeOut
  BY <1>0, <1>2, AddTimerAdds
<1>4. PICK q \in DOMAIN timerList' : timerList'[q] = x
  BY <1>0, <1>2, AddTimerAdds
<1>5. \A p \in DOMAIN timerList : \E r \in DOMAIN timerList' : timerList'[r] = timerList[p]
  BY <1>0, <1>2, AddTimerAdds
<1>6. InTime(t)'
  <2>1. PICK new : new = timerList'
    OBVIOUS
  <2>2. 1 \in DOMAIN new /\ new[1].timeOut \in Int
    <3>1. 1 \in 1 .. Len(new) /\ new \in Seq(Timer)
      BY <1>3, <2>1
    <3>. QED
      BY <3>1, TimerFields
  <2>3. ~(new[1].timeOut <= 0)
    BY <2>1, <2>2 DEF Before1970
  <2>. QED
    BY <1>3, <2>1, <2>2, <2>3 DEF InTime
<1>7. u \in DOMAIN alarms' /\ alarms'[u].time = d => Covered(u)'
  <2>. SUFFICES ASSUME alarms'[u].time = d PROVE Covered(u)'
    OBVIOUS
  <2>1. q \in Armings(u)' /\ timerList'[q].timeOut <= alarms'[u].time
    BY <1>1, <1>4 DEF Armings
  <2>. QED
    BY <2>1 DEF Covered
<1>8. \A v : Covered(v) /\ alarms'[v] = alarms[v] => Covered(v)'
  BY <1>5, CoveredStays
<1>. QED
  BY <1>6, <1>7, <1>8

\* The alarm whose timer was popped is gone or armed again for its next time.
LEMMA FireGood ==
    ASSUME IInv, Core, NEW t \in Thread, irregular' = {}, ~Before1970', Fire(t)
    PROVE  Good(t)'
<1>0. ThreadsOK /\ AlarmsOK
  BY IInvParts DEF PartsOK
<1>1. PICK w \in AlarmId \cup {NightlyId} : w = it[t].uid
  BY <1>0 DEF ThreadsOK, Timer
<1>2. /\ At(t, "fire") /\ Move(t, "loop") /\ UNCHANGED <<job, it>>
      /\ missed' = missed \ {w}
  BY <1>1 DEF Fire
<1>3. Good(t) /\ pc[t] = "fire"
  BY <1>2, Alone
<1>4. OthersRest(t)' /\ pc'[t] = "loop"
  BY <1>0, <1>2, <1>3, RestStays DEF Good
<1>5. Here(t)'
  BY <1>4 DEF Here
<1>6. InTime(t)'
  BY <1>4 DEF InTime, InLoop
<1>7. ASSUME w \in DOMAIN alarms' => Covered(w)',
             \A u \in DOMAIN alarms' : u # w =>
                u \in DOMAIN alarms /\ (Covered(u) => Covered(u)')
      PROVE  AllArmed(t)'
  <2>. SUFFICES ASSUME NEW u \in DOMAIN alarms' \ missed', u # w
                PROVE  Covered(u)' \/ (pc'[t] \notin Resting /\ Coming(t, u)')
    BY <1>7 DEF AllArmed
  <2>1. Covered(u) \/ Coming(t, u)
    BY <1>2, <1>3, <1>7 DEF Good, AllArmed
  <2>2. Coming(t, u) => pc'[t] \notin Resting /\ Coming(t, u)'
    BY <1>1, <1>2, <1>3, <1>4 DEF Coming, Resting
  <2>. QED
    BY <1>7, <2>1, <2>2
<1>8. CASE w \in DOMAIN alarms /\ alarms' = Without(alarms, w) /\ UNCHANGED timerVars
  <2>1. w \notin DOMAIN alarms' /\ \A u \in DOMAIN alarms' : u \in DOMAIN alarms /\ alarms'[u] = alarms[u]
    BY <1>8 DEF Without
  <2>2. \A u \in DOMAIN alarms' : Covered(u) => Covered(u)'
    BY <1>8, <2>1, CoveredStays DEF timerVars
  <2>. QED
    BY <1>4, <1>5, <1>6, <1>7, <2>1, <2>2 DEF Good
<1>9. CASE /\ w \in DOMAIN alarms
           /\ alarms' = With(alarms, w, NextOccurrence(alarms[w])) /\ Rearm(w, alarms[w])
  <2>1. PICK d \in Int : d = NextOccurrence(alarms[w]).time
    BY <1>0, <1>9, BookAlarm, NextOccurrenceType DEF AlarmsOK, Alarm
  <2>2. /\ w \in DOMAIN alarms' /\ alarms'[w].time = d
        /\ \A u \in DOMAIN alarms' : u # w => u \in DOMAIN alarms /\ alarms'[u] = alarms[u]
    BY <1>9, <2>1 DEF With
  <2>3. AddTimer([uid |-> w, timeOut |-> d])
    BY <1>9, <2>1 DEF Rearm
  <2>4. Covered(w)' /\ \A u \in DOMAIN alarms' : u # w => (Covered(u) => Covered(u)')
    BY <2>2, <2>3, ArmsAlarm
  <2>. QED
    BY <1>4, <1>5, <1>6, <1>7, <2>2, <2>4 DEF Good
<1>10. CASE w \notin DOMAIN alarms /\ w \in DOMAIN preAlarms /\ Rearm(w, preAlarms[w]) /\ UNCHANGED alarms
  <2>1. PICK d \in Int : d = NextOccurrence(preAlarms[w]).time
    BY <1>0, <1>10, BookAlarm, NextOccurrenceType DEF AlarmsOK, Alarm
  <2>2. AddTimer([uid |-> w, timeOut |-> d])
    BY <1>10, <2>1 DEF Rearm
  <2>3. \A u : Covered(u) => Covered(u)'
    BY <1>10, <2>2, ArmsAlarm
  <2>. QED
    BY <1>4, <1>5, <1>6, <1>7, <1>10, <2>3 DEF Good
<1>11. CASE w \notin DOMAIN alarms /\ UNCHANGED <<alarmVars, timerVars>>
  <2>1. \A u : Covered(u) => Covered(u)'
    BY <1>11, CoveredSame DEF alarmVars, timerVars
  <2>. QED
    BY <1>4, <1>5, <1>6, <1>7, <1>11, <2>1 DEF Good, alarmVars
<1>. QED
  BY <1>1, <1>8, <1>9, <1>10, <1>11, Zenon DEF Fire

\* addAlarm arms what it adds; what the map has already keeps its timer.
LEMMA FinishAddGood ==
    ASSUME IInv, Core, NEW t \in Thread, irregular' = {}, ~Before1970', FinishAdd(t)
    PROVE  Good(t)'
<1>0. ThreadsOK
  BY IInvParts DEF PartsOK
<1>1. PICK v \in AlarmId, a \in Alarm :
         v = job[t].uid /\ a = job[t].alarm /\ job[t].op = "addAlarm"
  BY <1>0 DEF FinishAdd, ThreadsOK, Job
<1>2. At(t, "return") /\ Finish(t) /\ UNCHANGED missed
  BY DEF FinishAdd
<1>3. Good(t) /\ pc[t] = "return"
  BY <1>2, Alone
<1>4. OthersRest(t)' /\ pc'[t] \in Resting
  <2>1. PICK m \in Resting : Move(t, m)
    BY <1>2 DEF Finish, Resting
  <2>. QED
    BY <1>0, <1>3, <2>1, RestStays DEF Good
<1>5. \A u \in DOMAIN alarms \ missed : Covered(u)
  BY <1>1, <1>3 DEF Good, AllArmed, Coming
<1>6. CASE UNCHANGED <<alarms, timerVars>>
  <2>1. InTime(t)'
    BY <1>3, <1>6 DEF Good, InTime, InLoop, timerVars
  <2>2. AllArmed(t)'
    BY <1>2, <1>5, <1>6, CoveredSame DEF AllArmed, timerVars
  <2>. QED
    BY <1>4, <2>1, <2>2 DEF Good
<1>7. CASE alarms' = Merge(alarms, Only(v, a)) /\ AddTimer([uid |-> v, timeOut |-> a.time])
  <2>1. /\ DOMAIN alarms' = DOMAIN alarms \cup {v}
        /\ \A u \in DOMAIN alarms : alarms'[u] = alarms[u]
        /\ v \notin DOMAIN alarms => alarms'[v] = a
    BY <1>7 DEF Merge, Only
  <2>2. a.time \in Int
    BY DEF Alarm
  <2>3. /\ InTime(t)'
        /\ v \in DOMAIN alarms' /\ alarms'[v].time = a.time => Covered(v)'
        /\ \A u : Covered(u) /\ alarms'[u] = alarms[u] => Covered(u)'
    BY <1>7, <2>2, ArmsAlarm
  <2>4. AllArmed(t)'
    <3>. SUFFICES ASSUME NEW u \in DOMAIN alarms' \ missed PROVE Covered(u)'
      BY <1>2 DEF AllArmed
    <3>1. CASE u \in DOMAIN alarms
      BY <1>5, <2>1, <2>3, <3>1
    <3>2. CASE u \notin DOMAIN alarms
      <4>1. u = v /\ alarms'[v] = a /\ v \in DOMAIN alarms'
        BY <2>1, <3>2
      <4>. QED
        BY <2>3, <4>1
    <3>. QED
      BY <3>1, <3>2
  <2>. QED
    BY <1>4, <2>3, <2>4 DEF Good
<1>. QED
  BY <1>1, <1>6, <1>7, Zenon DEF FinishAdd

\* updateAlarm is refused, as 1970 is not ahead.
LEMMA FinishUpdateGood ==
    ASSUME IInv, Core, NEW t \in Thread, irregular' = {}, FinishUpdate(t)
    PROVE  Good(t)'
<1>0. ThreadsOK /\ time \in Int
  BY IInvParts DEF PartsOK, ClockOK
<1>1. At(t, "return") /\ UNCHANGED <<timerVars, missed>> /\ job[t].op = "updateAlarm"
  BY DEF FinishUpdate
<1>2. Good(t) /\ pc[t] = "return" /\ ~Before1970
  BY <1>1, Alone
<1>3. ~(UpdatedTime > time)
  BY <1>0, <1>2 DEF Before1970, UpdatedTime
<1>4. Finish(t) /\ UNCHANGED alarms
  BY <1>3 DEF FinishUpdate
<1>5. OthersRest(t)' /\ pc'[t] \in Resting
  <2>1. PICK m \in Resting : Move(t, m)
    BY <1>4 DEF Finish, Resting
  <2>. QED
    BY <1>0, <1>2, <2>1, RestStays DEF Good
<1>6. pc[t] \notin InLoop /\ \A u : ~Coming(t, u)
  BY <1>1, <1>2 DEF Coming, InLoop
<1>7. UNCHANGED <<timerList, nextTimer, alarms, missed>>
  BY <1>1, <1>4 DEF timerVars
<1>. QED
  BY <1>2, <1>5, <1>6, <1>7, Passes

\* The timer of an alarm that is deleted is taken out of the list.
LEMMA UnlistGood ==
    ASSUME IInv, Core, NEW t \in Thread, irregular' = {}, ~Before1970', ~crashed', Unlist(t)
    PROVE  Good(t)'
<1>0. ThreadsOK /\ TimersOK /\ TimersOK'
  BY IInvParts, RemoveTimerKeeps DEF PartsOK, Unlist
<1>1. At(t, "unlist") /\ UNCHANGED <<alarms, missed>> /\ RemoveTimer(job[t].uid)
  BY DEF Unlist, alarmVars
<1>2. Good(t) /\ pc[t] = "unlist" /\ ~crashed /\ ~Before1970
  BY <1>1, Alone DEF At
<1>3. job[t].op = "deleteAlarm" /\ job[t].uid \notin DOMAIN alarms
  BY <1>2 DEF Good, Here, Resting
<1>4. OthersRest(t)' /\ pc'[t] \in Resting
  <2>1. PICK m \in Resting : Move(t, m)
    BY <1>3 DEF Unlist, Finish, Resting
  <2>. QED
    BY <1>0, <1>2, <2>1, RestStays DEF Good
<1>5. /\ \A p \in DOMAIN timerList : timerList[p].uid # job[t].uid =>
            \E q \in DOMAIN timerList' : timerList'[q] = timerList[p]
      /\ timerList' # << >> =>
            \/ nextTimer' = timerList'[1].timeOut
            \/ /\ nextTimer' = nextTimer /\ timerList # << >>
               /\ timerList[1].timeOut <= timerList'[1].timeOut
  BY <1>0, <1>1, <1>2, RemoveTimerRemoves
<1>6. InTime(t)'
  <2>. SUFFICES ASSUME timerList' # << >>
                PROVE  nextTimer' # 0 /\ nextTimer' <= timerList'[1].timeOut
    BY DEF InTime
  <2>1. PICK new : new = timerList'
    OBVIOUS
  <2>2. 1 \in DOMAIN new /\ new[1].timeOut \in Int
    <3>1. 1 \in 1 .. Len(new) /\ new \in Seq(Timer)
      BY <1>0, <2>1 DEF TimersOK
    <3>. QED
      BY <3>1, TimerFields
  <2>3. ~(new[1].timeOut <= 0)
    BY <2>1, <2>2 DEF Before1970
  <2>4. CASE nextTimer' = new[1].timeOut
    BY <2>1, <2>2, <2>3, <2>4
  <2>5. CASE /\ nextTimer' = nextTimer /\ timerList # << >>
             /\ timerList[1].timeOut <= new[1].timeOut
    <3>1. nextTimer # 0 /\ nextTimer <= timerList[1].timeOut
      BY <1>2, <2>5 DEF Good, InTime, InLoop
    <3>2. timerList[1].timeOut \in Int /\ nextTimer \in Int
      <4>1. 1 \in 1 .. Len(timerList) /\ timerList \in Seq(Timer) /\ nextTimer \in Int
        BY <1>0, <2>5 DEF TimersOK
      <4>. QED
        BY <4>1, TimerFields
    <3>. QED
      BY <2>1, <2>2, <2>5, <3>1, <3>2
  <2>. QED
    BY <1>5, <2>1, <2>4, <2>5
<1>7. AllArmed(t)'
  <2>. SUFFICES ASSUME NEW u \in DOMAIN alarms \ missed PROVE Covered(u)'
    BY <1>1 DEF AllArmed
  <2>1. Covered(u) /\ u # job[t].uid
    BY <1>2, <1>3 DEF Good, AllArmed, Coming
  <2>. QED
    BY <1>1, <1>5, <2>1, CoveredStays
<1>. QED
  BY <1>4, <1>6, <1>7 DEF Good

\* Login: every alarm it merges in is to be armed.
LEMMA LoginGood ==
    ASSUME IInv, Core, NEW t \in ApiThread, irregular' = {}, Login(t)
    PROVE  Good(t)'
<1>0. ThreadsOK /\ AlarmsOK' /\ t \in Thread
  BY IInvParts, MergeBook DEF PartsOK, Thread, Login, AlarmsOK, SessionOK
<1>1. /\ At(t, "idle") /\ Begin(t, Call("login"), "arming") /\ UNCHANGED <<timerVars, missed>>
  BY DEF Login
<1>2. Good(t) /\ pc[t] = "idle"
  BY <1>0, <1>1, Alone
<1>3. OthersRest(t)' /\ pc'[t] = "arming"
  BY <1>0, <1>1, <1>2, RestStays DEF Good, Begin
<1>4. job'[t].op = "login" /\ job'[t].uid = NightlyId
  BY <1>0, <1>1 DEF Begin, Call, ThreadsOK
<1>5. Here(t)'
  BY <1>3, <1>4 DEF Here
<1>6. InTime(t)'
  BY <1>1, <1>2 DEF Good, InTime, InLoop, timerVars
<1>7. AllArmed(t)'
  <2>. SUFFICES ASSUME NEW u \in DOMAIN alarms' PROVE pc'[t] \notin Resting /\ Coming(t, u)'
    BY DEF AllArmed
  <2>1. u \in AlarmId
    BY <1>0, BookAlarm DEF AlarmsOK
  <2>2. u > NightlyId
    BY <2>1, IdAssumption DEF NightlyId
  <2>. QED
    BY <1>3, <1>4, <2>2 DEF Coming, Resting
<1>. QED
  BY <1>3, <1>5, <1>6, <1>7 DEF Good

\* It goes on to the next identifier, or has armed them all.
LEMMA NextLoadedGood ==
    ASSUME IInv, Core, NEW t \in Thread, irregular' = {}, NextLoaded(t)
    PROVE  Good(t)'
<1>0. ThreadsOK /\ AlarmsOK
  BY IInvParts DEF PartsOK
<1>1. PICK left : left = {u \in DOMAIN alarms : u > job[t].uid}
  OBVIOUS
<1>2. PICK m \in {"update", "return"} :
         /\ At(t, "arming") /\ Move(t, m) /\ UNCHANGED <<timerVars, alarms, missed>>
         /\ job' = [job EXCEPT ![t] = IF left = {} THEN Call("nightly")
                                     ELSE [Call("login") EXCEPT !.uid = Min(left)]]
  BY <1>1, Zenon DEF NextLoaded, ReadClock, alarmVars
<1>3. Good(t) /\ pc[t] = "arming"
  BY <1>2, Alone
<1>4. OthersRest(t)' /\ pc'[t] = m
  BY <1>0, <1>2, <1>3, RestStays DEF Good
<1>5. Here(t)'
  BY <1>4 DEF Here
<1>6. UNCHANGED <<timerList, nextTimer, alarms, missed>>
  BY <1>2 DEF timerVars
<1>7. InTime(t)'
  BY <1>3, <1>6 DEF Good, InTime, InLoop
<1>8. AllArmed(t)'
  <2>. SUFFICES ASSUME NEW u \in DOMAIN alarms \ missed
                PROVE  Covered(u)' \/ (pc'[t] \notin Resting /\ Coming(t, u)')
    BY <1>6 DEF AllArmed
  <2>1. Covered(u) \/ Coming(t, u)
    BY <1>3 DEF Good, AllArmed
  <2>2. ASSUME Coming(t, u) PROVE pc'[t] \notin Resting /\ Coming(t, u)'
    <3>1. u \in left
      BY <1>1, <1>3, <2>2 DEF Coming
    <3>2. left \subseteq Nat
      BY <1>0, <1>1, BookAlarm, IdAssumption DEF AlarmsOK
    <3>3. Min(left) \in left /\ Min(left) <= u
      BY <3>1, <3>2, MinIsLeast
    <3>4. PICK k \in Nat : k = Min(left) /\ u >= k
      BY <3>1, <3>2, <3>3
    <3>5. job'[t] = [Call("login") EXCEPT !.uid = k]
      BY <1>0, <1>2, <3>1, <3>4 DEF ThreadsOK
    <3>6. job'[t].op = "login" /\ job'[t].uid = k
      BY <3>5 DEF Call
    <3>. QED
      BY <1>4, <3>4, <3>6 DEF Coming, Resting
  <2>. QED
    BY <1>6, <2>1, <2>2, CoveredSame
<1>. QED
  BY <1>4, <1>5, <1>7, <1>8 DEF Good

\* An alarm that is loaded is armed, or was overdue, or has rung and is gone.
LEMMA ArmLoadedGood ==
    ASSUME IInv, Core, NEW t \in Thread, irregular' = {}, ~Before1970', ArmLoaded(t)
    PROVE  Good(t)'
<1>0. ThreadsOK /\ AlarmsOK
  BY IInvParts DEF PartsOK
<1>1. PICK w : w = job[t].uid
  OBVIOUS
<1>2. /\ At(t, "return") /\ Move(t, "arming") /\ job[t].op = "login" /\ UNCHANGED <<alarms, job>>
      /\ \/ w \in DOMAIN alarms /\ AddTimer([uid |-> w, timeOut |-> alarms[w].time])
            /\ missed' = missed \ {w}
         \/ missed' = missed \cup ({w} \cap DOMAIN alarms) /\ UNCHANGED timerVars
  BY <1>1 DEF ArmLoaded, alarmVars
<1>3. Good(t) /\ pc[t] = "return"
  BY <1>2, Alone
<1>4. OthersRest(t)' /\ pc'[t] = "arming"
  BY <1>0, <1>2, <1>3, RestStays DEF Good
<1>5. Here(t)'
  BY <1>2, <1>4 DEF Here
<1>6. w \in AlarmId \cup {NightlyId} /\ w \in Nat
  <2>1. w \in AlarmId \cup {NightlyId}
    BY <1>0, <1>1 DEF ThreadsOK, Job
  <2>. QED
    BY <2>1, IdAssumption DEF NightlyId
<1>7. ASSUME NEW u \in DOMAIN alarms, Coming(t, u), u # w
      PROVE  pc'[t] \notin Resting /\ Coming(t, u)'
  <2>1. u >= w
    BY <1>1, <1>2, <1>3, <1>7 DEF Coming
  <2>2. u \in Nat
    BY <1>0, BookAlarm, IdAssumption DEF AlarmsOK
  <2>3. u > w
    BY <1>6, <1>7, <2>1, <2>2
  <2>. QED
    BY <1>1, <1>2, <1>4, <2>3 DEF Coming, Resting
<1>8. ASSUME InTime(t)', w \in DOMAIN alarms => w \in missed' \/ Covered(w)',
             \A u \in DOMAIN alarms \ {w} : u \in missed => u \in missed',
             \A u \in DOMAIN alarms \ {w} : Covered(u) => Covered(u)'
      PROVE  Good(t)'
  <2>1. AllArmed(t)'
    <3>. SUFFICES ASSUME NEW u \in DOMAIN alarms \ missed'
                  PROVE  Covered(u)' \/ (pc'[t] \notin Resting /\ Coming(t, u)')
      BY <1>2 DEF AllArmed
    <3>1. CASE u = w
      BY <1>8, <3>1
    <3>2. CASE u # w
      <4>1. Covered(u) \/ Coming(t, u)
        BY <1>3, <1>8, <3>2 DEF Good, AllArmed
      <4>. QED
        BY <1>7, <1>8, <3>2, <4>1
    <3>. QED
      BY <3>1, <3>2
  <2>. QED
    BY <1>4, <1>5, <1>8, <2>1 DEF Good
<1>9. CASE /\ w \in DOMAIN alarms /\ AddTimer([uid |-> w, timeOut |-> alarms[w].time])
           /\ missed' = missed \ {w}
  <2>1. PICK d \in Int : d = alarms[w].time
    BY <1>0, <1>9, BookAlarm DEF AlarmsOK, Alarm
  <2>2. /\ InTime(t)'
        /\ w \in DOMAIN alarms' /\ alarms'[w].time = d => Covered(w)'
        /\ \A u : Covered(u) /\ alarms'[u] = alarms[u] => Covered(u)'
    BY <1>6, <1>9, <2>1, ArmsAlarm
  <2>3. \A u : Covered(u) => Covered(u)'
    BY <1>2, <2>2
  <2>4. Covered(w)'
    BY <1>2, <1>9, <2>1, <2>2
  <2>5. \A u \in DOMAIN alarms \ {w} : u \in missed => u \in missed'
    BY <1>9
  <2>. QED
    BY <1>8, <2>2, <2>3, <2>4, <2>5
<1>10. CASE missed' = missed \cup ({w} \cap DOMAIN alarms) /\ UNCHANGED timerVars
  <2>1. InTime(t)'
    BY <1>3, <1>10 DEF Good, InTime, InLoop, timerVars
  <2>2. \A u : Covered(u) => Covered(u)'
    BY <1>2, <1>10, CoveredSame DEF timerVars
  <2>3. \A u \in DOMAIN alarms \ {w} : u \in missed => u \in missed'
    BY <1>10
  <2>4. w \in DOMAIN alarms => w \in missed'
    BY <1>10
  <2>. QED
    BY <1>8, <2>1, <2>2, <2>3, <2>4
<1>. QED
  BY <1>2, <1>9, <1>10

\* The nightly alarm is armed beside them.
LEMMA FinishLoginGood ==
    ASSUME IInv, Core, NEW t \in Thread, irregular' = {}, ~Before1970', FinishLogin(t)
    PROVE  Good(t)'
<1>0. ThreadsOK /\ time \in Int
  BY IInvParts DEF PartsOK, ClockOK
<1>1. /\ At(t, "return") /\ Finish(t) /\ job[t].op = "nightly" /\ UNCHANGED <<alarms, missed>>
      /\ AddTimer([uid |-> NightlyId, timeOut |-> NightTime])
  BY DEF FinishLogin
<1>2. Good(t) /\ pc[t] = "return"
  BY <1>1, Alone
<1>3. OthersRest(t)' /\ pc'[t] \in Resting
  <2>1. PICK m \in Resting : Move(t, m)
    BY <1>1 DEF Finish, Resting
  <2>. QED
    BY <1>0, <1>2, <2>1, RestStays DEF Good
<1>4. NightTime \in Int
  BY <1>0, NightlyType
<1>5. InTime(t)' /\ \A u : Covered(u) /\ alarms'[u] = alarms[u] => Covered(u)'
  BY <1>1, <1>4, ArmsAlarm
<1>6. AllArmed(t)'
  <2>. SUFFICES ASSUME NEW u \in DOMAIN alarms \ missed PROVE Covered(u)'
    BY <1>1 DEF AllArmed
  <2>1. Covered(u)
    BY <1>1, <1>2 DEF Good, AllArmed, Coming
  <2>. QED
    BY <1>1, <1>5, <2>1
<1>. QED
  BY <1>3, <1>5, <1>6 DEF Good

-----------------------------------------------------------------------------
(* What the program starts with, and every step together.                  *)

\* One thread checks whether the clock runs, and there is nothing to call.
LEMMA FreshCore ==
    /\ Init => Core
    /\ Restart => Core'
<1>1. PICK c \in ClockThread : TRUE
  BY ThreadAssumption
<1>2. ASSUME Init PROVE Core
  <2>1. (\A s \in Thread : pc[s] \in Resting) /\ timerList = << >> /\ alarms = << >>
    BY <1>2 DEF Init, FreshLabels, Resting
  <2>2. Good(c) /\ c \in Thread
    BY <2>1 DEF Good, OthersRest, InTime, AllArmed, Thread
  <2>. QED
    BY <2>2 DEF Core
<1>3. ASSUME Restart PROVE Core'
  <2>1. (\A s \in Thread : pc'[s] \in Resting) /\ timerList' = << >> /\ alarms' = << >>
    BY <1>3 DEF Restart, FreshLabels, Resting
  <2>2. Good(c)' /\ c \in Thread
    BY <2>1 DEF Good, OthersRest, InTime, AllArmed, Thread
  <2>. QED
    BY <2>2 DEF Core
<1>. QED
  BY <1>2, <1>3

LEMMA RestCore ==
    ASSUME Core, WallTicks \/ UNCHANGED vars
    PROVE  Core'
<1>1. UNCHANGED <<time, timerList, nextTimer, alarms, missed, irregular, crashed, pc, job, it>>
  BY DEF WallTicks, vars, clockVars, timerVars, alarmVars
<1>2. Regular' <=> Regular
  BY <1>1 DEF Regular, Before1970
<1>3. \A u : Covered(u)' <=> Covered(u)
  BY <1>1 DEF Covered, Armings
<1>4. \A t \in Thread : Good(t)' <=> Good(t)
  BY <1>1, <1>3 DEF Good, OthersRest, Here, InTime, AllArmed, Coming
<1>. QED
  BY <1>1, <1>2, <1>4 DEF Core

LEMMA StepCore ==
    ASSUME IInv, Core, NEW t \in Thread, Step(t)
    PROVE  Core'
<1>. SUFFICES ASSUME ~crashed', Regular' PROVE Good(t)'
  BY DEF Core
<1>0. irregular' = {} /\ ~Before1970'
  BY DEF Regular
<1>1. CASE Check(t) \/ Wake(t) \/ SetStart(t) \/ SetOffset(t) \/ UpdateTime(t)
  BY <1>0, <1>1, ClockGood
<1>2. CASE Loop(t) \/ LoopEnd(t) \/ Pop(t) \/ Fire(t)
  BY <1>0, <1>2, LoopGood, LoopEndGood, PopGood, FireGood
<1>3. CASE Start(t) \/ Return(t) \/ NotFound(t)
  BY <1>0, <1>3, EndsGood
<1>4. CASE FinishAdd(t) \/ FinishUpdate(t) \/ Unlist(t)
  BY <1>0, <1>4, FinishAddGood, FinishUpdateGood, UnlistGood
<1>5. CASE Arm(t)
  <2>1. At(t, "arm")
    BY <1>5 DEF Arm
  <2>. QED
    BY <1>0, <2>1, Alone DEF Good, Here, Resting
<1>6. CASE NextLoaded(t) \/ ArmLoaded(t) \/ FinishLogin(t)
  BY <1>0, <1>6, NextLoadedGood, ArmLoadedGood, FinishLoginGood
<1>. QED
  BY <1>1, <1>2, <1>3, <1>4, <1>5, <1>6, Zenon DEF Step

LEMMA PageCore ==
    ASSUME IInv, Core, NEW t \in ApiThread, Page(t)
    PROVE  Core'
<1>. SUFFICES ASSUME Regular' PROVE Good(t)'
  BY DEF Core, Thread
<1>0. irregular' = {}
  BY DEF Regular
<1>1. CASE GetTime(t) \/ SetNow(t) \/ Resume(t) \/ Reload(t)
  BY <1>0, <1>1, CallsGood
<1>2. CASE \/ \E seconds \in Seconds : Add(t, seconds)
           \/ \E s \in Speed : SetSpeed(t, s)
  BY <1>0, <1>2, CallsGood
<1>3. CASE \/ \E uid \in AlarmId, a \in AlarmInput : AddAlarm(t, uid, a)
           \/ \E uid \in AlarmId, a \in AlarmInput : UpdateAlarm(t, uid, a)
  BY <1>0, <1>3, CallsGood
<1>4. CASE Stop(t) \/ Logout(t)
  BY <1>0, <1>4, AtOnceGood
<1>5. CASE \E uid \in AlarmId : DeleteAlarm(t, uid)
  BY <1>0, <1>5, DeleteGood
<1>6. CASE Login(t)
  BY <1>0, <1>6, LoginGood
<1>. QED
  BY <1>1, <1>2, <1>3, <1>4, <1>5, <1>6, Zenon DEF Page

LEMMA NextCore == IInv /\ Core /\ [Next]_vars => Core'
<1>. SUFFICES ASSUME IInv, Core, [Next]_vars PROVE Core'
  OBVIOUS
<1>1. CASE Restart
  BY <1>1, FreshCore
<1>2. CASE WallTicks \/ UNCHANGED vars
  BY <1>2, RestCore
<1>3. CASE \E t \in Thread : Step(t)
  BY <1>3, StepCore
<1>4. CASE \E t \in ApiThread : Page(t)
  BY <1>4, PageCore
<1>. QED
  BY <1>1, <1>2, <1>3, <1>4 DEF Next

LEMMA CoreInvariant == Spec => []Core
BY Invariant, FreshCore, NextCore, PTL DEF Spec

\* At rest nothing is about to be called or armed.
LEMMA QuietGood ==
    ASSUME Core, Quiet, Regular
    PROVE  \E t \in Thread : Good(t) /\ pc[t] \in Resting
<1>1. PICK t \in Thread : Good(t)
  BY DEF Core, Quiet
<1>2. pc[t] \in Resting
  BY DEF Quiet, Busy
<1>. QED
  BY <1>1, <1>2

\* Whatever calls the page has made, any number of logins among them, and however
\* the clock was set: till two threads are first under way at once, nextTimer_ is
\* not later than the first timer once a call is done, so that the next update
\* that finds a timer overdue calls it (AddTimer, RemoveTimer, updateTime).
THEOREM NextTimerStaysInTime == Spec => []NextTimerNotLate
<1>1. Core => NextTimerNotLate
  <2>. SUFFICES ASSUME Core, Quiet, Regular, timerList # << >>
                PROVE  nextTimer # 0 /\ nextTimer <= timerList[1].timeOut
    BY DEF NextTimerNotLate
  <2>1. PICK t \in Thread : Good(t) /\ pc[t] \in Resting
    BY QuietGood
  <2>2. pc[t] \notin InLoop
    BY <2>1 DEF Resting, InLoop
  <2>. QED
    BY <2>1, <2>2 DEF Good, InTime
<1>. QED
  BY CoreInvariant, <1>1, PTL

\* Till then no alarm is lost from the clock either: each has a timer that is due
\* when it is, or before, unless a login found it overdue; a second login, which
\* arms them all again and brings back what was deleted, only adds timers (Login,
\* AddAlarm, AlarmTimeout, deleteAlarm).
THEOREM AlarmsKeepTimers == Spec => []AlarmsStayArmed
<1>1. Core => AlarmsStayArmed
  <2>. SUFFICES ASSUME Core, Quiet, Regular, NEW u \in DOMAIN alarms \ missed
                PROVE  \E p \in Armings(u) : timerList[p].timeOut <= alarms[u].time
    BY DEF AlarmsStayArmed
  <2>1. PICK t \in Thread : Good(t) /\ pc[t] \in Resting
    BY QuietGood
  <2>. QED
    BY <2>1 DEF Good, AllArmed, Covered
<1>. QED
  BY CoreInvariant, <1>1, PTL

-----------------------------------------------------------------------------
(* The time the clock shows, until two threads are first under way at once. *)

LEMMA Division ==
    ASSUME NEW n \in Int, NEW d \in Nat \ {0}
    PROVE  /\ n \div d \in Int
           /\ d * (n \div d) <= n /\ n <= d * (n \div d) + (d - 1)
OBVIOUS

\* A number of times d leaves nothing over.
LEMMA NextMultiple ==
    ASSUME NEW p \in Int, NEW q \in Int, NEW d \in Nat \ {0}, p > q
    PROVE  d * p >= d * q + d
OBVIOUS

\* What a time loses when it is truncated, and that it loses it towards 0.
LEMMA TruncatedLoses ==
    ASSUME NEW x \in Int, NEW d \in Nat \ {0}
    PROVE  \E r \in -(d - 1) .. d - 1 :
              /\ d * Truncated(x, d) = x - r
              /\ x >= 0 => r >= 0
              /\ x < 0 => r <= 0
<1>1. CASE x >= 0
  <2>1. PICK q \in Int : q = x \div d
    OBVIOUS
  <2>2. PICK m \in Int : m = d * q
    OBVIOUS
  <2>3. m <= x /\ x <= m + (d - 1)
    BY <2>1, <2>2, Division
  <2>4. Truncated(x, d) = q
    BY <1>1, <2>1 DEF Truncated
  <2>5. x - m \in -(d - 1) .. d - 1 /\ x - m >= 0 /\ m = x - (x - m)
    BY <2>3
  <2>. QED
    BY <1>1, <2>2, <2>4, <2>5
<1>2. CASE x < 0
  <2>1. PICK q \in Int : q = (-x) \div d
    OBVIOUS
  <2>2. PICK m \in Int : m = d * q
    OBVIOUS
  <2>3. m <= -x /\ -x <= m + (d - 1)
    BY <2>1, <2>2, Division
  <2>4. Truncated(x, d) = -q
    BY <1>2, <2>1 DEF Truncated
  <2>5. d * (-q) = -m
    BY <2>2
  <2>6. x + m \in -(d - 1) .. d - 1 /\ x + m <= 0 /\ -m = x - (x + m)
    BY <2>3
  <2>. QED
    BY <1>2, <2>4, <2>5, <2>6
<1>. QED
  BY <1>1, <1>2

\* Two times that are truncated keep their order, and their distance but for one
\* fraction.
LEMMA TruncatedTwice ==
    ASSUME NEW x \in Int, NEW y \in Int, y <= x, NEW d \in Nat \ {0}
    PROVE  /\ Truncated(y, d) <= Truncated(x, d)
           /\ d * (Truncated(x, d) - Truncated(y, d)) <= (x - y) + (d - 1)
<1>1. PICK p \in Int : p = Truncated(x, d)
  BY TruncatedType
<1>2. PICK q \in Int : q = Truncated(y, d)
  BY TruncatedType
<1>3. PICK r \in -(d - 1) .. d - 1 : d * p = x - r /\ (x >= 0 => r >= 0) /\ (x < 0 => r <= 0)
  BY <1>1, TruncatedLoses
<1>4. PICK s \in -(d - 1) .. d - 1 : d * q = y - s /\ (y >= 0 => s >= 0) /\ (y < 0 => s <= 0)
  BY <1>2, TruncatedLoses
<1>5. PICK m \in Int : m = d * p
  OBVIOUS
<1>6. PICK n \in Int : n = d * q
  OBVIOUS
<1>7. d * (p - q) = m - n
  BY <1>5, <1>6
<1>8. m - n <= (x - y) + (d - 1)
  BY <1>3, <1>4, <1>5, <1>6
<1>9. q <= p
  <2>. SUFFICES ASSUME q > p PROVE FALSE
    OBVIOUS
  <2>1. n >= m + d
    BY <1>5, <1>6, NextMultiple
  <2>2. m = x - r /\ n = y - s
    BY <1>3, <1>4, <1>5, <1>6
  <2>. QED
    BY <2>1, <2>2, <1>3, <1>4
<1>. QED
  BY <1>1, <1>2, <1>7, <1>8, <1>9

LEMMA TruncatedExact ==
    ASSUME NEW n \in Int, NEW d \in Nat \ {0}
    PROVE  n * d \in Int /\ Truncated(n * d, d) = n
<1>1. PICK x \in Int : x = n * d
  OBVIOUS
<1>2. PICK p \in Int : p = Truncated(x, d)
  BY TruncatedType
<1>3. PICK r \in -(d - 1) .. d - 1 : d * p = x - r
  BY <1>2, TruncatedLoses
<1>4. x = d * n
  BY <1>1
<1>5. ~(p > n)
  <2>. SUFFICES ASSUME p > n PROVE FALSE
    OBVIOUS
  <2>1. d * p >= d * n + d
    BY NextMultiple
  <2>2. x - r >= x + d
    BY <1>3, <1>4, <2>1
  <2>. QED
    BY <2>2
<1>6. ~(n > p)
  <2>. SUFFICES ASSUME n > p PROVE FALSE
    OBVIOUS
  <2>1. d * n >= d * p + d
    BY NextMultiple
  <2>2. x >= x - r + d
    BY <1>3, <1>4, <2>1
  <2>. QED
    BY <2>2
<1>. QED
  BY <1>1, <1>2, <1>5, <1>6

\* How far a clock runs in up to m ticks at speed s.
LEMMA RunsAtSpeed ==
    ASSUME NEW k \in Nat, NEW m \in Nat, k <= m, NEW s \in Int
    PROVE  /\ k * s \in Int /\ Magnitude(s) * m \in Int
           /\ Magnitude(k * s) <= Magnitude(s) * m
           /\ s >= 0 => k * s >= 0
<1>1. CASE s >= 0
  <2>1. k * s >= 0 /\ k * s <= s * m
    BY <1>1
  <2>. QED
    BY <1>1, <2>1 DEF Magnitude
<1>2. CASE s < 0
  <2>1. PICK r \in Nat : r = -s
    BY <1>2
  <2>2. k * r >= 0 /\ k * r <= r * m
    BY <2>1
  <2>3. k * s = -(k * r)
    BY <2>1
  <2>. QED
    BY <1>2, <2>1, <2>2, <2>3 DEF Magnitude
<1>. QED
  BY <1>1, <1>2

\* The clock's face when the wall clock shows w, in ticks.
FaceAt(w) ==
    startTime * TicksPerSecond + (w - startTime * TicksPerSecond) * speed
                               + offset * TicksPerSecond

\* The clock shows what it did when it last looked at the wall clock.
Settled == time = Truncated(FaceAt(shownAt), TicksPerSecond)

\* Some calls move the clock; the others set it to the time it showed, from a
\* start that is less than a second before they did.
Moves == {"nextSeconds", "backToNow", "sysInit"}
StartIsRecent == shownAt - startTime * TicksPerSecond <= TicksPerSecond - 1

Adjusting(t) ==
    \/ pc[t] = "setStart" /\ (job[t].op \notin Moves => job[t].to = time)
    \/ /\ pc[t] = "setOffset"
       /\ job[t].op \notin Moves => job[t].to = time /\ StartIsRecent
    \/ /\ pc[t] = "update"
       /\ job[t].op \notin Moves => offset = time - startTime /\ StartIsRecent

ClockKept ==
    /\ shownAt <= wall /\ startTime * TicksPerSecond <= wall
    /\ \/ Settled /\ \A t \in Thread : pc[t] \notin {"setStart", "setOffset"}
       \/ \E t \in ApiThread : Adjusting(t)

ClockInv == ~crashed /\ "overlap" \notin irregular => ClockKept

\* A thread that steps was alone, if none has ever not been.
LEMMA NoOverlap ==
    ASSUME NEW t \in Thread, NEW l, At(t, l), "overlap" \notin irregular'
    PROVE  /\ ~crashed /\ pc[t] = l /\ "overlap" \notin irregular
           /\ \A s \in Thread : s # t => pc[s] \in Resting
<1>1. ~crashed /\ pc[t] = l /\ Busy \subseteq {t} /\ "overlap" \notin irregular
  BY DEF At
<1>. QED
  BY <1>1 DEF Busy

\* When no call is setting the clock it is settled.
LEMMA SettledNow ==
    ASSUME ClockInv, NEW t \in Thread, NEW l, At(t, l), "overlap" \notin irregular',
           l \notin {"setStart", "setOffset", "update"}
    PROVE  /\ ClockKept /\ Settled
           /\ \A s \in Thread : pc[s] \notin {"setStart", "setOffset"}
<1>1. /\ ~crashed /\ pc[t] = l /\ "overlap" \notin irregular
      /\ \A s \in Thread : s # t => pc[s] \in Resting
  BY NoOverlap
<1>2. ASSUME NEW s \in ApiThread, Adjusting(s) PROVE FALSE
  <2>1. s \in Thread /\ pc[s] \in {"setStart", "setOffset", "update"}
    BY <1>2 DEF Adjusting, Thread
  <2>. QED
    BY <1>1, <2>1 DEF Resting
<1>. QED
  BY <1>1, <1>2 DEF ClockInv, ClockKept

\* Who is setting the clock is the one that moves.
LEMMA SettingNow ==
    ASSUME ClockInv, NEW t \in Thread, NEW l, At(t, l), "overlap" \notin irregular',
           l \in {"setStart", "setOffset"}
    PROVE  ClockKept /\ t \in ApiThread /\ Adjusting(t)
<1>1. /\ ~crashed /\ pc[t] = l /\ "overlap" \notin irregular
      /\ \A s \in Thread : s # t => pc[s] \in Resting
  BY NoOverlap
<1>2. PICK s \in ApiThread : Adjusting(s)
  BY <1>1 DEF ClockInv, ClockKept
<1>3. s \in Thread /\ pc[s] \in {"setStart", "setOffset", "update"}
  BY <1>2 DEF Adjusting, Thread
<1>4. s = t
  BY <1>1, <1>3 DEF Resting
<1>. QED
  BY <1>1, <1>2, <1>4 DEF ClockInv

\* A step that has nothing to do with the time: every step is one but those of
\* SetTime, SetNow and updateTime, and the calls that set the clock.
Untimed(t) ==
    /\ \E l : At(t, l) /\ l \notin {"setStart", "setOffset", "update"}
    /\ UNCHANGED <<wall, shownAt, time, startTime, offset, speed>>
    /\ \A s \in Thread : pc'[s] = pc[s] \/ pc'[s] \notin {"setStart", "setOffset"}

LEMMA UntimedKeeps ==
    ASSUME ClockInv, NEW t \in Thread, Untimed(t)
    PROVE  ClockInv'
<1>. SUFFICES ASSUME "overlap" \notin irregular' PROVE ClockKept'
  BY DEF ClockInv
<1>1. PICK l : At(t, l) /\ l \notin {"setStart", "setOffset", "update"}
  BY DEF Untimed
<1>2. ClockKept /\ Settled /\ \A s \in Thread : pc[s] \notin {"setStart", "setOffset"}
  BY <1>1, SettledNow
<1>3. Settled' <=> Settled
  BY DEF Settled, FaceAt, Untimed
<1>. QED
  BY <1>2, <1>3 DEF ClockKept, Untimed

\* Where a thread goes that does not go to set the clock.
LEMMA MovesUntimed ==
    ASSUME ThreadsOK, NEW t \in Thread, NEW m, m \notin {"setStart", "setOffset"},
           pc' = [pc EXCEPT ![t] = m]
    PROVE  \A s \in Thread : pc'[s] = pc[s] \/ pc'[s] \notin {"setStart", "setOffset"}
BY DEF ThreadsOK

LEMMA UntimedSteps ==
    ASSUME ThreadsOK, NEW t \in Thread,
           \/ Check(t) \/ Wake(t) \/ Loop(t) \/ LoopEnd(t) \/ Pop(t) \/ Fire(t)
           \/ Start(t) \/ Return(t)
           \/ FinishAdd(t) \/ NotFound(t) \/ FinishUpdate(t) \/ Unlist(t) \/ Arm(t)
           \/ NextLoaded(t) \/ ArmLoaded(t) \/ FinishLogin(t)
    PROVE  Untimed(t)
<1>. DEFINE Labels == {"sleep", "dead", "update", "noTimer", "later", "pop", "return",
                       "fire", "loop", "check", "idle", "arm", "arming", "unlist"}
<1>1. ASSUME ~Start(t) PROVE \E m \in Labels : pc' = [pc EXCEPT ![t] = m]
  <2>1. CASE Check(t) \/ Wake(t)
    BY <2>1 DEF Check, Wake, Move
  <2>2. CASE Loop(t)
    BY <2>2 DEF Loop, Move
  <2>3. CASE LoopEnd(t) \/ Pop(t) \/ Fire(t)
    BY <2>3 DEF LoopEnd, Pop, Fire, Move
  <2>4. CASE Finish(t)
    BY <2>4 DEF Finish, Move
  <2>5. CASE FinishUpdate(t) \/ Unlist(t)
    BY <2>4, <2>5 DEF FinishUpdate, Unlist, Move
  <2>6. CASE Return(t) \/ FinishAdd(t) \/ NotFound(t) \/ Arm(t) \/ FinishLogin(t)
    BY <2>4, <2>6 DEF Return, FinishAdd, NotFound, Arm, FinishLogin
  <2>7. CASE NextLoaded(t) \/ ArmLoaded(t)
    BY <2>7 DEF NextLoaded, ArmLoaded, ReadClock, Move
  <2>. QED
    BY <1>1, <2>1, <2>2, <2>3, <2>5, <2>6, <2>7
<1>2. \A s \in Thread : pc'[s] = pc[s] \/ pc'[s] \notin {"setStart", "setOffset"}
  <2>1. CASE Start(t)
    BY <2>1 DEF Start, Move, ThreadsOK
  <2>2. CASE ~Start(t)
    <3>1. PICK m \in Labels : pc' = [pc EXCEPT ![t] = m]
      BY <1>1, <2>2
    <3>. QED
      BY <3>1, MovesUntimed
  <2>. QED
    BY <2>1, <2>2
<1>3. \E l : At(t, l) /\ l \notin {"setStart", "setOffset", "update"}
  <2>1. PICK l \in {"check", "sleep", "loop", "noTimer", "later", "pop", "fire", "return",
                    "unlist", "arm", "arming"} : At(t, l)
    BY DEF Check, Wake, Loop, LoopEnd, Pop, Fire, Start, Return, FinishAdd, NotFound,
           FinishUpdate, Unlist, Arm, NextLoaded, ArmLoaded, FinishLogin
  <2>. QED
    BY <2>1
<1>4. UNCHANGED <<wall, shownAt, time, startTime, offset, speed>>
  BY DEF Check, Wake, Loop, LoopEnd, Pop, Fire, Start, Return, FinishAdd, NotFound,
         FinishUpdate, Unlist, Arm, NextLoaded, ArmLoaded, FinishLogin, clockVars
<1>. QED
  BY <1>2, <1>3, <1>4 DEF Untimed

LEMMA UntimedCalls ==
    ASSUME ThreadsOK, NEW t \in Thread, NEW u, NEW a,
           \/ GetTime(t) \/ Stop(t) \/ Login(t) \/ Logout(t)
           \/ AddAlarm(t, u, a) \/ DeleteAlarm(t, u) \/ UpdateAlarm(t, u, a)
    PROVE  Untimed(t)
<1>1. At(t, "idle")
  BY DEF GetTime, Stop, Login, Logout, AddAlarm, DeleteAlarm, UpdateAlarm
<1>2. UNCHANGED <<wall, shownAt, time, startTime, offset, speed>>
  BY DEF GetTime, Stop, Login, Logout, AddAlarm, DeleteAlarm, UpdateAlarm, clockVars
<1>3. \/ pc' = pc
      \/ \E m \in {"update", "return", "arming", "unlist"} : pc' = [pc EXCEPT ![t] = m]
  BY DEF GetTime, Stop, Login, Logout, AddAlarm, DeleteAlarm, UpdateAlarm, ReadClock, Begin, Move
<1>4. \A s \in Thread : pc'[s] = pc[s] \/ pc'[s] \notin {"setStart", "setOffset"}
  <2>1. CASE pc' = pc
    BY <2>1
  <2>2. CASE pc' # pc
    <3>1. PICK m \in {"update", "return", "arming", "unlist"} : pc' = [pc EXCEPT ![t] = m]
      BY <1>3, <2>2
    <3>. QED
      BY <3>1, MovesUntimed
  <2>. QED
    BY <2>1, <2>2
<1>. QED
  BY <1>1, <1>2, <1>4 DEF Untimed

\* Numbers, so that the steps below can reckon with them; start is startTime_ in
\* ticks.
Numbers(start) ==
    /\ wall \in Nat /\ shownAt \in Nat /\ startTime \in Nat /\ speed \in Int
    /\ time \in Int /\ offset \in Int
    /\ start \in Nat /\ start = startTime * TicksPerSecond
    /\ TicksPerSecond \in Nat \ {0}

LEMMA IInvNumbers == IInv => Numbers(startTime * TicksPerSecond)
BY IInvParts, ClockAssumption DEF PartsOK, ClockOK, Numbers

LEMMA FaceType ==
    ASSUME NEW start, Numbers(start), NEW w \in Int
    PROVE  /\ FaceAt(w) \in Int
           /\ FaceAt(w) = start + (w - start) * speed + offset * TicksPerSecond
<1>1. (w - start) * speed \in Int /\ offset * TicksPerSecond \in Int
  BY DEF Numbers
<1>. QED
  BY <1>1 DEF Numbers, FaceAt

\* What an update goes on from, and for how many ticks: from its last look at the
\* wall clock, or from the start that a call has set.
GoesOn ==
    \E y \in Int, k \in Nat :
       /\ time = Truncated(y, TicksPerSecond)
       /\ time' = Truncated(y + k * speed, TicksPerSecond)
       /\ k <= (wall - shownAt) + (TicksPerSecond - 1)

LEMMA UpdateGoesOn ==
    ASSUME IInv, ClockInv, NEW t \in Thread, UpdateTime(t), "overlap" \notin irregular',
           \A s \in ApiThread : job[s].op \notin Moves
    PROVE  GoesOn
<1>0. PICK start : Numbers(start) /\ start = startTime * TicksPerSecond
  BY IInvNumbers
<1>1. At(t, "update") /\ time' = ClockFace
  BY DEF UpdateTime
<1>2. /\ ~crashed /\ pc[t] = "update" /\ ClockKept
      /\ \A s \in Thread : s # t => pc[s] \in Resting
  BY <1>1, NoOverlap DEF ClockInv
<1>3. shownAt <= wall /\ start <= wall
  BY <1>0, <1>2 DEF ClockKept
<1>4. time' = Truncated(FaceAt(wall), TicksPerSecond)
  BY <1>1, Zenon DEF ClockFace, FaceAt
<1>5. CASE Settled
  <2>1. PICK k \in Nat : k = wall - shownAt
    BY <1>0, <1>3 DEF Numbers
  <2>2. PICK y \in Int : y = FaceAt(shownAt)
    BY <1>0, FaceType DEF Numbers
  <2>3. FaceAt(wall) = y + k * speed
    <3>1. /\ FaceAt(wall) = start + (wall - start) * speed + offset * TicksPerSecond
          /\ y = start + (shownAt - start) * speed + offset * TicksPerSecond
      BY <1>0, <2>2, FaceType DEF Numbers
    <3>2. (wall - start) * speed = (shownAt - start) * speed + k * speed
      BY <1>0, <2>1 DEF Numbers
    <3>3. /\ (wall - start) * speed \in Int /\ (shownAt - start) * speed \in Int
          /\ k * speed \in Int /\ offset * TicksPerSecond \in Int
      BY <1>0 DEF Numbers
    <3>. QED
      BY <1>0, <3>1, <3>2, <3>3 DEF Numbers
  <2>4. time = Truncated(y, TicksPerSecond)
    BY <1>5, <2>2 DEF Settled
  <2>5. k <= (wall - shownAt) + (TicksPerSecond - 1)
    BY <1>0, <2>1 DEF Numbers
  <2>. QED
    BY <1>4, <2>3, <2>4, <2>5 DEF GoesOn
<1>6. ASSUME NEW s \in ApiThread, Adjusting(s) PROVE GoesOn
  <2>1. s = t
    BY <1>2, <1>6 DEF Adjusting, Thread, Resting
  <2>2. offset = time - startTime /\ StartIsRecent
    BY <1>2, <1>6, <2>1 DEF Adjusting
  <2>3. PICK k \in Nat : k = wall - start
    BY <1>0, <1>3 DEF Numbers
  <2>4. PICK y \in Int : y = time * TicksPerSecond
    BY <1>0 DEF Numbers
  <2>5. FaceAt(wall) = y + k * speed
    <3>1. FaceAt(wall) = start + k * speed + offset * TicksPerSecond
      BY <1>0, <2>3, FaceType DEF Numbers
    <3>2. offset * TicksPerSecond = y - start
      BY <1>0, <2>2, <2>4 DEF Numbers
    <3>3. k * speed \in Int
      BY <1>0 DEF Numbers
    <3>. QED
      BY <1>0, <3>1, <3>2, <3>3 DEF Numbers
  <2>6. time = Truncated(y, TicksPerSecond)
    BY <1>0, <2>4, TruncatedExact DEF Numbers
  <2>7. k <= (wall - shownAt) + (TicksPerSecond - 1)
    BY <1>0, <2>2, <2>3 DEF Numbers, StartIsRecent
  <2>. QED
    BY <1>4, <2>5, <2>6, <2>7 DEF GoesOn
<1>. QED
  BY <1>2, <1>5, <1>6 DEF ClockKept

\* The update leaves the clock settled.
LEMMA UpdateKeeps ==
    ASSUME IInv, ClockInv, NEW t \in Thread, UpdateTime(t)
    PROVE  ClockInv'
<1>. SUFFICES ASSUME "overlap" \notin irregular' PROVE ClockKept'
  BY DEF ClockInv
<1>0. PICK start : Numbers(start) /\ start = startTime * TicksPerSecond
  BY IInvNumbers
<1>1. /\ At(t, "update") /\ time' = ClockFace /\ shownAt' = wall
      /\ UNCHANGED <<wall, startTime, offset, speed>>
  BY DEF UpdateTime
<1>2. ClockKept /\ \A s \in Thread : s # t => pc[s] \in Resting
  BY <1>1, NoOverlap DEF ClockInv
<1>3. Settled'
  BY <1>1, Zenon DEF Settled, FaceAt, ClockFace
<1>4. \A s \in Thread : pc'[s] \notin {"setStart", "setOffset"}
  <2>1. pc' = [pc EXCEPT ![t] = "loop"] \/ pc' = [pc EXCEPT ![t] = "return"]
    BY DEF UpdateTime, Move
  <2>2. pc \in [Thread -> Label]
    BY IInvParts DEF PartsOK, ThreadsOK
  <2>. QED
    BY <1>2, <2>1, <2>2 DEF Resting
<1>5. shownAt' <= wall' /\ startTime' * TicksPerSecond <= wall'
  BY <1>0, <1>1, <1>2 DEF ClockKept, Numbers
<1>. QED
  BY <1>3, <1>4, <1>5 DEF ClockKept

\* A whole second begins less than a second before what is left of it.
LEMMA StartIsNear ==
    ASSUME wall \in Nat
    PROVE  /\ WholeSeconds * TicksPerSecond <= wall
           /\ wall - WholeSeconds * TicksPerSecond <= TicksPerSecond - 1
<1>1. PICK q \in Nat : q = WholeSeconds
  BY WholeSecondsType
<1>2. PICK d \in Nat \ {0} : d = TicksPerSecond
  BY ClockAssumption
<1>3. PICK m \in Int : m = d * q
  OBVIOUS
<1>4. m <= wall /\ wall <= m + (d - 1)
  BY <1>1, <1>2, <1>3, Division DEF WholeSeconds
<1>5. m = q * d
  BY <1>3
<1>6. wall - m <= d - 1
  BY <1>4
<1>. QED
  BY <1>1, <1>2, <1>4, <1>5, <1>6

\* SetTime and SetNow, statement by statement.
LEMMA SettingKeeps ==
    ASSUME IInv, ClockInv, NEW t \in Thread, SetStart(t) \/ SetOffset(t)
    PROVE  ClockInv'
<1>. SUFFICES ASSUME "overlap" \notin irregular' PROVE ClockKept'
  BY DEF ClockInv
<1>0. PICK start : Numbers(start) /\ start = startTime * TicksPerSecond
  BY IInvNumbers
<1>1. PICK l \in {"setStart", "setOffset"} : At(t, l) /\ pc[t] = l
  BY DEF SetStart, SetOffset, At
<1>2. ClockKept /\ t \in ApiThread /\ Adjusting(t)
  BY <1>1, SettingNow
<1>3. UNCHANGED <<wall, shownAt, time, speed, job>>
  BY DEF SetStart, SetOffset
<1>4. shownAt <= wall /\ startTime * TicksPerSecond <= wall
  BY <1>2 DEF ClockKept
<1>5. pc \in [Thread -> Label] /\ shownAt \in Nat /\ wall \in Nat
  BY IInvParts, <1>0 DEF PartsOK, ThreadsOK, Numbers
<1>6. startTime' * TicksPerSecond <= wall' /\ Adjusting(t)'
  <2>1. CASE SetStart(t)
    <3>1. pc[t] = "setStart" /\ startTime' = WholeSeconds /\ pc'[t] = "setOffset"
      BY <1>5, <2>1 DEF SetStart, At, Move
    <3>2. startTime' * TicksPerSecond <= wall'
      BY <1>3, <1>5, <3>1, StartIsNear
    <3>3. StartIsRecent'
      <4>1. PICK m \in Int : m = startTime' * TicksPerSecond
        BY <1>5, <3>1, WholeSecondsType, ClockAssumption
      <4>2. wall - m <= TicksPerSecond - 1
        BY <1>5, <3>1, <4>1, StartIsNear
      <4>3. shownAt - m <= TicksPerSecond - 1
        BY <1>4, <1>5, <4>2, ClockAssumption
      <4>. QED
        BY <1>3, <4>1, <4>3 DEF StartIsRecent
    <3>4. job'[t].op \notin Moves => job'[t].to = time'
      BY <1>2, <1>3, <3>1 DEF Adjusting
    <3>. QED
      BY <3>1, <3>2, <3>3, <3>4 DEF Adjusting
  <2>2. CASE SetOffset(t)
    <3>1. /\ pc[t] = "setOffset" /\ startTime' = startTime /\ pc'[t] = "update"
          /\ job[t].op \notin Moves => offset' = job[t].to - startTime
      BY <1>5, <2>2 DEF SetOffset, At, Move, NewOffset, Moves
    <3>2. job[t].op \notin Moves => job[t].to = time /\ StartIsRecent
      BY <1>2, <3>1 DEF Adjusting
    <3>3. StartIsRecent' <=> StartIsRecent
      BY <1>3, <3>1 DEF StartIsRecent
    <3>. QED
      BY <1>3, <1>4, <3>1, <3>2, <3>3 DEF Adjusting
  <2>. QED
    BY <2>1, <2>2
<1>. QED
  BY <1>2, <1>3, <1>4, <1>6 DEF ClockKept

\* The calls that set the clock begin.
LEMMA SettingCallsKeep ==
    ASSUME IInv, ClockInv, NEW t \in ApiThread,
           \/ SetNow(t) \/ Resume(t) \/ Reload(t)
           \/ \E n \in Seconds : Add(t, n)
           \/ \E s \in Speed : SetSpeed(t, s)
    PROVE  ClockInv'
<1>. SUFFICES ASSUME "overlap" \notin irregular' PROVE ClockKept'
  BY DEF ClockInv
<1>0. t \in Thread /\ pc \in [Thread -> Label] /\ job \in [Thread -> Job]
  BY IInvParts DEF PartsOK, ThreadsOK, Thread
<1>1. At(t, "idle")
  BY DEF SetNow, Resume, Reload, Add, SetSpeed
<1>2. ClockKept
  BY <1>0, <1>1, SettledNow
<1>3. UNCHANGED <<wall, shownAt, time, startTime>>
  BY DEF SetNow, Resume, Reload, Add, SetSpeed, clockVars
<1>4. PICK j, m :
         /\ Begin(t, j, m)
         /\ \/ m = "setStart" /\ (j.op \notin Moves => j.to = time)
            \/ m = "update" /\ j.op \in Moves
  BY DEF SetNow, Resume, Reload, Add, SetSpeed, Call, Moves
<1>5. pc'[t] = m /\ job'[t] = j
  BY <1>0, <1>4 DEF Begin, Move
<1>6. Adjusting(t)'
  BY <1>3, <1>4, <1>5 DEF Adjusting
<1>. QED
  BY <1>2, <1>3, <1>6 DEF ClockKept

LEMMA FreshClock ==
    /\ Init => ClockInv
    /\ IInv /\ Restart => ClockInv'
<1>1. ASSUME Init PROVE ClockInv
  <2>1. \A t \in Thread : pc[t] \notin {"setStart", "setOffset"}
    BY <1>1 DEF Init, FreshLabels
  <2>2. /\ wall \in Nat /\ shownAt = wall /\ time = WholeSeconds /\ startTime = WholeSeconds
        /\ offset = 0 /\ speed = 1
    BY <1>1, ClockAssumption DEF Init
  <2>3. PICK w \in Nat, d \in Nat \ {0}, q \in Nat :
          w = wall /\ d = TicksPerSecond /\ q = WholeSeconds
    BY <2>2, WholeSecondsType, ClockAssumption
  <2>4. PICK m \in Int : m = q * d
    OBVIOUS
  <2>5. FaceAt(shownAt) = m + (w - m) * 1 + 0 * d
    BY <2>2, <2>3, <2>4 DEF FaceAt
  <2>6. FaceAt(shownAt) = w
    BY <2>5
  <2>7. Truncated(w, d) = w \div d
    BY DEF Truncated
  <2>8. Settled
    BY <2>2, <2>3, <2>6, <2>7 DEF Settled, WholeSeconds
  <2>9. shownAt <= wall /\ startTime * TicksPerSecond <= wall
    BY <2>2, StartIsNear
  <2>. QED
    BY <2>1, <2>8, <2>9 DEF ClockInv, ClockKept
<1>2. ASSUME IInv, Restart PROVE ClockInv'
  <2>1. \A t \in Thread : pc'[t] \notin {"setStart", "setOffset"}
    BY <1>2 DEF Restart, FreshLabels
  <2>2. /\ wall \in Nat /\ wall' = wall /\ shownAt' = wall
        /\ time' = WholeSeconds /\ startTime' = WholeSeconds /\ offset' = 0 /\ speed' = 1
    BY <1>2, IInvParts DEF PartsOK, Restart
  <2>3. PICK w \in Nat, d \in Nat \ {0}, q \in Nat :
          w = wall /\ d = TicksPerSecond /\ q = WholeSeconds
    BY <2>2, WholeSecondsType, ClockAssumption
  <2>4. PICK m \in Int : m = q * d
    OBVIOUS
  <2>5. FaceAt(shownAt)' = m + (w - m) * 1 + 0 * d
    BY <2>2, <2>3, <2>4 DEF FaceAt
  <2>6. FaceAt(shownAt)' = w
    BY <2>5
  <2>7. Truncated(w, d) = w \div d
    BY DEF Truncated
  <2>8. Settled'
    BY <2>2, <2>3, <2>6, <2>7 DEF Settled, WholeSeconds
  <2>9. shownAt' <= wall' /\ startTime' * TicksPerSecond <= wall'
    BY <2>2, StartIsNear
  <2>. QED
    BY <2>1, <2>8, <2>9 DEF ClockInv, ClockKept
<1>. QED
  BY <1>1, <1>2

LEMMA RestClock ==
    ASSUME IInv, ClockInv, WallTicks \/ UNCHANGED vars
    PROVE  ClockInv'
<1>0. PICK start : Numbers(start) /\ start = startTime * TicksPerSecond
  BY IInvNumbers
<1>1. UNCHANGED <<shownAt, time, startTime, offset, speed, crashed, irregular, pc, job>>
  BY DEF WallTicks, vars, clockVars
<1>2. wall' \in Nat /\ wall <= wall'
  BY <1>0 DEF WallTicks, vars, Numbers
<1>3. Settled' <=> Settled
  BY <1>1 DEF Settled, FaceAt
<1>4. \A t : Adjusting(t)' <=> Adjusting(t)
  BY <1>1 DEF Adjusting, StartIsRecent
<1>5. shownAt <= wall /\ start <= wall => shownAt <= wall' /\ start <= wall'
  BY <1>0, <1>2 DEF Numbers
<1>6. ClockKept => ClockKept'
  BY <1>0, <1>1, <1>3, <1>4, <1>5 DEF ClockKept
<1>. QED
  BY <1>1, <1>6 DEF ClockInv

LEMMA NextClock ==
    ASSUME IInv, ClockInv, [Next]_vars
    PROVE  ClockInv'
<1>0. ThreadsOK
  BY IInvParts DEF PartsOK
<1>1. CASE Restart
  BY <1>1, FreshClock
<1>2. CASE WallTicks \/ UNCHANGED vars
  BY <1>2, RestClock
<1>3. ASSUME NEW t \in Thread, Step(t) PROVE ClockInv'
  <2>1. CASE UpdateTime(t)
    BY <2>1, UpdateKeeps
  <2>2. CASE SetStart(t) \/ SetOffset(t)
    BY <2>2, SettingKeeps
  <2>3. CASE ~(UpdateTime(t) \/ SetStart(t) \/ SetOffset(t))
    <3>1. Untimed(t)
      BY <1>0, <1>3, <2>3, UntimedSteps DEF Step
    <3>. QED
      BY <3>1, UntimedKeeps
  <2>. QED
    BY <2>1, <2>2, <2>3
<1>4. ASSUME NEW t \in ApiThread, Page(t) PROVE ClockInv'
  <2>0. t \in Thread
    BY DEF Thread
  <2>1. CASE \/ SetNow(t) \/ Resume(t) \/ Reload(t)
             \/ \E n \in Seconds : Add(t, n)
             \/ \E s \in Speed : SetSpeed(t, s)
    BY <2>1, SettingCallsKeep
  <2>2. CASE \/ GetTime(t) \/ Stop(t) \/ Login(t) \/ Logout(t)
             \/ \E u \in AlarmId, a \in AlarmInput : AddAlarm(t, u, a)
             \/ \E u \in AlarmId : DeleteAlarm(t, u)
             \/ \E u \in AlarmId, a \in AlarmInput : UpdateAlarm(t, u, a)
    <3>1. Untimed(t)
      BY <1>0, <2>0, <2>2, UntimedCalls
    <3>. QED
      BY <2>0, <3>1, UntimedKeeps
  <2>. QED
    BY <1>4, <2>1, <2>2 DEF Page
<1>. QED
  BY <1>1, <1>2, <1>3, <1>4 DEF Next

LEMMA ClockInvariant == Spec => []ClockInv
<1>1. IInv /\ ClockInv /\ [Next]_vars => ClockInv'
  BY NextClock
<1>. QED
  BY Invariant, FreshClock, <1>1, PTL DEF Spec

\* How far the clock has run by its next update.
LEMMA GoesOnInTime ==
    ASSUME GoesOn, wall \in Nat, shownAt \in Nat, shownAt <= wall, speed \in Int,
           NEW lost, lost = TicksPerSecond - 1
    PROVE  /\ TicksPerSecond * Magnitude(time' - time)
                <= Magnitude(speed) * (wall - shownAt + lost) + lost
           /\ speed >= 0 => time' >= time
<1>1. PICK y \in Int, k \in Nat :
         /\ time = Truncated(y, TicksPerSecond)
         /\ time' = Truncated(y + k * speed, TicksPerSecond)
         /\ k <= (wall - shownAt) + (TicksPerSecond - 1)
  BY DEF GoesOn
<1>2. PICK d \in Nat \ {0} : d = TicksPerSecond
  BY ClockAssumption
<1>3. PICK e \in Nat : e = wall - shownAt + lost
  BY <1>2
<1>4. PICK run \in Int : run = k * speed
  OBVIOUS
<1>5. PICK far \in Int : far = Magnitude(speed) * e
  BY RunsAtSpeed, <1>3
<1>6. Magnitude(run) <= far /\ (speed >= 0 => run >= 0)
  <2>1. k <= e
    BY <1>1, <1>2, <1>3
  <2>. QED
    BY <1>4, <1>5, <2>1, RunsAtSpeed
<1>7. PICK x \in Int : x = y + run
  OBVIOUS
<1>8. PICK a \in Int : a = time
  BY <1>1, <1>2, TruncatedType
<1>9. PICK b \in Int : b = time'
  BY <1>1, <1>2, <1>4, <1>7, TruncatedType
<1>10. a = Truncated(y, d) /\ b = Truncated(x, d)
  BY <1>1, <1>2, <1>4, <1>7, <1>8, <1>9
<1>11. CASE run >= 0
  <2>1. a <= b /\ d * (b - a) <= (x - y) + (d - 1)
    BY <1>7, <1>10, <1>11, TruncatedTwice
  <2>2. Magnitude(b - a) = b - a /\ x - y = run /\ Magnitude(run) = run
    BY <1>7, <1>11, <2>1 DEF Magnitude
  <2>3. PICK n \in Int : n = d * (b - a)
    OBVIOUS
  <2>4. n <= far + lost
    BY <1>2, <1>6, <2>1, <2>2, <2>3
  <2>. QED
    BY <1>2, <1>3, <1>5, <1>8, <1>9, <2>1, <2>2, <2>3, <2>4
<1>12. CASE run < 0
  <2>1. b <= a /\ d * (a - b) <= (y - x) + (d - 1)
    BY <1>7, <1>10, <1>12, TruncatedTwice
  <2>2. Magnitude(b - a) = a - b /\ y - x = -run /\ Magnitude(run) = -run
    BY <1>7, <1>12, <2>1 DEF Magnitude
  <2>3. PICK n \in Int : n = d * (a - b)
    OBVIOUS
  <2>4. n <= far + lost
    BY <1>2, <1>6, <2>1, <2>2, <2>3
  <2>5. ~(speed >= 0)
    BY <1>6, <1>12
  <2>. QED
    BY <1>2, <1>3, <1>5, <1>8, <1>9, <2>2, <2>3, <2>4, <2>5
<1>. QED
  BY <1>11, <1>12

\* Until two threads are first under way at once, pausing, resuming and changing
\* the speed make the clock jump by no more than the fraction of a second that
\* startTime_ loses, times the speed, and the second it is truncated to; and not
\* backwards unless the speed is negative (Clock::SetTime, SetSpeed, updateTime).
THEOREM ClockRunsOn == Spec => ClockIsContinuous
<1>. DEFINE Continues ==
       (/\ \E t \in Thread : UpdateTime(t)
        /\ "overlap" \notin irregular'
        /\ \A t \in ApiThread : job[t].op \notin {"nextSeconds", "backToNow", "sysInit"})
       => LET lost == TicksPerSecond - 1
              ran  == Magnitude(speed) * (shownAt' - shownAt + lost)
          IN  /\ TicksPerSecond * Magnitude(time' - time) <= ran + lost
              /\ speed >= 0 => time' >= time
<1>1. IInv /\ ClockInv => Continues
  <2>. SUFFICES ASSUME IInv, ClockInv, NEW t \in Thread, UpdateTime(t),
                       "overlap" \notin irregular',
                       \A s \in ApiThread : job[s].op \notin Moves
                PROVE  LET lost == TicksPerSecond - 1
                           ran  == Magnitude(speed) * (shownAt' - shownAt + lost)
                       IN  /\ TicksPerSecond * Magnitude(time' - time) <= ran + lost
                           /\ speed >= 0 => time' >= time
    BY DEF Moves
  <2>1. At(t, "update") /\ shownAt' = wall
    BY DEF UpdateTime
  <2>2. ClockKept
    BY <2>1, NoOverlap DEF ClockInv
  <2>3. wall \in Nat /\ shownAt \in Nat /\ shownAt <= wall /\ speed \in Int
    BY <2>2, IInvParts DEF PartsOK, ClockOK, ClockKept
  <2>4. PICK lost : lost = TicksPerSecond - 1
    OBVIOUS
  <2>5. /\ TicksPerSecond * Magnitude(time' - time)
             <= Magnitude(speed) * (wall - shownAt + lost) + lost
        /\ speed >= 0 => time' >= time
    BY <2>3, <2>4, UpdateGoesOn, GoesOnInTime
  <2>. QED
    BY <2>1, <2>4, <2>5
<1>2. Spec => [](IInv /\ ClockInv)
  BY Invariant, ClockInvariant, PTL
<1>3. IInv /\ ClockInv /\ [Next]_vars => [Continues]_vars
  BY <1>1
<1>4. Spec => [][Continues]_vars
  BY <1>2, <1>3, PTL DEF Spec
<1>. QED
  BY <1>4 DEF ClockIsContinuous
=============================================================================
