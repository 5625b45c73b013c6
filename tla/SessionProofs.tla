--------------------------- MODULE SessionProofs ---------------------------
(***************************************************************************)
(* Proofs about Session: its types, the indices, the accounts, and that it *)
(* keeps schedules and alarms as UserData promises, for any sets of users, *)
(* schedules and alarms.                                                   *)
(***************************************************************************)
EXTENDS Session, TLAPS

Saving == {"writeSch", "writeAlarms", "writeUsers"}
SchSaving == {"openSch", "writeSch"}
AlarmSaving == {"openAlarms", "writeAlarms"}
UserSaving == {"openUsers", "writeUsers"}

\* Every table that may be saved bears the name of the user at work.
NamesRight ==
    /\ LoggedIn => schName = page /\ alarmName = page
    /\ at \in SchSaving => schName \in User /\ alarmName = schName
    /\ at \in AlarmSaving => alarmName \in User
    /\ at \in UserSaving => page = NoUser

\* What a save has written and what it has left are the table it saves.
SavesWhole ==
    /\ at \notin Saving => todo = {}
    /\ at = "writeSch" => records = schFile[schName] \cup todo
    /\ at = "writeAlarms" => alarmTable = alarmFile[alarmName] \cup todo

IInv == TypeOK /\ NamesRight /\ SavesWhole /\ IndexIsCurrent /\ UsersNotForgotten

LEMMA AlarmsAreAlarms == \A u \in User : AlarmsOf[u] \subseteq Alarm
  BY DEF Alarm

-----------------------------------------------------------------------------
(* The invariant. *)

LEMMA InitIInv == Init => IInv
  <1> SUFFICES ASSUME Init PROVE IInv
    OBVIOUS
  <1>1. TypeOK
    BY DEF Init, TypeOK, Schedule, Place
  <1> QED
    BY <1>1 DEF Init, IInv, NamesRight, SavesWhole, IndexIsCurrent, UsersNotForgotten,
                LoggedIn, Idle, SchSaving, AlarmSaving, UserSaving, Saving

LEMMA StepIInv == IInv /\ [Next]_vars => IInv'
  <1> SUFFICES ASSUME IInv, [Next]_vars PROVE IInv'
    OBVIOUS
  <1> USE DEF IInv, TypeOK, NamesRight, SavesWhole, IndexIsCurrent, UsersNotForgotten,
              LoggedIn, LoggedOut, Idle, SchSaving, AlarmSaving, UserSaving, Saving,
              Place, userVars, schVars, alarmVars, IsFirst, Loaded
  <1>1. CASE Crash
    BY <1>1 DEF Crash
  <1>2. CASE Reload
    BY <1>2 DEF Reload
  <1>3. ASSUME NEW u \in User, Register(u) PROVE IInv'
    BY <1>3, UserAssumption DEF Register
  <1>4. CASE OpenUsers
    BY <1>4 DEF OpenUsers
  <1>5. ASSUME NEW u \in User, WriteUser(u) PROVE IInv'
    BY <1>5 DEF WriteUser
  <1>6. CASE Registered
    BY <1>6 DEF Registered
  <1>7. ASSUME NEW u \in User, LoginFailsAtSch(u) PROVE IInv'
    BY <1>7 DEF LoginFailsAtSch
  <1>8. ASSUME NEW u \in User, NEW lessons \in SUBSET Lesson, LoginFailsLater(u, lessons)
        PROVE IInv'
    BY <1>8 DEF LoginFailsLater, Imported, SchLoaded, Indexed, Schedule
  <1>9. ASSUME NEW u \in User, NEW lessons \in SUBSET Lesson, Login(u, lessons)
        PROVE IInv'
    BY <1>9 DEF Login, Imported, SchLoaded, Indexed, Schedule
  <1>10. ASSUME NEW s \in Own, AddSch(s) PROVE IInv'
    BY <1>10 DEF AddSch, Schedule
  <1>11. ASSUME NEW s \in Schedule, NEW t \in Own, UpdateSch(s, t) PROVE IInv'
    BY <1>11 DEF UpdateSch, Schedule
  <1>12. ASSUME NEW s \in Schedule, DeleteSch(s) PROVE IInv'
    BY <1>12 DEF DeleteSch
  <1>13. ASSUME NEW s \in Schedule, WriteSch(s) PROVE IInv'
    BY <1>13 DEF WriteSch
  <1>14. ASSUME NEW a \in Alarm, AddAlarm(a) PROVE IInv'
    BY <1>14 DEF AddAlarm
  <1>15. ASSUME NEW a \in Alarm, DeleteAlarm(a) PROVE IInv'
    BY <1>15 DEF DeleteAlarm
  <1>16. ASSUME NEW a \in Alarm, Tick(a) PROVE IInv'
    BY <1>16 DEF Tick
  <1>17. ASSUME NEW a \in Alarm, WriteAlarm(a) PROVE IInv'
    BY <1>17 DEF WriteAlarm
  <1>18. ASSUME NEW left \in SUBSET Lesson, Logout(left) PROVE IInv'
    BY <1>18 DEF Logout, Schedule
  <1>19. CASE OpenSch
    BY <1>19 DEF OpenSch
  <1>20. CASE SchDone
    BY <1>20 DEF SchDone, FromAlarms
  <1>21. CASE OpenAlarms
    BY <1>21 DEF OpenAlarms
  <1>22. CASE AlarmsDone
    BY <1>22 DEF AlarmsDone
  <1>23. CASE UNCHANGED vars
    BY <1>23 DEF vars
  <1> QED
    BY <1>1, <1>2, <1>3, <1>4, <1>5, <1>6, <1>7, <1>8, <1>9, <1>10, <1>11, <1>12,
       <1>13, <1>14, <1>15, <1>16, <1>17, <1>18, <1>19, <1>20, <1>21, <1>22, <1>23
    DEF Next

LEMMA Invariant == Spec => []IInv
  BY InitIInv, StepIInv, PTL DEF Spec

\* The users, the names of the tables, their records, indices and files keep
\* their types at every step, a crash within a save included.
THEOREM TypeCorrect == Spec => []TypeOK
  <1>1. IInv => TypeOK
    BY DEF IInv
  <1> QED
    BY <1>1, Invariant, PTL

\* While somebody is logged in the indices list what is in the table, although
\* Logout and failed logins leave both in any state.
THEOREM IndexStaysCurrent == Spec => []IndexIsCurrent
  <1>1. IInv => IndexIsCurrent
    BY DEF IInv
  <1> QED
    BY <1>1, Invariant, PTL

\* Nobody on file is missing from memory, so that the next registration, which
\* writes the file anew, drops nobody.
THEOREM NobodyForgotten == Spec => []UsersNotForgotten
  <1>1. IInv => UsersNotForgotten
    BY DEF IInv
  <1> QED
    BY <1>1, Invariant, PTL

-----------------------------------------------------------------------------
(* Schedules are kept as UserData says. *)

LEMMA InitSchedules == Init => Schedules!Init
  BY UserAssumption
  DEF Init, Schedules!Init, SchActive, Idle

LEMMA StepSchedules == IInv /\ [Next]_vars => [Schedules!Next]_(Schedules!vars)
  <1> SUFFICES ASSUME IInv, [Next]_vars
               PROVE  Schedules!Next \/ UNCHANGED Schedules!vars
    OBVIOUS
  <1> USE UserAssumption DEF LoggedIn, LoggedOut, Idle
  <1> USE DEF IInv, TypeOK, NamesRight, SavesWhole, SchSaving, AlarmSaving, UserSaving, Saving,
              userVars, schVars, alarmVars, SchActive, Schedules!vars
  <1>1. CASE Crash
    <2>1. SchActive' = NoUser
      BY <1>1 DEF Crash
    <2>2. CASE SchActive = NoUser
      BY <1>1, <2>1, <2>2 DEF Crash
    <2>3. CASE SchActive # NoUser
      <3>1. Schedules!Abort
        BY <1>1, <2>1, <2>3 DEF Crash, Schedules!Abort, Schedules!Leave
      <3> QED
        BY <3>1 DEF Schedules!Next
    <2> QED
      BY <2>2, <2>3
  <1>2. CASE Reload
    <2>1. CASE Idle /\ page # NoUser
      <3>1. Schedules!Abort
        BY <1>2, <2>1 DEF Reload, Schedules!Abort, Schedules!Leave
      <3> QED
        BY <3>1 DEF Schedules!Next
    <2>2. CASE ~(Idle /\ page # NoUser)
      BY <1>2, <2>2 DEF Reload
    <2> QED
      BY <2>1, <2>2
  <1>3. ASSUME NEW u \in User, Register(u) PROVE UNCHANGED Schedules!vars
    BY <1>3 DEF Register
  <1>4. CASE OpenUsers
    BY <1>4 DEF OpenUsers
  <1>5. ASSUME NEW u \in User, WriteUser(u) PROVE UNCHANGED Schedules!vars
    BY <1>5 DEF WriteUser
  <1>6. CASE Registered
    BY <1>6 DEF Registered
  <1>7. ASSUME NEW u \in User, LoginFailsAtSch(u) PROVE UNCHANGED Schedules!vars
    BY <1>7 DEF LoginFailsAtSch
  <1>8. ASSUME NEW u \in User, NEW lessons \in SUBSET Lesson, LoginFailsLater(u, lessons)
        PROVE UNCHANGED Schedules!vars
    BY <1>8 DEF LoginFailsLater, Imported
  <1>9. ASSUME NEW u \in User, NEW lessons \in SUBSET Lesson, Login(u, lessons)
        PROVE Schedules!Next
    <2>1. records' \cap Own = schFile[u] \cap Own
      BY <1>9, ScheduleAssumption DEF Login, Imported, SchLoaded, Loaded
    <2>2. Schedules!Open(u, {})
      BY <1>9, <2>1 DEF Login, Imported, Schedules!Open
    <2> QED
      BY <2>2 DEF Schedules!Next
  <1>10. ASSUME NEW s \in Own, AddSch(s) PROVE Schedules!Next
    <2>1. Schedules!Edit(records' \cap Own)
      BY <1>10 DEF AddSch, Schedules!Edit
    <2> QED
      BY <2>1 DEF Schedules!Next
  <1>11. ASSUME NEW s \in Schedule, NEW t \in Own, UpdateSch(s, t) PROVE Schedules!Next
    <2>1. Schedules!Edit(records' \cap Own)
      BY <1>11 DEF UpdateSch, Schedules!Edit
    <2> QED
      BY <2>1 DEF Schedules!Next
  <1>12. ASSUME NEW s \in Schedule, DeleteSch(s) PROVE Schedules!Next
    <2>1. Schedules!Edit(records' \cap Own)
      BY <1>12 DEF DeleteSch, Schedules!Edit
    <2> QED
      BY <2>1 DEF Schedules!Next
  <1>13. ASSUME NEW s \in Schedule, WriteSch(s)
         PROVE Schedules!Next \/ UNCHANGED Schedules!vars
    <2>1. CASE s \in Own
      <3>1. s \in records
        BY <1>13 DEF WriteSch, IsFirst
      <3>2. ASSUME NEW u \in User
            PROVE  schFile'[u] \cap Own =
                       IF u = schName THEN (schFile[u] \cap Own) \cup {s}
                       ELSE schFile[u] \cap Own
        BY <1>13, <2>1 DEF WriteSch
      <3>3. [u \in User |-> schFile[u] \cap Own]' =
                [[u \in User |-> schFile[u] \cap Own] EXCEPT ![schName] = @ \cup {s}]
        BY <3>2
      <3>4. Schedules!Write(s)
        BY <1>13, <2>1, <3>1, <3>3 DEF WriteSch, Schedules!Write
      <3> QED
        BY <2>1, <3>4 DEF Schedules!Next
    <2>2. CASE s \notin Own
      BY <1>13, <2>2 DEF WriteSch
    <2> QED
      BY <2>1, <2>2
  <1>14. ASSUME NEW a \in Alarm, AddAlarm(a) \/ DeleteAlarm(a) \/ Tick(a) \/ WriteAlarm(a)
         PROVE UNCHANGED Schedules!vars
    BY <1>14 DEF AddAlarm, DeleteAlarm, Tick, WriteAlarm
  <1>15. ASSUME NEW left \in SUBSET Lesson, Logout(left) PROVE Schedules!Next
    <2>1. records' \cap Own = records \cap Own
      BY <1>15, ScheduleAssumption DEF Logout
    <2>2. Schedules!BeginSave
      BY <1>15, <2>1 DEF Logout, Schedules!BeginSave
    <2> QED
      BY <2>2 DEF Schedules!Next
  <1>16. CASE OpenSch
    <2>1. ASSUME NEW u \in User
          PROVE  schFile'[u] \cap Own =
                     IF u = schName THEN {} ELSE schFile[u] \cap Own
      BY <1>16 DEF OpenSch
    <2>2. [u \in User |-> schFile[u] \cap Own]' =
              [[u \in User |-> schFile[u] \cap Own] EXCEPT ![schName] = {}]
      BY <2>1
    <2>3. Schedules!Truncate
      BY <1>16, <2>2 DEF OpenSch, Schedules!Truncate
    <2> QED
      BY <2>3 DEF Schedules!Next
  <1>17. CASE SchDone
    <2>1. CASE at = "openSch"
      <3>1. Schedules!Abort
        BY <1>17, <2>1 DEF SchDone, Schedules!Abort, Schedules!Leave
      <3> QED
        BY <3>1 DEF Schedules!Next
    <2>2. CASE at = "writeSch" /\ todo = {}
      <3>1. Schedules!EndSave
        BY <1>17, <2>2 DEF SchDone, Schedules!EndSave, Schedules!Leave
      <3> QED
        BY <3>1 DEF Schedules!Next
    <2> QED
      BY <1>17, <2>1, <2>2 DEF SchDone
  <1>18. CASE OpenAlarms \/ AlarmsDone
    BY <1>18 DEF OpenAlarms, AlarmsDone
  <1>19. CASE UNCHANGED vars
    BY <1>19 DEF vars
  <1> QED
    BY <1>1, <1>2, <1>3, <1>4, <1>5, <1>6, <1>7, <1>8, <1>9, <1>10, <1>11, <1>12,
       <1>13, <1>14, <1>15, <1>16, <1>17, <1>18, <1>19
    DEF Next

\* What a user stored at his last logout is what he finds at his next login,
\* with nothing lost, added or taken from somebody else.
THEOREM SchedulesAreKept == Spec => SchedulesKept
  BY InitSchedules, StepSchedules, Invariant, PTL DEF Spec, SchedulesKept, Schedules!Spec

-----------------------------------------------------------------------------
(* So are the alarms, with those that turn up as Extra. *)

LEMMA InitAlarms == Init => Alarms!Init
  <1> SUFFICES ASSUME Init PROVE Alarms!Init
    OBVIOUS
  <1>1. AlarmActive = NoUser
    BY DEF Init, AlarmActive, Idle
  <1>2. [u \in User |-> alarmFile[u] \cap AlarmsOf[u]] \in [User -> SUBSET Alarm]
    BY AlarmsAreAlarms
  <1> QED
    BY <1>1, <1>2 DEF Init, Alarms!Init, AlarmsAtWork

LEMMA StepAlarms == IInv /\ [Next]_vars => [Alarms!Next]_(Alarms!vars)
  <1> SUFFICES ASSUME IInv, [Next]_vars
               PROVE  Alarms!Next \/ UNCHANGED Alarms!vars
    OBVIOUS
  <1> USE UserAssumption DEF LoggedIn, LoggedOut, Idle
  <1> USE DEF IInv, TypeOK, NamesRight, SavesWhole, SchSaving, AlarmSaving, UserSaving, Saving,
              userVars, schVars, alarmVars, AlarmActive, AlarmsAtWork, Alarms!vars
  <1>1. CASE Crash
    <2>1. AlarmActive' = NoUser
      BY <1>1 DEF Crash
    <2>2. CASE AlarmActive = NoUser
      BY <1>1, <2>1, <2>2 DEF Crash
    <2>3. CASE AlarmActive # NoUser
      <3>1. Alarms!Abort
        BY <1>1, <2>1, <2>3 DEF Crash, Alarms!Abort, Alarms!Leave
      <3> QED
        BY <3>1 DEF Alarms!Next
    <2> QED
      BY <2>2, <2>3
  <1>2. CASE Reload
    <2>1. CASE Idle /\ page # NoUser
      <3>1. Alarms!Abort
        BY <1>2, <2>1 DEF Reload, Alarms!Abort, Alarms!Leave
      <3> QED
        BY <3>1 DEF Alarms!Next
    <2>2. CASE ~(Idle /\ page # NoUser)
      BY <1>2, <2>2 DEF Reload
    <2> QED
      BY <2>1, <2>2
  <1>3. ASSUME NEW u \in User, Register(u) PROVE UNCHANGED Alarms!vars
    BY <1>3 DEF Register
  <1>4. CASE OpenUsers
    BY <1>4 DEF OpenUsers
  <1>5. ASSUME NEW u \in User, WriteUser(u) PROVE UNCHANGED Alarms!vars
    BY <1>5 DEF WriteUser
  <1>6. CASE Registered
    BY <1>6 DEF Registered
  <1>7. ASSUME NEW u \in User, LoginFailsAtSch(u) PROVE UNCHANGED Alarms!vars
    BY <1>7 DEF LoginFailsAtSch
  <1>8. ASSUME NEW u \in User, NEW lessons \in SUBSET Lesson, LoginFailsLater(u, lessons)
        PROVE UNCHANGED Alarms!vars
    BY <1>8 DEF LoginFailsLater, Imported
  <1>9. ASSUME NEW u \in User, NEW lessons \in SUBSET Lesson, Login(u, lessons)
        PROVE Alarms!Next
    <2>1. AlarmsAtWork' = (alarmFile[u] \cap AlarmsOf[u]) \cup (alarms \cap AlarmsOf[u])
      BY <1>9 DEF Login, Loaded
    <2>2. Alarms!Open(u, alarms \cap AlarmsOf[u])
      BY <1>9, <2>1 DEF Login, Imported, Alarms!Open
    <2>3. alarms \cap AlarmsOf[u] \in SUBSET Alarm
      OBVIOUS
    <2> QED
      BY <2>2, <2>3 DEF Alarms!Next
  <1>10. ASSUME NEW s \in Own, AddSch(s) PROVE UNCHANGED Alarms!vars
    BY <1>10 DEF AddSch
  <1>11. ASSUME NEW s \in Schedule, NEW t \in Own, UpdateSch(s, t)
         PROVE UNCHANGED Alarms!vars
    BY <1>11 DEF UpdateSch
  <1>12. ASSUME NEW s \in Schedule, DeleteSch(s) \/ WriteSch(s)
         PROVE UNCHANGED Alarms!vars
    BY <1>12 DEF DeleteSch, WriteSch
  <1>13. ASSUME NEW a \in Alarm, AddAlarm(a) \/ DeleteAlarm(a) PROVE Alarms!Next
    <2>1. AlarmsAtWork' \in SUBSET Alarm
      BY <1>13 DEF AddAlarm, DeleteAlarm
    <2>2. Alarms!Edit(AlarmsAtWork')
      BY <1>13 DEF AddAlarm, DeleteAlarm, Alarms!Edit
    <2> QED
      BY <2>1, <2>2 DEF Alarms!Next
  <1>14. ASSUME NEW a \in Alarm, Tick(a) PROVE Alarms!Next \/ UNCHANGED Alarms!vars
    <2>1. CASE AlarmActive = NoUser \/ at \in AlarmSaving
      BY <1>14, <2>1 DEF Tick
    <2>2. CASE AlarmActive # NoUser /\ at \notin AlarmSaving
      <3>1. AlarmsAtWork' \in SUBSET Alarm
        BY <1>14, <2>2 DEF Tick
      <3>2. Alarms!Edit(AlarmsAtWork')
        BY <1>14, <2>2 DEF Tick, Alarms!Edit
      <3> QED
        BY <3>1, <3>2 DEF Alarms!Next
    <2> QED
      BY <2>1, <2>2
  <1>15. ASSUME NEW a \in Alarm, WriteAlarm(a)
         PROVE Alarms!Next \/ UNCHANGED Alarms!vars
    <2>1. CASE a \in AlarmsOf[alarmName]
      <3>1. a \in alarmTable
        BY <1>15 DEF WriteAlarm, IsFirst
      <3>2. ASSUME NEW u \in User
            PROVE  alarmFile'[u] \cap AlarmsOf[u] =
                       IF u = alarmName THEN (alarmFile[u] \cap AlarmsOf[u]) \cup {a}
                       ELSE alarmFile[u] \cap AlarmsOf[u]
        BY <1>15, <2>1 DEF WriteAlarm
      <3>3. [u \in User |-> alarmFile[u] \cap AlarmsOf[u]]' =
                [[u \in User |-> alarmFile[u] \cap AlarmsOf[u]]
                    EXCEPT ![alarmName] = @ \cup {a}]
        BY <3>2
      <3>4. Alarms!Write(a)
        BY <1>15, <2>1, <3>1, <3>3 DEF WriteAlarm, Alarms!Write
      <3> QED
        BY <3>4 DEF Alarms!Next
    <2>2. CASE a \notin AlarmsOf[alarmName]
      <3>1. ASSUME NEW u \in User
            PROVE  alarmFile'[u] \cap AlarmsOf[u] = alarmFile[u] \cap AlarmsOf[u]
        BY <1>15, <2>2 DEF WriteAlarm
      <3> QED
        BY <1>15, <3>1 DEF WriteAlarm
    <2> QED
      BY <2>1, <2>2
  <1>16. ASSUME NEW left \in SUBSET Lesson, Logout(left) PROVE UNCHANGED Alarms!vars
    BY <1>16 DEF Logout
  <1>17. CASE OpenSch
    BY <1>17 DEF OpenSch
  <1>18. CASE SchDone
    <2>1. Alarms!BeginSave
      BY <1>18 DEF SchDone, FromAlarms, Alarms!BeginSave
    <2> QED
      BY <2>1 DEF Alarms!Next
  <1>19. CASE OpenAlarms
    <2>1. ASSUME NEW u \in User
          PROVE  alarmFile'[u] \cap AlarmsOf[u] =
                     IF u = alarmName THEN {} ELSE alarmFile[u] \cap AlarmsOf[u]
      BY <1>19 DEF OpenAlarms
    <2>2. [u \in User |-> alarmFile[u] \cap AlarmsOf[u]]' =
              [[u \in User |-> alarmFile[u] \cap AlarmsOf[u]] EXCEPT ![alarmName] = {}]
      BY <2>1
    <2>3. Alarms!Truncate
      BY <1>19, <2>2 DEF OpenAlarms, Alarms!Truncate
    <2> QED
      BY <2>3 DEF Alarms!Next
  <1>20. CASE AlarmsDone
    <2>1. CASE at = "openAlarms"
      <3>1. Alarms!Abort
        BY <1>20, <2>1 DEF AlarmsDone, Alarms!Abort, Alarms!Leave
      <3> QED
        BY <3>1 DEF Alarms!Next
    <2>2. CASE at = "writeAlarms" /\ todo = {}
      <3>1. Alarms!EndSave
        BY <1>20, <2>2 DEF AlarmsDone, Alarms!EndSave, Alarms!Leave
      <3> QED
        BY <3>1 DEF Alarms!Next
    <2> QED
      BY <1>20, <2>1, <2>2 DEF AlarmsDone
  <1>21. CASE UNCHANGED vars
    BY <1>21 DEF vars
  <1> QED
    BY <1>1, <1>2, <1>3, <1>4, <1>5, <1>6, <1>7, <1>8, <1>9, <1>10, <1>11, <1>12,
       <1>13, <1>14, <1>15, <1>16, <1>17, <1>18, <1>19, <1>20, <1>21
    DEF Next

\* Nothing that was stored of a user's alarms is missing at his next login,
\* and only his own logout writes to his store.
THEOREM AlarmsAreKept == Spec => AlarmsKept
  BY InitAlarms, StepAlarms, Invariant, PTL DEF Spec, AlarmsKept, Alarms!Spec
=============================================================================
