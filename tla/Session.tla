------------------------------ MODULE Session ------------------------------
(***************************************************************************)
(* Registering, logging in and out (api/user.cpp), loading and saving      *)
(* tables (database/db.cpp), and starting again (api_back.cpp, sysInit),   *)
(* for several users who share one running program: whose data are where,  *)
(* and what a crash leaves on disk.                                        *)
(*                                                                         *)
(* A user, a schedule and an alarm are numbers, in the order of their      *)
(* uids; a changed schedule is another one.  Which schedules conflict is   *)
(* left open here (SchTable), when alarms tick as well (AlarmClock), and   *)
(* classes and exams are in CourseTables.  SaveTable truncates the file    *)
(* and flushes a line per record, and the program may end between any two  *)
(* of these writes.  Reading a file into a table is one step.              *)
(*                                                                         *)
(* The page is not part of the repository.  It is taken to offer login and *)
(* register while nobody is logged in, everything else while somebody is,  *)
(* and to wait for the answer to a login, logout or register.  A reload    *)
(* does not wait for a logout; the login after it is taken to.             *)
(***************************************************************************)
EXTENDS Integers

CONSTANTS
    User,         \* uids a user may register with
    NoUser,
    Own,          \* schedules a page may submit
    Lesson,       \* schedules the imports of Login generate
    AlarmsOf      \* per user, the alarms he may add: their uids are his own

ASSUME UserAssumption == User \subseteq Nat /\ NoUser \notin User
ASSUME ScheduleAssumption == Own \subseteq Nat /\ Lesson \subseteq Nat /\ Own \cap Lesson = {}
ASSUME AlarmAssumption == AlarmsOf \in [User -> SUBSET Nat]

Schedule == Own \cup Lesson
Alarm == UNION {AlarmsOf[u] : u \in User}

VARIABLES
    page,        \* whose screens the page shows, if any
    users, userFile,   \* userTable and its file
    schName,     \* the user schTable is named for
    records,     \* its records
    indexed,     \* the records its indices have entries of
    schFile,     \* per user, sch_<uid>.csv
    alarmName, alarmTable, alarmFile,   \* the same of alarmTable
    alarms,      \* the map of alarms the clock and the page work on
    at, todo     \* where Logout or Register is, and the lines it has to write

userVars == <<users, userFile>>
schVars == <<schName, records, indexed, schFile>>
alarmVars == <<alarmName, alarmTable, alarmFile, alarms>>
vars == <<page, userVars, schVars, alarmVars, at, todo>>

Place == {"idle", "openSch", "writeSch", "openAlarms", "writeAlarms",
          "openUsers", "writeUsers"}

Idle == at = "idle"
LoggedIn == Idle /\ page # NoUser
LoggedOut == Idle /\ page = NoUser

\* A table is written in the order of its map.
IsFirst(x) == x \in todo /\ \A y \in todo : x <= y

-----------------------------------------------------------------------------
(* Start, crash and reload. *)

\* The files are those earlier runs of the program left.
Init ==
    /\ page = NoUser
    /\ userFile \in SUBSET User /\ users = userFile
    /\ schName = NoUser /\ records = {} /\ indexed = {}
    /\ schFile \in [User -> SUBSET Own]
    /\ alarmName = NoUser /\ alarmTable = {} /\ alarms = {}
    /\ alarmFile = [u \in User |-> {}]
    /\ at = "idle" /\ todo = {}

\* The program ends, wherever it is, and starts again from its files.
Crash ==
    /\ page' = NoUser
    /\ users' = userFile
    /\ schName' = NoUser /\ records' = {} /\ indexed' = {}
    /\ alarmName' = NoUser /\ alarmTable' = {} /\ alarms' = {}
    /\ at' = "idle" /\ todo' = {}
    /\ UNCHANGED <<userFile, schFile, alarmFile>>

\* Mutant of Loaded: the table is cleared and the file not read.
NotLoaded(file) == {}

\* LoadTable: Clear, and a record per line.
Loaded(file) == file

\* sysInit of a page that is loaded again: of the tables here it only loads the
\* users, unless the configuration or their file cannot be read.
Reload ==
    /\ at \notin {"openUsers", "writeUsers"}
    /\ page' = NoUser
    /\ users' \in {users, Loaded(userFile)}
    /\ UNCHANGED <<userFile, schVars, alarmVars, at, todo>>

-----------------------------------------------------------------------------
(* Register. *)

Register(u) ==
    /\ LoggedOut
    /\ u \notin users
    /\ users' = users \cup {u}
    /\ at' = "openUsers"
    /\ UNCHANGED <<page, userFile, schVars, alarmVars, todo>>

OpenUsers ==
    /\ at = "openUsers"
    /\ userFile' = {}
    /\ todo' = users
    /\ at' = "writeUsers"
    /\ UNCHANGED <<page, users, schVars, alarmVars>>

WriteUser(u) ==
    /\ at = "writeUsers" /\ IsFirst(u)
    /\ userFile' = userFile \cup {u}
    /\ todo' = todo \ {u}
    /\ UNCHANGED <<page, users, schVars, alarmVars, at>>

\* The call is answered "ok" whether the file could be opened or not.
Registered ==
    /\ at = "openUsers" \/ (at = "writeUsers" /\ todo = {})
    /\ at' = "idle"
    /\ UNCHANGED <<page, userVars, schVars, alarmVars, todo>>

-----------------------------------------------------------------------------
(* Login. *)

\* Mutant of SchLoaded: the records of before stay.
SchAdded(u) == records \cup schFile[u]

SchLoaded(u) == Loaded(schFile[u])

\* Mutant of Indexed: CalcIndex adds to the entries of before.
IndexedToo(recs) == indexed \cup recs

Indexed(recs) == recs

\* Login sets the name of a table before it finds that the file cannot be
\* loaded.  This is the first one ...
LoginFailsAtSch(u) ==
    /\ LoggedOut /\ u \in users
    /\ schName' = u
    /\ UNCHANGED <<page, userVars, records, indexed, schFile, alarmVars, at, todo>>

\* Some of the lessons are refused, for a conflict with the user's schedules.
Imported(u, lessons) ==
    /\ schName' = u
    /\ records' = SchLoaded(u) \cup lessons
    /\ indexed' = Indexed(records')
    /\ UNCHANGED schFile

\* ... the next three stand before the imports, and the last one behind them.
LoginFailsLater(u, lessons) ==
    /\ LoggedOut /\ u \in users
    /\ Imported(u, lessons)
    /\ \/ lessons = {} /\ UNCHANGED alarmName
       \/ alarmName' = u
    /\ UNCHANGED <<page, userVars, alarmTable, alarmFile, alarms, at, todo>>

\* ToAlarms adds the alarms of the file to those in memory.
Login(u, lessons) ==
    /\ LoggedOut /\ u \in users
    /\ Imported(u, lessons)
    /\ alarmName' = u
    /\ alarmTable' = Loaded(alarmFile[u])
    /\ alarms' = alarms \cup alarmTable'
    /\ page' = u
    /\ UNCHANGED <<userVars, alarmFile, at, todo>>

-----------------------------------------------------------------------------
(* What the user does, and the clock. *)

AddSch(s) ==
    /\ LoggedIn
    /\ records' = records \cup {s}
    /\ indexed' = indexed \cup {s}
    /\ UNCHANGED <<page, userVars, schName, schFile, alarmVars, at, todo>>

\* An update that succeeds; one that is refused is a deletion (UpdateSch).
UpdateSch(s, t) ==
    /\ LoggedIn /\ s \in records
    /\ records' = (records \ {s}) \cup {t}
    /\ indexed' = (indexed \ {s}) \cup {t}
    /\ UNCHANGED <<page, userVars, schName, schFile, alarmVars, at, todo>>

DeleteSch(s) ==
    /\ LoggedIn
    /\ records' = records \ {s}
    /\ indexed' = indexed \ {s}
    /\ UNCHANGED <<page, userVars, schName, schFile, alarmVars, at, todo>>

AddAlarm(a) ==
    /\ LoggedIn /\ a \in AlarmsOf[page]
    /\ alarms' = alarms \cup {a}
    /\ UNCHANGED <<page, userVars, schVars, alarmName, alarmTable, alarmFile, at, todo>>

DeleteAlarm(a) ==
    /\ LoggedIn
    /\ alarms' = alarms \ {a}
    /\ UNCHANGED <<page, userVars, schVars, alarmName, alarmTable, alarmFile, at, todo>>

\* AlarmTimeout drops an alarm that rings once, whoever is logged in and
\* whatever another thread is doing.
Tick(a) ==
    /\ a \in alarms
    /\ alarms' = alarms \ {a}
    /\ UNCHANGED <<page, userVars, schVars, alarmName, alarmTable, alarmFile, at, todo>>

-----------------------------------------------------------------------------
(* Logout. *)

\* RemoveClass and RemoveExam may leave some lessons (SchTable, RemoveStep).
Logout(left) ==
    /\ LoggedIn
    /\ records' = (records \ Lesson) \cup (left \cap records)
    /\ indexed' = (indexed \ Lesson) \cup (left \cap records)
    /\ at' = "openSch"
    /\ UNCHANGED <<page, userVars, schName, schFile, alarmVars, todo>>

OpenSch ==
    /\ at = "openSch"
    /\ schFile' = [schFile EXCEPT ![schName] = {}]
    /\ todo' = records
    /\ at' = "writeSch"
    /\ UNCHANGED <<page, userVars, schName, records, indexed, alarmVars>>

WriteSch(s) ==
    /\ at = "writeSch" /\ IsFirst(s)
    /\ schFile' = [schFile EXCEPT ![schName] = @ \cup {s}]
    /\ todo' = todo \ {s}
    /\ UNCHANGED <<page, userVars, schName, records, indexed, alarmVars, at>>

\* Mutants of FromAlarms: what Login loaded is saved, or the other table.
AlarmsOfLogin == alarmTable
NotAlarms == records

FromAlarms == alarms

\* The table is cleared and the alarms come next, also if SaveTable could not
\* open the file: nobody looks at its answer.
SchDone ==
    /\ at = "openSch" \/ (at = "writeSch" /\ todo = {})
    /\ records' = {}
    /\ alarmTable' = FromAlarms
    /\ at' = "openAlarms"
    /\ UNCHANGED <<page, userVars, schName, indexed, schFile,
                   alarmName, alarmFile, alarms, todo>>

OpenAlarms ==
    /\ at = "openAlarms"
    /\ alarmFile' = [alarmFile EXCEPT ![alarmName] = {}]
    /\ todo' = alarmTable
    /\ at' = "writeAlarms"
    /\ UNCHANGED <<page, userVars, schVars, alarmName, alarmTable, alarms>>

WriteAlarm(a) ==
    /\ at = "writeAlarms" /\ IsFirst(a)
    /\ alarmFile' = [alarmFile EXCEPT ![alarmName] = @ \cup {a}]
    /\ todo' = todo \ {a}
    /\ UNCHANGED <<page, userVars, schVars, alarmName, alarmTable, alarms, at>>

\* The map of alarms is not cleared.
AlarmsDone ==
    /\ at = "openAlarms" \/ (at = "writeAlarms" /\ todo = {})
    /\ alarmTable' = {}
    /\ page' = NoUser
    /\ at' = "idle"
    /\ UNCHANGED <<userVars, schVars, alarmName, alarmFile, alarms, todo>>

-----------------------------------------------------------------------------
Next ==
    \/ Crash \/ Reload
    \/ \E u \in User : Register(u) \/ WriteUser(u)
    \/ OpenUsers \/ Registered
    \/ \E u \in User : LoginFailsAtSch(u)
    \/ \E u \in User, lessons \in SUBSET Lesson :
          LoginFailsLater(u, lessons) \/ Login(u, lessons)
    \/ \E s \in Own : AddSch(s)
    \/ \E s \in Schedule, t \in Own : UpdateSch(s, t)
    \/ \E s \in Schedule : DeleteSch(s) \/ WriteSch(s)
    \/ \E a \in Alarm : AddAlarm(a) \/ DeleteAlarm(a) \/ Tick(a) \/ WriteAlarm(a)
    \/ \E left \in SUBSET Lesson : Logout(left)
    \/ OpenSch \/ SchDone \/ OpenAlarms \/ AlarmsDone

Spec == Init /\ [][Next]_vars

-----------------------------------------------------------------------------
(* Properties. *)

\* The variables keep their types; no file ever holds records of another table.
TypeOK ==
    /\ page \in User \cup {NoUser}
    /\ users \in SUBSET User /\ userFile \in SUBSET User
    /\ schName \in User \cup {NoUser} /\ alarmName \in User \cup {NoUser}
    /\ records \in SUBSET Schedule /\ indexed \in SUBSET Schedule
    /\ schFile \in [User -> SUBSET Schedule]
    /\ alarmTable \in SUBSET Alarm /\ alarms \in SUBSET Alarm
    /\ alarmFile \in [User -> SUBSET Alarm]
    /\ at \in Place
    /\ todo \in SUBSET (User \cup Schedule \cup Alarm)

\* While somebody is logged in the indices of schTable list what is there,
\* although Clear leaves them as they are and a failed login may have filled
\* the table: getCertainWeekTasks and addTask dereference what they find.
IndexIsCurrent == LoggedIn => indexed = records

\* SaveTable of the users writes the file anew from memory: nobody on file is
\* missing from memory, whatever failed before, so no registration drops him.
\* Only the end of the program while the file is being written does.
UsersNotForgotten ==
    /\ userFile \subseteq users
    /\ at = "writeUsers" => users = userFile \cup todo

\* The user whose schedules, or alarms, are in memory and not yet saved.
SchActive ==
    IF at \in {"openSch", "writeSch"} THEN schName ELSE IF Idle THEN page ELSE NoUser
AlarmActive ==
    IF at \in {"openSch", "writeSch", "openAlarms", "writeAlarms"} THEN alarmName
    ELSE IF Idle THEN page ELSE NoUser

\* His alarms: all that are in memory at the time, or in the table being saved.
AlarmsAtWork ==
    IF AlarmActive = NoUser THEN {}
    ELSE (IF at \in {"openAlarms", "writeAlarms"} THEN alarmTable ELSE alarms)
         \cap AlarmsOf[AlarmActive]

Schedules ==
    INSTANCE UserData WITH
        Item <- Own, Extra <- {},
        stored <- [u \in User |-> schFile[u] \cap Own],
        active <- SchActive,
        working <- IF SchActive = NoUser THEN {} ELSE records \cap Own,
        saving <- at \in {"openSch", "writeSch"}

Alarms ==
    INSTANCE UserData WITH
        Item <- Alarm, Extra <- Alarm,
        stored <- [u \in User |-> alarmFile[u] \cap AlarmsOf[u]],
        active <- AlarmActive,
        working <- AlarmsAtWork,
        saving <- at \in {"openAlarms", "writeAlarms"}

\* The schedules a user made himself are kept as UserData says: he finds what
\* his last logout stored, all of it and nothing else, whoever was logged in,
\* failed to log in, or left by a reload between.
SchedulesKept == Schedules!Spec

\* So are his alarms, except that he may find more than was stored: alarms he
\* had deleted and an earlier login of his or somebody else's still held.
AlarmsKept == Alarms!Spec
=============================================================================
