---------------------------- MODULE CourseTables ----------------------------
(***************************************************************************)
(* The tables of courses, classes and exams (database/table, CourseTable,  *)
(* ClassTable, ExamTable), the handlers of api/course.cpp that change      *)
(* them, and what sysInit, Login and Logout do to them.  Indices are as in *)
(* TableIndex.  The course file is never written, the other two by Logout. *)
(*                                                                         *)
(* A course is its name, a class its course and start, an exam its course; *)
(* names are ranks, the other fields are left out.  So is the index of     *)
(* weeks, which all class handlers write (AddClass and UpdateClass with    *)
(* key and uid the wrong way round) and nothing reads.  One call runs to   *)
(* its end before another one starts.                                      *)
(***************************************************************************)
EXTENDS Integers, FiniteSets, TableIndex

CONSTANTS
    CourseUid, ClassUid, ExamUid,   \* uids GenUid draws, a page sends, a file holds
    CourseInput, ClassInput, ExamInput,   \* records a page may submit
    CourseFile, FirstClassFile, FirstExamFile,   \* what the files hold at first
    Enrolment,      \* the course sets of the users who may log in
    MaxEntries      \* bounds an index: what Logout leaves in it piles up

Course == [name : Nat]
Class == [course : Nat, start : Nat]
Exam == [course : Nat]

\* A uid is a 64-bit number: there are finitely many.
ASSUME UidAssumption ==
    /\ CourseUid \subseteq Nat /\ ClassUid \subseteq Nat /\ ExamUid \subseteq Nat
    /\ IsFiniteSet(CourseUid) /\ IsFiniteSet(ClassUid) /\ IsFiniteSet(ExamUid)
ASSUME InputAssumption ==
    CourseInput \subseteq Course /\ ClassInput \subseteq Class /\ ExamInput \subseteq Exam
ASSUME FileAssumption ==
    /\ \E D \in SUBSET CourseUid : CourseFile \in [D -> Course]
    /\ \E D \in SUBSET ClassUid : FirstClassFile \in [D -> Class]
    /\ \E D \in SUBSET ExamUid : FirstExamFile \in [D -> Exam]

VARIABLES
    courses, classes, exams,   \* the records of the three tables
    nameIndex,                 \* CourseTable
    courseIndex, startTimeIndex,   \* ClassTable
    examIndex,                 \* ExamTable::courseIndex
    file,                      \* the class and the exam file
    stale,                     \* history: the tables whose records were replaced
                               \* and whose indices were left as they were
    taking,                    \* the courses of the user who logged in last
    named                      \* whether the exam table has its file's name yet

courseVars == <<courses, nameIndex>>
classVars == <<classes, courseIndex, startTimeIndex>>
examVars == <<exams, examIndex>>
sessionVars == <<file, stale, taking, named>>
vars == <<courseVars, classVars, examVars, sessionVars>>

Put(recs, u, r) == [v \in DOMAIN recs \cup {u} |-> IF v = u THEN r ELSE recs[v]]
Drop(recs, u) == [v \in DOMAIN recs \ {u} |-> recs[v]]

-----------------------------------------------------------------------------
(* The indices as a whole. *)

\* The index of column c over the records of uids, walked in uid order: the
\* greatest uid comes last.
IndexOf(recs, uids, c) ==
    LET walked[S \in SUBSET uids] ==
            IF S = {} THEN << >>
            ELSE LET last == Max(S) IN AddIndex(walked[S \ {last}], last, recs[last][c])
    IN  walked[uids]

\* CalcIndexFilter: only records of these courses get entries.
\* Mutant of OfCourses: the test for find() = end() is turned round.
NotOfCourses(recs, taken) == {u \in DOMAIN recs : recs[u].course \notin taken}

OfCourses(recs, taken) == {u \in DOMAIN recs : recs[u].course \in taken}

SetClasses(recs, listed) ==
    /\ classes' = recs
    /\ courseIndex' = IndexOf(recs, listed, "course")
    /\ startTimeIndex' = IndexOf(recs, listed, "start")

SetExams(recs, listed) ==
    /\ exams' = recs
    /\ examIndex' = IndexOf(recs, listed, "course")

\* The uids an index has entries of.
Listed(idx) == {idx[p].uid : p \in DOMAIN idx}

-----------------------------------------------------------------------------
(* Start, login and logout. *)

Init ==
    /\ courses = << >> /\ nameIndex = << >>
    /\ classes \in {FirstClassFile, << >>}
    /\ courseIndex = IndexOf(classes, DOMAIN classes, "course")
    /\ startTimeIndex = IndexOf(classes, DOMAIN classes, "start")
    /\ exams = << >> /\ examIndex = << >>
    /\ file = [classes |-> FirstClassFile, exams |-> FirstExamFile]
    /\ stale = {}
    /\ taking = {}
    /\ named = FALSE

\* sysInit, for a page that was loaded again: initTable reads the class file
\* and lists every class.
Reload ==
    /\ SetClasses(file.classes, DOMAIN file.classes)
    /\ stale' = stale \ {"classes"}
    /\ UNCHANGED <<courseVars, examVars, file, taking, named>>

\* initTable clears the classes first, and returns where the users or then the
\* classes cannot be loaded.
ReloadFails ==
    /\ classes' = << >>
    /\ stale' = stale \cup {"classes"}
    /\ UNCHANGED <<courseVars, courseIndex, startTimeIndex, examVars, file, taking, named>>

\* The program is closed, or ends, and starts again: sysInit finds its tables
\* empty, and fills that of the classes or fails.
Restart ==
    /\ courses' = << >> /\ nameIndex' = << >>
    /\ \E loaded \in {file.classes, << >>} : SetClasses(loaded, DOMAIN loaded)
    /\ exams' = << >> /\ examIndex' = << >>
    /\ stale' = {}
    /\ taking' = {}
    /\ named' = FALSE
    /\ UNCHANGED file

LoadCourses ==
    /\ courses' = CourseFile
    /\ nameIndex' = IndexOf(CourseFile, DOMAIN CourseFile, "name")

\* ImportClass takes the classes of the user, ImportExam the exams of all, and
\* both read the course of each: without it, stoll throws on the call's thread
\* and the program ends (Restart), at every such login again.
Importable(taken) ==
    /\ \A u \in OfCourses(file.classes, taken) : file.classes[u].course \in DOMAIN CourseFile
    /\ \A u \in DOMAIN file.exams : file.exams[u].course \in DOMAIN CourseFile

Login(taken) ==
    /\ Importable(taken)
    /\ LoadCourses
    /\ SetClasses(file.classes, OfCourses(file.classes, taken))
    /\ SetExams(file.exams, OfCourses(file.exams, taken))
    /\ stale' = {}
    /\ taking' = taken
    /\ named' = TRUE
    /\ UNCHANGED file

\* Login returns where the class table cannot be loaded ...
LoginFailsAtClasses ==
    /\ LoadCourses
    /\ UNCHANGED <<classVars, examVars, sessionVars>>

\* ... or the exam table, with the classes loaded and not yet indexed.
LoginFailsAtExams ==
    /\ LoadCourses
    /\ classes' = file.classes
    /\ stale' = stale \cup {"classes"}
    /\ named' = TRUE
    /\ UNCHANGED <<courseIndex, startTimeIndex, examVars, file, taking>>

\* Mutant of Saved: the two tables go into each other's file.
SavedCrosswise(opened) ==
    [classes |-> IF "classes" \in opened THEN exams ELSE file.classes,
     exams |-> IF "exams" \in opened /\ named THEN classes ELSE file.exams]

\* SaveTable fails where its file does not open, as that of an exam table
\* without a name does not, and nobody is told.
Saved(opened) ==
    [classes |-> IF "classes" \in opened THEN classes ELSE file.classes,
     exams |-> IF "exams" \in opened /\ named THEN exams ELSE file.exams]

Tables == {"classes", "exams"}

\* Clear empties the records; the indices stay as they are.
Logout ==
    /\ \E opened \in SUBSET Tables : file' = Saved(opened)
    /\ classes' = << >> /\ exams' = << >>
    /\ stale' = Tables
    /\ UNCHANGED <<courseVars, courseIndex, startTimeIndex, examIndex, taking, named>>

-----------------------------------------------------------------------------
(* The handlers.  One that is answered with a failure changes nothing. *)

AddCourse(uid, course) ==
    /\ uid \notin DOMAIN courses
    /\ courses' = Put(courses, uid, course)
    /\ nameIndex' = AddIndex(nameIndex, uid, course.name)
    /\ UNCHANGED <<classVars, examVars, sessionVars>>

DeleteCourse(uid) ==
    /\ uid \in DOMAIN courses
    /\ courses' = Drop(courses, uid)
    /\ nameIndex' = RemoveIndex(nameIndex, uid)
    /\ UNCHANGED <<classVars, examVars, sessionVars>>

UpdateCourse(uid, course) ==
    /\ uid \in DOMAIN courses
    /\ courses' = Put(courses, uid, course)
    /\ nameIndex' = MoveEntry(nameIndex, uid, course.name)
    /\ UNCHANGED <<classVars, examVars, sessionVars>>

AddClass(uid, class) ==
    /\ uid \notin DOMAIN classes
    /\ Len(courseIndex) < MaxEntries
    /\ classes' = Put(classes, uid, class)
    /\ courseIndex' = AddIndex(courseIndex, uid, class.course)
    /\ startTimeIndex' = AddIndex(startTimeIndex, uid, class.start)
    /\ UNCHANGED <<courseVars, examVars, sessionVars>>

\* Mutant of RemoveClassEntry: an entry is looked for by its key.
RemoveByKey(idx, uid) == RemoveFirstMatch(idx, LAMBDA e : e.key = uid)

RemoveClassEntry(idx, uid) == RemoveIndex(idx, uid)

DeleteClass(uid) ==
    /\ uid \in DOMAIN classes
    /\ classes' = Drop(classes, uid)
    /\ courseIndex' = RemoveClassEntry(courseIndex, uid)
    /\ startTimeIndex' = RemoveClassEntry(startTimeIndex, uid)
    /\ UNCHANGED <<courseVars, examVars, sessionVars>>

UpdateClass(uid, class) ==
    /\ uid \in DOMAIN classes
    /\ Len(courseIndex) < MaxEntries \/ uid \in Listed(courseIndex)
    /\ classes' = Put(classes, uid, class)
    /\ courseIndex' = MoveEntry(courseIndex, uid, class.course)
    /\ startTimeIndex' = MoveEntry(startTimeIndex, uid, class.start)
    /\ UNCHANGED <<courseVars, examVars, sessionVars>>

AddExam(uid, exam) ==
    /\ uid \notin DOMAIN exams
    /\ Len(examIndex) < MaxEntries
    /\ exams' = Put(exams, uid, exam)
    /\ examIndex' = AddIndex(examIndex, uid, exam.course)
    /\ UNCHANGED <<courseVars, classVars, sessionVars>>

DeleteExam(uid) ==
    /\ uid \in DOMAIN exams
    /\ exams' = Drop(exams, uid)
    /\ examIndex' = RemoveIndex(examIndex, uid)
    /\ UNCHANGED <<courseVars, classVars, sessionVars>>

UpdateExam(uid, exam) ==
    /\ uid \in DOMAIN exams
    /\ Len(examIndex) < MaxEntries \/ uid \in Listed(examIndex)
    /\ exams' = Put(exams, uid, exam)
    /\ examIndex' = MoveEntry(examIndex, uid, exam.course)
    /\ UNCHANGED <<courseVars, classVars, sessionVars>>

Next ==
    \/ Reload \/ ReloadFails \/ Restart
    \/ \E taken \in Enrolment : Login(taken)
    \/ LoginFailsAtClasses
    \/ LoginFailsAtExams
    \/ Logout
    \/ \E u \in CourseUid, r \in CourseInput : AddCourse(u, r) \/ UpdateCourse(u, r)
    \/ \E u \in CourseUid : DeleteCourse(u)
    \/ \E u \in ClassUid, r \in ClassInput : AddClass(u, r) \/ UpdateClass(u, r)
    \/ \E u \in ClassUid : DeleteClass(u)
    \/ \E u \in ExamUid, r \in ExamInput : AddExam(u, r) \/ UpdateExam(u, r)
    \/ \E u \in ExamUid : DeleteExam(u)

Spec == Init /\ [][Next]_vars

-----------------------------------------------------------------------------
(* Properties. *)

\* The variables keep their types.
TypeOK ==
    /\ \E D \in SUBSET CourseUid : courses \in [D -> Course]
    /\ \E D \in SUBSET ClassUid : classes \in [D -> Class]
    /\ \E D \in SUBSET ExamUid : exams \in [D -> Exam]
    /\ nameIndex \in Seq(Entry) /\ examIndex \in Seq(Entry)
    /\ courseIndex \in Seq(Entry) /\ startTimeIndex \in Seq(Entry)
    /\ \E D \in SUBSET ClassUid : file.classes \in [D -> Class]
    /\ \E D \in SUBSET ExamUid : file.exams \in [D -> Exam]
    /\ stale \subseteq Tables
    /\ taking \in Enrolment \cup {{}}
    /\ named \in BOOLEAN

\* The index lists some of the records, each once and under its own value.
ListsSome(idx, recs, c) ==
    /\ Listed(idx) \subseteq DOMAIN recs
    /\ Coherent(idx, [u \in Listed(idx) |-> recs[u]], c)

\* courseClass::GetList and ImportClass dereference the record of every entry
\* they meet.  Unless a logout, a reload or a login that failed half way has
\* replaced the classes and left their lists alone, each record is there, under
\* the course and start it is listed for, once, in the one list and the other,
\* whichever classes a login or a page load has listed and whatever was edited.
ClassListsSound ==
    "classes" \notin stale =>
        /\ ListsSome(courseIndex, classes, "course")
        /\ ListsSome(startTimeIndex, classes, "start")
        /\ Listed(courseIndex) = Listed(startTimeIndex)

\* The same of exam::GetList, unless a logout has emptied the exams.
ExamListSound ==
    "exams" \notin stale => ListsSome(examIndex, exams, "course")

\* Every class and exam of the courses of the user who logged in last is
\* listed, those added later and those moved into such a course included, also
\* after the page was loaded again, and after a login that failed for another.
TakenIsListed ==
    /\ "classes" \notin stale =>
          \A u \in DOMAIN classes : classes[u].course \in taking => u \in Listed(courseIndex)
    /\ "exams" \notin stale =>
          \A u \in DOMAIN exams : exams[u].course \in taking => u \in Listed(examIndex)

\* The name index of the courses lists all of them at any time.
CourseNamesCoherent == Coherent(nameIndex, courses, "name")
=============================================================================
