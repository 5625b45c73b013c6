--------------------------- MODULE MCCourseTables ---------------------------
(***************************************************************************)
(* An instance of CourseTables.  Two classes that may trade courses, one   *)
(* exam that may move to a course the file has not, and two users: one     *)
(* takes the course on file, one the other.                                *)
(***************************************************************************)
EXTENDS CourseTables

MCCourseInput == {[name |-> 1]}

MCClassInput ==
    {[course |-> 1, start |-> 4],
     [course |-> 2, start |-> 4]}

MCExamInput == {[course |-> 1], [course |-> 2]}

MCCourseFile == [u \in {1} |-> [name |-> 2]]

MCClassFile == [u \in {80} |-> [course |-> 1, start |-> 5]]

MCExamFile == << >>

MCEnrolment == {{1}, {2}}
=============================================================================
