SPECIFICATION Spec
CONSTANTS
    CourseUid = {1, 2}
    ClassUid = {80, 81}
    ExamUid = {90}
    CourseInput <- MCCourseInput
    ClassInput <- MCClassInput
    ExamInput <- MCExamInput
    CourseFile <- MCCourseFile
    FirstClassFile <- MCClassFile
    FirstExamFile <- MCExamFile
    Enrolment <- MCEnrolment
    MaxEntries = 2
INVARIANTS TypeOK ClassListsSound ExamListSound TakenIsListed CourseNamesCoherent
