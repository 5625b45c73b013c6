SPECIFICATION Spec
CONSTANTS
    Uid = {1, 2, 3}
    UserInput <- UserInputs
    Timetable <- OddTimetable
    ClassTag = 2
    ExamTag = 3
    TempTags <- MCTempTags
    DayTime = 4
    DayStart = 1
    DayEnd = 3
    WeekTime = 2
    WeekOffset = 1
    Query <- Queries
    Parts <- MCParts
INVARIANTS
    TypeOK
    IndexCoherent
    NothingStartsInsideExclusive
    SlotsAreFreeTime
    EachInItsWeek
    FilterFindsAll
CHECK_DEADLOCK TRUE
