SPECIFICATION Spec
CONSTANTS
    ApiThread = {a1}
    ClockThread = {c1}
    Interleaved = TRUE
    AlarmId = {2, 3}
    AlarmInput <- TwoAlarms
    AlarmFile <- NoFile
    Speed <- None
    Seconds <- None
    TicksPerSecond = 1
    MinInterval = 2
    DayLength = 4
    NightStart = 2
    NightEnd = 3
    FirstWall = 1
    MaxWall = 4
    MaxTime = 8
    MaxLogins = 1
INVARIANT ArmedOnce
CHECK_DEADLOCK FALSE
