SPECIFICATION Spec
CONSTANTS
    ApiThread = {a1}
    ClockThread = {c1}
    Interleaved = FALSE
    AlarmId = {2, 3}
    AlarmInput <- SomeAlarms
    AlarmFile <- SavedAlarms
    Speed <- None
    Seconds <- None
    TicksPerSecond = 1
    MinInterval = 2
    DayLength = 4
    NightStart = 2
    NightEnd = 3
    FirstWall = 1
    MaxWall = 3
    MaxTime = 8
    MaxLogins = 1
INVARIANT NeverCrashes
CHECK_DEADLOCK FALSE
