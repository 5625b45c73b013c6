SPECIFICATION Spec
CONSTANTS
    ApiThread = {a1}
    ClockThread = {c1}
    Interleaved = FALSE
    AlarmId = {2}
    AlarmInput <- OneRepeats
    AlarmFile <- NoFile
    Speed <- BackAndForth
    Seconds <- StepBack
    TicksPerSecond = 2
    MinInterval = 2
    DayLength = 4
    NightStart = 2
    NightEnd = 3
    FirstWall = 3
    MaxWall = 4
    MaxTime = 2
    MaxLogins = 2
INVARIANT AlarmsStayArmed
 
CHECK_DEADLOCK FALSE
