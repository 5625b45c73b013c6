SPECIFICATION Spec
CONSTANTS
    Files <- LongRoad
    Trips <- NoTrips
    Capacity = 16
INVARIANT PathIsShortest
CHECK_DEADLOCK FALSE
