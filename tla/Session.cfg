SPECIFICATION Spec
CONSTANTS
    User = {1, 2}
    NoUser = 0
    Own = {11}
    Lesson = {13}
    AlarmsOf <- MCAlarmsOf
INVARIANTS TypeOK IndexIsCurrent UsersNotForgotten
PROPERTIES SchedulesKept AlarmsKept
