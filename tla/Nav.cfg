SPECIFICATION FairSpec
CONSTANTS
    Files <- Maps
    Trips <- SomeTrips
    Capacity = 16
INVARIANTS TypeOK SettledAreFinal AnswersAreShortest TripVisitsAll
PROPERTIES CallsAnswered
