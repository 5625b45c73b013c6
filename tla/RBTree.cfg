SPECIFICATION FairSpec
CONSTANTS
    Key = {1, 2, 3, 4, 5, 6, 7}
    Value = {0, 1, 2, 3, 4, 5, 6, 7}
    ValuesOf <- MCValuesOf
    Node = {1, 2, 3, 4, 5, 6, 7}
    Null = 0
    MaxMoved = 1
INVARIANTS TypeOK LoopsMeetAll Balanced
PROPERTIES ImplementsMap IteratorsStay CallsReturn
