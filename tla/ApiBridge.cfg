SPECIFICATION FairSpec
CONSTANTS
    Call = {c1, c2, c3}
    NoCall = NoCall
    Frame = {f1, f2}
    NoFrame = NoFrame
    Instant <- TwoInstants
    MaxLoads = 2
INVARIANTS TypeOK AnswerIsOwn NoNullPromise
PROPERTIES EveryCallSettles ImplementsPageCalls
CHECK_DEADLOCK FALSE
