\* Three invocations of the register client over one chunk store.
CONSTANTS
    p1 = p1
    p2 = p2
    p3 = p3
    Torn = torn
    Process <- MCProcess
    Payload <- MCPayload
    Mode <- MCMode
    ChunksOf <- MCChunksOf
    MaxUnderway = 1
    Horizon = 2
SYMMETRY MCSymmetry
SPECIFICATION Spec
CHECK_DEADLOCK FALSE
INVARIANTS
    ReportedIsCounterable
    ChunksNotLost
PROPERTIES
    CounterableStays
