\* One home and two invocations, the first of which may be killed between its saves.
CONSTANTS
    p1 = p1
    p2 = p2
    p3 = p3
    d1 = d1
    k1 = k1
    k2 = k2
    Caller = Caller
    Alice = Alice
    None = None
    Torn = Torn
    Gone = Gone
    MaxMixed = 2
    DefaultLabel <- MCDefaultLabel
    Process <- TwoProcesses
    Directory <- MCDirectory
    KeyLabel <- OneKeyLabel
SPECIFICATION Spec
CHECK_DEADLOCK FALSE
INVARIANTS
    PersistsBoth
