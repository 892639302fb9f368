\* Three invocations of the registration clients, two key labels in one directory, and one door.
CONSTANTS
    p1 = p1
    p2 = p2
    p3 = p3
    d1 = d1
    k1 = k1
    k2 = k2
    Caller = Caller
    Alice = Alice
    None = None
    Torn = Torn
    Gone = Gone
    MaxMixed = 2
    DefaultLabel <- MCDefaultLabel
    Process <- MCProcess
    Directory <- MCDirectory
    KeyLabel <- MCKeyLabel
SYMMETRY MCSymmetry
SPECIFICATION Spec
CHECK_DEADLOCK FALSE
INVARIANTS
    FilesMatch
    ReturnedIsSaved
    CopiesMatch
    SavedIsSubmitted
    LoneClientServed
PROPERTIES
    Idempotent
