\* Lists of one to six chunks with repeated contents.
CONSTANTS
    Data = {a, b}
    MaxLeaves = 6
SPECIFICATION Spec
CHECK_DEADLOCK FALSE
INVARIANTS
    HonestAnswerAccepted
    OnlyCommittedChunk
    PartialSetUseless
