SPECIFICATION FairSpec
CONSTANTS
    Reader = r
    Writers = {w1, w2}
INVARIANTS
    OneOperation
    TimeoutOfOwnRead
    ResumedOnce
PROPERTY WriteEnds
