SPECIFICATION FairSpec
CONSTANTS
    Reader = r
    Writers = {w1, w2}
PROPERTY SendLocksFirst
