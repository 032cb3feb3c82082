SPECIFICATION FairSpec
CONSTANTS
    Writers = {w1, w2}
    Opened <- MCOpened
    MaxPushes = 2
INVARIANTS
    NothingLost
    SearchFinds
PROPERTIES
    PushedIsWritten
    ExitReturnsUnlessMissed
CHECK_DEADLOCK FALSE
