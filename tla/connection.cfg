SPECIFICATION FairSpec
INVARIANTS
    FramesWhole
PROPERTIES
    CloseCompletes
    CloseEndsSession
    EndedForgotten
    ExpiresUnlessMidFrame
CHECK_DEADLOCK FALSE
