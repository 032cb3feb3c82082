SPECIFICATION FairSpec
CONSTANTS
    Sessions = {s1, s2}
    NoSession = NoSession
    CounterMax = 5
    Capacity = 2
    Pool = FALSE
    Probes = TRUE
PROPERTY AddressIsSent
CHECK_DEADLOCK FALSE
