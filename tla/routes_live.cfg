SPECIFICATION FairSpec
CONSTANTS
    Sessions = {s1, s2, s3}
    NoSession = NoSession
    CounterMax = 4
    Capacity = 3
    Pool = FALSE
    Probes = FALSE
PROPERTIES
    AddressGranted
    EmptyQueueReturns
    RoutesForgotten
