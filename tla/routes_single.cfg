SPECIFICATION Spec
CONSTANTS
    Sessions = {s1, s2, s3, s4}
    NoSession = NoSession
    CounterMax = 4
    Capacity = 2
    Pool = FALSE
    Probes = FALSE
SYMMETRY Symmetry
INVARIANTS
    UniqueAddresses
    RoutesOwned
    PacketsReachOwner
    ActiveSessionsRouted
PROPERTY ImplementsAddressPool
