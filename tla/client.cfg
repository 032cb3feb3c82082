SPECIFICATION FairSpec
CONSTANTS
    Clients <- MCClients
    Allowed <- MCAllowed
    KeyLen <- MCKeyLen
    RawLen = 1
    Announced = {1, 2}
    PublicSizes = {0, 1, 2, 3}
    MaxLogin = 2
    MaxPacket = 2
    MaxPackets = 2
INVARIANTS
    OnlyAllowedServed
    InStep
    PacketsIntact
PROPERTIES
    AddressArrives
CHECK_DEADLOCK FALSE
