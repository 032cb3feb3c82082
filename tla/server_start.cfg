SPECIFICATION FairStart
CONSTANTS
    Words <- MCWords
    Number <- MCNumber
    Spoken <- MCSpoken
    MaxArgs <- MCMaxArgs
    Configs <- MCConfigs
    Logins <- MCLogins
    MaxFaults = 2
INVARIANTS
    AcceptedIffLegal
    ArgsAsGiven
    ActsAsAsked
    AcceptsWhenSetUp
    NoAssertFails
    LoginsAsConfigured
PROPERTIES
    Listens
CHECK_DEADLOCK FALSE
