SPECIFICATION Spec
CONSTANTS
    n1 = n1
    n2 = n2
    Nodes <- MCNodes
    ConfigFiles <- MCConfigFiles
    FlagSets <- MCFlagSets
    MaxChanges = 2
    MaxFaults = 2
INVARIANTS
    TypeOK
    RunsOnValidSettings
    ConnsMatchLastRound
    LeakOnlyBeforeFirstFetch
PROPERTIES
    StaticListIsKept
    PeersGetConnected
CHECK_DEADLOCK FALSE
