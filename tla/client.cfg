SPECIFICATION ClientSpec
CONSTANTS
    Farms <- MCFarms
    Libraries <- MCLibraries
    Zones <- MCZones
    Ports <- MCPorts
    MaxFaults = 1
    NPaths = 3
    NModels = 3
INVARIANTS
    ClientTypeOK
    FailureHasACause
    PqcVerdictExact
    SafeLabelMeansPqc
    BetterNeverScoresLess
    BrokenSuiteIsFlagged
    NothingInvented
    WeakEndPointReported
    VpnIssuesComplete
PROPERTIES
    RequestEnds
