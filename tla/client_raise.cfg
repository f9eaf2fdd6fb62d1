SPECIFICATION ClientSpec
CONSTANTS
    Farms <- MCFarms
    Libraries <- MCLibraries
    Zones <- MCZones
    Ports <- MCPorts
    MaxFaults = 1
    NPaths = 1
    NModels = 1
INVARIANTS
    ScanAlwaysReports
