SPECIFICATION TrafficSpec
CONSTANTS
    Names <- MCNames
    Ports <- MCPorts
    Specs <- MCSpecs
    Profiles <- MCProfiles
    MaxFlaps = 2
    MaxRuns = 2
CHECK_DEADLOCK FALSE
INVARIANTS
    NoForwardingLoop
    GraphMatchesFabric
    OneFailureKeepsAPath
    ProgramsCleanUp
PROPERTIES
    ConvergesToReachable
