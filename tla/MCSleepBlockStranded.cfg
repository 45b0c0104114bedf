SPECIFICATION Spec
CONSTANTS
    MaxConn = 2
    Faults <- PartialFaults
    MaxFaults = 2
PROPERTY
    ReleasedForGood
