SPECIFICATION Spec
CONSTANTS
    MaxConn = 2
    Faults <- RecordFaults
    MaxFaults = 1
PROPERTIES
    RepairedForGood
    ImplementsAwake
