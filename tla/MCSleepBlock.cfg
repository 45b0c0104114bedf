SPECIFICATION Spec
CONSTANTS
    MaxConn = 2
    Faults <- AbsorbedFaults
    MaxFaults = 2
INVARIANTS
    DeadManSeesBlock
    NoLostPush
    CleanStopFreesSleep
PROPERTIES
    ReleasedForGood
    HeldForGood
