SPECIFICATION Spec
CHECK_DEADLOCK FALSE
CONSTANTS
    g1 = g1
    g2 = g2
    g3 = g3
    g4 = g4
    g5 = g5
    Child = {g1, g2, g3, g4, g5}
    MaxChanges = 3
    Faults = {"stubborn"}
    MaxFaults = 1
PROPERTY
    LockReturned
