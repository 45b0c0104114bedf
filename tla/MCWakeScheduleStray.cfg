SPECIFICATION Spec
CHECK_DEADLOCK FALSE
CONSTANTS
    j1 = j1
    Job = {j1}
    Fires <- TwoFires
    Sliding = {j1}
    Buffer = 1
    Horizon = 1
    Requests = {"job"}
    MaxRequests = 1
    Faults = {}
    MaxFaults = 0
    MaxEntries = 4
PROPERTY
    CancelTakesEffect
