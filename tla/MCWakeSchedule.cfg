SPECIFICATION Spec
CHECK_DEADLOCK FALSE
CONSTANTS
    j1 = j1
    Job = {j1}
    Fires <- TwoFires
    Sliding = {j1}
    Buffer = 1
    Horizon = 1
    Requests = {"job", "skip", "skip_global", "pause", "resume", "battery", "report"}
    MaxRequests = 1
    Faults = {"list_fail", "cancel_fail", "add_fail", "drop", "helper_crash", "daemon_crash"}
    MaxFaults = 1
    MaxEntries = 4
INVARIANTS
    ClaimIsReasserted
    SkipHonoured
PROPERTIES
    WantedWakeHeld
    CancelRetried
