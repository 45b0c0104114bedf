SPECIFICATION Spec
CONSTANTS
    backup = backup
    report = report
    Id = {backup, report}
    Scheds = {"daily", "weekly"}
    NoJob = NoJob
    Unreadable = Unreadable
    MaxRequests = 1
    MaxMoves = 1
    MaxEdits = 1
    MaxFaults = 2
INVARIANTS
    FileIsMemory
PROPERTIES
    BrokenEntriesKept
    HumanDecisionStands
    ManagedSettles
    ImplementsJobFile
