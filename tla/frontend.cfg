SPECIFICATION FairFrontendSpec
CONSTANTS
    Server = {s1, s2}
    Command = {c1}
    NoOp = NoOp
    None = None
    Workers = 1
    Candidates = {s1, s2}
    MaxElections = 2
    MaxCrashes = 0
    MaxFaults = 0
    MaxInFlight = 1
    MaxLate = 0
    MaxDiskFaults = 0
    MaxIdleTimers = 0
    IdRanges = {{s1, s2}}
    MaxAdmins = 2
CHECK_DEADLOCK FALSE
INVARIANTS
    OrphansAreGone
    FrontendInv
    StartsFresh
PROPERTIES
    FrontendReturns
    PutsOutliveRestarts
