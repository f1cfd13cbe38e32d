SPECIFICATION Spec
CONSTANTS
    Server = {s1, s2, s3}
    Command = {c1}
    NoOp = NoOp
    None = None
    Workers = 10
    Candidates = {s1, s2, s3}
    MaxElections = 2
    MaxCrashes = 0
    MaxFaults = 0
    MaxInFlight = 2
    MaxLate = 1
    MaxDiskFaults = 0
    MaxIdleTimers = 0
SYMMETRY Symmetry
CHECK_DEADLOCK FALSE
INVARIANTS
    LogMatching
    SuccessMeansMatch
    LogInv
    FirstWinReplicates
PROPERTIES
    ImplementsLedger
