SPECIFICATION Spec
CONSTANTS
    Server = {s1, s2}
    Command = {}
    NoOp = NoOp
    None = None
    Workers = 10
    Candidates = {s1, s2}
    MaxElections = 3
    MaxCrashes = 0
    MaxFaults = 0
    MaxInFlight = 2
    MaxLate = 0
    MaxDiskFaults = 0
    MaxIdleTimers = 0
SYMMETRY Symmetry
CHECK_DEADLOCK FALSE
INVARIANTS
    LeaderReplicates
