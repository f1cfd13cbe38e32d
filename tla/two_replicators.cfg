SPECIFICATION Spec
CONSTANTS
    Server = {s1, s2}
    Command = {c1}
    NoOp = NoOp
    None = None
    Workers = 10
    Candidates = {s1, s2}
    MaxElections = 3
    MaxCrashes = 1
    MaxFaults = 1
    MaxInFlight = 2
    MaxLate = 1
    MaxDiskFaults = 0
    MaxIdleTimers = 0
SYMMETRY Symmetry
CHECK_DEADLOCK FALSE
INVARIANTS
    SuccessMeansMatch
    NoEntryTwice
    CommandInv
    AcksInItsTerm
    RoundInv
PROPERTIES
    ImplementsVoting
