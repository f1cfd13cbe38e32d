SPECIFICATION StartupSpec
CONSTANTS
    Server = {s1, s2, s3}
    Command = {}
    NoOp = NoOp
    None = None
    Workers = 10
    Candidates = {s1, s2}
    MaxElections = 2
    MaxCrashes = 1
    MaxFaults = 0
    MaxInFlight = 1
    MaxLate = 0
    MaxDiskFaults = 0
    MaxIdleTimers = 0
CHECK_DEADLOCK FALSE
PROPERTIES
    LoadsItsFile
