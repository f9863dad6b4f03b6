SPECIFICATION Spec
CONSTANTS
    p1 = p1
    p2 = p2
    Processes <- TwoProcesses
    Hashes <- MCHashes
    Satisfiable <- MCSatisfiable
    Terms <- MCTerms
    MaxInserts = 3
    MaxCrashes = 1
    MaxOpens = 3
SYMMETRY Symmetric
CHECK_DEADLOCK FALSE
INVARIANTS
    SatHonest
    RoundTrip
