SPECIFICATION Spec
CONSTANTS
    Problems <- TheoryProblems
    MaxIterations = 3
    MaxScopes = 2
    MaxPops = 1
    MaxCoefficient = 3
CHECK_DEADLOCK FALSE
INVARIANTS
    TypeOK
    EqualityExact
    ProofForest
    BoundsFollow
    ConflictsJustified
    EqualityConflictsFound
