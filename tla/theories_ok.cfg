SPECIFICATION Spec
CONSTANTS
    Problems <- WindowProblem
    MaxIterations = 3
    MaxScopes = 2
    MaxPops = 1
    MaxCoefficient = 3
CHECK_DEADLOCK FALSE
INVARIANT
    OkMeansConsistent
