SPECIFICATION Spec
CONSTANTS
    NumVars = 2
    MinConflicts = 50
    LubyUnit = 100
    Scripts <- InterruptedScripts
    TheoryClauses = {}
    EagerTheory = TRUE
    DratEnabled = TRUE
    MaxLearned = 4000
    LearnedStep = 500
CHECK_DEADLOCK FALSE
INVARIANTS
    RefutationsCertified
