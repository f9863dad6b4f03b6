SPECIFICATION Spec
CONSTANTS
    NumVars = 3
    MinConflicts = 50
    LubyUnit = 1
    Scripts <- RestartScripts
    TheoryClauses = {}
    EagerTheory = TRUE
    DratEnabled = FALSE
    MaxLearned = 4000
    LearnedStep = 500
CHECK_DEADLOCK FALSE
INVARIANTS
    RefutationsHold
