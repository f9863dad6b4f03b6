SPECIFICATION Spec
CONSTANTS
    NumVars = 3
    MinConflicts = 50
    LubyUnit = 100
    Scripts <- AssumptionScripts
    TheoryClauses = {}
    EagerTheory = TRUE
    DratEnabled = FALSE
    MaxLearned = 4000
    LearnedStep = 500
CHECK_DEADLOCK FALSE
INVARIANTS
    FalseUnderAssumptionsHolds
