SPECIFICATION FairSpec
CONSTANTS
    NumVars = 4
    MinConflicts = 50
    LubyUnit = 100
    Scripts <- CoreScripts
    TheoryClauses = {}
    EagerTheory = TRUE
    DratEnabled = TRUE
    MaxLearned = 4000
    LearnedStep = 500
CHECK_DEADLOCK FALSE
INVARIANTS
    TrailConsistent
    PropagationComplete
    LearnedAsserting
    Certified
    SatSound
    UnsatSound
