SPECIFICATION FairSpec
CONSTANTS
    NumVars = 6
    MinConflicts = 1
    LubyUnit = 4
    Scripts <- FullScripts
    TheoryClauses <- Transitivity
    EagerTheory = TRUE
    DratEnabled = FALSE
    MaxLearned = 2
    LearnedStep = 1
CHECK_DEADLOCK FALSE
INVARIANTS
    TypeOK
    OpenInHeap
    TwoWatched
    ReasonsJustify
    ConsequencesOnly
    TheoryMirrorsTrail
    SatSound
PROPERTIES
    CallsReturn
