SPECIFICATION Spec
CONSTANTS
    UsizeBits = 64
    Sessions <- MCSessions
    Ints <- MCInts
CHECK_DEADLOCK FALSE
INVARIANTS
    TypeOK
    FoldExact
    RewriteExact
    BlastExact
    CnfExact
    RefutationsSound
    ModelHolds
    PureBvDecided
    EnumerationExact
    EdgesDeadAsAnswered
PROPERTIES
    ImplementsStack
