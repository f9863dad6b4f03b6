SPECIFICATION Spec
CONSTANTS
    UsizeBits = 64
    Sessions <- SignedSessions
    Ints <- MCInts
CHECK_DEADLOCK FALSE
INVARIANT SatHasModel
