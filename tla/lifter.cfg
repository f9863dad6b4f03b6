SPECIFICATION Spec
CONSTANTS
    Roots = {"rax", "rdi", "rsp"}
    ByteBits = 1
    Instructions <- MCInstructions
    Worlds <- MCWorlds
    Settings <- MCSettings
    Declared <- MCDeclared
    Branches = {"LE"}
    MaxSteps = 3
    MaxScopes = 1
CHECK_DEADLOCK FALSE
INVARIANTS
    TypeOK
    VerdictsTrue
    ChainBounded
    SliceExact
PROPERTIES
    LiftsTheProgram
    FaultsLast
