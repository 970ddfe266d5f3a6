SPECIFICATION Spec
CONSTANTS
    x = x
    y = y
    Name = {x, y}
    MaxBlocks = 4
    MaxSyms = 4
    MaxStates = 2
SYMMETRY Names
INVARIANTS
    Lexical
    RefusesRightly
    NothingLost
CHECK_DEADLOCK FALSE
