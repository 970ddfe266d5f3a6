SPECIFICATION Spec
CONSTANTS
    x = x
    Name = {x}
    MaxBlocks = 2
    MaxSyms = 4
    MaxStates = 2
INVARIANT
    StartsClean
CHECK_DEADLOCK FALSE
