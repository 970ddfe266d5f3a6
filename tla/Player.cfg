SPECIFICATION Spec
CONSTANTS
    Ticks <- MCTicks
    StartTime = 15
    MaxTime = 60
INVARIANTS
    TypeOK
    SpeedLimit
    SpriteShowsState
    HoldIsSeen
