SPECIFICATION Spec
CONSTANTS
    right = right
    z = z
    Key <- MCKey
INVARIANTS
    ExitsBetweenFrames
    FailsBeforeDrawing
    PositionHasPicture
    DrawsUnsizedOnlyAtStart
    OverlapIsIdle
