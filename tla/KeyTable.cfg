SPECIFICATION Spec
CONSTANTS
    right = right
    left = left
    z = z
    a = a
    None = None
    Key <- MCKey
    SlotCount = 3
    Lists <- MCLists
INVARIANTS
    TypeOK
    NoStuckKey
    AnswerIsCurrent
PROPERTIES
    ImplementsKeySet
