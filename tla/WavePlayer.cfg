SPECIFICATION Spec
CONSTANTS
    BufCount = 2
    SlotCount = 2
    MaxOpens = 2
INVARIANTS
    SectionIsOwned
    PlaysLiveMemory
    NoBufferLost
    MixesSnapshot
    ClearIsFinal
