SPECIFICATION FairSpec
CONSTANTS
    MaxVer = 3
    Addr = {1, 2}
    TextKind = {"good", "endless", "nosym", "unresolved", "syntax"}
INVARIANTS
    TypeOK
    NoUseAfterFree
    RunsNewestRead
    FreshWhenParked
    InitBeforeEnter
PROPERTIES
    ImplementsSlot
    EndsUpToDate
    CompileGetsSection
