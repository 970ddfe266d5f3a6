SPECIFICATION FairSpec
CONSTANTS
    Key = {}
    MaxVer = 2
    Addr = {1}
    TextKind = {"good", "endless"}
INVARIANTS
    OneMutexAtATime
PROPERTIES
    EscapeEnds
    FramesGoOn
    NewScriptRuns
