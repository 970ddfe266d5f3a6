SPECIFICATION FairLoadSpec
CONSTANTS
    Files <- MCFiles
    Dirs <- MCDirs
INVARIANTS
    LoadsTheData
PROPERTIES
    LoadsAll
