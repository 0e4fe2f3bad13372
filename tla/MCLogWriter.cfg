CONSTANTS
    LineMax = 6
    Files <- MCFiles
    LoggingFiles <- MCLoggingFiles
    Calls <- MCCalls
    LevelName <- MCName
    MaxErrorStr = 10
    HeaderLen = 4
    PrefixLen = 2
    ErrnoLen = 3
    Unlimited = 1000
    Char <- MCChar
SPECIFICATION Spec
INVARIANTS
    TypeOK
    ItemsExact
    CutOnly
    PiecesRead
PROPERTY
    LineExact
CHECK_DEADLOCK FALSE
