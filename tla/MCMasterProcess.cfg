CONSTANTS
    WorkerProcesses = 2
    ListenPortCount = 1
    Daemon = TRUE
    MaxToMaster = 2
    MaxToWorkers = 1
SPECIFICATION FairSpec
INVARIANTS
    TypeOK
    NoChildForgotten
    ForkUndisturbed
PROPERTIES
    
    Reaped
CHECK_DEADLOCK FALSE
