CONSTANTS
    WorkerProcesses = 1
    ListenPortCount = 1
    Daemon = FALSE
    MaxToMaster = 2
    MaxToWorkers = 1
SPECIFICATION FairSpec
PROPERTY
    ZombiesReaped
CHECK_DEADLOCK FALSE
