CONSTANTS
    WorkerConnections = 1
    PoolFactor = 2
    ListenPortCount = 1
    RecyWait = 2
    MaxHold = 1
    KickTimeCount = TRUE
    TimeOutKick = TRUE
    Accept4 = FALSE
    PoolThreads = {p1}
    p1 = p1
    Fds = {3}
    Conns <- MCConns
    MaxMessages = 1
    MaxAccepts = 1
    Horizon = 2
SPECIFICATION FairSpec

    
PROPERTY
    Recycled
