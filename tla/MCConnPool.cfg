CONSTANTS
    WorkerConnections = 1
    PoolFactor = 2
    ListenPortCount = 1
    RecyWait = 2
    MaxHold = 1
    KickTimeCount = TRUE
    TimeOutKick = FALSE
    Accept4 = TRUE
    PoolThreads = {p1}
    p1 = p1
    Fds = {3}
    Conns <- MCConns
    MaxMessages = 1
    MaxAccepts = 3
    Horizon = 2
SPECIFICATION Spec
INVARIANTS
    TypeOK
    OnePlace
    
    OnlineExact
    PoolBounded
    TimerEntriesLive
    
    
