CONSTANTS
    Conns = {c1}
    c1 = c1
    PoolThreads = {p1, p2}
    p1 = p1
    p2 = p2
    PacketLen = 2
    Room = 2
    QueueLimit = 1
    SendLimit = 0
    KickTimeCount = TRUE
    MaxBuffers = 3
    MaxLives = 2
SYMMETRY Alike
SPECIFICATION Spec
INVARIANTS
    TypeOK
    
    OneSender
    
    SendCountExact
