CONSTANTS
    Conns = {c1}
    c1 = c1
    PoolThreads = {p1}
    p1 = p1
    PacketLen = 2
    Room = 1
    QueueLimit = 1
    SendLimit = 1
    KickTimeCount = TRUE
    MaxBuffers = 2
    MaxLives = 1
SPECIFICATION FairSpec
PROPERTY
    WakesSender
