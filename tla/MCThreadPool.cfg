CONSTANTS
    Workers = {w1, w2, w3}
    w1 = w1
    w2 = w2
    w3 = w3
    Messages = {m1, m2, m3}
    m1 = m1
    m2 = m2
    m3 = m3
SPECIFICATION FairSpec
INVARIANTS
    TypeOK
    NoIdleWorker
PROPERTIES
    ImplementsWorkQueue
    EveryMessageHandled
    StopAllReturns
