CONSTANTS
    Conns = {c1, c2}
    c1 = c1
    c2 = c2
    MaxWaitTime = 5
    Delay = 1
    MaxPings = 1
    LastAccept = 0
    Horizon = 38
SPECIFICATION Spec
SYMMETRY Symmetry
INVARIANTS
    TypeOK
    
    Watched
    
    SilentClosed
