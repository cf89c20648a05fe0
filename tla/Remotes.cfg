SPECIFICATION Spec
CONSTANTS
    None = None
    NoOne = NoOne
    t1 = t1
    lkPeer = lkPeer
    MaxQueue = 1
    MaxSignals = 3
    a = a
    b = b
    x = x
    y = y
    r1 = r1
    r2 = r2
    MaxUpdates = 2
    MaxText = 1
    PcFrames = 1
    c1 = c1
    MaxFlaps = 1
    MaxRestarts = 1
    s1 = s1
    s2 = s2
    p1 = p1
    MaxMoves = 2
    Frame = 2
    Capacity = 8
    Lead = 2
    MaxConceal = 1
    MaxInsert = 1
    MaxUnits = 9
    MaxReads = 3
INVARIANTS
    
    
    PlayoutIsSound
 
CHECK_DEADLOCK FALSE
