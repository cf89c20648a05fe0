\* Providers, detectors, text, send and receive loops and filter chains, one at
\* a time.
SPECIFICATION Spec
CONSTANTS
    None = None
    d1 = d1
    d2 = d2
    MaxChunk = 1
    r1 = r1
    OnFrames = 2
    OffFrames = 2
    MaxFrames = 3
    MaxMutes = 1
    MaxMoves = 1
    MaxTicks = 3
    MaxOffers = 1
    MaxHolds = 1
    o1 = o1
    MaxSamples = 4
INVARIANTS
    SessionsAreSound
    DetectionIsSound
    

    
CHECK_DEADLOCK FALSE
