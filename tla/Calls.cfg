\* Conduit, outbound INVITEs, session timers, transfers, agents, utterances and
\* a jitter buffer, one at a time.
SPECIFICATION MCSpec
CONSTANTS
    Dirs = {ab, ba}
    BufFrames = 2
    FrameLen = 3
    ReadLen = 2
    MaxFrames = 4
    None = None
    k1 = k1  k2 = k2
    Calls <- TheCalls
    Offers <- TwoOffers
    Branches = {b1, b2}
    MaxPort = 3
    Foreign = {2}
    BindAttempts = 2
    Timers = {1, 2, 3}
    NoTimer = NoTimer
    MaxRequests = 1
    HoldWith = {"none", "uac"}
    Refers = {f1, f2}
    Transfers = {t1, t2}
    a1 = a1  a2 = a2  r1 = r1
    Sessions <- TheAgents
    Kind <- AgentKinds
    u1 = u1  u2 = u2
    Utts <- TheUtts
    Kinds <- UttKinds
    MaxPerLeg = 1
    Modulus = 14
    TargetFrames = 2
    JitterFrames = 3
    Window = 2
    MaxLead = 4
    MaxSent = 15
INVARIANTS FramesInOrder NewestNeverDropped  SpeechIsSound
PROPERTIES NoTornFrame EveryEndIsReached
CHECK_DEADLOCK FALSE
