\* Trunks, the registrar, recordings' files, a room's recording and a leg's
\* streams, one at a time.
SPECIFICATION MCSpec
CONSTANTS
    t1 = t1  t2 = t2  t3 = t3  aor1 = aor1  aor2 = aor2
    None = None
    p1 = p1  p2 = p2
    Recorders = {p1, p2, p3}
    Names = {n1}
    Trunks <- TheTrunks
    Kind <- TheKinds
    AOR <- TheAORs
    Host <- TheHosts
    TrunkSets <- OneTrunkOrTwo
    Deleters = {d1}
    MaxSeq = 2
    Requests = {p1, p2}
    CallID <- OneCallID
    Contacts = {k1, k2}
    MaxChallenges = 1
    MaxBindings <- TwiceAndOnce
    Parties = {p1, p2}
    Recordings = {x1}
    MaxJoins = 1
    MaxPauses = 1
    Rooms = {p1, p2}
    Callers = {d1}
    MaxLines = 3
    MaxStreams = 4
    MaxOffers = 1
SYMMETRY Symmetry
INVARIANTS TrunksAreSound RegistrarIsSound FilesAreWhole 
           StreamsAreSound
CHECK_DEADLOCK FALSE
