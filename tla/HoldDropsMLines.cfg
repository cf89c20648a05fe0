\* A leg with two audio sections, one of which is an added stream, is held.
SPECIFICATION Spec
CONSTANTS
    Rooms = {r1}
    Callers = {c1}
    None = None
    MaxLines = 3
    MaxStreams = 4
    MaxOffers = 1
    Overlap = FALSE
    Holds = TRUE
INVARIANTS OffersKeepTheirLines
CHECK_DEADLOCK FALSE
