\* An inbound and an outbound leg, whose room is not deleted and whose media
\* loops do not panic.
SPECIFICATION FairSpec
CONSTANTS
    c1 = c1
    c2 = c2
    Inbounds = {TRUE, FALSE}
    Callers = {c1, c2}
    Ops = {"delete", "addToRoom", "expire", "hold", "answer", "earlyMedia"}
    EarlyCallers = FALSE
    MaxRooms = 1
INVARIANTS NothingLeftBehind
PROPERTIES EveryEndIsReported
CHECK_DEADLOCK FALSE
