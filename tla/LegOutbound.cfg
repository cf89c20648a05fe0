\* An outbound leg answered without early media: every way to end it.
SPECIFICATION Spec
CONSTANTS
    c1 = c1
    c2 = c2
    Inbounds = {FALSE}
    Callers = {c1, c2}
    Ops = {"delete", "deleteRoom", "addToRoom", "expire", "panic",
           "maxDuration"}
    EarlyCallers = FALSE
    MaxRooms = 2
SYMMETRY Symmetry
INVARIANTS TypeOK AnsweredCallEnds
PROPERTIES KeepsContract
CHECK_DEADLOCK FALSE
