\* A hangup between a 183 and the 200 leaves the answered call up.
SPECIFICATION Spec
CONSTANTS
    c1 = c1
    Inbounds = {FALSE}
    Callers = {c1}
    Ops = {"delete", "earlyMedia"}
    EarlyCallers = FALSE
    MaxRooms = 1
INVARIANTS AnsweredCallEnds
CHECK_DEADLOCK FALSE
