\* An INVITE that offers a second audio stream fails.
SPECIFICATION Spec
CONSTANTS
    Calls = {k1}
    Offers <- ThreeStreams
    Branches = {b1}
    MaxPort = 3
    Foreign = {}
    BindAttempts = 1
    None = None
INVARIANTS PortsAreReturned
CHECK_DEADLOCK FALSE
