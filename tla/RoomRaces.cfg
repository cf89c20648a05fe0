\* One leg, or two bridges, and two goroutines that overlap at will; or both
\* and goroutines that keep their operations apart.
SPECIFICATION MCSpec
CONSTANTS
    RoomIDs = {i1, i2}
    Rooms = {o1, o2, o3}
    Legs = {l1}
    BridgeIDs = {b1, b2}
    Procs = {p1, p2}
    None = None
    Dirs = {"bidirectional", "a_to_b"}
    MaxParts = 2
SYMMETRY Symmetry
INVARIANTS TypeOK BridgesJoinLiveRooms MixerFollowsRoom RoomIDIsBacked
           AudioPathMatchesMembership OrderlyRooms 
PROPERTIES HealthyAudioSurvivesPanic
CHECK_DEADLOCK FALSE
