------------------------------ MODULE Recording ------------------------------
(* The recording of one room: the mix, and in a multi-channel recording one    *)
(* track per party, which follow who is in the room.  A recording is started   *)
(* and stopped by calls, and finalized when the room is left empty; parties    *)
(* join and leave meanwhile, each on a goroutine of its own.                   *)
EXTENDS Naturals, FiniteSets

CONSTANTS
    Parties,     \* legs, and streams that take part like legs
    Recordings,  \* the starts there may be, each with a Recorder of its own
    None,
    MaxJoins,    \* bound: how often a party joins
    MaxPauses,   \* bound: pause and resume calls
    Again,       \* a start while a recording is on; the code does not refuse it
    Racy         \* a start that others overtake, and a leave that overtakes the
                 \* join of the same party

VARIABLES
    present,     \* the room's participants
    gone,        \* the parties that have hung up: their contexts are done
    joins,       \* bound: how often each has joined
    recordTap,   \* [Parties -> the recording their recordTap writes to]
    mixing,      \* roomRecorders, roomRecordPipes, roomRecordStorage of the room
    tracking,    \* roomMultiChannel of the room
    mix,         \* [Recordings -> the Recorder of the room's mix]
    multi,       \* [Recordings -> its multiChannelState]
    track,       \* [Recordings -> [Parties -> the Recorder of the party]]
    starting,    \* the call that starts a recording, and the sources it still starts
    joining,     \* [Parties -> the recording its join hook has looked up]
    leaving,     \* [Parties -> the steps of roomScopedLegRemoval]
    finish,      \* [Finishers -> the steps of cleanupRoomRecording]
    pausing,     \* setRoomRecordingPaused
    pauses       \* bound: the calls of it

room == <<present, gone, joins>>
vars == <<room, recordTap, mixing, tracking, mix, multi, track,
          starting, joining, leaving, finish, pausing, pauses>>

\* The threads that may run cleanupRoomRecording: a stop, and whoever left last.
Stop == "stop"
Finishers == Parties \cup {Stop}

Idle == [at |-> "idle", rec |-> None, todo |-> {}, waits |-> {}]
NotTracked == [state |-> "none", paused |-> FALSE]

Init ==
    /\ present \in (SUBSET Parties) \ {{}} /\ gone = {}
    /\ joins = [p \in Parties |-> IF p \in present THEN 1 ELSE 0]
    /\ recordTap = [p \in Parties |-> None]
    /\ mixing = None /\ tracking = None
    /\ mix = [r \in Recordings |-> [state |-> "new", source |-> None, paused |-> FALSE]]
    /\ multi = [r \in Recordings |-> [active |-> FALSE, paused |-> FALSE, order |-> {},
                                      asked |-> {}, inputs |-> None]]
    /\ track = [r \in Recordings |-> [p \in Parties |-> NotTracked]]
    /\ starting = Idle /\ finish = [f \in Finishers |-> Idle] /\ pausing = Idle
    /\ joining = [p \in Parties |-> None] /\ leaving = [p \in Parties |-> Idle]
    /\ pauses = 0

Tracked(r) == {p \in Parties : track[r][p].state = "running"}
Quiet == starting = Idle \/ Racy
NoCallUnderWay ==
    /\ starting = Idle /\ pausing = Idle
    /\ \A p \in Parties : joining[p] = None /\ leaving[p] = Idle
    /\ \A f \in Finishers : finish[f] = Idle

-----------------------------------------------------------------------------
(* multiChannelState. *)

\* Mutant: a late track does not look at paused.
MutStartLeg(r, p) ==
    IF ~multi[r].active \/ p \in Tracked(r)
    THEN UNCHANGED <<recordTap, multi, track>>
    ELSE /\ multi' = [multi EXCEPT ![r].order = @ \cup {p}, ![r].asked = @ \cup {p}]
         /\ \/ /\ recordTap' = IF p \in present THEN [recordTap EXCEPT ![p] = r] ELSE recordTap
               /\ track' = [track EXCEPT ![r][p] = [state |-> "running", paused |-> FALSE]]
            \/ /\ recordTap' = [recordTap EXCEPT ![p] = None]
               /\ UNCHANGED track

\* A party has its place in the order, once.
Placed(m, p) == [m EXCEPT !.order = @ \cup {p}, !.asked = @ \cup {p}]

\* startLeg, under the state's lock.  A track that fails to start has its place
\* in the order all the same; a paused recording's track starts paused.
StartLeg(r, p) ==
    IF ~multi[r].active \/ p \in Tracked(r)
    THEN UNCHANGED <<recordTap, multi, track>>
    ELSE /\ multi' = [multi EXCEPT ![r] = Placed(@, p)]
         /\ \/ /\ recordTap' = IF p \in present THEN [recordTap EXCEPT ![p] = r] ELSE recordTap
               /\ track' = [track EXCEPT ![r][p] =
                               [state |-> "running", paused |-> multi[r].paused]]
            \/ /\ recordTap' = [recordTap EXCEPT ![p] = None]
               /\ UNCHANGED track

\* stopLeg up to the Wait: the party is no longer among the recorders, its tap
\* is cleared and its capture told to stop.
StopLeg(r, p) ==
    IF p \in Tracked(r)
    THEN /\ track' = [track EXCEPT ![r][p] = [state |-> "stopping", paused |-> FALSE]]
         /\ recordTap' = [recordTap EXCEPT ![p] = None]
    ELSE UNCHANGED <<track, recordTap>>

\* The rest of stopLeg: the capture was published, or discarded.
TrackEnds(r, p) ==
    /\ track[r][p].state = "stopping"
    /\ \E end \in {"filed", "lost"} :
        track' = [track EXCEPT ![r][p] = [state |-> end, paused |-> FALSE]]
    /\ UNCHANGED <<room, recordTap, mixing, tracking, mix, multi, starting, joining,
                   leaving, finish, pausing, pauses>>

-----------------------------------------------------------------------------
(* doStartRecordRoom. *)

\* The sources are listed and the mix's capture is started under the context of
\* one of them.
StartRecording(r) ==
    /\ mix[r].state = "new" /\ starting = Idle /\ present # {}
    /\ Again \/ mixing = None
    /\ Racy \/ NoCallUnderWay
    /\ \E source \in present :
        mix' = [mix EXCEPT ![r] = [state |-> "running", source |-> source, paused |-> FALSE]]
    /\ starting' = [at |-> "register", rec |-> r, todo |-> present, waits |-> {}]
    /\ UNCHANGED <<room, recordTap, mixing, tracking, multi, track, joining, leaving,
                   finish, pausing, pauses>>

\* Without multi_channel that is all.
RegisterMix ==
    /\ starting.at = "register"
    /\ mixing' = starting.rec
    /\ starting' \in {Idle, [starting EXCEPT !.at = "multi"]}
    /\ UNCHANGED <<room, recordTap, tracking, mix, multi, track, joining, leaving,
                   finish, pausing, pauses>>

RegisterMulti ==
    /\ starting.at = "multi"
    /\ multi' = [multi EXCEPT ![starting.rec].active = TRUE]
    /\ tracking' = starting.rec
    /\ starting' = [starting EXCEPT !.at = "tracks"]
    /\ UNCHANGED <<room, recordTap, mixing, mix, track, joining, leaving, finish,
                   pausing, pauses>>

StartSource(p) ==
    /\ starting.at = "tracks" /\ p \in starting.todo
    /\ StartLeg(starting.rec, p)
    /\ starting' = IF starting.todo = {p} THEN Idle
                   ELSE [starting EXCEPT !.todo = @ \ {p}]
    /\ UNCHANGED <<room, mixing, tracking, mix, joining, leaving, finish, pausing, pauses>>

-----------------------------------------------------------------------------
(* Who is in the room. *)

\* The leg is added; its join hook finds the recording, if any.
Join(p) ==
    /\ p \notin present \cup gone /\ joins[p] < MaxJoins /\ Quiet
    /\ joining[p] = None /\ leaving[p] = Idle
    /\ present' = present \cup {p}
    /\ joins' = [joins EXCEPT ![p] = @ + 1]
    /\ joining' = [joining EXCEPT ![p] = tracking]
    /\ UNCHANGED <<gone, recordTap, mixing, tracking, mix, multi, track, starting,
                   leaving, finish, pausing, pauses>>

\* onLegJoinedRoomRecording
JoinHook(p) ==
    /\ joining[p] # None
    /\ StartLeg(joining[p], p)
    /\ joining' = [joining EXCEPT ![p] = None]
    /\ UNCHANGED <<room, mixing, tracking, mix, starting, leaving, finish, pausing, pauses>>

\* roomScopedLegRemoval, by a call or when the party has hung up: the leave hook
\* stops the party's track while the party is still in the room.
Leave(p) ==
    /\ p \in present /\ leaving[p] = Idle /\ finish[p] = Idle /\ Quiet
    /\ Racy \/ joining[p] = None
    /\ IF tracking # None THEN StopLeg(tracking, p) ELSE UNCHANGED <<track, recordTap>>
    /\ leaving' = [leaving EXCEPT ![p] = [Idle EXCEPT !.at = "remove", !.rec = tracking]]
    /\ gone' \in {gone, gone \cup {p}}
    /\ UNCHANGED <<present, joins, mixing, tracking, mix, multi, starting, joining, finish,
                   pausing, pauses>>

Remove(p) ==
    /\ leaving[p].at = "remove"
    /\ leaving[p].rec # None => track[leaving[p].rec][p].state # "stopping"
    /\ present' = present \ {p}
    /\ recordTap' = [recordTap EXCEPT ![p] = None]
    /\ leaving' = [leaving EXCEPT ![p].at = "judge"]
    /\ UNCHANGED <<gone, joins, mixing, tracking, mix, multi, track, starting, joining,
                   finish, pausing, pauses>>

\* stopRoomRecordingIfEmpty
JudgeEmpty(p) ==
    /\ leaving[p].at = "judge"
    /\ leaving' = [leaving EXCEPT ![p] = Idle]
    /\ finish' = IF present = {} THEN [finish EXCEPT ![p].at = "take"] ELSE finish
    /\ UNCHANGED <<room, recordTap, mixing, tracking, mix, multi, track, starting,
                   joining, pausing, pauses>>

-----------------------------------------------------------------------------
(* cleanupRoomRecording. *)

\* A stop of the recording, or the delete of its room.
StopRecording ==
    /\ finish[Stop] = Idle /\ mixing # None /\ Quiet
    /\ finish' = [finish EXCEPT ![Stop].at = "take"]
    /\ UNCHANGED <<room, recordTap, mixing, tracking, mix, multi, track, starting,
                   joining, leaving, pausing, pauses>>

\* The mix's tap is cleared and the multi-channel state taken off the map;
\* stopAll closes it to new tracks and lists those it has.
TakeTracks(f) ==
    /\ finish[f].at = "take"
    /\ tracking' = None
    /\ IF tracking = None
       THEN finish' = [finish EXCEPT ![f].at = "mix"] /\ UNCHANGED multi
       ELSE /\ multi' = [multi EXCEPT ![tracking].active = FALSE]
            /\ finish' = [finish EXCEPT ![f] = [at |-> "stop", rec |-> tracking,
                                                todo |-> Tracked(tracking), waits |-> {}]]
    /\ UNCHANGED <<room, recordTap, mixing, mix, track, starting, joining, leaving,
                   pausing, pauses>>

\* One stopLeg after the other; a track that a leave is stopping is not waited for.
StopTrack(f, p) ==
    /\ finish[f].at = "stop" /\ p \in finish[f].todo
    /\ \A q \in finish[f].waits : track[finish[f].rec][q].state # "stopping"
    /\ StopLeg(finish[f].rec, p)
    /\ finish' = [finish EXCEPT ![f] =
                     [@ EXCEPT !.todo = finish[f].todo \ {p},
                               !.waits = {p} \cap Tracked(finish[f].rec)]]
    /\ UNCHANGED <<room, mixing, tracking, mix, multi, starting, joining, leaving,
                   pausing, pauses>>

\* MergeMultiChannel over the tracks that were published; the others in the
\* order are reported omitted.
Merge(f) ==
    LET r == finish[f].rec IN
    /\ finish[f].at = "stop" /\ finish[f].todo = {}
    /\ \A q \in finish[f].waits : track[r][q].state # "stopping"
    /\ multi' = [multi EXCEPT ![r].inputs =
                    {p \in multi[r].order : track[r][p].state = "filed"}]
    /\ finish' = [finish EXCEPT ![f].at = "mix"]
    /\ UNCHANGED <<room, recordTap, mixing, tracking, mix, track, starting, joining,
                   leaving, pausing, pauses>>

Omitted(r) == multi[r].order \ multi[r].inputs

\* The mix's Recorder is taken off the map, stopped and waited for.
StopMix(f) ==
    /\ finish[f].at = "mix"
    /\ mixing' = None
    /\ mix' = IF mixing = None THEN mix
              ELSE [mix EXCEPT ![mixing] = [@ EXCEPT !.state = "stopped", !.paused = FALSE]]
    /\ finish' = [finish EXCEPT ![f] = Idle]
    /\ UNCHANGED <<room, recordTap, tracking, multi, track, starting, joining, leaving,
                   pausing, pauses>>

\* The mix's capture runs until it is stopped, or until the context it was
\* started under is done.
MixRuns(r) == mix[r].state = "running" /\ mix[r].source \notin gone

-----------------------------------------------------------------------------
(* setRoomRecordingPaused: the mix, then the state, then the tracks it had. *)

Pause(to) ==
    /\ pausing = Idle /\ mixing # None /\ pauses < MaxPauses /\ Quiet
    /\ pauses' = pauses + 1
    /\ mix' = [mix EXCEPT ![mixing].paused = to]
    /\ pausing' = [Idle EXCEPT !.at = IF to THEN "pause" ELSE "resume"]
    /\ UNCHANGED <<room, recordTap, mixing, tracking, multi, track, starting, joining,
                   leaving, finish>>

PauseMulti ==
    /\ pausing.at \in {"pause", "resume"} /\ pausing.rec = None
    /\ IF tracking = None
       THEN pausing' = Idle /\ UNCHANGED multi
       ELSE /\ multi' = [multi EXCEPT ![tracking].paused = (pausing.at = "pause")]
            /\ pausing' = IF Tracked(tracking) = {} THEN Idle
                          ELSE [pausing EXCEPT !.rec = tracking, !.todo = Tracked(tracking)]
    /\ UNCHANGED <<room, recordTap, mixing, tracking, mix, track, starting, joining,
                   leaving, finish, pauses>>

PauseTrack(p) ==
    /\ pausing.rec # None /\ p \in pausing.todo
    /\ track' = IF p \in Tracked(pausing.rec)
                THEN [track EXCEPT ![pausing.rec][p].paused = (pausing.at = "pause")] ELSE track
    /\ pausing' = IF pausing.todo = {p} THEN Idle ELSE [pausing EXCEPT !.todo = @ \ {p}]
    /\ UNCHANGED <<room, recordTap, mixing, tracking, mix, multi, starting, joining,
                   leaving, finish, pauses>>

-----------------------------------------------------------------------------
Next ==
    \/ \E r \in Recordings : StartRecording(r)
    \/ RegisterMix \/ RegisterMulti \/ StopRecording \/ PauseMulti
    \/ \E p \in Parties :
        \/ StartSource(p) \/ Join(p) \/ JoinHook(p)
        \/ Leave(p) \/ Remove(p) \/ JudgeEmpty(p) \/ PauseTrack(p)
    \/ \E r \in Recordings, p \in Parties : TrackEnds(r, p)
    \/ \E f \in Finishers : TakeTracks(f) \/ Merge(f) \/ StopMix(f)
    \/ \E f \in Finishers, p \in Parties : StopTrack(f, p)
    \/ \E to \in BOOLEAN : Pause(to)

Spec == Init /\ [][Next]_vars

-----------------------------------------------------------------------------
Thread == [at : {"idle", "register", "multi", "tracks", "remove", "judge", "take", "stop",
                 "mix", "pause", "resume"},
           rec : Recordings \cup {None}, todo : SUBSET Parties, waits : SUBSET Parties]

TypeOK ==
    /\ present \subseteq Parties /\ gone \subseteq Parties
    /\ joins \in [Parties -> 0..MaxJoins] /\ pauses \in 0..MaxPauses
    /\ recordTap \in [Parties -> Recordings \cup {None}]
    /\ mixing \in Recordings \cup {None} /\ tracking \in Recordings \cup {None}
    /\ mix \in [Recordings -> [state : {"new", "running", "stopped"},
                               source : Parties \cup {None}, paused : BOOLEAN]]
    /\ multi \in [Recordings -> [active : BOOLEAN, paused : BOOLEAN, order : SUBSET Parties,
                                 asked : SUBSET Parties,
                                 inputs : (SUBSET Parties) \cup {None}]]
    /\ track \in [Recordings -> [Parties ->
         [state : {"none", "running", "stopping", "filed", "lost"}, paused : BOOLEAN]]]
    /\ starting \in Thread /\ pausing \in Thread
    /\ leaving \in [Parties -> Thread] /\ finish \in [Finishers -> Thread]
    /\ joining \in [Parties -> Recordings \cup {None}]

\* No call and no hook is under way.
AtRest ==
    /\ NoCallUnderWay
    /\ \A r \in Recordings, p \in Parties : track[r][p].state # "stopping"

\* A recording's tracks are those of the parties in its room: a party that was
\* tracked is tracked and heard for as long as it stays, and once the recording
\* is finished, or the party gone, nothing is captured any more.
TracksFollowRoom ==
    AtRest => \A r \in Recordings, p \in Parties :
        /\ p \in Tracked(r) => tracking = r /\ p \in present /\ recordTap[p] = r
        /\ tracking = r /\ p \in present => p \in multi[r].asked

\* While a recording is paused, so is each of its tracks, a late one included.
PauseCoversTracks ==
    AtRest /\ tracking # None =>
        \A p \in Tracked(tracking) : track[tracking][p].paused = mix[tracking].paused

\* Whoever was to be recorded is in the merged file or named as omitted, and no
\* discarded capture is handed to the merge.
MergeIsAccounted ==
    \A r \in Recordings : multi[r].inputs # None =>
        /\ multi[r].inputs \cup Omitted(r) = multi[r].asked
        /\ \A p \in multi[r].inputs : track[r][p].state = "filed"

\* Does not hold with Racy: a room that has been left by all is not recorded.
EmptyRoomNotRecorded ==
    AtRest /\ present = {} =>
        mixing = None /\ tracking = None /\ \A r \in Recordings : Tracked(r) = {}

\* Does not hold, the mix follows its first party: the mix is captured while
\* someone is in the room.
MixCoversRoom ==
    mixing # None /\ present \ gone # {} => MixRuns(mixing)
=============================================================================
