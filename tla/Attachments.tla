----------------------------- MODULE Attachments -----------------------------
(* What listens to a leg in a room: agents, transcribers and the leg's own     *)
(* recording.  Each is registered under the leg's or the room's ID, the room   *)
(* gives a participant a single tap, and a session ends on a goroutine of its  *)
(* own, long after whoever stopped it went on.                                 *)
EXTENDS Naturals, FiniteSets

CONSTANTS
    Sessions, None,
    Kind,     \* [Sessions -> {"agent", "roomAgent", "stt", "record"}]
    Racy      \* calls about the leg overlap

VARIABLES
    legInRoom,       \* the leg is up and a participant of the room
    attached,        \* legAgents, roomAgents, legTranscribers, legRecorders: by kind
    participantTap,  \* the tap of the leg's participant
    speaking,        \* the agents' sources in the mixer
    session,         \* [Sessions -> [pc, cancelled, closed, torn]]
    cleanup          \* the kinds cleanupLeg has yet to detach

vars == <<legInRoom, attached, participantTap, speaking, session, cleanup>>

HeldKinds == {Kind[s] : s \in Sessions}
Agents == {"agent", "roomAgent"}

Init ==
    /\ legInRoom = TRUE /\ participantTap = None /\ speaking = {} /\ cleanup = {}
    /\ attached = [k \in HeldKinds |-> None]
    /\ session = [s \in Sessions |-> [pc |-> "new", cancelled |-> FALSE,
                                      closed |-> FALSE, torn |-> "no"]]

Goto(s, pc) == session' = [session EXCEPT ![s].pc = pc]
Calling(s) == session[s].pc \in {"checked", "prepared"}
Quiet == Racy \/ \A s \in Sessions : ~Calling(s)

-----------------------------------------------------------------------------
(* doStartLegAgent, doStartRoomAgent, doStartSTTLeg, startRoomLegSTT,          *)
(* doStartRecordLeg.                                                           *)

\* An agent is registered at the end of its start, a transcriber at once.
Check(s) ==
    /\ session[s].pc = "new" /\ legInRoom /\ Quiet
    /\ Kind[s] # "record" => attached[Kind[s]] = None
    /\ Goto(s, "checked")
    /\ attached' = IF Kind[s] = "stt" THEN [attached EXCEPT !["stt"] = s] ELSE attached
    /\ UNCHANGED <<legInRoom, participantTap, speaking, cleanup>>

Prepare(s) ==
    /\ session[s].pc = "checked"
    /\ participantTap' = IF Kind[s] # "roomAgent" /\ legInRoom THEN s ELSE participantTap
    /\ speaking' = IF Kind[s] \in Agents THEN speaking \cup {s} ELSE speaking
    /\ Goto(s, IF Kind[s] = "stt" THEN "spawned" ELSE "prepared")
    /\ UNCHANGED <<legInRoom, attached, cleanup>>

Register(s) ==
    /\ session[s].pc = "prepared"
    /\ attached' = [attached EXCEPT ![Kind[s]] = s]
    /\ Goto(s, IF Kind[s] = "record" THEN "running" ELSE "spawned")
    /\ UNCHANGED <<legInRoom, participantTap, speaking, cleanup>>

-----------------------------------------------------------------------------
(* The session: Provider.Start, or the Recorder's capture. *)

\* Start takes the leg's context, or the room agent's own: the dial fails when
\* it is done already.
Begin(s) ==
    /\ session[s].pc = "spawned"
    /\ Goto(s, IF session[s].cancelled \/ (~legInRoom /\ Kind[s] # "roomAgent")
               THEN "returned" ELSE "running")
    /\ UNCHANGED <<legInRoom, attached, participantTap, speaking, cleanup>>

\* The provider closes the conversation, or the connection fails.
ProviderEnds(s) ==
    /\ session[s].pc = "running" /\ Kind[s] # "record" /\ ~session[s].cancelled
    /\ session' = [session EXCEPT ![s].cancelled = TRUE]
    /\ UNCHANGED <<legInRoom, attached, participantTap, speaking, cleanup>>

Heard(s) == IF Kind[s] = "roomAgent" THEN s \in speaking ELSE participantTap = s

\* Start waits for its sendLoop, which looks at the context between two reads of
\* the tap's pipe: only a frame or the pipe's end lets it return.  A recording
\* keeps its own clock.
Return(s) ==
    /\ session[s].pc = "running"
    /\ \/ session[s].cancelled /\ (Kind[s] = "record" \/ Heard(s))
       \/ session[s].closed
    /\ Goto(s, IF Kind[s] = "record" THEN "done" ELSE "returned")
    /\ UNCHANGED <<legInRoom, attached, participantTap, speaking, cleanup>>

-----------------------------------------------------------------------------
(* cleanupLegAgent, cleanupRoomAgent, doStopSTTLeg, stopLegRecording. *)

Torn(s) == [session EXCEPT ![s].torn = "popped"]

\* Whatever is registered is taken off the map.
Pop(k) ==
    /\ attached[k] # None
    /\ attached' = [attached EXCEPT ![k] = None]

\* DELETE of the agent, the transcription or the recording.
Detach(k) ==
    /\ Quiet /\ Pop(k)
    /\ session' = Torn(attached[k])
    /\ UNCHANGED <<legInRoom, participantTap, speaking, cleanup>>

\* Stop cancels a session that runs, and only a room agent's before it does;
\* taps and the source are cleared, and the pipes closed, a transcriber's
\* excepted.
TearDown(s) ==
    /\ session[s].torn = "popped"
    /\ session' = [session EXCEPT ![s] = [@ EXCEPT !.torn = "done",
         !.cancelled = session[s].cancelled \/ session[s].pc = "running" \/ Kind[s] = "roomAgent",
         !.closed = Kind[s] # "stt"]]
    /\ speaking' = speaking \ {s}
    /\ participantTap' = IF Kind[s] = "roomAgent" THEN participantTap ELSE None
    /\ UNCHANGED <<legInRoom, attached, cleanup>>

\* Mutant: a session that ends by itself leaves its entry and its source.
MutExit(s) ==
    /\ session[s].pc = "returned"
    /\ Goto(s, "done")
    /\ UNCHANGED <<legInRoom, attached, participantTap, speaking, cleanup>>

\* Start has returned: an agent's goroutine detaches whichever agent is
\* registered, a transcriber's clears the tap and the entry.
Exit(s) ==
    /\ session[s].pc = "returned"
    /\ LET k == Kind[s]
           other == attached[k]
           back == [session EXCEPT ![s].pc = "done"]
       IN /\ attached' = [attached EXCEPT ![k] = None]
          /\ IF k = "stt"
             THEN participantTap' = None /\ session' = back
             ELSE /\ UNCHANGED participantTap
                  /\ session' = IF other = None THEN back
                                ELSE [back EXCEPT ![other].torn = "popped"]
    /\ UNCHANGED <<legInRoom, speaking, cleanup>>

\* The leg ends: it leaves the room, its context is done, and cleanupLeg
\* detaches what it knows of; a transcriber is left to its context.
LegEnds ==
    /\ legInRoom
    /\ legInRoom' = FALSE /\ participantTap' = None
    /\ session' = [s \in Sessions |->
         [session[s] EXCEPT !.cancelled =
            @ \/ (session[s].pc = "running" /\ Kind[s] # "roomAgent")]]
    /\ cleanup' = HeldKinds \ {"stt"}
    /\ UNCHANGED <<attached, speaking>>

CleanupLeg(k) ==
    /\ k \in cleanup
    /\ cleanup' = cleanup \ {k}
    /\ IF attached[k] = None THEN UNCHANGED <<attached, session>>
       ELSE Pop(k) /\ session' = Torn(attached[k])
    /\ UNCHANGED <<legInRoom, participantTap, speaking>>

-----------------------------------------------------------------------------
Steps(s) ==
    \/ Prepare(s) \/ Register(s) \/ Begin(s) \/ Return(s) \/ TearDown(s) \/ Exit(s)

Next ==
    \/ \E s \in Sessions :
        \/ Check(s) \/ ProviderEnds(s)
        \/ Prepare(s) \/ Register(s) \/ Begin(s) \/ Return(s) \/ TearDown(s) \/ Exit(s)
    \/ \E k \in HeldKinds : Detach(k) \/ CleanupLeg(k)
    \/ LegEnds

Spec == Init /\ [][Next]_vars

\* Goroutines run, frames are mixed while the leg is in the room, and the calls
\* under way return.
Fairness ==
    /\ \A s \in Sessions : WF_vars(Steps(s))
    /\ \A k \in HeldKinds : WF_vars(CleanupLeg(k))

FairSpec == Spec /\ Fairness

-----------------------------------------------------------------------------
TypeOK ==
    /\ legInRoom \in BOOLEAN /\ cleanup \subseteq HeldKinds /\ speaking \subseteq Sessions
    /\ attached \in [HeldKinds -> Sessions \cup {None}]
    /\ participantTap \in Sessions \cup {None}
    /\ session \in [Sessions ->
         [pc : {"new", "checked", "prepared", "spawned", "running", "returned", "done"},
          cancelled : BOOLEAN, closed : BOOLEAN, torn : {"no", "popped", "done"}]]

AtRest ==
    /\ cleanup = {}
    /\ \A s \in Sessions : ~Calling(s) /\ session[s].torn # "popped"
                           /\ session[s].pc \notin {"spawned", "returned"}

\* What speaks into the room, hears the leg or runs for it is what is registered
\* and can be detached, the rest is on its way to its end; and what is
\* registered runs, so that a later start is not refused for a dead one.
NothingIsOrphaned ==
    AtRest => \A s \in Sessions :
        /\ \/ s \in speaking
           \/ participantTap = s
           \/ session[s].pc = "running" /\ ~session[s].cancelled /\ ~session[s].closed
           => attached[Kind[s]] = s
        /\ attached[Kind[s]] = s => session[s].pc = "running"

Detached(s) == session[s].torn # "no" /\ session[s].pc # "done"

\* A session that was detached comes to an end.
DetachedEnds == \A s \in Sessions : Detached(s) ~> ~Detached(s)

\* Does not hold, a leg has one tap: a recorded leg is heard by its recording
\* for as long as both last.
RecordingHearsLeg ==
    \A s \in Sessions :
        Kind[s] = "record" /\ attached["record"] = s /\ legInRoom => participantTap = s
=============================================================================
