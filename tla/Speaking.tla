------------------------------ MODULE Speaking ------------------------------
(***************************************************************************)
(* Voice activity detection on a leg: the detector with its debounce and   *)
(* its 20 ms ticks (speaking/detector.go), how it is started, stopped and  *)
(* moved between the leg's tap and the filter chain of the room the leg is *)
(* in (api/legs.go, api/server.go), and what it tells.                     *)
(***************************************************************************)
EXTENDS Naturals, SequencesExt, FiniteSetsExt

CONSTANTS
    Rooms, None,
    OnFrames, OffFrames,     \* the debounce
    MaxFrames, MaxMutes, MaxMoves,   \* bounds
    Early,                   \* may the leg join or end while the detector is being started?
    Standalone               \* may the leg leave its room and be in none?

VARIABLES
    room,        \* the leg's room, whose chain carries its audio
    observer,    \* the chain writes to the detector
    tap,         \* the leg's tap does
    registered,  \* speakDets has it
    starter,     \* startSpeakingDetector: idle, looked, registered, running
    attached,    \* what attachRate said
    stopper,     \* stopSpeakingDetector: idle, taken, cleared, closed, returned
    run,         \* the detector's goroutine: off, on, over
    stopped,     \* its stop channel is closed
    muted,
    frame,       \* the leg's audio so far
    buf,         \* what was written and no tick has taken: the frames' places and loudness
    speaking, active, silent,   \* state
    scored,      \* the frames scored since mute last cut the leg's speech off
    told, mutes, moves

vars == <<room, observer, tap, registered, starter, attached, stopper, run, stopped, muted,
          frame, buf, speaking, active, silent, scored, told, mutes, moves>>
place    == <<room, observer, moves>>
feeds    == <<frame, buf>>
detector == <<speaking, active, silent, scored, told>>

Init ==
    /\ room \in Rooms \cup {None} /\ observer = FALSE /\ tap = FALSE /\ registered = FALSE
    /\ starter = "idle" /\ attached = FALSE /\ stopper = "idle" /\ run = "off" /\ stopped = FALSE
    /\ muted \in BOOLEAN /\ frame = 0 /\ buf = <<>>
    /\ speaking = FALSE /\ active = 0 /\ silent = 0 /\ scored = <<>> /\ told = <<>>
    /\ mutes = 0 /\ moves = 0

-----------------------------------------------------------------------------
(* startSpeakingDetector: looks where the leg is, registers the detector,    *)
(* feeds it and starts it.                                                   *)
Look ==
    /\ starter = "idle" /\ starter' = "looked" /\ attached' = (room # None)
    /\ UNCHANGED <<place, tap, registered, stopper, run, stopped, muted, feeds, detector, mutes>>

Register ==
    /\ starter = "looked" /\ starter' = "registered" /\ registered' = TRUE
    /\ UNCHANGED <<place, tap, attached, stopper, run, stopped, muted, feeds, detector, mutes>>

\* A leg whose room has gone meanwhile falls back to its tap.
Attach ==
    /\ starter = "registered" /\ starter' = "running"
    /\ IF attached /\ room # None THEN observer' = TRUE /\ UNCHANGED tap
                                  ELSE tap' = TRUE /\ UNCHANGED observer
    /\ run' = "on"
    /\ UNCHANGED <<room, moves, registered, attached, stopper, stopped, muted, feeds, detector, mutes>>

(* The leg joins or moves: its chain is new, and the hook brings a detector  *)
(* that is registered to it and takes the leg's tap away. It leaves: the     *)
(* chain is gone.                                                            *)
Settled == Early \/ starter \in {"idle", "running"}

Join(r) ==
    /\ room # r /\ moves < MaxMoves /\ Settled /\ moves' = moves + 1 /\ room' = r
    /\ observer' = registered /\ tap' = (tap /\ ~registered)
    /\ UNCHANGED <<registered, starter, attached, stopper, run, stopped, muted, feeds, detector, mutes>>

LeaveRoom ==
    /\ Standalone /\ room # None /\ moves < MaxMoves /\ Settled
    /\ moves' = moves + 1 /\ room' = None /\ observer' = FALSE
    /\ UNCHANGED <<tap, registered, starter, attached, stopper, run, stopped, muted, feeds,
                   detector, mutes>>

(* stopSpeakingDetector. *)
Take ==
    /\ stopper = "idle" /\ registered /\ Settled /\ registered' = FALSE /\ stopper' = "taken"
    /\ UNCHANGED <<place, tap, starter, attached, run, stopped, muted, feeds, detector, mutes>>

Detach == observer' = FALSE

DetachFeeds ==
    /\ stopper = "taken" /\ stopper' = "cleared" /\ Detach /\ tap' = FALSE
    /\ UNCHANGED <<room, moves, registered, starter, attached, run, stopped, muted, feeds,
                   detector, mutes>>

Stop ==
    /\ stopper = "cleared" /\ stopper' = "closed" /\ stopped' = TRUE
    /\ UNCHANGED <<place, tap, registered, starter, attached, run, muted, feeds, detector, mutes>>

\* Stop waits for the goroutine.
Stopped ==
    /\ stopper = "closed" /\ run = "over" /\ stopper' = "returned"
    /\ UNCHANGED <<place, tap, registered, starter, attached, run, stopped, muted, feeds,
                   detector, mutes>>

-----------------------------------------------------------------------------
(* The leg's audio, by each way that feeds the detector; and the detector,   *)
(* whose ticks keep up with it (bound: two frames in buf).                   *)
Hear(loud) ==
    /\ frame < MaxFrames /\ Len(buf) < 2 /\ run = "on" /\ frame' = frame + 1
    /\ LET one == <<[at |-> frame + 1, loud |-> loud]>>
       IN  buf' = buf \o (IF tap THEN one ELSE <<>>) \o (IF observer THEN one ELSE <<>>)
    /\ UNCHANGED <<place, tap, registered, starter, attached, stopper, run, stopped, muted,
                   detector, mutes>>

Mute ==
    /\ mutes < MaxMutes /\ mutes' = mutes + 1 /\ muted' = ~muted
    /\ UNCHANGED <<place, tap, registered, starter, attached, stopper, run, stopped, feeds, detector>>

\* update
On(loud) == IF loud THEN active + 1 ELSE 0
Off(loud) == IF loud THEN 0 ELSE silent + 1
Becomes(loud) == IF speaking THEN Off(loud) < OffFrames ELSE On(loud) >= OnFrames

(* processSamples: a muted leg stops speaking at once and is not scored.     *)
Score(f) ==
    IF muted THEN /\ speaking' = FALSE
                  /\ active' = (IF speaking THEN 0 ELSE active)
                  /\ silent' = (IF speaking THEN 0 ELSE silent)
                  /\ told' = IF speaking THEN Append(told, FALSE) ELSE told
                  /\ scored' = IF speaking THEN <<>> ELSE scored
    ELSE /\ active' = On(f.loud) /\ silent' = Off(f.loud)
         /\ speaking' = Becomes(f.loud)
         /\ told' = IF Becomes(f.loud) # speaking THEN Append(told, Becomes(f.loud)) ELSE told
         /\ scored' = Append(scored, f)

(* A tick takes what was written, and scores silence if nothing was. The     *)
(* frames it took are scored one by one, mute being read for each.           *)
Tick ==
    /\ run = "on" /\ Len(scored) < MaxFrames + 1
    /\ IF buf = <<>> THEN Score([at |-> 0, loud |-> FALSE]) /\ UNCHANGED buf
       ELSE Score(Head(buf)) /\ buf' = Tail(buf)
    /\ UNCHANGED <<place, tap, registered, starter, attached, stopper, run, stopped, muted,
                   frame, mutes>>

Ends ==
    /\ run = "on" /\ stopped /\ run' = "over"
    /\ told' = IF speaking THEN Append(told, FALSE) ELSE told
    /\ UNCHANGED <<place, tap, registered, starter, attached, stopper, stopped, muted, feeds,
                   speaking, active, silent, scored, mutes>>

-----------------------------------------------------------------------------
Starting == Look \/ Register \/ Attach
Stopping == Take \/ DetachFeeds \/ Stop \/ Stopped

Next ==
    \/ Starting \/ Stopping \/ (\E r \in Rooms : Join(r)) \/ LeaveRoom
    \/ (\E loud \in BOOLEAN : Hear(loud)) \/ Mute \/ Tick \/ Ends

Fairness == WF_vars(Starting) /\ WF_vars(DetachFeeds \/ Stop \/ Stopped) /\ WF_vars(Ends)

Spec == Init /\ [][Next]_vars /\ Fairness

-----------------------------------------------------------------------------
(* Every variable keeps its type.                                            *)
TypeOK ==
    /\ room \in Rooms \cup {None} /\ run \in {"off", "on", "over"}
    /\ {observer, tap, registered, attached, stopped, muted, speaking} \subseteq BOOLEAN
    /\ starter \in {"idle", "looked", "registered", "running"}
    /\ stopper \in {"idle", "taken", "cleared", "closed", "returned"}
    /\ frame \in 0 .. MaxFrames /\ active \in Nat /\ silent \in Nat
    /\ observer => room # None

LastRun(i, n, loud) ==
    Max({0} \cup {j \in n .. i : \A k \in j - n + 1 .. j : scored[k].loud = loud})

(* The leg speaks, as far as the detector knows, if enough voiced frames in  *)
(* a row came after the last enough silent ones (detector.go:16-23).         *)
Debounced ==
    speaking <=> LastRun(Len(scored), OnFrames, TRUE) > LastRun(Len(scored), OffFrames, FALSE)

(* Speech is told started and stopped in turn, and stopped at last           *)
(* (detector.go:107-108).                                                    *)
ToldInTurn ==
    /\ \A i \in DOMAIN told : told[i] = (i % 2 = 1)
    /\ run = "over" => Len(told) % 2 = 0
    /\ run = "on" => (Len(told) % 2 = 1) = speaking

(* A detector hears each frame once: by the leg's tap or by its room's chain *)
(* (server.go:161-163), until it is stopped (legs.go:2187-2189).             *)
HeardOnce ==
    /\ \A i, j \in DOMAIN scored : i < j /\ scored[i].at > 0 => scored[i].at # scored[j].at
    /\ starter = "running" /\ stopper = "idle" => tap # observer
    /\ stopper = "returned" => ~tap /\ ~observer

Unstopped == stopper \notin {"idle", "returned"}

(* Stop returns. *)
StopEnds == Unstopped ~> ~Unstopped
=============================================================================
