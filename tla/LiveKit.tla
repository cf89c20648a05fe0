------------------------------ MODULE LiveKit ------------------------------
(***************************************************************************)
(* One connection to a LiveKit room (lkmedia/signal.go, transport.go,      *)
(* api/livekit_leg.go).  A read loop puts what the server signals into a   *)
(* bounded channel, a loop of the transport takes it out, and the media    *)
(* stack reports remote tracks on goroutines of its own.  Each remote      *)
(* track becomes a participant leg once its participant is known; a        *)
(* goroutine per connection waits for its end and ends the legs.           *)
(***************************************************************************)
EXTENDS Naturals, Sequences, FiniteSets

CONSTANTS
    Tracks,       \* remote audio tracks
    Owner,        \* of a track: the participant that publishes it
    MaxQueue,     \* capacity of the event channel
    MaxSignals,   \* bound: messages of the server
    Racy          \* the client may close while its read loop emits

Participants == {Owner[t] : t \in Tracks}

VARIABLES
    client,     \* SignalClient: "open", "closing" once closed is set, "closed"
    queue,      \* SignalClient.events
    recv,       \* recvLoop: the message it emits, "reading" or "done"
    loop,       \* signalLoop: the event it dispatches, "waiting" or "done"
    ended,      \* cleanup ran: ctx cancelled, done closed
    known,      \* Transport.participants
    pending,    \* Transport.pendingTracks
    track,      \* of a track: handleRemoteTrack and its callback
    index,      \* liveKitConn.tracks
    leg,        \* of a track: its participant leg
    publish,    \* the publish leg
    watch,      \* liveKitConn.watch
    taken,      \* the legs cleanupAllParticipants took from the index
    ends,       \* leg.disconnected published, of a track's leg
    sent,       \* messages the server sent
    crashed     \* a send on the closed channel

vars == <<client, queue, recv, loop, ended, known, pending, track, index, leg, publish,
          watch, taken, ends, sent, crashed>>

signalVars == <<client, queue, recv, sent, crashed>>
legVars    == <<index, leg, publish, watch, taken, ends>>

NoTrack == "none"
Signals == {<<"joined", p>> : p \in Participants} \cup {<<"left", p>> : p \in Participants}
           \cup {<<"unpublished", t>> : t \in Tracks} \cup {<<"leave">>}

Init ==
    /\ client = "open" /\ queue = <<>> /\ recv = <<"reading">> /\ loop = <<"waiting">>
    /\ ended = FALSE /\ known = {} /\ pending = [p \in Participants |-> NoTrack]
    /\ track = [t \in Tracks |-> "absent"] /\ index = {}
    /\ leg = [t \in Tracks |-> "none"] /\ publish = "live"
    /\ watch = "waiting" /\ taken = {} /\ ends = [t \in Tracks |-> 0]
    /\ sent = 0 /\ crashed = FALSE

-----------------------------------------------------------------------------
(* The signalling client. *)

\* readMessage, dispatch up to emit.
Receive(m) ==
    /\ recv = <<"reading">> /\ client = "open" /\ sent < MaxSignals
    /\ recv' = m /\ sent' = sent + 1
    /\ UNCHANGED <<client, queue, loop, ended, known, pending, track, crashed, legVars>>

\* The connection fails, or was closed under the read.
ReceiveFails ==
    /\ recv = <<"reading">> /\ recv' = <<"failed">>
    /\ UNCHANGED <<client, queue, loop, ended, known, pending, track, sent, crashed, legVars>>

AfterEmit(m) == IF m = <<"leave">> THEN <<"failed">> ELSE <<"reading">>

\* emit: waits for a slot for 50 ms, or until the context is cancelled, then
\* drops.  A send on the channel once it is closed is a panic.
MutEmitDrops(m) == client = "open"    \* mutant: drops whether or not it is full

EmitDrops(m) == client # "open" \/ Len(queue) = MaxQueue

Emit ==
    /\ recv \in Signals
    /\ \/ /\ client # "closed" /\ Len(queue) < MaxQueue
          /\ queue' = Append(queue, recv) /\ recv' = AfterEmit(recv)
          /\ UNCHANGED <<crashed, client>>
       \/ /\ client # "closed" /\ EmitDrops(recv)
          /\ recv' = AfterEmit(recv)
          /\ UNCHANGED <<queue, crashed, client>>
       \/ /\ client = "closed" /\ recv' = <<"done">> /\ crashed' = TRUE
          /\ UNCHANGED <<queue, client>>
    /\ UNCHANGED <<loop, ended, known, pending, track, sent, legVars>>

\* shutdown: the first caller closes the connection and then the channel.
Shutdown == client' = IF client = "open" THEN "closing" ELSE client

RecvDone ==
    /\ recv = <<"failed">> /\ recv' = <<"done">> /\ Shutdown
    /\ UNCHANGED <<queue, loop, ended, known, pending, track, sent, crashed, legVars>>

CloseChannel ==
    /\ client = "closing" /\ client' = "closed"
    /\ Racy \/ recv \notin Signals
    /\ UNCHANGED <<queue, recv, sent, crashed, loop, ended, known, pending, track, legVars>>

-----------------------------------------------------------------------------
(* The transport. *)

Cleanup == ended' = TRUE

\* A peer connection fails.
MediaFails ==
    /\ ~ended /\ Cleanup
    /\ UNCHANGED <<signalVars, loop, known, pending, track, legVars>>

NextSignal ==
    /\ loop = <<"waiting">> /\ ~ended /\ queue # <<>>
    /\ loop' = Head(queue) /\ queue' = Tail(queue)
    /\ UNCHANGED <<client, recv, sent, crashed, ended, known, pending, track, legVars>>

LoopEnds ==
    /\ loop = <<"waiting">> /\ (ended \/ (client = "closed" /\ queue = <<>>))
    /\ loop' = <<"done">> /\ Cleanup
    /\ UNCHANGED <<signalVars, known, pending, track, legVars>>

\* mergeParticipantUpdate.
Merge(p) ==
    /\ loop \in {<<"joined", p>>, <<"left", p>>}
    /\ known' = IF loop = <<"joined", p>> THEN known \cup {p} ELSE known \ {p}
    /\ loop' = <<"drain", p>>
    /\ UNCHANGED <<signalVars, ended, pending, track, legVars>>

\* drainPendingTracksFor, and the callback's goroutine of what was pending.
Drain(p) ==
    /\ loop = <<"drain", p>> /\ loop' = <<"waiting">>
    /\ pending' = [pending EXCEPT ![p] = NoTrack]
    /\ track' = [t \in Tracks |-> IF t = pending[p] THEN "fired" ELSE track[t]]
    /\ UNCHANGED <<signalVars, ended, known, legVars>>

LeaveRoom ==
    /\ loop = <<"leave">> /\ loop' = <<"waiting">> /\ Cleanup
    /\ UNCHANGED <<signalVars, known, pending, track, legVars>>

\* handleRemoteTrack: the participant is looked up, and the track is handed
\* over or kept under the participant, each under the lock.
TrackArrives(t) ==
    /\ track[t] = "absent" /\ ~ended
    /\ track' = [track EXCEPT ![t] = IF Owner[t] \in known THEN "fired" ELSE "unknown"]
    /\ UNCHANGED <<signalVars, loop, ended, known, pending, legVars>>

Stash(t) ==
    /\ track[t] = "unknown"
    /\ track' = [track EXCEPT ![t] = "stashed"]
    /\ pending' = [pending EXCEPT ![Owner[t]] = t]
    /\ UNCHANGED <<signalVars, loop, ended, known, legVars>>

-----------------------------------------------------------------------------
(* The participant legs. *)

\* handleRemoteAudioTrack: the leg is registered and reported, then indexed.
AddParticipant(t) ==
    /\ track[t] = "fired" /\ track' = [track EXCEPT ![t] = "added"]
    /\ leg' = [leg EXCEPT ![t] = "live"]
    /\ UNCHANGED <<signalVars, loop, ended, known, pending, index, publish, watch, taken, ends>>

IndexParticipant(t) ==
    /\ track[t] = "added" /\ track' = [track EXCEPT ![t] = "indexed"]
    /\ index' = index \cup {t}
    /\ UNCHANGED <<signalVars, loop, ended, known, pending, leg, publish, watch, taken, ends>>

\* cleanupLeg and publishDisconnect, whose claim one caller wins.
MutEndLeg(t) == ends' = [ends EXCEPT ![t] = @ + 1]   \* mutant: no claim

EndLeg(t) == ends' = [ends EXCEPT ![t] = IF leg[t] = "live" THEN @ + 1 ELSE @]

\* handleRemoteAudioTrackEnded.
TrackEnded(t) ==
    /\ loop = <<"unpublished", t>> /\ loop' = <<"waiting">>
    /\ index' = index \ {t}
    /\ IF t \in index THEN EndLeg(t) /\ leg' = [leg EXCEPT ![t] = "over"]
                      ELSE UNCHANGED <<ends, leg>>
    /\ UNCHANGED <<signalVars, ended, known, pending, track, publish, watch, taken>>

\* doDeleteLeg.
DeleteParticipant(t) ==
    /\ leg[t] = "live" /\ EndLeg(t) /\ leg' = [leg EXCEPT ![t] = "over"]
    /\ UNCHANGED <<signalVars, loop, ended, known, pending, track, index, publish, watch, taken>>

\* LiveKitPublishLeg.Hangup: CloseClient cleans the transport up and closes
\* the client, unless it is closed.
HangupPublish == publish' = "over" /\ Cleanup /\ Shutdown

DeletePublish ==
    /\ publish = "live" /\ HangupPublish
    /\ UNCHANGED <<queue, recv, sent, crashed, loop, known, pending, track,
                   index, leg, watch, taken, ends>>

\* watch, cleanupAllParticipants.
MutTakeIndex == taken' = {} /\ index' = {}      \* mutant: drops the index first

TakeIndex == taken' = index /\ index' = {}

WatchWakes ==
    /\ watch = "waiting" /\ ended /\ watch' = "ending" /\ TakeIndex
    /\ UNCHANGED <<signalVars, loop, ended, known, pending, track, leg, publish, ends>>

EndTaken(t) ==
    /\ watch = "ending" /\ t \in taken /\ taken' = taken \ {t}
    /\ EndLeg(t) /\ leg' = [leg EXCEPT ![t] = "over"]
    /\ UNCHANGED <<signalVars, loop, ended, known, pending, track, index, publish, watch>>

EndPublish ==
    /\ watch = "ending" /\ taken = {} /\ watch' = "done"
    /\ HangupPublish
    /\ UNCHANGED <<queue, recv, sent, crashed, loop, known, pending, track,
                   index, leg, taken, ends>>

-----------------------------------------------------------------------------
Signalling == Emit \/ RecvDone \/ CloseChannel \/ (client # "open" /\ ReceiveFails)
Dispatch ==
    \/ NextSignal \/ LoopEnds \/ LeaveRoom
    \/ \E p \in Participants : Merge(p) \/ Drain(p)
    \/ \E t \in Tracks : TrackEnded(t)
Callback(t) == AddParticipant(t) \/ IndexParticipant(t)
Watching == WatchWakes \/ EndPublish \/ \E t \in Tracks : EndTaken(t)

Next ==
    \/ \E m \in Signals : Receive(m)
    \/ ReceiveFails \/ Emit \/ RecvDone \/ CloseChannel \/ Dispatch
    \/ MediaFails \/ DeletePublish \/ Watching
    \/ \E t \in Tracks : \/ TrackArrives(t) \/ Stash(t) \/ Callback(t)
                         \/ DeleteParticipant(t)

\* Every goroutine is scheduled, and a read of a closed connection returns.
Fairness ==
    /\ WF_vars(Signalling) /\ WF_vars(Dispatch) /\ WF_vars(Watching)
    /\ \A t \in Tracks : WF_vars(Callback(t))

Spec == Init /\ [][Next]_vars /\ Fairness

-----------------------------------------------------------------------------
(* Every variable keeps its type: a participant leg is reported gone once,   *)
(* whoever of the server, the application and the teardown ends it, and      *)
(* nothing is sent on the closed channel.                                    *)
TypeOK ==
    /\ client \in {"open", "closing", "closed"} /\ queue \in Seq(Signals)
    /\ Len(queue) <= MaxQueue
    /\ recv \in Signals \cup {<<"reading">>, <<"failed">>, <<"done">>}
    /\ loop \in Signals \cup {<<"waiting">>, <<"done">>} \cup {<<"drain", p>> : p \in Participants}
    /\ ended \in BOOLEAN /\ known \subseteq Participants
    /\ pending \in [Participants -> Tracks \cup {NoTrack}]
    /\ track \in [Tracks -> {"absent", "unknown", "stashed", "fired", "added", "indexed"}]
    /\ index \subseteq Tracks /\ taken \subseteq Tracks
    /\ leg \in [Tracks -> {"none", "live", "over"}] /\ publish \in {"live", "over"}
    /\ watch \in {"waiting", "ending", "done"} /\ ends \in [Tracks -> 0 .. 1]
    /\ sent \in 0 .. MaxSignals /\ crashed = FALSE

(* A participant leg that is up is one the connection can find, to end it:   *)
(* in its index, taken by the teardown, or about to be indexed               *)
(* (livekit_leg.go).  What was handed over is nowhere pending.               *)
LegsAreFound ==
    \A t \in Tracks :
        /\ leg[t] = "live" => t \in index \cup taken \/ track[t] = "added"
        /\ track[t] \in {"fired", "added", "indexed"} => pending[Owner[t]] # t

(* A connection that ended is torn down: the loops are over, the channel is  *)
(* closed and both the publish leg and the participants it had are gone.     *)
Torn ==
    /\ watch = "done" /\ publish = "over" /\ taken = {} /\ client = "closed"
    /\ recv = <<"done">> /\ loop = <<"done">>

EveryConnectionEnds == []<>(ended => Torn)

(* Does not hold: a track whose callback runs during the teardown is indexed *)
(* after the index was taken, and its leg stays up.                          *)
NoLegOutlives == []<>(ended => \A t \in Tracks : leg[t] # "live")

(* Does not hold: transport.go:62-65 says that a participant's disconnect    *)
(* ends its legs; only an unpublished track does.                            *)
GoneParticipantsEnd ==
    []<>(\A t \in Tracks : leg[t] = "live" => Owner[t] \in known)

(* Does not hold: the second track of a participant that is not known yet    *)
(* replaces the first, and an update between the look-up and the stash is    *)
(* missed.                                                                   *)
KnownTracksAreHeard ==
    \A t \in Tracks :
        track[t] = "stashed" /\ loop \in {<<"waiting">>} => Owner[t] \notin known
=============================================================================
