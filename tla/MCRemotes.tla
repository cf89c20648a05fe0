------------------------------ MODULE MCRemotes ------------------------------
(***************************************************************************)
(* Instances for TLC of six components that deal with a remote party       *)
(* outside a SIP call and keep no state in common: in every behaviour one  *)
(* of them is active, and fair as its own module has it.                   *)
(***************************************************************************)
EXTENDS Naturals, Sequences

CONSTANTS None, NoOne,
          t1, lkPeer, MaxQueue, MaxSignals,                      \* of LiveKit
          a, b, x, y, r1, r2, MaxUpdates,                        \* of SiprecSession
          MaxText,                                               \* of TransportLegs
          PcFrames, c1, MaxFlaps, MaxRestarts,                   \* of PeerMedia
          s1, s2, p1, MaxMoves,                                  \* of SiprecSource
          Frame, Capacity, Lead, MaxConceal, MaxInsert, MaxUnits, MaxReads  \* of PlayoutBuffer

\* A frame has units and a queue of frames a place; the bounds are numbers; no track is
\* the one that is pending when none is.
ASSUME RemotesAssumption ==
    /\ {Frame, PcFrames} \subseteq Nat \ {0} /\ t1 # "none"
    /\ {Capacity, Lead, MaxConceal, MaxInsert, MaxUnits, MaxReads} \subseteq Nat
    /\ {MaxQueue, MaxSignals, MaxText, MaxFlaps, MaxRestarts} \subseteq Nat

\* Documents of a recording session: complete, and partial in what can go
\* wrong with one: a party joins, claims another's stream, leaves, closes.
Says(p, s)   == [by |-> p, stream |-> s, gone |-> FALSE]
Closes(p, s) == [by |-> p, stream |-> s, gone |-> TRUE]
Partial(parties, streams, sends, left) ==
    [partial |-> TRUE, parties |-> parties, streams |-> streams, sends |-> sends, left |-> left]
Whole(parties, streams, sends) ==
    [partial |-> FALSE, parties |-> parties, streams |-> streams, sends |-> sends, left |-> {}]

First == Whole({a}, {x}, <<Says(a, x)>>)
Documents == {First,
    Partial({b}, {y}, <<Says(b, y)>>, {}),
    Partial({b}, {y}, <<Says(b, y), Says(a, y)>>, {}),
    Partial({}, {}, <<>>, {a}),
    Partial({}, {}, <<Closes(b, y)>>, {b}),
    Whole({a, b}, {x, y}, <<Says(b, y), Says(a, x)>>)}

VARIABLES
    active,   \* the component that runs
    client, queue, recv, dispatch, torn, known, pending, track, index, partLeg, publish,
    watch, taken, ends, sent, crashed,
    meta, warnings, sections, role, room, session, recorder, update, updates, end, recTold,
    tap, recording, start,
    wsKind, limited, acceptor, wsLeg, listed, inRoom, egress, conn, loop, cause, err,
    subscribed, peer, typed, heard, wired, delete, wsClaimed, wsTold,
    buf, closed, warming, last, conceal, insert, reader, written, loud, dropped, trimmed, out,
    pcKind, media, ice, callback, flaps, call, state, present, answerCh, caller, remover,
    lost, pcClaimed, pcTold, buffered, iceDone, gathered, gathering, drained, drainedDone,
    restart, saved, restarts, producer, inFrames,
    scope, members, moves, recordTap, starter, parties, todo, attached, pumps, registered,
    tracked, hungup, dialog, deleter, started, ended

LiveKitRoom == INSTANCE LiveKit WITH
    Tracks <- {t1}, Owner <- [t \in {t1} |-> lkPeer], Racy <- FALSE,
    loop <- dispatch, ended <- torn, leg <- partLeg
Recorded == INSTANCE SiprecSession WITH
    Participants <- {a, b}, Streams <- {x, y}, Docs <- Documents, FirstDoc <- First,
    Requests <- {r1, r2}, OwnRoom <- TRUE, Mismatch <- FALSE, EarlyUpdates <- FALSE,
    EarlyEnds <- FALSE, Overlap <- FALSE, handler <- recorder, told <- recTold
Socket == INSTANCE TransportLegs WITH
    Kinds <- {"wsIn", "wsOut", "moq"}, EarlyDeletes <- FALSE, EarlyText <- FALSE,
    kind <- wsKind, handler <- acceptor, leg <- wsLeg, claimed <- wsClaimed, told <- wsTold
Playout == INSTANCE PlayoutBuffer WITH Blocking <- TRUE, lost <- dropped
Passing == INSTANCE PlayoutBuffer WITH
    Blocking <- TRUE, Lead <- 0, Capacity <- Frame + 1, MaxUnits <- 5, lost <- dropped
Polled == INSTANCE PlayoutBuffer WITH
    Blocking <- FALSE, Lead <- 0, Capacity <- Frame + 1, MaxUnits <- 5, lost <- dropped
Peer == INSTANCE PeerMedia WITH
    Kinds <- {"webrtc", "inbound", "outbound"}, Tracks <- {t1}, MaxFrames <- PcFrames,
    Candidates <- {c1}, Overlap <- FALSE, kind <- pcKind, pc <- media, dialog <- call,
    registered <- present, handler <- caller, deleter <- remover, claimed <- pcClaimed,
    told <- pcTold
Source == INSTANCE SiprecSource WITH
    Sessions <- {s1, s2}, Parties <- {p1}, Shared <- FALSE, Overlap <- FALSE,
    tap <- recordTap, pc <- starter

liveKitVars == <<client, queue, recv, dispatch, torn, known, pending, track, index, partLeg,
                 publish, watch, taken, ends, sent, crashed>>
siprecVars  == <<meta, warnings, sections, role, room, session, recorder, update, updates, end,
                 recTold, tap, recording, start>>
socketVars  == <<wsKind, limited, acceptor, wsLeg, listed, inRoom, egress, conn, loop, cause,
                 err, subscribed, peer, typed, heard, wired, delete, wsClaimed, wsTold>>
playoutVars == <<buf, closed, warming, last, conceal, insert, reader, written, loud, dropped,
                 trimmed, out>>
peerVars    == <<pcKind, media, ice, callback, flaps, call, state, present, answerCh, caller,
                 remover, lost, pcClaimed, pcTold, buffered, iceDone, gathered, gathering,
                 drained, drainedDone, restart, saved, restarts, producer, inFrames>>
sourceVars  == <<scope, members, moves, recordTap, starter, parties, todo, attached, pumps,
                 registered, tracked, hungup, dialog, deleter, started, ended>>

\* The parameters of a component that is not active are fixed.
Init ==
    /\ active \in {"livekit", "siprec", "socket", "playout", "passing", "polled", "peer", "source"}
    /\ LiveKitRoom!Init /\ Recorded!Init /\ Socket!Init /\ Peer!Init /\ Source!Init
    /\ IF active = "playout" THEN Playout!Init ELSE Passing!Init
    /\ active # "socket" => wsKind = "wsIn"
    /\ active # "peer" => pcKind = "webrtc"
    /\ active # "source" => members = {} /\ scope = [s \in {s1, s2} |-> "room"]

Next ==
    /\ UNCHANGED active
    /\ \/ active = "livekit" /\ LiveKitRoom!Next
          /\ UNCHANGED <<siprecVars, socketVars, playoutVars, peerVars, sourceVars>>
       \/ active = "siprec" /\ Recorded!Next
          /\ UNCHANGED <<liveKitVars, socketVars, playoutVars, peerVars, sourceVars>>
       \/ active = "socket" /\ Socket!Next
          /\ UNCHANGED <<liveKitVars, siprecVars, playoutVars, peerVars, sourceVars>>
       \/ active = "playout" /\ Playout!Next
          /\ UNCHANGED <<liveKitVars, siprecVars, socketVars, peerVars, sourceVars>>
       \/ active = "passing" /\ Passing!Next
          /\ UNCHANGED <<liveKitVars, siprecVars, socketVars, peerVars, sourceVars>>
       \/ active = "polled" /\ Polled!Next
          /\ UNCHANGED <<liveKitVars, siprecVars, socketVars, peerVars, sourceVars>>
       \/ active = "peer" /\ Peer!Next
          /\ UNCHANGED <<liveKitVars, siprecVars, socketVars, playoutVars, sourceVars>>
       \/ active = "source" /\ Source!Next
          /\ UNCHANGED <<liveKitVars, siprecVars, socketVars, playoutVars, peerVars>>

(* The fairness of each component, where it is active.                       *)
LiveKitFairness ==
    /\ WF_liveKitVars(active = "livekit" /\ LiveKitRoom!Signalling)
    /\ WF_liveKitVars(active = "livekit" /\ LiveKitRoom!Dispatch)
    /\ WF_liveKitVars(active = "livekit" /\ LiveKitRoom!Watching)
    /\ WF_liveKitVars(active = "livekit" /\ LiveKitRoom!Callback(t1))

SocketFairness ==
    /\ WF_socketVars(active = "socket" /\ Socket!Handler)
    /\ WF_socketVars(active = "socket" /\ Socket!Deleter)
    /\ WF_socketVars(active = "socket" /\ Socket!SendEnds)
    /\ WF_socketVars(active = "socket" /\ Socket!SessionEnds)
    /\ \A i \in {"recv", "send", "ping"} : WF_socketVars(active = "socket" /\ Socket!Loop(i))

PeerFairness ==
    /\ WF_peerVars(active = "peer" /\ Peer!Deleter)
    /\ WF_peerVars(active = "peer" /\ Peer!Callbacks)
    /\ WF_peerVars(active = "peer" /\ Peer!Handler)

SourceFairness ==
    \A s \in {s1, s2} : /\ WF_sourceVars(active = "source" /\ Source!Starter(s))
                        /\ WF_sourceVars(active = "source" /\ Source!DeleteCleansUp(s))

Spec ==
    /\ Init
    /\ [][Next]_<<active, liveKitVars, siprecVars, socketVars, playoutVars, peerVars, sourceVars>>
    /\ LiveKitFairness /\ SocketFairness /\ PeerFairness /\ SourceFairness

-----------------------------------------------------------------------------
(* A leg of LiveKit, a socket or a peer connection is found by whoever has   *)
(* to end it, is told connected and disconnected once and in that order, and *)
(* leaves nothing when it is over (livekit_leg.go, ws_leg.go, moq_leg.go,    *)
(* webrtc.go, whatsapp.go).                                                  *)
LegsAreSound ==
    /\ LiveKitRoom!TypeOK /\ LiveKitRoom!LegsAreFound
    /\ Socket!TypeOK /\ Socket!ToldInOrder /\ Socket!LeavesNothing
    /\ Peer!TypeOK /\ Peer!ToldInOrder /\ Peer!CandidatesAreKept /\ Peer!NeverBlocks

(* A recording session knows whom each stream carries, and one that is over  *)
(* leaves neither room, tap nor pump; a session this server makes records    *)
(* the parties it attached (siprec/state.go, api/siprec.go, siprec_src.go).  *)
RecordingsAreSound ==
    /\ Recorded!TypeOK /\ Recorded!RolesFollowMetadata /\ Recorded!DocumentsAreMerged
    /\ Recorded!NothingIsLeft
    /\ Source!TypeOK /\ Source!SessionsRecord /\ Source!NothingRecordsOn

(* Speech that a buffer accepted is played once and in order, and no more    *)
(* frames are invented than the bound (wsmedia, moqmedia, lkmedia            *)
(* streambuf.go).                                                            *)
PlayoutIsSound ==
    CASE active = "playout" -> Playout!TypeOK /\ Playout!SpeechIsPlayed /\ Playout!InventsLittle
      [] active = "passing" -> Passing!SpeechIsPlayed
      [] active = "polled"  -> Polled!SpeechIsPlayed
      [] OTHER -> TRUE

Unsettled ==
    \/ active = "livekit" /\ torn /\ ~LiveKitRoom!Torn
    \/ active = "socket" /\ Socket!Leaving
    \/ active = "peer" /\ Peer!Leaving /\ ~Peer!Left
    \/ active = "source" /\ \E s \in {s1, s2} : Source!Over(s) /\ ~Source!Gone(s)

(* A leg or a session whose connection is over, that its peer ended or that  *)
(* was deleted, goes (transport.go, ws_leg.go, whatsapp.go, siprec_src.go).  *)
EveryRemoteEnds == []<>~Unsettled
=============================================================================
