----------------------------- MODULE MCServices -----------------------------
(***************************************************************************)
(* Instances for TLC of five components whose properties are of safety and  *)
(* which keep no state in common: in every behaviour one of them is        *)
(* active.  The trunks' instance is either one trunk that registers, or    *)
(* two that share a next hop.                                              *)
(***************************************************************************)
EXTENDS RecordingFile, TLC

CONSTANTS t1, t2, t3, aor1, aor2, p1, p2,
          Trunks, Kind, AOR, Host, Deleters, MaxSeq,       \* of Trunks
          TrunkSets,                                       \* the trunks created together
          Requests, CallID, Contacts, MaxChallenges, MaxBindings,  \* of Registrar
          Parties, Recordings, MaxJoins, MaxPauses,        \* of Recording
          Rooms, Callers, MaxLines, MaxStreams, MaxOffers  \* of LegStreams

TheTrunks == {t1, t2, t3}
TheKinds  == (t1 :> "sip_register") @@ (t2 :> "ip_ip") @@ (t3 :> "ip_ip")
TheAORs   == (t1 :> aor1) @@ (t2 :> aor1) @@ (t3 :> aor2)
TheHosts  == [t \in {t1, t2, t3} |-> "hop"]
OneTrunkOrTwo == {{t1}, {t2, t3}}
OneCallID == [r \in Requests |-> "id"]
\* One contact is bound again after its binding ended.
TwiceAndOnce == LET again == CHOOSE c \in Contacts : TRUE
                IN  [c \in Contacts |-> IF c = again THEN 2 ELSE 1]

(* Two requests, parties, rooms and recorders are interchangeable; no       *)
(* property here is a liveness property.                                     *)
Symmetry == Permutations({p1, p2})

VARIABLES
    active,       \* the component that runs, or the trunks created in it
    byID, byAOR, trust, trunk, loop, told, stop, shutdown, registrar, wire,
    multiple, failOpen, bindings, register, decision, pending, challenges,
    spent, untold, made, over,
    present, gone, joins, recordTap, mixing, tracking, mix, multi, track,
    starting, joining, leaving, finish, pausing, pauses,
    slots, current, media, last, sections, offers, mixed, roomIs, leg, task

\* The stop of a recording is a thread like its parties', a trunk's stop by Shutdown one
\* like a DELETE's, the sweeper and the administrator act like requests; nothing is
\* None; a leg's call starts with one section or two, so the bounds have room for both.
ASSUME ServicesAssumption ==
    /\ "stop" \notin Parties /\ None \notin Recordings
    /\ MaxJoins \in Nat \ {0} /\ MaxPauses \in Nat /\ MaxChallenges \in Nat
    /\ Requests \cap {"sweeper", "admin", "live", "over"} = {}
    /\ IsFiniteSet(Trunks) /\ None \notin Trunks /\ Deleters \cap Trunks = {}
    /\ {MaxLines, MaxStreams} \subseteq Nat \ {0, 1} /\ MaxOffers \in Nat /\ None \notin Rooms

SipTrunks == INSTANCE Trunks WITH Racy <- FALSE
Registration == INSTANCE Registrar
RoomRecording == INSTANCE Recording WITH Again <- FALSE, Racy <- FALSE
AudioStreams == INSTANCE LegStreams WITH
    Overlap <- FALSE, Holds <- FALSE, wire <- sections

trunkVars == <<byID, byAOR, trust, trunk, loop, told, stop, shutdown, registrar, wire>>
registrarVars == <<multiple, failOpen, bindings, register, decision, pending,
                   challenges, spent, untold, made, over>>
recordingVars == <<present, gone, joins, recordTap, mixing, tracking, mix, multi,
                   track, starting, joining, leaving, finish, pausing, pauses>>
streamVars == <<slots, current, media, last, sections, offers, mixed, roomIs, leg, task>>

MCInit ==
    /\ active \in TrunkSets \cup {{"registrar"}, {"file"}, {"recording"}, {"streams"}}
    /\ Init /\ SipTrunks!Init /\ Registration!Init /\ RoomRecording!Init
    /\ AudioStreams!Init
    /\ IF active = {"registrar"} THEN failOpen = multiple ELSE multiple /\ failOpen
    /\ active # {"recording"} => present = Parties
    /\ active # {"streams"} => last = 1

MCNext ==
    /\ UNCHANGED active
    /\ \/ /\ active \in TrunkSets /\ SipTrunks!Next
          /\ {t \in Trunks : trunk'[t] # SipTrunks!NoTrunk} \subseteq active
          /\ UNCHANGED <<vars, registrarVars, recordingVars, streamVars>>
       \/ active = {"registrar"} /\ Registration!Next
          /\ UNCHANGED <<vars, trunkVars, recordingVars, streamVars>>
       \/ active = {"file"} /\ Next
          /\ UNCHANGED <<trunkVars, registrarVars, recordingVars, streamVars>>
       \/ active = {"recording"} /\ RoomRecording!Next
          /\ UNCHANGED <<vars, trunkVars, registrarVars, streamVars>>
       \/ active = {"streams"} /\ AudioStreams!Next
          /\ UNCHANGED <<vars, trunkVars, registrarVars, recordingVars>>

MCSpec ==
    /\ MCInit
    /\ [][MCNext]_<<active, vars, trunkVars, registrarVars, recordingVars, streamVars>>

-----------------------------------------------------------------------------
(* A trunk told unregistered has no binding upstream and gets none again;    *)
(* between two procedures its status is what its last event told; a next hop *)
(* is exempted once per trunk, and no trunk is found by its address once it  *)
(* was removed (outbound_registration.go, tls_client.go, trunk_manager.go).  *)
TrunksAreSound ==
    active \in TrunkSets =>
        /\ SipTrunks!TypeOK /\ SipTrunks!UnregisteredIsGone /\ SipTrunks!StatusIsTold
        /\ SipTrunks!TrustIsCounted /\ SipTrunks!AORLeadsToManaged

(* The registrar publishes one end for every binding it ever made, and a     *)
(* challenge admits one retry (registrar.go, inbound_auth.go).               *)
RegistrarIsSound ==
    active = {"registrar"} =>
        /\ Registration!TypeOK
        /\ Registration!BindingsAreAccounted /\ Registration!ChallengeIsSpent

(* A file under a final name holds a whole recording, whenever the process   *)
(* dies (recorder_durable.go, path_reserve.go).                              *)
FilesAreWhole == active = {"file"} => TypeOK /\ RecordingsAreWhole

(* A room's tracks follow its parties, pause with its mix, and are merged or *)
(* named as omitted, each of them (recording.go).                            *)
TracksAreAccounted ==
    active = {"recording"} =>
        /\ RoomRecording!TypeOK /\ RoomRecording!TracksFollowRoom
        /\ RoomRecording!PauseCoversTracks
        /\ RoomRecording!MergeIsAccounted

(* A leg's offers keep the order of its sections, its sockets are those it   *)
(* advertises, and a stream is in one room (mlines.go, media_stream.go).     *)
StreamsAreSound ==
    active = {"streams"} =>
        /\ AudioStreams!TypeOK /\ AudioStreams!OffersKeepTheirLines
        /\ AudioStreams!SocketsAreAdvertised
        /\ AudioStreams!OneRoomPerStream
=============================================================================
