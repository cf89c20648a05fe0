------------------------------ MODULE PeerMedia ------------------------------
(***************************************************************************)
(* A leg over a peer connection (leg/pcmedia.go): WebRTC                   *)
(* (api/webrtc.go, webrtc_leg.go), and WhatsApp in either direction        *)
(* (api/whatsapp.go, whatsapp_leg.go), whose call is a SIP dialog.  The    *)
(* dialog's handler, a DELETE, the peer and the callbacks of the media     *)
(* stack each run on goroutines of their own.                              *)
(***************************************************************************)
EXTENDS Naturals, Sequences, FiniteSets

CONSTANTS
    Kinds,        \* of leg: subset of {"webrtc", "inbound", "outbound"}
    Tracks,       \* remote audio tracks
    MaxFrames,    \* capacity of inFrames
    Candidates,   \* local ICE candidates of a generation
    MaxFlaps,     \* bound: interruptions of ICE
    MaxRestarts,  \* bound: ICE restarts
    Overlap       \* a DELETE or a CANCEL may meet an answer or a callback in flight,
                  \* and a candidate an offer that is about to fail

VARIABLES
    kind,
    pc,           \* the peer connection: "new", "up", "closed"
    ice,          \* its ICE: "ok" or "interrupted"
    callback,     \* the event a callback is about to publish
    flaps,
    dialog,       \* "none", "ringing", "answered", "over"
    state,        \* Leg.State
    registered,   \* in LegMgr
    answerCh,     \* closed by RequestAnswer
    handler,      \* handleWhatsAppInbound, driveWhatsAppOutbound
    deleter,      \* doDeleteLeg's goroutine
    lost,         \* OnDisconnect
    claimed,      \* disconnectDone
    told,         \* events published
    buffered, iceDone,     \* PCMedia.iceCandidates, iceDone
    gathered, gathering,   \* candidates of this generation, and whether more come
    drained, drainedDone,  \* what GET candidates has returned
    restart, saved,        \* RestartICE and what it took
    restarts,
    producer, inFrames     \* handleTrack per track; frames queued

legVars   == <<kind, pc, dialog, state, registered, answerCh, handler, deleter, lost, claimed>>
iceVars   == <<ice, callback, flaps>>
trickle   == <<buffered, iceDone, gathered, gathering, drained, drainedDone, restart, saved, restarts>>
audioVars == <<producer, inFrames>>
vars == <<legVars, iceVars, told, trickle, audioVars>>

Init ==
    /\ kind \in Kinds /\ pc = "new" /\ ice = "ok" /\ callback = "none" /\ flaps = 0
    /\ dialog = (IF kind = "inbound" THEN "ringing" ELSE "none")
    /\ state = (IF kind = "webrtc" THEN "connected" ELSE "ringing")
    /\ registered = TRUE /\ answerCh = FALSE
    /\ handler = (CASE kind = "webrtc" -> "done" [] kind = "inbound" -> "await"
                    [] kind = "outbound" -> "invite")
    /\ deleter = "none" /\ lost = "none" /\ claimed = FALSE /\ told = <<>>
    /\ buffered = {} /\ iceDone = FALSE /\ gathered = {} /\ gathering = (kind = "webrtc")
    /\ drained = {} /\ drainedDone = FALSE /\ restart = "none" /\ saved = <<{}, FALSE>>
    /\ restarts = 0
    /\ producer = [t \in Tracks |-> "read"] /\ inFrames = 0

-----------------------------------------------------------------------------
(* What every ending does: cleanupLeg, then publishDisconnect. *)

\* Bye of a dialog that is not confirmed sends nothing, and the leg of an
\* outbound call has its dialog once it is connected.
Bye == dialog' = IF dialog = "answered" /\ (kind = "inbound" \/ state = "connected")
                   THEN "over" ELSE dialog

Hangup ==
    /\ state' = "hungup"
    /\ IF kind # "webrtc" /\ state = "hungup"
         THEN UNCHANGED <<dialog, pc>>
         ELSE Bye /\ pc' = "closed"

CleanUp == Hangup /\ registered' = FALSE

\* mutant: whoever ends the leg reports it.
MutPublishDisconnect == claimed' = TRUE /\ told' = Append(told, "disconnected")

PublishDisconnect ==
    /\ claimed' = TRUE
    /\ told' = IF claimed THEN told ELSE Append(told, "disconnected")

\* doDeleteLeg takes the leg out of the registry first.
DeleteLeg ==
    /\ registered /\ registered' = FALSE /\ deleter' = "hangup"
    /\ Overlap \/ (callback = "none" /\ ~answerCh /\ handler \notin {"apply", "tell"})
    /\ UNCHANGED <<kind, pc, dialog, state, answerCh, handler, lost, claimed, iceVars, told,
                   trickle, audioVars>>

DeleteCleansUp ==
    /\ deleter = "hangup" /\ CleanUp /\ deleter' = "publish"
    /\ UNCHANGED <<kind, answerCh, handler, lost, claimed, iceVars, told, trickle, audioVars>>

DeletePublishes ==
    /\ deleter = "publish" /\ PublishDisconnect /\ deleter' = "done"
    /\ UNCHANGED <<kind, pc, dialog, state, registered, answerCh, handler, lost, iceVars,
                   trickle, audioVars>>

-----------------------------------------------------------------------------
(* The peer connection. *)

\* A callback that begins before an ending may publish after it.
Alone == Overlap \/ (deleter = "none" /\ lost = "none")

\* Connected: WebRTC reports it, WhatsApp reports the dialog instead.
MediaUp ==
    /\ pc = "new" /\ pc' = "up" /\ (kind = "webrtc" => Alone)
    /\ handler \in {"done", "watch"} /\ state = "connected"
    /\ callback' = IF kind = "webrtc" THEN "connected" ELSE "none"
    /\ UNCHANGED <<kind, dialog, state, registered, answerCh, handler, deleter, lost, claimed,
                   ice, flaps, told, trickle, audioVars>>

\* TolerateICEDisconnect: the interruption and the end of it are reported.
Flap ==
    /\ kind = "webrtc" /\ pc = "up" /\ callback = "none" /\ Alone
    /\ ice = "ok" => flaps < MaxFlaps
    /\ ice' = (IF ice = "ok" THEN "interrupted" ELSE "ok")
    /\ flaps' = IF ice = "ok" THEN flaps + 1 ELSE flaps
    /\ callback' = (IF ice = "ok" THEN "interrupted" ELSE "restored")
    /\ UNCHANGED <<legVars, told, trickle, audioVars>>

CallbackPublishes ==
    /\ callback # "none" /\ told' = Append(told, callback) /\ callback' = "none"
    /\ UNCHANGED <<legVars, ice, flaps, trickle, audioVars>>

\* OnDisconnect: ICE or DTLS failed, or the peer closed, for which a WhatsApp
\* leg waits for the BYE that goes with it.
MediaLost(cause) ==
    /\ pc \in {"new", "up"} /\ lost = "none" /\ callback = "none"
    /\ handler \in {"done", "watch"} /\ state = "connected"
    /\ lost' = IF cause = "peerClosed" /\ kind # "webrtc" THEN "grace" ELSE "check"
    /\ UNCHANGED <<kind, pc, dialog, state, registered, answerCh, handler, deleter, claimed,
                   iceVars, told, trickle, audioVars>>

GraceEnds ==
    /\ lost = "grace" /\ lost' = "check"
    /\ UNCHANGED <<kind, pc, dialog, state, registered, answerCh, handler, deleter, claimed,
                   iceVars, told, trickle, audioVars>>

LostCleansUp ==
    /\ lost = "check"
    /\ IF kind # "webrtc" /\ state = "hungup"
         THEN lost' = "done" /\ UNCHANGED <<state, dialog, pc, registered>>
         ELSE lost' = "publish" /\ CleanUp
    /\ UNCHANGED <<kind, answerCh, handler, deleter, claimed, iceVars, told, trickle, audioVars>>

LostPublishes ==
    /\ lost = "publish" /\ PublishDisconnect /\ lost' = "done"
    /\ UNCHANGED <<kind, pc, dialog, state, registered, answerCh, handler, deleter, iceVars,
                   trickle, audioVars>>

-----------------------------------------------------------------------------
(* The dialog of a WhatsApp call. *)

\* The peer cancels, or says BYE.
PeerEnds ==
    /\ dialog \in {"ringing", "answered"} /\ dialog' = "over"
    /\ Overlap \/ ~(answerCh /\ dialog = "ringing")
    /\ UNCHANGED <<kind, pc, state, registered, answerCh, handler, deleter, lost, claimed,
                   iceVars, told, trickle, audioVars>>

RequestAnswer ==
    /\ kind = "inbound" /\ registered /\ state = "ringing" /\ ~answerCh /\ answerCh' = TRUE
    /\ Overlap \/ dialog = "ringing"
    /\ UNCHANGED <<kind, pc, dialog, state, registered, handler, deleter, lost, claimed,
                   iceVars, told, trickle, audioVars>>

Handles(from, to) == handler = from /\ handler' = to

\* awaitInboundAnswer.  The INVITE is dropped unless a teardown owns it.
Unanswered ==
    /\ handler = "await"
    /\ \/ dialog = "over" \/ pc = "closed" \/ (state # "hungup" /\ ~answerCh)
    /\ dialog' = "over"
    /\ IF state # "hungup"
         THEN /\ state' = "hungup" /\ pc' = "closed" /\ registered' = FALSE
              /\ handler' = "publish"
         ELSE handler' = "done" /\ UNCHANGED <<state, pc, registered>>
    /\ UNCHANGED <<kind, answerCh, deleter, lost, claimed, iceVars, told, trickle, audioVars>>

RingTimeoutOverlaps ==
    /\ Overlap /\ Handles("await", "done") /\ state = "hungup"
    /\ UNCHANGED <<kind, pc, dialog, state, registered, answerCh, deleter, lost, claimed,
                   iceVars, told, trickle, audioVars>>

Answering ==
    /\ answerCh /\ Handles("await", "answer")
    /\ UNCHANGED <<kind, pc, dialog, state, registered, answerCh, deleter, lost, claimed,
                   iceVars, told, trickle, audioVars>>

\* Answer: a 200, and then the state, whatever became of it meanwhile.  If
\* the 200 fails the leg is cleaned up and not reported.
Answer ==
    /\ handler = "answer"
    /\ IF dialog = "ringing"
         THEN handler' = "answered" /\ dialog' = "answered" /\ UNCHANGED <<state, pc, registered>>
         ELSE handler' = "done" /\ CleanUp
    /\ UNCHANGED <<kind, answerCh, deleter, lost, claimed, iceVars, told, trickle, audioVars>>

AnswerDone ==
    /\ Handles("answered", "tell") /\ state' = "connected"
    /\ UNCHANGED <<kind, pc, dialog, registered, answerCh, deleter, lost, claimed, iceVars,
                   told, trickle, audioVars>>

\* InviteWhatsApp, until the leg's context is cancelled.
InviteAnswered ==
    /\ Handles("invite", "apply") /\ pc # "closed" /\ dialog' = "answered"
    /\ UNCHANGED <<kind, pc, state, registered, answerCh, deleter, lost, claimed, iceVars,
                   told, trickle, audioVars>>

\* A 200 whose ACK cannot be sent is not ended by a BYE.
InviteFails(acked) ==
    /\ Handles("invite", "failed")
    /\ dialog' = IF acked THEN dialog ELSE "answered"
    /\ acked \/ (Overlap /\ pc = "closed")
    /\ UNCHANGED <<kind, pc, state, registered, answerCh, deleter, lost, claimed, iceVars,
                   told, trickle, audioVars>>

\* SetRemoteDescription and ConnectOutbound; what fails is ended by a BYE.
MutBadAnswer == UNCHANGED dialog      \* mutant: the dialog is forgotten

BadAnswer == dialog' = "over"

Connect(valid) ==
    /\ handler = "apply" /\ (Overlap \/ deleter # "hangup")
    /\ IF valid /\ pc # "closed" /\ state # "hungup"
         THEN handler' = "tell" /\ state' = "connected" /\ UNCHANGED dialog
         ELSE handler' = "failed" /\ BadAnswer /\ UNCHANGED state
    /\ UNCHANGED <<kind, pc, registered, answerCh, deleter, lost, claimed, iceVars, told,
                   trickle, audioVars>>

TellConnected ==
    /\ Handles("tell", "watch") /\ told' = Append(told, "connected")
    /\ UNCHANGED <<kind, pc, dialog, state, registered, answerCh, deleter, lost, claimed,
                   iceVars, trickle, audioVars>>

\* watchLegDialogEnd; the inbound handler waits for its dialog alone.
DialogEnds ==
    /\ \/ handler = "failed"
       \/ handler = "watch" /\ (dialog = "over" \/ (kind = "outbound" /\ pc = "closed"))
    /\ IF state # "hungup" THEN CleanUp /\ handler' = "publish"
                           ELSE handler' = "done" /\ UNCHANGED <<state, dialog, pc, registered>>
    /\ UNCHANGED <<kind, answerCh, deleter, lost, claimed, iceVars, told, trickle, audioVars>>

HandlerPublishes ==
    /\ Handles("publish", "done") /\ PublishDisconnect
    /\ UNCHANGED <<kind, pc, dialog, state, registered, answerCh, deleter, lost, iceVars,
                   trickle, audioVars>>

-----------------------------------------------------------------------------
(* Trickled candidates of a WebRTC leg. *)

Quiescent == Overlap \/ restart = "none"

Gather(c) ==
    /\ gathering /\ pc # "closed" /\ Quiescent /\ c \notin gathered
    /\ gathered' = gathered \cup {c} /\ buffered' = buffered \cup {c}
    /\ UNCHANGED <<legVars, iceVars, told, iceDone, gathering, drained, drainedDone, restart,
                   saved, restarts, audioVars>>

GatherDone ==
    /\ gathering /\ gathered = Candidates /\ pc # "closed" /\ Quiescent
    /\ gathering' = FALSE /\ iceDone' = TRUE
    /\ UNCHANGED <<legVars, iceVars, told, buffered, gathered, drained, drainedDone, restart,
                   saved, restarts, audioVars>>

DrainLocalCandidates ==
    /\ kind = "webrtc" /\ registered /\ Quiescent
    /\ drained' = drained \cup buffered /\ buffered' = {} /\ drainedDone' = iceDone
    /\ UNCHANGED <<legVars, iceVars, told, iceDone, gathered, gathering, restart, saved,
                   restarts, audioVars>>

RestartBegins ==
    /\ kind = "webrtc" /\ registered /\ restart = "none" /\ restarts < MaxRestarts
    /\ restart' = "applying" /\ restarts' = restarts + 1
    /\ saved' = <<buffered, iceDone>> /\ buffered' = {} /\ iceDone' = FALSE
    /\ UNCHANGED <<legVars, iceVars, told, gathered, gathering, drained, drainedDone, audioVars>>

\* mutant: a refused offer takes the candidates with it.
MutRestored == UNCHANGED <<buffered, iceDone>>

Restored == buffered' = saved[1] /\ iceDone' = saved[2]

RestartFails ==
    /\ restart = "applying" /\ restart' = "none" /\ Restored
    /\ UNCHANGED <<legVars, iceVars, told, gathered, gathering, drained, drainedDone, saved,
                   restarts, audioVars>>

RestartApplies ==
    /\ restart = "applying" /\ pc # "closed" /\ restart' = "none"
    /\ gathered' = {} /\ gathering' = TRUE /\ drained' = {} /\ drainedDone' = FALSE
    /\ UNCHANGED <<legVars, iceVars, told, buffered, iceDone, saved, restarts, audioVars>>

-----------------------------------------------------------------------------
(* handleTrack: the oldest frame makes room for the newest. *)

Steps(t, from, to) == producer[t] = from /\ producer' = [producer EXCEPT ![t] = to]

Receive(t) ==
    /\ pc = "up"
    /\ IF inFrames < MaxFrames THEN inFrames' = inFrames + 1 /\ UNCHANGED producer
                               ELSE UNCHANGED inFrames /\ Steps(t, "read", "full")
    /\ producer[t] = "read"
    /\ UNCHANGED <<legVars, iceVars, told, trickle>>

MutDropOldest == UNCHANGED inFrames     \* mutant: nothing is dropped

DropOldest == inFrames' = IF inFrames > 0 THEN inFrames - 1 ELSE 0

MakeRoom(t) ==
    /\ Steps(t, "full", "push") /\ DropOldest
    /\ UNCHANGED <<legVars, iceVars, told, trickle>>

Push(t) ==
    /\ inFrames < MaxFrames /\ Steps(t, "push", "read") /\ inFrames' = inFrames + 1
    /\ UNCHANGED <<legVars, iceVars, told, trickle>>

ReadFrame ==
    /\ inFrames > 0 /\ pc = "up" /\ inFrames' = inFrames - 1
    /\ UNCHANGED <<legVars, iceVars, told, trickle, producer>>

-----------------------------------------------------------------------------
Deleter  == DeleteCleansUp \/ DeletePublishes
Callbacks == CallbackPublishes \/ GraceEnds \/ LostCleansUp \/ LostPublishes
Handler  == \/ Unanswered \/ Answering \/ Answer \/ AnswerDone \/ TellConnected
            \/ DialogEnds \/ HandlerPublishes \/ RingTimeoutOverlaps
            \/ InviteAnswered
            \/ \E ok \in BOOLEAN : InviteFails(ok) \/ Connect(ok)
Trickle  == \/ GatherDone \/ DrainLocalCandidates \/ RestartBegins \/ RestartFails
            \/ RestartApplies
            \/ \E c \in Candidates : Gather(c)
Audio    == ReadFrame \/ \E t \in Tracks : Receive(t) \/ MakeRoom(t) \/ Push(t)

Next == \/ DeleteLeg \/ Deleter \/ Callbacks \/ Handler \/ Trickle \/ Audio
        \/ MediaUp \/ Flap \/ PeerEnds \/ RequestAnswer
        \/ \E cause \in {"failed", "peerClosed"} : MediaLost(cause)

Fairness == WF_vars(Deleter) /\ WF_vars(Callbacks) /\ WF_vars(Handler)

Spec == Init /\ [][Next]_vars /\ Fairness

-----------------------------------------------------------------------------
(* Every variable keeps its type.                                            *)
TypeOK ==
    /\ kind \in Kinds /\ pc \in {"new", "up", "closed"} /\ ice \in {"ok", "interrupted"}
    /\ callback \in {"none", "connected", "interrupted", "restored"} /\ flaps \in 0 .. MaxFlaps
    /\ dialog \in {"none", "ringing", "answered", "over"}
    /\ state \in {"ringing", "connected", "hungup"}
    /\ {registered, answerCh, claimed, iceDone, gathering, drainedDone} \subseteq BOOLEAN
    /\ handler \in {"await", "answer", "answered", "invite", "apply", "failed", "tell", "watch",
                    "publish", "done"}
    /\ deleter \in {"none", "hangup", "publish", "done"}
    /\ lost \in {"none", "grace", "check", "publish", "done"}
    /\ buffered \cup gathered \cup drained \subseteq Candidates
    /\ restart \in {"none", "applying"} /\ inFrames \in 0 .. MaxFrames

(* The application hears of a leg in an order it can follow: it is connected *)
(* once at most and disconnected once at most, nothing follows that, and an  *)
(* interruption and its end alternate (webrtc.go, whatsapp.go).              *)
ToldInOrder ==
    /\ \A e \in {"connected", "disconnected"} :
          Cardinality({i \in DOMAIN told : told[i] = e}) <= 1
    /\ \A i \in DOMAIN told : told[i] = "disconnected" => i = Len(told)
    /\ \A i, j \in DOMAIN told :
          i < j /\ told[i] = told[j] =>
              \E k \in i .. j : told[k] \in {"interrupted", "restored"} \ {told[i]}

(* A candidate of the connection's generation waits for the application or   *)
(* was given to it, and so does the end of the gathering, whether or not an  *)
(* offer of a restart was refused (pcmedia.go:401-418).                      *)
CandidatesAreKept ==
    restart = "none" =>
        /\ gathered \subseteq buffered \cup drained
        /\ kind = "webrtc" => (iceDone <=> ~gathering)

(* The media stack's reader of a track never waits for the mixer: with one   *)
(* track there is room for the frame it is about to queue (pcmedia.go).      *)
NeverBlocks == \A t \in Tracks : producer[t] = "push" => inFrames < MaxFrames

Leaving == deleter # "none" \/ dialog = "over" \/ pc = "closed" \/ lost # "none"

Left ==
    /\ ~registered /\ state = "hungup" /\ pc = "closed" /\ dialog \in {"none", "over"}
    /\ claimed /\ \E i \in DOMAIN told : told[i] = "disconnected"

(* A leg that was deleted, or whose dialog or media ended, is gone from the  *)
(* registry and reported, and neither its dialog nor its media is left.      *)
LeavesNothing == []<>(Leaving => Left)
=============================================================================
