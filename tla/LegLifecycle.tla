---------------------------- MODULE LegLifecycle ----------------------------
(***************************************************************************)
(* The life of one SIP leg as the API layer drives it (internal/api/       *)
(* legs.go, rooms.go, pending_room.go over internal/leg/sip_leg.go).       *)
(*                                                                         *)
(* The owner is the goroutine of HandleInboundCall, or the one that sends  *)
(* the INVITE of an outbound leg; callers are API handlers, SIP requests   *)
(* and timer callbacks.  They share the leg, its entry in the leg manager, *)
(* the pending-room table, the room under one ID (each creation is another *)
(* room) and the leg's route: its webhook and custom data.  A step is one  *)
(* locked section or atomic operation; what was read before may be stale.  *)
(***************************************************************************)
EXTENDS Naturals, FiniteSets, TLC

CONSTANTS
    Inbounds,      \* the legs considered: inbound (TRUE), outbound (FALSE)
    Callers,       \* goroutines other than the owner
    Ops,           \* what the callers do
    EarlyCallers,  \* callers act on a leg before its leg.ringing is published
    MaxRooms       \* bound: rooms ever created under the room's ID

AllOps == {"delete", "deleteRoom", "addToRoom", "expire", "panic", "hold",
           "answer", "earlyMedia", "maxDuration"}

ASSUME LegLifecycleAssumption ==
    /\ Inbounds \subseteq BOOLEAN /\ EarlyCallers \in BOOLEAN
    /\ Ops \subseteq AllOps /\ MaxRooms \in Nat
    /\ "owner" \notin Callers

Procs == Callers \cup {"owner"}

(* Callers are interchangeable, which TLC uses where no property is a liveness *)
(* property.                                                                  *)
Symmetry == Permutations(Callers)

VARIABLES
    inbound,           \* the leg's type
    state, held,       \* l.state, l.held
    ctxDone,           \* l.ctx is cancelled
    connected,         \* l.connectedCh is closed
    hasDialog,         \* the leg knows the dialog a BYE would go to
    byeOnce, byeSent,
    peerGone,          \* the peer ended the dialog
    answered,          \* the INVITE got its 2xx
    registered,        \* the leg is in the leg manager
    pending,           \* the leg is in the pending-room table
    joinOnce,          \* roomJoinOnce: "no", or its outcome, "yes" or "gone"
    room,              \* the room under the ID, or 0; rooms are numbered
    rooms,             \* rooms created so far
    inRoom,            \* the rooms whose participant the leg is
    roomID,            \* l.RoomID() is set
    claimed,           \* l.disconnectDone
    routed,            \* webhook and custom data are in place
    reports,           \* times leg.disconnected was published
    task

legVars == <<inbound, state, held, ctxDone, connected>>
sipVars == <<hasDialog, byeOnce, byeSent, peerGone, answered>>
mgrVars == <<registered, pending, joinOnce>>
roomVars == <<room, rooms, inRoom, roomID>>
eventVars == <<claimed, routed, reports>>
vars == <<legVars, sipVars, mgrVars, roomVars, eventVars, task>>

(* A goroutine: where it is; where it goes after Hangup and after reporting; *)
(* the room it looked up; whether a room delete counted the leg in.          *)
Task(pc) == [pc |-> pc, ret |-> "idle", then |-> "idle", gen |-> 0, snap |-> FALSE]

At(p, pc) == task[p].pc = pc
Goto(p, pc) ==
    task' = [task EXCEPT ![p] = IF pc = "idle" THEN Task(pc) ELSE [@ EXCEPT !.pc = pc]]
Hang(p, ret) == task' = [task EXCEPT ![p].pc = "hangup", ![p].ret = ret]
CleanUp(p, then) == task' = [task EXCEPT ![p].pc = "cleanup", ![p].then = then]

Init ==
    /\ inbound \in Inbounds
    /\ state = "ringing" /\ held = FALSE /\ ctxDone = FALSE /\ connected = FALSE
    /\ hasDialog = inbound /\ byeOnce = FALSE /\ byeSent = FALSE
    /\ peerGone = FALSE /\ answered = FALSE
    /\ registered = FALSE /\ pending = FALSE /\ joinOnce = "no"
    /\ room = 0 /\ rooms = 0 /\ inRoom = {} /\ roomID = FALSE
    /\ claimed = FALSE /\ routed = FALSE /\ reports = 0
    /\ task = [p \in Procs |-> Task(IF p = "owner" THEN "new" ELSE "idle")]

Unanswered == state \in {"ringing", "early_media"}

(* setState takes the lock and writes, whatever the state has become.        *)
SetState(s) == state' = s /\ connected' = (connected \/ s = "connected")

-----------------------------------------------------------------------------
(* Subroutines: any goroutine p may be in them.                              *)

(* Hangup: the state first, then the context and, once, the BYE.             *)
Hangup(p) ==
    /\ At(p, "hangup")
    /\ SetState("hung_up")
    /\ Goto(p, "cancel")
    /\ UNCHANGED <<inbound, held, ctxDone, sipVars, mgrVars, roomVars, eventVars>>

Cancel(p) ==
    /\ At(p, "cancel")
    /\ ctxDone' = TRUE
    /\ byeOnce' = TRUE
    /\ byeSent' = (byeSent \/ (~ byeOnce /\ hasDialog))
    /\ Goto(p, task[p].ret)
    /\ UNCHANGED <<inbound, state, held, connected, hasDialog, peerGone, answered,
                   mgrVars, roomVars, eventVars>>

(* cleanupLeg: out of the room under the leg's room ID, hung up, forgotten.  *)
Cleanup(p) ==
    /\ At(p, "cleanup")
    /\ IF roomID /\ room # 0
       THEN task' = [task EXCEPT ![p].pc = "leave", ![p].gen = room]
       ELSE Hang(p, "unpend")
    /\ UNCHANGED <<legVars, sipVars, mgrVars, roomVars, eventVars>>

Leave(p) ==
    LET g == task[p].gen IN
    /\ At(p, "leave")
    /\ inRoom' = inRoom \ {g}
    /\ roomID' = (roomID /\ g \notin inRoom)
    /\ Hang(p, "unpend")
    /\ UNCHANGED <<legVars, sipVars, mgrVars, room, rooms, eventVars>>

Unpend(p) ==
    /\ At(p, "unpend")
    /\ pending' = FALSE
    /\ Goto(p, "unregister")
    /\ UNCHANGED <<legVars, sipVars, registered, joinOnce, roomVars, eventVars>>

Unregister(p) ==
    /\ At(p, "unregister")
    /\ registered' = FALSE
    /\ Goto(p, "claim")
    /\ UNCHANGED <<legVars, sipVars, pending, joinOnce, roomVars, eventVars>>

(* publishDisconnect: the first to claim publishes, then drops the route.    *)
MutClaimUngated(p) ==                 \* mutant: everyone publishes
    /\ At(p, "claim")
    /\ claimed' = TRUE
    /\ Goto(p, "report")
    /\ UNCHANGED <<legVars, sipVars, mgrVars, roomVars, routed, reports>>

ClaimDisconnect(p) ==
    /\ At(p, "claim")
    /\ claimed' = TRUE
    /\ Goto(p, IF claimed THEN task[p].then ELSE "report")
    /\ UNCHANGED <<legVars, sipVars, mgrVars, roomVars, routed, reports>>

MutReportAfterRelease(p) ==           \* mutant: the route is dropped first
    /\ At(p, "report")
    /\ reports' = reports + 1
    /\ routed' = FALSE
    /\ Goto(p, "release")
    /\ UNCHANGED <<legVars, sipVars, mgrVars, roomVars, claimed>>

Report(p) ==
    /\ At(p, "report")
    /\ reports' = reports + 1
    /\ Goto(p, "release")
    /\ UNCHANGED <<legVars, sipVars, mgrVars, roomVars, claimed, routed>>

Release(p) ==
    /\ At(p, "release")
    /\ routed' = FALSE
    /\ Goto(p, task[p].then)
    /\ UNCHANGED <<legVars, sipVars, mgrVars, roomVars, claimed, reports>>

(* Manager.addLeg: room, leg and state are looked up, the join comes later.  *)
JoinLookup(p, failed) ==
    IF room # 0 /\ registered /\ state \in {"connected", "early_media"}
    THEN task' = [task EXCEPT ![p].pc = "join", ![p].gen = room]
    ELSE Goto(p, failed)

Join(p) ==
    /\ At(p, "join")
    /\ inRoom' = inRoom \cup {task[p].gen}
    /\ roomID' = TRUE
    /\ Goto(p, IF p = "owner" THEN "joined" ELSE "idle")
    /\ UNCHANGED <<legVars, sipVars, mgrVars, room, rooms, eventVars>>

CreateRoom ==
    IF room # 0 THEN UNCHANGED <<room, rooms>>
    ELSE rooms < MaxRooms /\ rooms' = rooms + 1 /\ room' = rooms + 1
-----------------------------------------------------------------------------
(* The owner, up to leg.ringing.                                             *)
NewLeg ==
    /\ At("owner", "new")
    /\ IF inbound THEN UNCHANGED <<room, rooms>> ELSE CreateRoom
    /\ registered' = TRUE
    /\ Goto("owner", IF inbound THEN "route" ELSE "pend")
    /\ UNCHANGED <<legVars, sipVars, pending, joinOnce, inRoom, roomID, eventVars>>

Pend ==
    /\ At("owner", "pend")
    /\ pending' = TRUE
    /\ Goto("owner", "route")
    /\ UNCHANGED <<legVars, sipVars, registered, joinOnce, roomVars, eventVars>>

Route ==
    /\ At("owner", "route")
    /\ routed' = TRUE
    /\ Goto("owner", "ring")
    /\ UNCHANGED <<legVars, sipVars, mgrVars, roomVars, claimed, reports>>

Ring ==
    /\ At("owner", "ring")
    /\ Goto("owner", IF inbound THEN "await" ELSE "invite")
    /\ UNCHANGED <<legVars, sipVars, mgrVars, roomVars, eventVars>>

Announced == task["owner"].pc \notin {"new", "pend", "route", "ring"}

-----------------------------------------------------------------------------
(* An outbound leg: the INVITE, early media, the answer.                     *)

(* A 183 with SDP; the state is checked here, and set once media is up.      *)
EarlyMedia ==
    /\ "earlyMedia" \in Ops /\ At("owner", "invite") /\ state = "ringing"
    /\ Goto("owner", "early")
    /\ UNCHANGED <<legVars, sipVars, mgrVars, roomVars, eventVars>>

SetEarlyMedia ==
    /\ At("owner", "early")
    /\ SetState("early_media")
    /\ task' = [task EXCEPT !["owner"].pc = "joinRoom", !["owner"].then = "invite"]
    /\ UNCHANGED <<inbound, held, ctxDone, sipVars, mgrVars, roomVars, eventVars>>

(* Refused, timed out, or cancelled with the leg's context.                  *)
InviteFails ==
    /\ At("owner", "invite")
    /\ IF state = "hung_up" THEN Goto("owner", "done") ELSE CleanUp("owner", "done")
    /\ UNCHANGED <<legVars, sipVars, mgrVars, roomVars, eventVars>>

InviteAnswered ==
    /\ At("owner", "invite")
    /\ answered' = TRUE
    /\ Goto("owner", "connect")
    /\ UNCHANGED <<legVars, hasDialog, byeOnce, byeSent, peerGone, mgrVars,
                   roomVars, eventVars>>

MutConnectUnchecked ==                \* mutant: adopted without the state check
    /\ At("owner", "connect")
    /\ hasDialog' = TRUE
    /\ Goto("owner", "setup")
    /\ UNCHANGED <<legVars, byeOnce, byeSent, peerGone, answered, mgrVars,
                   roomVars, eventVars>>

(* ConnectOutbound adopts the call unless the leg was hung up meanwhile...    *)
ConnectOutbound ==
    /\ At("owner", "connect")
    /\ hasDialog' = Unanswered
    /\ Goto("owner", IF Unanswered THEN "setup" ELSE "connectFailed")
    /\ UNCHANGED <<legVars, byeOnce, byeSent, peerGone, answered, mgrVars,
                   roomVars, eventVars>>

(* ... and reports it connected when media is up, whatever came in between.   *)
ConnectSetup ==
    /\ At("owner", "setup")
    /\ \/ SetState("connected") /\ Goto("owner", "connected")
       \/ UNCHANGED <<state, connected>> /\ Goto("owner", "connectFailed")
    /\ UNCHANGED <<inbound, held, ctxDone, sipVars, mgrVars, roomVars, eventVars>>

ConnectFailed ==
    /\ At("owner", "connectFailed")
    /\ byeSent' = TRUE
    /\ CleanUp("owner", "done")
    /\ UNCHANGED <<legVars, hasDialog, byeOnce, peerGone, answered, mgrVars,
                   roomVars, eventVars>>

Connected ==
    /\ At("owner", "connected")
    /\ task' = [task EXCEPT !["owner"].pc = IF inbound THEN "watch" ELSE "joinRoom",
                            !["owner"].then = "watch"]
    /\ UNCHANGED <<legVars, sipVars, mgrVars, roomVars, eventVars>>

(* addToRoom, at most once: join, then leave the pending table, in this order. *)
JoinPendingRoom ==
    /\ At("owner", "joinRoom")
    /\ IF joinOnce = "no" THEN JoinLookup("owner", "notJoined")
       ELSE Goto("owner", IF joinOnce = "yes" THEN task["owner"].then ELSE "done")
    /\ UNCHANGED <<legVars, sipVars, mgrVars, roomVars, eventVars>>

Joined ==
    /\ At("owner", "joined")
    /\ pending' = FALSE /\ joinOnce' = "yes"
    /\ Goto("owner", task["owner"].then)
    /\ UNCHANGED <<legVars, sipVars, registered, roomVars, eventVars>>

NotJoined ==
    /\ At("owner", "notJoined")
    /\ pending' = FALSE
    /\ Goto("owner", "roomGone")
    /\ UNCHANGED <<legVars, sipVars, registered, joinOnce, roomVars, eventVars>>

(* The leg stays if its room is there, and is ended if it is gone.           *)
RoomGone ==
    /\ At("owner", "roomGone")
    /\ \/ /\ room # 0
          /\ joinOnce' = "yes"
          /\ Goto("owner", task["owner"].then)
       \/ /\ room = 0
          /\ joinOnce' = "gone"
          /\ CleanUp("owner", IF task["owner"].then = "invite" THEN "invite" ELSE "done")
    /\ UNCHANGED <<legVars, sipVars, registered, pending, roomVars, eventVars>>
-----------------------------------------------------------------------------
(* An inbound leg: waiting for the application, the answer.                  *)

(* CANCEL or a cancelled context drops the INVITE; a ring timeout first      *)
(* yields to a teardown under way.                                           *)
AwaitEnds ==
    /\ At("owner", "await")
    /\ \/ (peerGone \/ ctxDone) /\ Goto("owner", "dropped")
       \/ Goto("owner", IF state = "hung_up" THEN "done" ELSE "dropped")
    /\ UNCHANGED <<legVars, sipVars, mgrVars, roomVars, eventVars>>

Dropped ==
    /\ At("owner", "dropped")
    /\ IF state = "hung_up" THEN Goto("owner", "done") ELSE CleanUp("owner", "done")
    /\ UNCHANGED <<legVars, sipVars, mgrVars, roomVars, eventVars>>

(* Answer sends the 200 whatever the state is, or fails...                   *)
Answer ==
    /\ At("owner", "answer")
    /\ \/ answered' = TRUE /\ Goto("owner", "answered")
       \/ UNCHANGED answered /\ Goto("owner", "answerFailed")
    /\ UNCHANGED <<legVars, hasDialog, byeOnce, byeSent, peerGone, mgrVars,
                   roomVars, eventVars>>

Answered ==
    /\ At("owner", "answered")
    /\ SetState("connected")
    /\ Goto("owner", "connected")
    /\ UNCHANGED <<inbound, held, ctxDone, sipVars, mgrVars, roomVars, eventVars>>

(* ... and a failed answer forgets the leg without reporting it.             *)
AnswerFailed ==
    /\ At("owner", "answerFailed")
    /\ registered' = FALSE
    /\ Goto("owner", "unroute")
    /\ UNCHANGED <<legVars, sipVars, pending, joinOnce, roomVars, eventVars>>

Unroute ==
    /\ At("owner", "unroute")
    /\ routed' = FALSE
    /\ Goto("owner", "done")
    /\ UNCHANGED <<legVars, sipVars, mgrVars, roomVars, claimed, reports>>
-----------------------------------------------------------------------------
(* watchLegDialogEnd: a leg already hung up is left to whoever did it.       *)
MutWatchAlwaysReturns ==              \* mutant: the dialog's end ends nothing
    /\ At("owner", "watch")
    /\ peerGone \/ ctxDone
    /\ Goto("owner", "done")
    /\ UNCHANGED <<legVars, sipVars, mgrVars, roomVars, eventVars>>

WatchDialogEnd ==
    /\ At("owner", "watch")
    /\ peerGone \/ ctxDone \/ "maxDuration" \in Ops
    /\ IF state = "hung_up" THEN Goto("owner", "done") ELSE CleanUp("owner", "done")
    /\ UNCHANGED <<legVars, sipVars, mgrVars, roomVars, eventVars>>

(* The peer hangs up, or cancels an INVITE of its own.                       *)
PeerEnds ==
    /\ ~ peerGone /\ (inbound \/ answered)
    /\ peerGone' = TRUE
    /\ UNCHANGED <<legVars, hasDialog, byeOnce, byeSent, answered, mgrVars,
                   roomVars, eventVars, task>>
-----------------------------------------------------------------------------
(* The callers.                                                              *)
Start(p, op) ==
    /\ p \in Callers /\ At(p, "idle") /\ op \in Ops
    /\ Announced \/ (EarlyCallers /\ registered)

MutDeleteOnlyHangsUp(p) ==            \* mutant: cleanup is left to the watcher
    /\ Start(p, "delete") /\ registered
    /\ registered' = FALSE
    /\ Hang(p, "idle")
    /\ UNCHANGED <<legVars, sipVars, pending, joinOnce, roomVars, eventVars>>

(* DELETE /legs/{id}: LegMgr.Remove elects the one that ends the leg; with a *)
(* reason an unanswered inbound leg is rejected.                             *)
Delete(p) ==
    /\ Start(p, "delete") /\ registered
    /\ registered' = FALSE
    /\ \/ Hang(p, "cleanup")
       \/ inbound /\ Goto(p, "reject")
    /\ UNCHANGED <<legVars, sipVars, pending, joinOnce, roomVars, eventVars>>

(* The state is checked, in doDeleteLeg and in Reject, and set later.        *)
Reject(p) ==
    /\ At(p, "reject")
    /\ \/ Unanswered /\ Goto(p, "rejecting")
       \/ ~ Unanswered /\ (Hang(p, "cleanup") \/ Goto(p, "cleanup"))
    /\ UNCHANGED <<legVars, sipVars, mgrVars, roomVars, eventVars>>

Rejecting(p) ==
    /\ At(p, "rejecting")
    /\ SetState("hung_up")
    /\ Goto(p, "rejected")
    /\ UNCHANGED <<inbound, held, ctxDone, sipVars, mgrVars, roomVars, eventVars>>

Rejected(p) ==
    /\ At(p, "rejected")
    /\ \/ ctxDone' = TRUE       \* the final response went out
       \/ UNCHANGED ctxDone
    /\ Goto(p, "cleanup")
    /\ UNCHANGED <<inbound, state, held, connected, sipVars, mgrVars, roomVars, eventVars>>

(* DELETE /rooms/{id}: participants, then pending legs, then RoomMgr.Delete. *)
DeleteRoom(p) ==
    /\ Start(p, "deleteRoom") /\ room # 0
    /\ task' = [task EXCEPT ![p].pc = "snapPending", ![p].snap = room \in inRoom]
    /\ UNCHANGED <<legVars, sipVars, mgrVars, roomVars, eventVars>>

SnapPending(p) ==
    /\ At(p, "snapPending")
    /\ task' = [task EXCEPT ![p].pc = "unroom", ![p].snap = @ \/ (pending /\ registered)]
    /\ UNCHANGED <<legVars, sipVars, mgrVars, roomVars, eventVars>>

Unroom(p) ==
    /\ At(p, "unroom")
    /\ room' = 0
    /\ task' = [task EXCEPT ![p] = IF room = 0 THEN Task("idle")
                                   ELSE [@ EXCEPT !.pc = "hangRoom", !.gen = room]]
    /\ UNCHANGED <<legVars, sipVars, mgrVars, rooms, inRoom, roomID, eventVars>>

HangRoom(p) ==
    /\ At(p, "hangRoom")
    /\ IF task[p].gen \in inRoom THEN Hang(p, "closeRoom") ELSE Goto(p, "closeRoom")
    /\ UNCHANGED <<legVars, sipVars, mgrVars, roomVars, eventVars>>

CloseRoom(p) ==
    LET g == task[p].gen IN
    /\ At(p, "closeRoom")
    /\ inRoom' = inRoom \ {g}
    /\ roomID' = (roomID /\ g \notin inRoom)
    /\ task' = [task EXCEPT ![p] = Task(IF @.snap THEN "cleanup" ELSE "idle")]
    /\ UNCHANGED <<legVars, sipVars, mgrVars, room, rooms, eventVars>>

(* POST /rooms/{id}/legs: the room is made if need be; a ringing inbound leg *)
(* is answered first.                                                        *)
AddToRoom(p) ==
    /\ Start(p, "addToRoom") /\ registered
    /\ CreateRoom
    /\ Goto(p, "findRoom")
    /\ UNCHANGED <<legVars, sipVars, mgrVars, inRoom, roomID, eventVars>>

FindLegRoom(p) ==
    /\ At(p, "findRoom")
    /\ IF room # 0 /\ room \in inRoom THEN Goto(p, "idle")
       ELSE IF inbound /\ state = "ringing" THEN Goto(p, "signalJoin")
       ELSE JoinLookup(p, "idle")
    /\ UNCHANGED <<legVars, sipVars, mgrVars, roomVars, eventVars>>

(* SignalAnswer: taken only by an owner that is waiting for it right now.    *)
SignalAnswer(p) ==
    /\ task[p].pc \in {"signal", "signalJoin"}
    /\ task' = [task EXCEPT
                   ![p].pc = IF @ = "signal" THEN "idle" ELSE "waitConnected",
                   !["owner"].pc = IF @ = "await" THEN "answer" ELSE @]
    /\ UNCHANGED <<legVars, sipVars, mgrVars, roomVars, eventVars>>

WaitConnected(p) ==
    /\ At(p, "waitConnected")
    /\ \/ connected /\ JoinLookup(p, "idle")
       \/ Goto(p, "idle")              \* 30 s went by
    /\ UNCHANGED <<legVars, sipVars, mgrVars, roomVars, eventVars>>

AnswerLeg(p) ==
    /\ Start(p, "answer") /\ inbound /\ registered /\ Unanswered
    /\ Goto(p, "signal")
    /\ UNCHANGED <<legVars, sipVars, mgrVars, roomVars, eventVars>>

(* Early media on an inbound leg: checked, 183 sent, then set.               *)
EnableEarlyMedia(p) ==
    /\ \/ /\ Start(p, "earlyMedia") /\ inbound /\ registered /\ state = "ringing"
          /\ Goto(p, "early")
          /\ UNCHANGED <<state, connected>>
       \/ /\ p # "owner" /\ At(p, "early")
          /\ SetState("early_media")
          /\ Goto(p, "idle")
    /\ UNCHANGED <<inbound, held, ctxDone, sipVars, mgrVars, roomVars, eventVars>>

(* RTP silence, a hold or session timer: the callback yields to a teardown.  *)
Expire(p) ==
    /\ Start(p, "expire") /\ ~ ctxDone
    /\ state \in {"early_media", "connected", "held"}
    /\ inbound => task["owner"].pc = "watch"
    /\ Goto(p, "expired")
    /\ UNCHANGED <<legVars, sipVars, mgrVars, roomVars, eventVars>>

Expired(p) ==
    /\ At(p, "expired")
    /\ IF state = "hung_up" THEN Goto(p, "idle") ELSE CleanUp(p, "idle")
    /\ UNCHANGED <<legVars, sipVars, mgrVars, roomVars, eventVars>>

(* A media loop panics: recoverLoopAndHangup.                                *)
MediaPanic(p) ==
    /\ Start(p, "panic") /\ ~ ctxDone
    /\ state \in {"early_media", "connected", "held"}
    /\ Hang(p, "idle")
    /\ UNCHANGED <<legVars, sipVars, mgrVars, roomVars, eventVars>>

(* Hold and unhold: the leg is looked up, SetHeld comes after the re-INVITE. *)
Hold(p) ==
    /\ Start(p, "hold") /\ registered /\ connected
    /\ Goto(p, "setHeld")
    /\ UNCHANGED <<legVars, sipVars, mgrVars, roomVars, eventVars>>

SetHeld(p) ==
    /\ At(p, "setHeld")
    /\ \E h \in BOOLEAN :
          /\ held' = h
          /\ \/ h = held /\ UNCHANGED <<state, connected>>
             \/ h # held /\ SetState(IF h THEN "held" ELSE "connected")
    /\ Goto(p, "idle")
    /\ UNCHANGED <<inbound, ctxDone, sipVars, mgrVars, roomVars, eventVars>>
-----------------------------------------------------------------------------
TearDown(p) ==
    \/ Hangup(p) \/ Cancel(p) \/ Cleanup(p) \/ Leave(p) \/ Unpend(p)
    \/ Unregister(p) \/ ClaimDisconnect(p) \/ Report(p) \/ Release(p)

OwnerWaits == EarlyMedia \/ InviteFails \/ InviteAnswered \/ AwaitEnds \/ WatchDialogEnd

OwnerStep ==
    \/ TearDown("owner") \/ Join("owner")
    \/ NewLeg \/ Pend \/ Route \/ Ring
    \/ SetEarlyMedia \/ ConnectOutbound \/ ConnectSetup \/ ConnectFailed \/ Connected
    \/ JoinPendingRoom \/ Joined \/ NotJoined \/ RoomGone
    \/ Dropped \/ Answer \/ Answered \/ AnswerFailed \/ Unroute

CallerStart(p) ==
    \/ Delete(p) \/ DeleteRoom(p) \/ AddToRoom(p) \/ AnswerLeg(p)
    \/ Expire(p) \/ MediaPanic(p) \/ Hold(p)

CallerStep(p) ==
    \/ TearDown(p) \/ Join(p)
    \/ Reject(p) \/ Rejecting(p) \/ Rejected(p)
    \/ SnapPending(p) \/ Unroom(p) \/ HangRoom(p) \/ CloseRoom(p)
    \/ FindLegRoom(p) \/ SignalAnswer(p) \/ WaitConnected(p)
    \/ EnableEarlyMedia(p) \/ Expired(p) \/ SetHeld(p)

Next ==
    \/ OwnerStep \/ OwnerWaits \/ PeerEnds
    \/ \E p \in Callers : CallerStart(p) \/ CallerStep(p)

Spec == Init /\ [][Next]_vars

(* The goroutines are scheduled; a wait ends once what it waits for is there. *)
FairSpec ==
    /\ Spec
    /\ WF_vars(OwnerStep)
    /\ WF_vars(ctxDone /\ InviteFails)
    /\ WF_vars((peerGone \/ ctxDone) /\ (AwaitEnds \/ WatchDialogEnd))
    /\ \A p \in Callers : WF_vars(CallerStep(p))
-----------------------------------------------------------------------------
PCs ==
    {"new", "pend", "route", "ring", "invite", "await", "watch", "done", "idle",
     "early", "connect", "setup", "connectFailed", "connected",
     "joinRoom", "join", "joined", "notJoined", "roomGone",
     "dropped", "answer", "answered", "answerFailed", "unroute",
     "hangup", "cancel", "cleanup", "leave", "unpend", "unregister",
     "claim", "report", "release",
     "reject", "rejecting", "rejected", "snapPending", "unroom", "hangRoom", "closeRoom",
     "findRoom", "signal", "signalJoin", "waitConnected", "expired", "setHeld"}

TaskType ==
    [pc : PCs, ret : {"idle", "cleanup", "unpend", "closeRoom"},
     then : {"idle", "invite", "watch", "done"}, gen : 0..MaxRooms, snap : BOOLEAN]

(* Type invariant; leg.disconnected is published once at most.               *)
TypeOK ==
    /\ inbound \in BOOLEAN
    /\ state \in {"ringing", "early_media", "connected", "held", "hung_up"}
    /\ held \in BOOLEAN /\ ctxDone \in BOOLEAN /\ connected \in BOOLEAN
    /\ hasDialog \in BOOLEAN /\ byeOnce \in BOOLEAN /\ byeSent \in BOOLEAN
    /\ peerGone \in BOOLEAN /\ answered \in BOOLEAN
    /\ registered \in BOOLEAN /\ pending \in BOOLEAN
    /\ joinOnce \in {"no", "yes", "gone"}
    /\ rooms \in 0..MaxRooms /\ room \in 0..rooms
    /\ inRoom \subseteq 1..rooms /\ roomID \in BOOLEAN
    /\ claimed \in BOOLEAN /\ routed \in BOOLEAN /\ reports \in 0..1
    /\ task \in [Procs -> TaskType]

(* The leg keeps its contract with the application: the events' route is     *)
(* there when leg.disconnected is published, once, and dropped only then     *)
(* (publishDisconnect, legs.go:104-114).                                     *)
Phase ==
    CASE reports = 0 -> IF routed THEN "routed" ELSE "new"
      [] reports = 1 -> IF routed THEN "reported" ELSE "released"
      [] OTHER -> "again"

Contract == INSTANCE LegContract WITH phase <- Phase

KeepsContract == Contract!Spec

Quiet == At("owner", "done") /\ \A p \in Callers : At(p, "idle")

(* An answered call is never left up at the peer: whoever ended the leg, in  *)
(* whatever order with the answer, a BYE was sent or the peer is gone.       *)
AnsweredCallEnds == Quiet /\ answered => byeSent \/ peerGone

(* Once a leg's goroutines are through nothing of it is left: not in the leg *)
(* manager, not in the pending-room table, and its route is dropped.         *)
NothingLeftBehind == Quiet => ~ registered /\ ~ pending /\ ~ routed

(* A leg hung up is reported, whatever raced with the hangup.                *)
EveryEndIsReported == (state = "hung_up") ~> (reports = 1)

(* legs.go:947-950: the state guard of watchLegDialogEnd "can only suppress  *)
(* the disconnect that teardown already published".                          *)
SuppressedWasReported == Quiet => reports = 1

(* Does not hold; pending_room.go:60-61 says that it does: "a concurrent     *)
(* room delete always finds the leg either pending or as a participant".     *)
DeleteFindsLeg ==
    \A p \in Callers : At(p, "unroom") /\ ~ task[p].snap => room \notin inRoom
=============================================================================
