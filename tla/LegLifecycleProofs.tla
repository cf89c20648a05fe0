------------------------- MODULE LegLifecycleProofs -------------------------
(***************************************************************************)
(* An outbound leg keeps LegContract whatever the callers do, for any      *)
(* number of them: leg.disconnected is published once at most, while the   *)
(* route is attached, and the route is never attached again.  After that   *)
(* comes how a leg ends: the types of its state, that an answered outbound *)
(* call is ended at the peer too, and that nothing of a leg is left behind *)
(* once its goroutines are through.                                        *)
(*                                                                         *)
(* The contract is not inductive by itself.  Inv adds who may be about to  *)
(* report (only the goroutine that claimed), who has (then the claim is    *)
(* taken), and that nobody but the owner moves before the route is there.  *)
(* The ends have an invariant of their own each: TInv adds to the types    *)
(* who may be about to report; CallInv says what each point of the owner's *)
(* code knows of the dialog; EndsInv that whatever ends a leg - its state, *)
(* a room that is gone, its owner's return - is some goroutine on its way  *)
(* through the cleanup, or that cleanup done.                              *)
(***************************************************************************)
EXTENDS LegLifecycle, TLAPS

Unrouted == {"new", "pend", "route"}
InboundPCs == {"await", "dropped", "answer", "answered", "answerFailed", "unroute"}

(* An outbound leg, whose ID no client learns before leg.ringing.          *)
Outbound == inbound = FALSE /\ EarlyCallers = FALSE

Typed ==
    /\ task \in [Procs -> TaskType]
    /\ room \in 0..MaxRooms /\ rooms \in 0..MaxRooms
    /\ claimed \in BOOLEAN /\ routed \in BOOLEAN /\ reports \in {0, 1}

OwnerOK ==
    /\ task["owner"].pc \notin InboundPCs
    /\ ~ Announced => \A p \in Callers : task[p].pc = "idle"
    /\ task["owner"].pc \in Unrouted => ~ routed /\ ~ claimed
    /\ task["owner"].pc \notin Unrouted /\ reports = 0 => routed

ReportsOK ==
    /\ reports = 1 => claimed
    /\ \A p \in Procs : task[p].pc = "report" => claimed /\ reports = 0
    /\ \A p, q \in Procs : task[p].pc = "report" /\ task[q].pc = "report" => p = q
    /\ \A p \in Procs : task[p].pc = "release" => reports = 1

Inv == Typed /\ OwnerOK /\ ReportsOK

-----------------------------------------------------------------------------
(* Almost every step is calm: one goroutine moves, no event is involved.   *)
CalmPCs == PCs \ (Unrouted \cup InboundPCs \cup {"ring", "report", "release"})

Awake(p) ==
    /\ task["owner"].pc \notin Unrouted
    /\ p \in Callers => Announced

Calm(p) ==
    /\ Awake(p)
    /\ UNCHANGED eventVars
    /\ room' \in 0..MaxRooms /\ rooms' \in 0..MaxRooms
    /\ \E t \in TaskType : t.pc \in CalmPCs /\ task' = [task EXCEPT ![p] = t]

LEMMA CalmKeepsInv ==
    ASSUME Inv, NEW p \in Procs, Calm(p)
    PROVE  Inv' /\ Phase' = Phase
<1>1. PICK t \in TaskType : t.pc \in CalmPCs /\ task' = [task EXCEPT ![p] = t]
  BY DEF Calm
<1>2. /\ task' \in [Procs -> TaskType]
      /\ task'[p] = t
      /\ \A q \in Procs \ {p} : task'[q] = task[q]
  BY <1>1 DEF Inv, Typed
<1>3. claimed' = claimed /\ routed' = routed /\ reports' = reports
  BY DEF Calm, eventVars
<1>4. Typed'
  BY <1>2, <1>3 DEF Calm, Inv, Typed
<1>5. t.pc \notin Unrouted \cup InboundPCs \cup {"report", "release"}
  BY <1>1 DEF CalmPCs
<1>6. "owner" \in Procs
  BY DEF Procs
<1>7. OwnerOK'
  <2>1. CASE p = "owner"
    <3>1. task'["owner"].pc \notin Unrouted \cup InboundPCs
      BY <1>2, <1>5, <2>1
    <3>2. task["owner"].pc \notin Unrouted
      BY DEF Calm, Awake
    <3>3. reports = 0 => routed
      BY <3>2 DEF Inv, OwnerOK
    <3>4. ~ Announced' => \A q \in Callers : task'[q].pc = "idle"
      <4>1. SUFFICES ASSUME ~ Announced', NEW q \in Callers
                     PROVE  task'[q].pc = "idle"
        OBVIOUS
      <4>2. task'["owner"].pc = "ring"
        BY <3>1, <4>1 DEF Announced, Unrouted
      <4>3. task'["owner"].pc # "ring"
        BY <1>1, <1>2, <2>1 DEF CalmPCs
      <4>4. QED
        BY <4>2, <4>3
    <3>5. QED
      BY <1>3, <3>1, <3>3, <3>4 DEF OwnerOK
  <2>2. CASE p # "owner"
    <3>1. task'["owner"] = task["owner"]
      BY <1>2, <1>6, <2>2
    <3>2. p \in Callers
      BY <2>2 DEF Procs
    <3>3. Announced
      BY <3>2 DEF Calm, Awake
    <3>4. QED
      BY <1>3, <3>1, <3>3 DEF Inv, OwnerOK, Announced
  <2>3. QED
    BY <2>1, <2>2
<1>8. ReportsOK'
  <2>1. task'[p].pc # "report" /\ task'[p].pc # "release"
    BY <1>2, <1>5
  <2>2. \A q \in Procs : task'[q].pc \in {"report", "release"} =>
                             q # p /\ task'[q] = task[q]
    BY <1>2, <2>1
  <2>3. QED
    BY <1>3, <2>2 DEF Inv, ReportsOK
<1>9. Phase' = Phase
  BY <1>3 DEF Phase
<1>10. QED
  BY <1>4, <1>7, <1>8, <1>9 DEF Inv

(* Moves of one goroutine that are calm.                                   *)
LEMMA AwakeFact ==
    ASSUME Inv, NEW p \in Procs, task[p].pc \notin Unrouted \cup {"idle"}
    PROVE  Awake(p)
<1>1. CASE p = "owner"
  BY <1>1, LegLifecycleAssumption DEF Awake, LegLifecycleAssumption
<1>2. CASE p # "owner"
  <2>1. p \in Callers
    BY <1>2 DEF Procs
  <2>2. Announced
    BY <2>1 DEF Inv, OwnerOK
  <2>3. QED
    BY <2>2 DEF Awake, Announced, Unrouted
<1>3. QED
  BY <1>1, <1>2

LEMMA MoveCalm ==
    ASSUME Inv, NEW p \in Procs, NEW t \in TaskType, t.pc \in CalmPCs, Awake(p),
           task' = [task EXCEPT ![p] = t], UNCHANGED eventVars,
           room' \in 0..MaxRooms, rooms' \in 0..MaxRooms
    PROVE  Calm(p)
  BY DEF Calm

LEMMA TaskFact ==
    ASSUME NEW pc \in PCs
    PROVE  Task(pc) \in TaskType /\ Task(pc).pc = pc
<1>1. 0 \in 0..MaxRooms
  BY LegLifecycleAssumption DEF LegLifecycleAssumption
<1>2. QED
  BY <1>1 DEF Task, TaskType, PCs

LEMMA GotoCalm ==
    ASSUME Inv, NEW p \in Procs, Awake(p), NEW pc \in CalmPCs, Goto(p, pc),
           UNCHANGED eventVars, room' \in 0..MaxRooms, rooms' \in 0..MaxRooms
    PROVE  Calm(p)
<1>1. task[p] \in TaskType /\ pc \in PCs
  BY DEF Inv, Typed, CalmPCs
<1>2. CASE pc = "idle"
  <2>1. task' = [task EXCEPT ![p] = Task(pc)]
    BY <1>2 DEF Goto
  <2>2. QED
    BY <1>1, <2>1, TaskFact, MoveCalm
<1>3. CASE pc # "idle"
  <2>1. task' = [task EXCEPT ![p] = [task[p] EXCEPT !.pc = pc]]
    BY <1>3 DEF Goto
  <2>2. [task[p] EXCEPT !.pc = pc] \in TaskType /\ [task[p] EXCEPT !.pc = pc].pc = pc
    BY <1>1 DEF TaskType
  <2>3. QED
    BY <2>1, <2>2, MoveCalm
<1>4. QED
  BY <1>2, <1>3


Rets == {"idle", "cleanup", "unpend", "closeRoom"}
Thens == {"idle", "invite", "watch", "done"}

(* A goroutine's record with one field changed.                            *)
LEMMA RecordFacts ==
    ASSUME NEW t \in TaskType
    PROVE  /\ \A pc \in PCs : [t EXCEPT !.pc = pc] \in TaskType
                              /\ [t EXCEPT !.pc = pc].pc = pc
           /\ \A ret \in Rets : [t EXCEPT !.ret = ret] \in TaskType
                                /\ [t EXCEPT !.ret = ret].pc = t.pc
           /\ \A then \in Thens : [t EXCEPT !.then = then] \in TaskType
                                  /\ [t EXCEPT !.then = then].pc = t.pc
           /\ \A gen \in 0..MaxRooms : [t EXCEPT !.gen = gen] \in TaskType
                                       /\ [t EXCEPT !.gen = gen].pc = t.pc
           /\ \A snap \in BOOLEAN : [t EXCEPT !.snap = snap] \in TaskType
                                    /\ [t EXCEPT !.snap = snap].pc = t.pc
<1>1. \A pc \in PCs : [t EXCEPT !.pc = pc] \in TaskType /\ [t EXCEPT !.pc = pc].pc = pc
  BY DEF TaskType
<1>2. \A ret \in Rets : [t EXCEPT !.ret = ret] \in TaskType
                        /\ [t EXCEPT !.ret = ret].pc = t.pc
  BY DEF TaskType, Rets
<1>3. \A then \in Thens : [t EXCEPT !.then = then] \in TaskType
                          /\ [t EXCEPT !.then = then].pc = t.pc
  BY DEF TaskType, Thens
<1>4. \A gen \in 0..MaxRooms : [t EXCEPT !.gen = gen] \in TaskType
                               /\ [t EXCEPT !.gen = gen].pc = t.pc
  BY DEF TaskType
<1>5. \A snap \in BOOLEAN : [t EXCEPT !.snap = snap] \in TaskType
                            /\ [t EXCEPT !.snap = snap].pc = t.pc
  BY DEF TaskType
<1>6. QED
  BY <1>1, <1>2, <1>3, <1>4, <1>5

LEMMA HangCalm ==
    ASSUME Inv, NEW p \in Procs, Awake(p), NEW ret \in Rets,
           Hang(p, ret),
           UNCHANGED eventVars, room' \in 0..MaxRooms, rooms' \in 0..MaxRooms
    PROVE  Calm(p)
<1> DEFINE u == [task[p] EXCEPT !.pc = "hangup"]
           t == [u EXCEPT !.ret = ret]
<1>1. task[p] \in TaskType /\ "hangup" \in PCs /\ "hangup" \in CalmPCs
  BY DEF Inv, Typed, CalmPCs, PCs, Unrouted, InboundPCs
<1>2. u \in TaskType /\ u.pc = "hangup"
  BY <1>1, RecordFacts
<1>3. t \in TaskType /\ t.pc = "hangup"
  <2> HIDE DEF u
  <2>1. QED
    BY <1>2, RecordFacts
<1>4. task' = [task EXCEPT ![p] = t]
  BY DEF Inv, Typed, Hang
<1> HIDE DEF t
<1>5. QED
  BY <1>1, <1>3, <1>4, MoveCalm

LEMMA CleanUpCalm ==
    ASSUME Inv, NEW p \in Procs, Awake(p), NEW then \in Thens,
           CleanUp(p, then),
           UNCHANGED eventVars, room' \in 0..MaxRooms, rooms' \in 0..MaxRooms
    PROVE  Calm(p)
<1> DEFINE u == [task[p] EXCEPT !.pc = "cleanup"]
           t == [u EXCEPT !.then = then]
<1>1. task[p] \in TaskType /\ "cleanup" \in PCs /\ "cleanup" \in CalmPCs
  BY DEF Inv, Typed, CalmPCs, PCs, Unrouted, InboundPCs
<1>2. u \in TaskType /\ u.pc = "cleanup"
  BY <1>1, RecordFacts
<1>3. t \in TaskType /\ t.pc = "cleanup"
  <2> HIDE DEF u
  <2>1. QED
    BY <1>2, RecordFacts
<1>4. task' = [task EXCEPT ![p] = t]
  BY DEF Inv, Typed, CleanUp
<1> HIDE DEF t
<1>5. QED
  BY <1>1, <1>3, <1>4, MoveCalm

LEMMA ThenCalm ==
    ASSUME Inv, NEW p \in Procs, Awake(p), NEW pc \in CalmPCs, NEW then \in Thens,
           task' = [task EXCEPT ![p].pc = pc, ![p].then = then],
           UNCHANGED eventVars, room' \in 0..MaxRooms, rooms' \in 0..MaxRooms
    PROVE  Calm(p)
<1> DEFINE u == [task[p] EXCEPT !.pc = pc]
           t == [u EXCEPT !.then = then]
<1>1. task[p] \in TaskType /\ pc \in PCs /\ pc \in CalmPCs
  BY DEF Inv, Typed, CalmPCs, PCs, Unrouted, InboundPCs
<1>2. u \in TaskType /\ u.pc = pc
  BY <1>1, RecordFacts
<1>3. t \in TaskType /\ t.pc = pc
  <2> HIDE DEF u
  <2>1. QED
    BY <1>2, RecordFacts
<1>4. task' = [task EXCEPT ![p] = t]
  BY DEF Inv, Typed
<1> HIDE DEF t
<1>5. QED
  BY <1>1, <1>3, <1>4, MoveCalm

LEMMA RoomCalm ==
    ASSUME Inv, NEW p \in Procs, Awake(p), NEW pc \in CalmPCs, NEW gen \in 0..MaxRooms,
           task' = [task EXCEPT ![p].pc = pc, ![p].gen = gen],
           UNCHANGED eventVars, room' \in 0..MaxRooms, rooms' \in 0..MaxRooms
    PROVE  Calm(p)
<1> DEFINE u == [task[p] EXCEPT !.pc = pc]
           t == [u EXCEPT !.gen = gen]
<1>1. task[p] \in TaskType /\ pc \in PCs /\ pc \in CalmPCs
  BY DEF Inv, Typed, CalmPCs, PCs, Unrouted, InboundPCs
<1>2. u \in TaskType /\ u.pc = pc
  BY <1>1, RecordFacts
<1>3. t \in TaskType /\ t.pc = pc
  <2> HIDE DEF u
  <2>1. QED
    BY <1>2, RecordFacts
<1>4. task' = [task EXCEPT ![p] = t]
  BY DEF Inv, Typed
<1> HIDE DEF t
<1>5. QED
  BY <1>1, <1>3, <1>4, MoveCalm

LEMMA SnapCalm ==
    ASSUME Inv, NEW p \in Procs, Awake(p), NEW pc \in CalmPCs, NEW snap \in BOOLEAN,
           task' = [task EXCEPT ![p].pc = pc, ![p].snap = snap],
           UNCHANGED eventVars, room' \in 0..MaxRooms, rooms' \in 0..MaxRooms
    PROVE  Calm(p)
<1> DEFINE u == [task[p] EXCEPT !.pc = pc]
           t == [u EXCEPT !.snap = snap]
<1>1. task[p] \in TaskType /\ pc \in PCs /\ pc \in CalmPCs
  BY DEF Inv, Typed, CalmPCs, PCs, Unrouted, InboundPCs
<1>2. u \in TaskType /\ u.pc = pc
  BY <1>1, RecordFacts
<1>3. t \in TaskType /\ t.pc = pc
  <2> HIDE DEF u
  <2>1. QED
    BY <1>2, RecordFacts
<1>4. task' = [task EXCEPT ![p] = t]
  BY DEF Inv, Typed
<1> HIDE DEF t
<1>5. QED
  BY <1>1, <1>3, <1>4, MoveCalm

LEMMA Fields ==
    ASSUME Inv, NEW p \in Procs
    PROVE  task[p].ret \in Rets /\ task[p].then \in Thens
  BY DEF Inv, Typed, TaskType, Rets, Thens

-----------------------------------------------------------------------------
(* Where calm moves lead.                                                  *)
LEMMA CalmPCsFact ==
    /\ {"invite", "watch", "done", "idle", "early", "connect", "setup",
        "connectFailed", "connected", "joinRoom", "join", "joined",
        "notJoined", "roomGone", "hangup", "cancel", "cleanup", "leave",
        "unpend", "unregister", "claim", "reject", "rejecting", "rejected",
        "snapPending", "unroom", "hangRoom", "closeRoom", "findRoom",
        "signal", "signalJoin", "waitConnected", "expired", "setHeld"} \subseteq CalmPCs
    /\ Rets \subseteq CalmPCs /\ Thens \subseteq CalmPCs
  BY DEF CalmPCs, PCs, Unrouted, InboundPCs, Rets, Thens

ExitSteps(p) ==
    \/ Hangup(p) \/ Cancel(p) \/ Cleanup(p) \/ Leave(p) \/ Unpend(p)
    \/ Unregister(p) \/ Join(p)

(* Hanging up, leaving and joining a room.                                 *)
LEMMA ExitCalm ==
    ASSUME Inv, NEW p \in Procs, ExitSteps(p)
    PROVE  Calm(p)
<1>1. CASE Hangup(p)
  <2>1. Awake(p)
    BY <1>1, AwakeFact DEF Hangup, At, Unrouted
  <2>2. QED
    BY <1>1, <2>1, CalmPCsFact, GotoCalm
       DEF Hangup, eventVars, roomVars, Inv, Typed
<1>2. CASE Cancel(p)
  <2>1. Awake(p)
    BY <1>2, AwakeFact DEF Cancel, At, Unrouted
  <2>2. QED
    BY <1>2, <2>1, CalmPCsFact, GotoCalm, Fields
       DEF Cancel, eventVars, roomVars, Inv, Typed
<1>3. CASE Cleanup(p)
  <2>1. Awake(p)
    BY <1>3, AwakeFact DEF Cleanup, At, Unrouted
  <2>2. QED
    BY <1>3, <2>1, CalmPCsFact, RoomCalm, HangCalm
       DEF Cleanup, eventVars, roomVars, Inv, Typed, Rets
<1>4. CASE Leave(p)
  <2>1. Awake(p)
    BY <1>4, AwakeFact DEF Leave, At, Unrouted
  <2>2. QED
    BY <1>4, <2>1, CalmPCsFact, HangCalm
       DEF Leave, eventVars, roomVars, Inv, Typed, Rets
<1>5. CASE Unpend(p)
  <2>1. Awake(p)
    BY <1>5, AwakeFact DEF Unpend, At, Unrouted
  <2>2. QED
    BY <1>5, <2>1, CalmPCsFact, GotoCalm
       DEF Unpend, eventVars, roomVars, Inv, Typed
<1>6. CASE Unregister(p)
  <2>1. Awake(p)
    BY <1>6, AwakeFact DEF Unregister, At, Unrouted
  <2>2. QED
    BY <1>6, <2>1, CalmPCsFact, GotoCalm
       DEF Unregister, eventVars, roomVars, Inv, Typed
<1>7. CASE Join(p)
  <2>1. Awake(p)
    BY <1>7, AwakeFact DEF Join, At, Unrouted
  <2>2. QED
    BY <1>7, <2>1, CalmPCsFact, GotoCalm
       DEF Join, eventVars, roomVars, Inv, Typed
<1>8. QED
  BY <1>1, <1>2, <1>3, <1>4, <1>5, <1>6, <1>7 DEF ExitSteps

(* The owner.                                                              *)
OwnerCalm ==
    \/ Ring \/ EarlyMedia \/ SetEarlyMedia \/ InviteFails \/ InviteAnswered
    \/ ConnectOutbound \/ ConnectSetup \/ ConnectFailed \/ Connected
    \/ JoinPendingRoom \/ Joined \/ NotJoined \/ RoomGone \/ WatchDialogEnd

LEMMA OwnerStepsCalm ==
    ASSUME Outbound, Inv, OwnerCalm
    PROVE  Calm("owner")
<1>0. "owner" \in Procs /\ (task["owner"].pc \notin Unrouted \cup {"idle"} => Awake("owner"))
  BY AwakeFact DEF Procs
<1>1. CASE Ring
  <2>1. Awake("owner")
    BY <1>0, <1>1 DEF Ring, At, Unrouted
  <2>2. QED
    BY <1>0, <1>1, <2>1, CalmPCsFact, GotoCalm
       DEF Outbound, Ring, eventVars, roomVars, Inv, Typed
<1>2. CASE EarlyMedia
  <2>1. Awake("owner")
    BY <1>0, <1>2 DEF EarlyMedia, At, Unrouted
  <2>2. QED
    BY <1>0, <1>2, <2>1, CalmPCsFact, GotoCalm
       DEF EarlyMedia, eventVars, roomVars, Inv, Typed
<1>3. CASE SetEarlyMedia
  <2>1. Awake("owner")
    BY <1>0, <1>3 DEF SetEarlyMedia, At, Unrouted
  <2>2. QED
    BY <1>0, <1>3, <2>1, CalmPCsFact, ThenCalm
       DEF SetEarlyMedia, eventVars, roomVars, Inv, Typed, Thens
<1>4. CASE InviteFails
  <2>1. Awake("owner")
    BY <1>0, <1>4 DEF InviteFails, At, Unrouted
  <2>2. QED
    BY <1>0, <1>4, <2>1, CalmPCsFact, GotoCalm, CleanUpCalm
       DEF InviteFails, eventVars, roomVars, Inv, Typed, Thens
<1>5. CASE InviteAnswered
  <2>1. Awake("owner")
    BY <1>0, <1>5 DEF InviteAnswered, At, Unrouted
  <2>2. QED
    BY <1>0, <1>5, <2>1, CalmPCsFact, GotoCalm
       DEF InviteAnswered, eventVars, roomVars, Inv, Typed
<1>6. CASE ConnectOutbound
  <2>1. Awake("owner")
    BY <1>0, <1>6 DEF ConnectOutbound, At, Unrouted
  <2>2. QED
    BY <1>0, <1>6, <2>1, CalmPCsFact, GotoCalm
       DEF ConnectOutbound, eventVars, roomVars, Inv, Typed
<1>7. CASE ConnectSetup
  <2>1. Awake("owner")
    BY <1>0, <1>7 DEF ConnectSetup, At, Unrouted
  <2>2. QED
    BY <1>0, <1>7, <2>1, CalmPCsFact, GotoCalm
       DEF ConnectSetup, eventVars, roomVars, Inv, Typed
<1>8. CASE ConnectFailed
  <2>1. Awake("owner")
    BY <1>0, <1>8 DEF ConnectFailed, At, Unrouted
  <2>2. QED
    BY <1>0, <1>8, <2>1, CalmPCsFact, CleanUpCalm
       DEF ConnectFailed, eventVars, roomVars, Inv, Typed, Thens
<1>9. CASE Connected
  <2>1. Awake("owner")
    BY <1>0, <1>9 DEF Connected, At, Unrouted
  <2>2. QED
    BY <1>0, <1>9, <2>1, CalmPCsFact, ThenCalm
       DEF Outbound, Connected, eventVars, roomVars, Inv, Typed, Thens
<1>10. CASE JoinPendingRoom
  <2>1. Awake("owner")
    BY <1>0, <1>10 DEF JoinPendingRoom, At, Unrouted
  <2>2. /\ UNCHANGED eventVars
        /\ room \in 0..MaxRooms /\ room' \in 0..MaxRooms /\ rooms' \in 0..MaxRooms
    BY <1>10 DEF JoinPendingRoom, roomVars, Inv, Typed
  <2>3. CASE joinOnce = "no"
    <3>1. JoinLookup("owner", "notJoined")
      BY <1>10, <2>3 DEF JoinPendingRoom
    <3>2. CASE Goto("owner", "notJoined")
      BY <1>0, <2>1, <2>2, <3>2, CalmPCsFact, GotoCalm
    <3>3. CASE task' = [task EXCEPT !["owner"].pc = "join", !["owner"].gen = room]
      BY <1>0, <2>1, <2>2, <3>3, CalmPCsFact, RoomCalm
    <3>4. QED
      BY <3>1, <3>2, <3>3 DEF JoinLookup
  <2>4. CASE joinOnce # "no"
    <3>1. PICK pc \in CalmPCs : Goto("owner", pc)
      BY <1>0, <1>10, <2>4, CalmPCsFact, Fields DEF JoinPendingRoom
    <3>2. QED
      BY <1>0, <2>1, <2>2, <3>1, GotoCalm
  <2>5. QED
    BY <1>10, <2>3, <2>4 DEF JoinPendingRoom
<1>11. CASE Joined
  <2>1. Awake("owner")
    BY <1>0, <1>11 DEF Joined, At, Unrouted
  <2>2. QED
    BY <1>0, <1>11, <2>1, CalmPCsFact, GotoCalm, Fields
       DEF Joined, eventVars, roomVars, Inv, Typed
<1>12. CASE NotJoined
  <2>1. Awake("owner")
    BY <1>0, <1>12 DEF NotJoined, At, Unrouted
  <2>2. QED
    BY <1>0, <1>12, <2>1, CalmPCsFact, GotoCalm
       DEF NotJoined, eventVars, roomVars, Inv, Typed
<1>13. CASE RoomGone
  <2>1. Awake("owner")
    BY <1>0, <1>13 DEF RoomGone, At, Unrouted
  <2>2. QED
    BY <1>0, <1>13, <2>1, CalmPCsFact, GotoCalm, CleanUpCalm, Fields
       DEF RoomGone, eventVars, roomVars, Inv, Typed, Thens
<1>14. CASE WatchDialogEnd
  <2>1. Awake("owner")
    BY <1>0, <1>14 DEF WatchDialogEnd, At, Unrouted
  <2>2. QED
    BY <1>0, <1>14, <2>1, CalmPCsFact, GotoCalm, CleanUpCalm
       DEF WatchDialogEnd, eventVars, roomVars, Inv, Typed, Thens
<1>15. QED
 BY <1>1, <1>2, <1>3, <1>4, <1>5, <1>6, <1>7,
     <1>8, <1>9, <1>10, <1>11, <1>12, <1>13, <1>14 DEF OwnerCalm

(* The callers.                                                            *)
CallerCalm(p) ==
    \/ Delete(p) \/ Reject(p) \/ Rejecting(p) \/ Rejected(p)
    \/ DeleteRoom(p) \/ SnapPending(p) \/ Unroom(p) \/ HangRoom(p) \/ CloseRoom(p)
    \/ AddToRoom(p) \/ FindLegRoom(p) \/ SignalAnswer(p) \/ WaitConnected(p)
    \/ EnableEarlyMedia(p) \/ Expire(p) \/ Expired(p) \/ MediaPanic(p)
    \/ Hold(p) \/ SetHeld(p)

LEMMA StartAwake ==
    ASSUME Outbound, Inv, NEW p \in Callers, NEW op, Start(p, op)
    PROVE  Awake(p)
<1>1. Announced
  BY DEF Outbound, Start
<1>2. QED
  BY <1>1 DEF Awake, Announced, Unrouted

LEMMA CallerStepsCalm ==
    ASSUME Outbound, Inv, NEW p \in Callers, CallerCalm(p)
    PROVE  Calm(p)
<1>0. p \in Procs /\ (task[p].pc \notin Unrouted \cup {"idle"} => Awake(p))
  BY AwakeFact DEF Procs
<1>1. CASE Delete(p)
  <2>1. Awake(p)
    BY <1>1, StartAwake DEF Delete
  <2>2. QED
    BY <1>0, <1>1, <2>1, CalmPCsFact, HangCalm
       DEF Outbound, Delete, eventVars, roomVars, Inv, Typed, Rets
<1>2. CASE Reject(p)
  <2>1. Awake(p)
    BY <1>0, <1>2 DEF Reject, At, Unrouted
  <2>2. QED
    BY <1>0, <1>2, <2>1, CalmPCsFact, GotoCalm, HangCalm
       DEF Reject, eventVars, roomVars, Inv, Typed, Rets
<1>20. CASE Rejecting(p)
  <2>1. Awake(p)
    BY <1>0, <1>20 DEF Rejecting, At, Unrouted
  <2>2. QED
    BY <1>0, <1>20, <2>1, CalmPCsFact, GotoCalm
       DEF Rejecting, eventVars, roomVars, Inv, Typed
<1>3. CASE Rejected(p)
  <2>1. Awake(p)
    BY <1>0, <1>3 DEF Rejected, At, Unrouted
  <2>2. QED
    BY <1>0, <1>3, <2>1, CalmPCsFact, GotoCalm
       DEF Rejected, eventVars, roomVars, Inv, Typed
<1>4. CASE DeleteRoom(p)
  <2>1. Awake(p)
    BY <1>4, StartAwake DEF DeleteRoom
  <2>2. (room \in inRoom) \in BOOLEAN
    OBVIOUS
  <2>3. task' = [task EXCEPT ![p].pc = "snapPending", ![p].snap = room \in inRoom]
    BY <1>4 DEF DeleteRoom
  <2>4. /\ "snapPending" \in CalmPCs /\ UNCHANGED eventVars
        /\ room' \in 0..MaxRooms /\ rooms' \in 0..MaxRooms
    BY <1>4, CalmPCsFact DEF DeleteRoom, roomVars, Inv, Typed
  <2>5. QED
    BY <1>0, <2>1, <2>2, <2>3, <2>4, SnapCalm
<1>5. CASE SnapPending(p)
  <2>1. Awake(p)
    BY <1>0, <1>5 DEF SnapPending, At, Unrouted
  <2>2. task[p].snap \/ (pending /\ registered) \in BOOLEAN
    OBVIOUS
  <2>3. task' = [task EXCEPT ![p].pc = "unroom",
                             ![p].snap = task[p].snap \/ (pending /\ registered)]
    BY <1>5 DEF SnapPending, Inv, Typed
  <2>4. QED
    BY <1>0, <1>5, <2>1, <2>2, <2>3, CalmPCsFact, SnapCalm
       DEF SnapPending, eventVars, roomVars, Inv, Typed
<1>6. CASE Unroom(p)
  <2>1. Awake(p)
    BY <1>0, <1>6 DEF Unroom, At, Unrouted
  <2>2. room' \in 0..MaxRooms /\ rooms' \in 0..MaxRooms
    BY <1>6, LegLifecycleAssumption
       DEF Unroom, Inv, Typed, LegLifecycleAssumption
  <2>3. CASE room = 0
    <3>1. task' = [task EXCEPT ![p] = Task("idle")]
      BY <1>6, <2>3 DEF Unroom
    <3>2. Task("idle") \in TaskType /\ Task("idle").pc = "idle"
      BY TaskFact DEF PCs
    <3>3. QED
      BY <1>0, <1>6, <2>1, <2>2, <3>1, <3>2, CalmPCsFact, MoveCalm DEF Unroom
  <2>4. CASE room # 0
    <3>1. task' = [task EXCEPT ![p].pc = "hangRoom", ![p].gen = room]
      BY <1>6, <2>4 DEF Unroom, Inv, Typed
    <3>2. QED
      BY <1>0, <1>6, <2>1, <2>2, <3>1, CalmPCsFact, RoomCalm DEF Unroom, Inv, Typed
  <2>5. QED
    BY <2>3, <2>4
<1>7. CASE HangRoom(p)
  <2>1. Awake(p)
    BY <1>0, <1>7 DEF HangRoom, At, Unrouted
  <2>2. QED
    BY <1>0, <1>7, <2>1, CalmPCsFact, HangCalm, GotoCalm
       DEF HangRoom, eventVars, roomVars, Inv, Typed, Rets
<1>8. CASE CloseRoom(p)
  <2>1. Awake(p)
    BY <1>0, <1>8 DEF CloseRoom, At, Unrouted
  <2>2. PICK pc \in {"cleanup", "idle"} : task' = [task EXCEPT ![p] = Task(pc)]
    BY <1>8 DEF CloseRoom
  <2>3. Task(pc) \in TaskType /\ Task(pc).pc = pc
    BY TaskFact DEF PCs
  <2>4. /\ pc \in CalmPCs /\ UNCHANGED eventVars
        /\ room' \in 0..MaxRooms /\ rooms' \in 0..MaxRooms
    BY <1>8, CalmPCsFact DEF CloseRoom, Inv, Typed
  <2>5. QED
    BY <1>0, <2>1, <2>2, <2>3, <2>4, MoveCalm
<1>9. CASE AddToRoom(p)
  <2>1. Awake(p)
    BY <1>9, StartAwake DEF AddToRoom
  <2>2. room' \in 0..MaxRooms /\ rooms' \in 0..MaxRooms
    BY <1>9, LegLifecycleAssumption
       DEF AddToRoom, CreateRoom, Inv, Typed, LegLifecycleAssumption
  <2>3. "findRoom" \in CalmPCs /\ UNCHANGED eventVars /\ Goto(p, "findRoom")
    BY <1>9, CalmPCsFact DEF AddToRoom
  <2>4. QED
    BY <1>0, <2>1, <2>2, <2>3, GotoCalm
<1>10. CASE FindLegRoom(p)
  <2>1. Awake(p)
    BY <1>0, <1>10 DEF FindLegRoom, At, Unrouted
  <2>2. QED
    BY <1>0, <1>10, <2>1, CalmPCsFact, GotoCalm, RoomCalm
       DEF FindLegRoom, eventVars, roomVars, Inv, Typed, JoinLookup
<1>11. CASE SignalAnswer(p)
  <2>1. Awake(p)
    BY <1>0, <1>11 DEF SignalAnswer, At, Unrouted
  <2>2. p # "owner" /\ "owner" \in Procs /\ task["owner"].pc # "await"
    BY LegLifecycleAssumption
       DEF Procs, LegLifecycleAssumption, Inv, OwnerOK, InboundPCs
  <2>3. PICK pc \in {"idle", "waitConnected"} :
           task' = [task EXCEPT ![p] = [task[p] EXCEPT !.pc = pc],
                                !["owner"].pc = task["owner"].pc]
    BY <1>11, <2>2 DEF SignalAnswer, Inv, Typed
  <2>4. task' = [task EXCEPT ![p] = [task[p] EXCEPT !.pc = pc]]
    <3>1. task["owner"] \in TaskType
      BY <2>2 DEF Inv, Typed
    <3>2. [task["owner"] EXCEPT !.pc = task["owner"].pc] = task["owner"]
      BY <3>1 DEF TaskType
    <3>3. QED
      BY <2>2, <2>3, <3>2 DEF Inv, Typed
  <2>5. [task[p] EXCEPT !.pc = pc] \in TaskType /\ [task[p] EXCEPT !.pc = pc].pc = pc
    <3>1. task[p] \in TaskType /\ pc \in PCs
      BY <1>0 DEF Inv, Typed, PCs
    <3>2. QED
      BY <3>1, RecordFacts
  <2>6. /\ pc \in CalmPCs /\ UNCHANGED eventVars
        /\ room' \in 0..MaxRooms /\ rooms' \in 0..MaxRooms
    BY <1>11, CalmPCsFact DEF SignalAnswer, roomVars, Inv, Typed
  <2>7. QED
    BY <1>0, <2>1, <2>4, <2>5, <2>6, MoveCalm
<1>12. CASE WaitConnected(p)
  <2>1. Awake(p)
    BY <1>0, <1>12 DEF WaitConnected, At, Unrouted
  <2>2. QED
    BY <1>0, <1>12, <2>1, CalmPCsFact, GotoCalm, RoomCalm
       DEF WaitConnected, eventVars, roomVars, Inv, Typed, JoinLookup
<1>13. CASE EnableEarlyMedia(p)
  <2>1. Awake(p)
    BY <1>0, <1>13, StartAwake DEF EnableEarlyMedia, At, Unrouted
  <2>2. QED
    BY <1>0, <1>13, <2>1, CalmPCsFact, GotoCalm
       DEF Outbound, EnableEarlyMedia, eventVars, roomVars, Inv, Typed
<1>14. CASE Expire(p)
  <2>1. Awake(p)
    BY <1>14, StartAwake DEF Expire
  <2>2. QED
    BY <1>0, <1>14, <2>1, CalmPCsFact, GotoCalm
       DEF Expire, eventVars, roomVars, Inv, Typed
<1>15. CASE Expired(p)
  <2>1. Awake(p)
    BY <1>0, <1>15 DEF Expired, At, Unrouted
  <2>2. QED
    BY <1>0, <1>15, <2>1, CalmPCsFact, GotoCalm, CleanUpCalm
       DEF Expired, eventVars, roomVars, Inv, Typed, Thens
<1>16. CASE MediaPanic(p)
  <2>1. Awake(p)
    BY <1>16, StartAwake DEF MediaPanic
  <2>2. QED
    BY <1>0, <1>16, <2>1, CalmPCsFact, HangCalm
       DEF MediaPanic, eventVars, roomVars, Inv, Typed, Rets
<1>17. CASE Hold(p)
  <2>1. Awake(p)
    BY <1>17, StartAwake DEF Hold
  <2>2. QED
    BY <1>0, <1>17, <2>1, CalmPCsFact, GotoCalm
       DEF Hold, eventVars, roomVars, Inv, Typed
<1>18. CASE SetHeld(p)
  <2>1. Awake(p)
    BY <1>0, <1>18 DEF SetHeld, At, Unrouted
  <2>2. QED
    BY <1>0, <1>18, <2>1, CalmPCsFact, GotoCalm
       DEF SetHeld, eventVars, roomVars, Inv, Typed
<1>19. QED
  BY <1>1, <1>2, <1>3, <1>4, <1>5, <1>6, <1>7, <1>8, <1>9,
     <1>10, <1>11, <1>12, <1>13, <1>14, <1>15, <1>16, <1>17, <1>18, <1>20 DEF CallerCalm

-----------------------------------------------------------------------------
(* The steps that are not calm: before the route, attaching it, reporting. *)
LEMMA OwnerBefore ==
    ASSUME Outbound, Inv, NewLeg \/ Pend
    PROVE  Inv' /\ Phase' = Phase
<1>1. PICK pc \in {"pend", "route"} : Goto("owner", pc)
  BY DEF Outbound, NewLeg, Pend
<1>2. task["owner"].pc \in {"new", "pend"} /\ "owner" \in Procs
  BY DEF NewLeg, Pend, At, Procs
<1>3. task' = [task EXCEPT !["owner"] = [task["owner"] EXCEPT !.pc = pc]]
  BY <1>1 DEF Goto
<1>4. [task["owner"] EXCEPT !.pc = pc] \in TaskType
      /\ [task["owner"] EXCEPT !.pc = pc].pc = pc
  <2>1. task["owner"] \in TaskType /\ pc \in PCs
    BY <1>2 DEF Inv, Typed, PCs
  <2>2. QED
    BY <2>1, RecordFacts
<1>5. /\ task' \in [Procs -> TaskType]
      /\ task'["owner"].pc = pc
      /\ \A p \in Procs \ {"owner"} : task'[p] = task[p]
  BY <1>2, <1>3, <1>4 DEF Inv, Typed
<1>6. claimed' = claimed /\ routed' = routed /\ reports' = reports
  BY DEF NewLeg, Pend, eventVars
<1>7. room' \in 0..MaxRooms /\ rooms' \in 0..MaxRooms
  BY LegLifecycleAssumption
     DEF NewLeg, Pend, CreateRoom, roomVars, Inv, Typed, LegLifecycleAssumption
<1>8. Typed'
  BY <1>5, <1>6, <1>7 DEF Inv, Typed
<1>9. OwnerOK'
  <2>1. \A p \in Callers : p \in Procs \ {"owner"}
    BY LegLifecycleAssumption DEF Procs, LegLifecycleAssumption
  <2>2. ~ Announced /\ task["owner"].pc \in Unrouted
    BY <1>2 DEF Announced, Unrouted
  <2>3. (\A p \in Callers : task[p].pc = "idle") /\ ~ routed /\ ~ claimed
    BY <2>2 DEF Inv, OwnerOK
  <2>4. pc \in Unrouted /\ pc \notin InboundPCs
    BY DEF Unrouted, InboundPCs
  <2>5. QED
    BY <1>5, <1>6, <2>1, <2>3, <2>4 DEF OwnerOK
<1>10. ReportsOK'
  <2>1. \A p \in Procs : task'[p].pc \in {"report", "release"} =>
                             p # "owner" /\ task'[p] = task[p]
    BY <1>5
  <2>2. QED
    BY <1>6, <2>1 DEF Inv, ReportsOK
<1>11. QED
  BY <1>6, <1>8, <1>9, <1>10 DEF Inv, Phase

LEMMA RouteStep ==
    ASSUME Inv, Route
    PROVE  Inv' /\ Phase = "new" /\ Phase' = "routed"
<1>1. task["owner"].pc = "route" /\ "owner" \in Procs
  BY DEF Route, At, Procs
<1>2. task' = [task EXCEPT !["owner"] = [task["owner"] EXCEPT !.pc = "ring"]]
  BY DEF Route, Goto
<1>3. [task["owner"] EXCEPT !.pc = "ring"] \in TaskType
      /\ [task["owner"] EXCEPT !.pc = "ring"].pc = "ring"
  <2>1. task["owner"] \in TaskType /\ "ring" \in PCs
    BY <1>1 DEF Inv, Typed, PCs
  <2>2. QED
    BY <2>1, RecordFacts
<1>4. /\ task' \in [Procs -> TaskType]
      /\ task'["owner"].pc = "ring"
      /\ \A p \in Procs \ {"owner"} : task'[p] = task[p]
  BY <1>1, <1>2, <1>3 DEF Inv, Typed
<1>5. claimed' = claimed /\ routed' = TRUE /\ reports' = reports
  BY DEF Route
<1>6. ~ routed /\ ~ claimed /\ reports = 0
  BY <1>1 DEF Inv, OwnerOK, ReportsOK, Typed, Unrouted
<1>7. Typed'
  BY <1>4, <1>5 DEF Inv, Typed, Route, roomVars
<1>8. OwnerOK'
  <2>1. \A p \in Callers : p \in Procs \ {"owner"}
    BY LegLifecycleAssumption DEF Procs, LegLifecycleAssumption
  <2>2. \A p \in Callers : task[p].pc = "idle"
    BY <1>1 DEF Inv, OwnerOK, Announced
  <2>3. QED
    BY <1>4, <1>5, <2>1, <2>2 DEF OwnerOK, Unrouted, InboundPCs
<1>9. ReportsOK'
  <2>1. \A p \in Procs : task'[p].pc \in {"report", "release"} =>
                             p # "owner" /\ task'[p] = task[p]
    BY <1>4
  <2>2. QED
    BY <1>5, <2>1 DEF Inv, ReportsOK
<1>10. QED
  BY <1>5, <1>6, <1>7, <1>8, <1>9 DEF Inv, Phase

(* publishDisconnect, in whatever goroutine p it runs.                     *)
LEMMA ReportingMove ==
    ASSUME Inv, NEW p \in Procs, NEW pc \in PCs, Goto(p, pc), Awake(p),
           pc \notin Unrouted \cup InboundPCs \cup {"ring", "idle"}
    PROVE  /\ task' \in [Procs -> TaskType]
           /\ task'[p].pc = pc
           /\ \A q \in Procs \ {p} : task'[q] = task[q]
           /\ task'["owner"].pc \notin InboundPCs \cup Unrouted
           /\ ~ Announced' => \A q \in Callers : task'[q].pc = "idle"
<1>1. task' = [task EXCEPT ![p] = [task[p] EXCEPT !.pc = pc]]
  BY DEF Goto
<1>2. [task[p] EXCEPT !.pc = pc] \in TaskType /\ [task[p] EXCEPT !.pc = pc].pc = pc
  <2>1. task[p] \in TaskType
    BY DEF Inv, Typed
  <2>2. QED
    BY <2>1, RecordFacts
<1>3. /\ task' \in [Procs -> TaskType]
      /\ task'[p].pc = pc
      /\ \A q \in Procs \ {p} : task'[q] = task[q]
  BY <1>1, <1>2 DEF Inv, Typed
<1>4. CASE p = "owner"
  <2>1. Announced'
    BY <1>3, <1>4 DEF Announced, Unrouted
  <2>2. QED
    BY <1>3, <1>4, <2>1
<1>5. CASE p # "owner"
  <2>1. "owner" \in Procs \ {p} /\ p \in Callers
    BY <1>5 DEF Procs
  <2>2. task'["owner"] = task["owner"] /\ Announced
    BY <1>3, <2>1 DEF Awake
  <2>3. task["owner"].pc \notin InboundPCs \cup Unrouted
    BY DEF Inv, OwnerOK, Awake
  <2>4. QED
    BY <1>3, <2>2, <2>3 DEF Announced
<1>6. QED
  BY <1>3, <1>4, <1>5

LEMMA ClaimStep ==
    ASSUME Inv, NEW p \in Procs, ClaimDisconnect(p)
    PROVE  Inv' /\ Phase' = Phase
<1>1. Awake(p)
  BY AwakeFact DEF ClaimDisconnect, At, Unrouted
<1>2. CASE claimed
  <2>1. claimed' = claimed
    BY <1>2 DEF ClaimDisconnect
  <2>2. /\ UNCHANGED eventVars
        /\ room' \in 0..MaxRooms /\ rooms' \in 0..MaxRooms
    BY <2>1 DEF ClaimDisconnect, eventVars, roomVars, Inv, Typed
  <2>3. task[p].then \in CalmPCs /\ Goto(p, task[p].then)
    BY <1>2, CalmPCsFact, Fields DEF ClaimDisconnect
  <2>4. QED
    BY <1>1, <2>2, <2>3, GotoCalm, CalmKeepsInv
<1>3. CASE ~ claimed
  <2>1. Goto(p, "report") /\ "report" \in PCs
        /\ "report" \notin Unrouted \cup InboundPCs \cup {"ring", "idle"}
    BY <1>3 DEF ClaimDisconnect, PCs, Unrouted, InboundPCs
  <2>2. /\ task' \in [Procs -> TaskType]
        /\ task'[p].pc = "report"
        /\ \A q \in Procs \ {p} : task'[q] = task[q]
        /\ task'["owner"].pc \notin InboundPCs \cup Unrouted
        /\ ~ Announced' => \A q \in Callers : task'[q].pc = "idle"
    BY <1>1, <2>1, ReportingMove
  <2>3. claimed' = TRUE /\ routed' = routed /\ reports' = reports
    BY DEF ClaimDisconnect
  <2>4. reports = 0 /\ \A q \in Procs : task[q].pc \notin {"report", "release"}
    BY <1>3 DEF Inv, ReportsOK, Typed
  <2>5. Typed'
    BY <2>2, <2>3 DEF Inv, Typed, ClaimDisconnect, roomVars
  <2>6. OwnerOK'
    <3>1. task["owner"].pc \notin Unrouted
      BY <1>1 DEF Awake
    <3>2. routed
      BY <2>4, <3>1 DEF Inv, OwnerOK
    <3>3. QED
      BY <2>2, <2>3, <3>2 DEF OwnerOK
  <2>7. ReportsOK'
    BY <2>2, <2>3, <2>4 DEF ReportsOK
  <2>8. QED
    BY <2>3, <2>5, <2>6, <2>7 DEF Inv, Phase
<1>4. QED
  BY <1>2, <1>3

LEMMA ReportStep ==
    ASSUME Inv, NEW p \in Procs, Report(p)
    PROVE  Inv' /\ Phase = "routed" /\ Phase' = "reported"
<1>1. Awake(p)
  BY AwakeFact DEF Report, At, Unrouted
<1>2. Goto(p, "release") /\ "release" \in PCs
      /\ "release" \notin Unrouted \cup InboundPCs \cup {"ring", "idle"}
  BY DEF Report, PCs, Unrouted, InboundPCs
<1>3. /\ task' \in [Procs -> TaskType]
      /\ task'[p].pc = "release"
      /\ \A q \in Procs \ {p} : task'[q] = task[q]
      /\ task'["owner"].pc \notin InboundPCs \cup Unrouted
      /\ ~ Announced' => \A q \in Callers : task'[q].pc = "idle"
  BY <1>1, <1>2, ReportingMove
<1>4. task[p].pc = "report"
  BY DEF Report, At
<1>5. claimed /\ reports = 0 /\ \A q \in Procs \ {p} : task[q].pc # "report"
  BY <1>4 DEF Inv, ReportsOK
<1>6. routed
  BY <1>1, <1>5 DEF Inv, OwnerOK, Awake
<1>7. claimed' = claimed /\ routed' = routed /\ reports' = 1
  BY <1>5 DEF Report
<1>8. Typed'
  BY <1>3, <1>7 DEF Inv, Typed, Report, roomVars
<1>9. OwnerOK'
  BY <1>3, <1>7 DEF OwnerOK
<1>10. ReportsOK'
  BY <1>3, <1>5, <1>7 DEF ReportsOK
<1>11. QED
  BY <1>5, <1>6, <1>7, <1>8, <1>9, <1>10 DEF Inv, Phase

LEMMA ReleaseStep ==
    ASSUME Inv, NEW p \in Procs, Release(p)
    PROVE  Inv' /\ reports = 1 /\ reports' = 1 /\ ~ routed'
<1>1. Awake(p)
  BY AwakeFact DEF Release, At, Unrouted
<1>2. reports = 1 /\ claimed
  BY DEF Release, At, Inv, ReportsOK
<1>3. claimed' = claimed /\ routed' = FALSE /\ reports' = reports
  BY DEF Release
<1>4. PICK t \in TaskType : t.pc \in Thens /\ task' = [task EXCEPT ![p] = t]
  <2>1. task[p].then \in Thens /\ task[p] \in TaskType
    BY Fields DEF Inv, Typed
  <2>2. CASE task[p].then = "idle"
    <3>1. task' = [task EXCEPT ![p] = Task("idle")]
      BY <2>2 DEF Release, Goto
    <3>2. Task("idle") \in TaskType /\ Task("idle").pc = "idle"
      BY TaskFact DEF PCs
    <3>3. QED
      BY <3>1, <3>2 DEF Thens
  <2>3. CASE task[p].then # "idle"
    <3>1. task' = [task EXCEPT ![p] = [task[p] EXCEPT !.pc = task[p].then]]
      BY <2>3 DEF Release, Goto
    <3>2. task[p].then \in PCs
      BY <2>1 DEF Thens, PCs
    <3>3. QED
      BY <2>1, <3>1, <3>2, RecordFacts
  <2>4. QED
    BY <2>2, <2>3
<1>5. /\ task' \in [Procs -> TaskType]
      /\ task'[p].pc \in Thens
      /\ \A q \in Procs \ {p} : task'[q] = task[q]
  BY <1>4 DEF Inv, Typed
<1>6. Typed'
  BY <1>3, <1>5 DEF Inv, Typed, Release, roomVars
<1>7. OwnerOK'
  <2>1. CASE p = "owner"
    <3>1. task'["owner"].pc \notin InboundPCs \cup Unrouted \cup {"ring"}
      BY <1>5, <2>1 DEF Thens, InboundPCs, Unrouted
    <3>2. Announced'
      BY <3>1 DEF Announced, Unrouted
    <3>3. QED
      BY <1>2, <1>3, <3>1, <3>2 DEF OwnerOK
  <2>2. CASE p # "owner"
    <3>1. "owner" \in Procs \ {p} /\ p \in Callers
      BY <2>2 DEF Procs
    <3>2. task'["owner"] = task["owner"] /\ Announced
      BY <1>1, <1>5, <3>1 DEF Awake
    <3>3. task["owner"].pc \notin InboundPCs \cup Unrouted
      BY <1>1 DEF Inv, OwnerOK, Awake
    <3>4. QED
      BY <1>2, <1>3, <3>2, <3>3 DEF OwnerOK, Announced
  <2>3. QED
    BY <2>1, <2>2
<1>8. ReportsOK'
  <2>1. \A q \in Procs : task'[q].pc \in {"report", "release"} =>
                             q # p /\ task'[q] = task[q]
    BY <1>5 DEF Thens
  <2>2. QED
    BY <1>2, <1>3, <2>1 DEF Inv, ReportsOK
<1>9. QED
  BY <1>2, <1>3, <1>6, <1>7, <1>8 DEF Inv

-----------------------------------------------------------------------------
(* Every step keeps the invariant and is a step of the contract.           *)
ContractStep == [Contract!Next]_Phase

LEMMA InitInv ==
    ASSUME Outbound, Init
    PROVE  Inv /\ Phase = "new"
<1>1. 0 \in 0..MaxRooms
  BY LegLifecycleAssumption DEF LegLifecycleAssumption
<1>2. "owner" \in Procs /\ \A p \in Callers : p \in Procs /\ p # "owner"
  BY LegLifecycleAssumption DEF Procs, LegLifecycleAssumption
<1>3. /\ Task("new") \in TaskType /\ Task("new").pc = "new"
      /\ Task("idle") \in TaskType /\ Task("idle").pc = "idle"
  BY TaskFact DEF PCs
<1>4. /\ task = [p \in Procs |-> IF p = "owner" THEN Task("new") ELSE Task("idle")]
      /\ claimed = FALSE /\ routed = FALSE /\ reports = 0 /\ room = 0 /\ rooms = 0
  BY DEF Init
<1>5. /\ task \in [Procs -> TaskType]
      /\ task["owner"].pc = "new"
      /\ \A p \in Callers : task[p].pc = "idle"
      /\ \A p \in Procs : task[p].pc \in {"new", "idle"}
  BY <1>2, <1>3, <1>4
<1>6. Typed
  BY <1>1, <1>4, <1>5 DEF Typed
<1>7. OwnerOK
  BY <1>4, <1>5 DEF OwnerOK, Unrouted, InboundPCs
<1>8. ReportsOK
  BY <1>4, <1>5 DEF ReportsOK
<1>9. QED
  BY <1>4, <1>6, <1>7, <1>8 DEF Inv, Phase

(* Nothing that Inv or the contract reads has changed.                     *)
LEMMA IdleStep ==
    ASSUME Inv, UNCHANGED <<room, rooms, claimed, routed, reports, task>>
    PROVE  Inv' /\ Phase' = Phase
<1>1. Typed'
  BY DEF Inv, Typed
<1>2. OwnerOK'
  BY DEF Inv, OwnerOK, Announced
<1>3. ReportsOK'
  BY DEF Inv, ReportsOK
<1>4. QED
  BY <1>1, <1>2, <1>3 DEF Inv, Phase

(* publishDisconnect and what leads to it.                                 *)
LEMMA TearDownStep ==
    ASSUME Inv, NEW p \in Procs, TearDown(p) \/ Join(p)
    PROVE  Inv' /\ ContractStep
<1>1. CASE ExitSteps(p)
  <2>1. Inv' /\ Phase' = Phase
    BY <1>1, ExitCalm, CalmKeepsInv
  <2>2. QED
    BY <2>1 DEF ContractStep
<1>2. CASE ClaimDisconnect(p)
  <2>1. Inv' /\ Phase' = Phase
    BY <1>2, ClaimStep
  <2>2. QED
    BY <2>1 DEF ContractStep
<1>3. CASE Report(p)
  <2>1. Inv' /\ Phase = "routed" /\ Phase' = "reported"
    BY <1>3, ReportStep
  <2>2. QED
    BY <2>1 DEF ContractStep, Contract!Next, Contract!Report
<1>4. CASE Release(p)
  <2>1. Inv' /\ reports = 1 /\ reports' = 1 /\ ~ routed'
    BY <1>4, ReleaseStep
  <2>2. Phase \in {"reported", "released"} /\ Phase' = "released"
    BY <2>1 DEF Phase
  <2>3. QED
    BY <2>1, <2>2 DEF ContractStep, Contract!Next, Contract!Release
<1>5. QED
  BY <1>1, <1>2, <1>3, <1>4 DEF TearDown, ExitSteps

(* An outbound leg has no inbound steps.                                   *)
LEMMA NoInboundStep ==
    ASSUME Outbound, Inv
    PROVE  /\ ~ AwaitEnds /\ ~ Dropped /\ ~ Answer /\ ~ Answered
           /\ ~ AnswerFailed /\ ~ Unroute
           /\ \A p \in Callers : ~ AnswerLeg(p)
<1>1. task["owner"].pc \notin InboundPCs
  BY DEF Inv, OwnerOK
<1>2. /\ ~ AwaitEnds /\ ~ Dropped /\ ~ Answer /\ ~ Answered
      /\ ~ AnswerFailed /\ ~ Unroute
  BY <1>1 DEF AwaitEnds, Dropped, Answer, Answered, AnswerFailed, Unroute, At, InboundPCs
<1>3. \A p \in Callers : ~ AnswerLeg(p)
  BY DEF AnswerLeg, Outbound
<1>4. QED
  BY <1>2, <1>3

LEMMA OwnerSteps ==
    ASSUME Outbound, Inv, OwnerStep \/ OwnerWaits
    PROVE  Inv' /\ ContractStep
<1>1. CASE TearDown("owner") \/ Join("owner")
  BY <1>1, TearDownStep DEF Procs
<1>2. CASE NewLeg \/ Pend
  BY <1>2, OwnerBefore DEF ContractStep
<1>3. CASE Route
  <2>1. Inv' /\ Phase = "new" /\ Phase' = "routed"
    BY <1>3, RouteStep
  <2>2. QED
    BY <2>1 DEF ContractStep, Contract!Next, Contract!Attach
<1>4. CASE OwnerCalm
  <2>1. "owner" \in Procs
    BY DEF Procs
  <2>2. Inv' /\ Phase' = Phase
    BY <1>4, <2>1, OwnerStepsCalm, CalmKeepsInv
  <2>3. QED
    BY <2>2 DEF ContractStep
<1>5. QED
  BY <1>1, <1>2, <1>3, <1>4, NoInboundStep DEF OwnerStep, OwnerWaits, OwnerCalm

LEMMA CallerSteps ==
    ASSUME Outbound, Inv, NEW p \in Callers, CallerStart(p) \/ CallerStep(p)
    PROVE  Inv' /\ ContractStep
<1>1. p \in Procs
  BY DEF Procs
<1>2. CASE TearDown(p) \/ Join(p)
  BY <1>1, <1>2, TearDownStep
<1>3. CASE CallerCalm(p)
  <2>1. Inv' /\ Phase' = Phase
    BY <1>1, <1>3, CallerStepsCalm, CalmKeepsInv
  <2>2. QED
    BY <2>1 DEF ContractStep
<1>4. QED
  BY <1>2, <1>3, NoInboundStep DEF CallerStart, CallerStep, CallerCalm

LEMMA NextStep ==
    ASSUME Outbound, Inv, [Next]_vars
    PROVE  Inv' /\ ContractStep
<1>1. CASE OwnerStep \/ OwnerWaits
  BY <1>1, OwnerSteps
<1>2. CASE PeerEnds
  <2>1. Inv' /\ Phase' = Phase
    BY <1>2, IdleStep DEF PeerEnds, roomVars, eventVars
  <2>2. QED
    BY <2>1 DEF ContractStep
<1>3. ASSUME NEW p \in Callers, CallerStart(p) \/ CallerStep(p)
      PROVE  Inv' /\ ContractStep
  BY <1>3, CallerSteps
<1>4. CASE UNCHANGED vars
  <2>1. Inv' /\ Phase' = Phase
    BY <1>4, IdleStep DEF vars, roomVars, eventVars
  <2>2. QED
    BY <2>1 DEF ContractStep
<1>5. QED
  BY <1>1, <1>2, <1>3, <1>4 DEF Next

(* A leg never changes its type.                                           *)
LEMMA TypeStays ==
    ASSUME [Next]_vars
    PROVE  inbound' = inbound
<1>1. ASSUME NEW p, TearDown(p)
      PROVE  inbound' = inbound
  BY <1>1 DEF TearDown, Hangup, Cancel, Cleanup, Leave, Unpend, Unregister,
              ClaimDisconnect, Report, Release, legVars
<1>2. ASSUME NEW p, Join(p)
      PROVE  inbound' = inbound
  BY <1>2 DEF Join, legVars
<1>3. CASE OwnerStep
  BY <1>1, <1>2, <1>3
     DEF OwnerStep, NewLeg, Pend, Route, Ring, SetEarlyMedia, ConnectOutbound,
         ConnectSetup, ConnectFailed, Connected, JoinPendingRoom, Joined, NotJoined,
         RoomGone, Dropped, Answer, Answered, AnswerFailed, Unroute, legVars
<1>4. CASE OwnerWaits \/ PeerEnds
  BY <1>4 DEF OwnerWaits, EarlyMedia, InviteFails, InviteAnswered, AwaitEnds,
              WatchDialogEnd, PeerEnds, legVars
<1>5. ASSUME NEW p \in Callers, CallerStart(p)
      PROVE  inbound' = inbound
  BY <1>5 DEF CallerStart, Delete, DeleteRoom, AddToRoom, AnswerLeg, Expire,
              MediaPanic, Hold, legVars
<1>6. ASSUME NEW p \in Callers, CallerStep(p)
      PROVE  inbound' = inbound
  BY <1>1, <1>2, <1>6
     DEF CallerStep, Reject, Rejecting, Rejected, SnapPending, Unroom, HangRoom,
         CloseRoom, FindLegRoom, SignalAnswer, WaitConnected, EnableEarlyMedia,
         Expired, SetHeld, legVars
<1>7. CASE UNCHANGED vars
  BY <1>7 DEF vars, legVars
<1>8. QED
  BY <1>3, <1>4, <1>5, <1>6, <1>7 DEF Next

-----------------------------------------------------------------------------
(* The inductive invariant: only the goroutine that claimed the leg's      *)
(* disconnect is about to publish it, once, and the route is attached as   *)
(* long as it was not (publishDisconnect, doCreateSIPOutboundLeg).         *)
THEOREM LegInvariant ==
    ASSUME Inbounds = {FALSE}, EarlyCallers = FALSE
    PROVE  Spec => [](Outbound /\ Inv)
<1>1. Init => Outbound /\ Inv
  BY InitInv DEF Init, Outbound
<1>2. Outbound /\ Inv /\ [Next]_vars => (Outbound /\ Inv)'
  BY NextStep, TypeStays DEF Outbound
<1>3. QED
  BY <1>1, <1>2, PTL DEF Spec

(* An outbound leg, with any number of callers and rooms, keeps LegContract: *)
(* publishDisconnect publishes leg.disconnected once at most, with the leg's *)
(* webhook and custom data in place, and drops them only afterwards.         *)
THEOREM LegKeepsContract ==
    ASSUME Inbounds = {FALSE}, EarlyCallers = FALSE
    PROVE  Spec => KeepsContract
<1>1. Init => Contract!Init
  BY InitInv DEF Init, Outbound, Contract!Init
<1>2. Outbound /\ Inv /\ [Next]_vars => [Contract!Next]_Phase
  BY NextStep DEF ContractStep
<1>3. Spec => [](Outbound /\ Inv)
  BY LegInvariant
<1>4. QED
  BY <1>1, <1>2, <1>3, PTL DEF Spec, KeepsContract, Contract!Spec

-----------------------------------------------------------------------------
(* How a leg ends.                                                         *)

Tasks == [Procs -> TaskType]

(* One goroutine moved.                                                    *)
Moved(p) == task' \in Tasks /\ \A q \in Procs \ {p} : task'[q] = task[q]

LEMMA ProcsFact ==
    /\ "owner" \in Procs
    /\ \A p \in Callers : p \in Procs /\ p # "owner"
    /\ \A p \in Procs : p # "owner" => p \in Callers
    /\ MaxRooms \in Nat
  BY LegLifecycleAssumption DEF Procs, LegLifecycleAssumption

LEMMA TaskFacts ==
    ASSUME NEW pc \in PCs
    PROVE  /\ Task(pc) \in TaskType /\ Task(pc).pc = pc
           /\ Task(pc).ret = "idle" /\ Task(pc).then = "idle" /\ Task(pc).gen = 0
<1>1. 0 \in 0..MaxRooms
  BY ProcsFact
<1>2. QED
  BY <1>1 DEF Task, TaskType

LEMMA PCFacts ==
    ASSUME NEW t \in TaskType, NEW pc \in PCs
    PROVE  LET u == [t EXCEPT !.pc = pc] IN
           /\ u \in TaskType /\ u.pc = pc
           /\ u.ret = t.ret /\ u.then = t.then /\ u.gen = t.gen
  BY DEF TaskType

LEMMA GotoFacts ==
    ASSUME task \in Tasks, NEW p \in Procs, NEW pc \in PCs, Goto(p, pc)
    PROVE  /\ Moved(p) /\ task'[p].pc = pc
           /\ task'[p].gen \in {task[p].gen, 0}
           /\ pc # "idle" => /\ task'[p].ret = task[p].ret
                             /\ task'[p].then = task[p].then
                             /\ task'[p].gen = task[p].gen
<1>1. task[p] \in TaskType
  BY DEF Tasks
<1>2. CASE pc = "idle"
  <2>1. task' = [task EXCEPT ![p] = Task(pc)]
    BY <1>2 DEF Goto
  <2>2. QED
    BY <1>2, <2>1, TaskFacts DEF Tasks, Moved
<1>3. CASE pc # "idle"
  <2> DEFINE u == [task[p] EXCEPT !.pc = pc]
  <2>1. task' = [task EXCEPT ![p] = u]
    BY <1>3 DEF Goto
  <2>2. /\ u \in TaskType /\ u.pc = pc
        /\ u.ret = task[p].ret /\ u.then = task[p].then /\ u.gen = task[p].gen
    BY <1>1, PCFacts
  <2> HIDE DEF u
  <2>3. QED
    BY <2>1, <2>2 DEF Tasks, Moved
<1>4. QED
  BY <1>2, <1>3

LEMMA HangFacts ==
    ASSUME task \in Tasks, NEW p \in Procs, NEW ret \in Rets, Hang(p, ret)
    PROVE  /\ Moved(p) /\ task'[p].pc = "hangup" /\ task'[p].ret = ret
           /\ task'[p].then = task[p].then /\ task'[p].gen = task[p].gen
<1> DEFINE u == [task[p] EXCEPT !.pc = "hangup"]
           v == [u EXCEPT !.ret = ret]
<1>1. task[p] \in TaskType /\ "hangup" \in PCs
  BY DEF Tasks, PCs
<1>2. u \in TaskType /\ u.pc = "hangup" /\ u.then = task[p].then /\ u.gen = task[p].gen
  BY <1>1, PCFacts
<1>3. /\ v \in TaskType /\ v.pc = "hangup" /\ v.ret = ret
      /\ v.then = task[p].then /\ v.gen = task[p].gen
  <2> HIDE DEF u
  <2>1. QED
    BY <1>2 DEF TaskType, Rets
<1>4. task' = [task EXCEPT ![p] = v]
  BY DEF Hang, Tasks
<1> HIDE DEF v
<1>5. QED
  BY <1>3, <1>4 DEF Tasks, Moved

LEMMA ThenFacts ==
    ASSUME task \in Tasks, NEW p \in Procs, NEW pc \in PCs, NEW then \in Thens,
           task' = [task EXCEPT ![p].pc = pc, ![p].then = then]
    PROVE  /\ Moved(p) /\ task'[p].pc = pc /\ task'[p].then = then
           /\ task'[p].ret = task[p].ret /\ task'[p].gen = task[p].gen
<1> DEFINE u == [task[p] EXCEPT !.pc = pc]
           v == [u EXCEPT !.then = then]
<1>1. u \in TaskType /\ u.pc = pc /\ u.ret = task[p].ret /\ u.gen = task[p].gen
  BY PCFacts DEF Tasks
<1>2. /\ v \in TaskType /\ v.pc = pc /\ v.then = then
      /\ v.ret = task[p].ret /\ v.gen = task[p].gen
  <2> HIDE DEF u
  <2>1. QED
    BY <1>1 DEF TaskType, Thens
<1>3. task' = [task EXCEPT ![p] = v]
  BY DEF Tasks
<1> HIDE DEF v
<1>4. QED
  BY <1>2, <1>3 DEF Tasks, Moved

LEMMA CleanUpFacts ==
    ASSUME task \in Tasks, NEW p \in Procs, NEW then \in Thens, CleanUp(p, then)
    PROVE  /\ Moved(p) /\ task'[p].pc = "cleanup" /\ task'[p].then = then
           /\ task'[p].gen = task[p].gen
  BY ThenFacts DEF CleanUp, PCs

LEMMA GenFacts ==
    ASSUME task \in Tasks, NEW p \in Procs, NEW pc \in PCs, NEW gen \in 0..MaxRooms,
           task' = [task EXCEPT ![p].pc = pc, ![p].gen = gen]
    PROVE  /\ Moved(p) /\ task'[p].pc = pc /\ task'[p].gen = gen
           /\ task'[p].ret = task[p].ret /\ task'[p].then = task[p].then
<1> DEFINE u == [task[p] EXCEPT !.pc = pc]
           v == [u EXCEPT !.gen = gen]
<1>1. u \in TaskType /\ u.pc = pc /\ u.ret = task[p].ret /\ u.then = task[p].then
  BY PCFacts DEF Tasks
<1>2. /\ v \in TaskType /\ v.pc = pc /\ v.gen = gen
      /\ v.ret = task[p].ret /\ v.then = task[p].then
  <2> HIDE DEF u
  <2>1. QED
    BY <1>1 DEF TaskType
<1>3. task' = [task EXCEPT ![p] = v]
  BY DEF Tasks
<1> HIDE DEF v
<1>4. QED
  BY <1>2, <1>3 DEF Tasks, Moved

LEMMA SnapFacts ==
    ASSUME task \in Tasks, NEW p \in Procs, NEW pc \in PCs, NEW snap \in BOOLEAN,
           task' = [task EXCEPT ![p].pc = pc, ![p].snap = snap]
    PROVE  /\ Moved(p) /\ task'[p].pc = pc /\ task'[p].gen = task[p].gen
<1> DEFINE u == [task[p] EXCEPT !.pc = pc]
           v == [u EXCEPT !.snap = snap]
<1>1. u \in TaskType /\ u.pc = pc /\ u.gen = task[p].gen
  BY PCFacts DEF Tasks
<1>2. v \in TaskType /\ v.pc = pc /\ v.gen = task[p].gen
  <2> HIDE DEF u
  <2>1. QED
    BY <1>1 DEF TaskType
<1>3. task' = [task EXCEPT ![p] = v]
  BY DEF Tasks
<1> HIDE DEF v
<1>4. QED
  BY <1>2, <1>3 DEF Tasks, Moved

(* A failed lookup leads to "failed", a successful one to the join.        *)
LEMMA LookupFacts ==
    ASSUME task \in Tasks, NEW p \in Procs, NEW failed \in PCs, room \in 0..MaxRooms,
           JoinLookup(p, failed)
    PROVE  /\ Moved(p)
           /\ \/ /\ task'[p].pc = "join" /\ task'[p].gen = room /\ room # 0
                 /\ task'[p].ret = task[p].ret /\ task'[p].then = task[p].then
              \/ Goto(p, failed) /\ task'[p].pc = failed
<1>1. CASE Goto(p, failed)
  BY <1>1, GotoFacts
<1>2. CASE room # 0 /\ task' = [task EXCEPT ![p].pc = "join", ![p].gen = room]
  <2>1. "join" \in PCs
    BY DEF PCs
  <2>2. /\ Moved(p) /\ task'[p].pc = "join" /\ task'[p].gen = room
        /\ task'[p].ret = task[p].ret /\ task'[p].then = task[p].then
    BY <1>2, <2>1, GenFacts
  <2>3. QED
    BY <1>2, <2>2
<1>3. QED
  BY <1>1, <1>2 DEF JoinLookup

(* Whoever signals may wake the owner, which moves from await to answer.   *)
LEMMA SignalFacts ==
    ASSUME task \in Tasks, NEW p \in Callers, SignalAnswer(p)
    PROVE  /\ task' \in Tasks
           /\ task'[p].pc \in {"idle", "waitConnected"}
           /\ task'[p].gen = task[p].gen
           /\ \A q \in Procs \ {p, "owner"} : task'[q] = task[q]
           /\ task'["owner"].gen = task["owner"].gen
           /\ task'["owner"].ret = task["owner"].ret
           /\ task'["owner"].then = task["owner"].then
           /\ \/ task'["owner"] = task["owner"]
              \/ task["owner"].pc = "await" /\ task'["owner"].pc = "answer"
<1> DEFINE o == "owner"
           x == IF task[p].pc = "signal" THEN "idle" ELSE "waitConnected"
           y == IF task[o].pc = "await" THEN "answer" ELSE task[o].pc
           u == [task[p] EXCEPT !.pc = x]
           v == [task[o] EXCEPT !.pc = y]
<1>1. p \in Procs /\ o \in Procs /\ p # o /\ task[p] \in TaskType /\ task[o] \in TaskType
  BY ProcsFact DEF Tasks
<1>2. x \in PCs /\ y \in PCs /\ x \in {"idle", "waitConnected"}
  BY <1>1 DEF TaskType, PCs
<1>3. task' = [task EXCEPT ![p] = u, ![o] = v]
  BY <1>1 DEF SignalAnswer, Tasks
<1>4. u \in TaskType /\ u.pc = x /\ u.gen = task[p].gen
  <2> HIDE DEF x
  <2>1. QED
    BY <1>1, <1>2, PCFacts
<1>5. /\ v \in TaskType /\ v.pc = y
      /\ v.gen = task[o].gen /\ v.ret = task[o].ret /\ v.then = task[o].then
  <2> HIDE DEF y
  <2>1. QED
    BY <1>1, <1>2, PCFacts
<1>6. task[o].pc # "await" => v = task[o]
  BY <1>1 DEF TaskType
<1>7. task'[p] = u /\ task'[o] = v /\ task' \in Tasks
      /\ \A q \in Procs \ {p, o} : task'[q] = task[q]
  <2> HIDE DEF u, v
  <2>1. QED
    BY <1>1, <1>3, <1>4, <1>5 DEF Tasks
<1>8. task[o].pc = "await" => task'[o].pc = "answer"
  BY <1>5, <1>7
<1> HIDE DEF x, y, u, v
<1>9. QED
  BY <1>2, <1>4, <1>5, <1>6, <1>7, <1>8


-----------------------------------------------------------------------------
(* Types.                                                                  *)
LegFlags ==
    /\ inbound \in BOOLEAN
    /\ state \in {"ringing", "early_media", "connected", "held", "hung_up"}
    /\ held \in BOOLEAN /\ ctxDone \in BOOLEAN /\ connected \in BOOLEAN

SipFlags ==
    /\ hasDialog \in BOOLEAN /\ byeOnce \in BOOLEAN /\ byeSent \in BOOLEAN
    /\ peerGone \in BOOLEAN /\ answered \in BOOLEAN

MgrFlags == registered \in BOOLEAN /\ pending \in BOOLEAN /\ joinOnce \in {"no", "yes", "gone"}

EventFlags == roomID \in BOOLEAN /\ claimed \in BOOLEAN /\ routed \in BOOLEAN

Flags == LegFlags /\ SipFlags /\ MgrFlags /\ EventFlags

Numbered ==
    /\ rooms \in 0..MaxRooms /\ room \in 0..rooms /\ inRoom \subseteq 1..rooms
    /\ task \in Tasks
    /\ \A p \in Procs : /\ task[p].gen <= rooms
                        /\ task[p].pc = "join" => task[p].gen # 0

Claims ==
    /\ reports \in 0..1 /\ (reports = 1 => claimed)
    /\ \A p \in Procs : task[p].pc = "report" => claimed /\ reports = 0
    /\ \A p, q \in Procs : task[p].pc = "report" /\ task[q].pc = "report" => p = q

TInv == Flags /\ Numbered /\ Claims

LEMMA TInvTypes ==
    ASSUME TInv
    PROVE  TypeOK
  BY DEF TInv, Flags, LegFlags, SipFlags, MgrFlags, EventFlags, Numbered, Claims, TypeOK, Tasks

LEMMA FlagsStay ==
    ASSUME Flags
    PROVE  /\ UNCHANGED legVars => LegFlags'
           /\ UNCHANGED sipVars => SipFlags'
           /\ UNCHANGED mgrVars => MgrFlags'
           /\ UNCHANGED <<roomVars, eventVars>> => EventFlags'
           /\ UNCHANGED <<roomID, eventVars>> => EventFlags'
  BY DEF Flags, LegFlags, SipFlags, MgrFlags, EventFlags, legVars, sipVars, mgrVars,
         eventVars, roomVars

LEMMA TearDownFlags ==
    ASSUME Flags, NEW p, TearDown(p) \/ Join(p)
    PROVE  Flags'
<1>1. CASE Hangup(p) \/ Cancel(p)
  <2>1. LegFlags'
    BY <1>1 DEF Flags, LegFlags, Hangup, Cancel, SetState
  <2>2. SipFlags'
    BY <1>1, FlagsStay DEF Flags, SipFlags, Hangup, Cancel
  <2>3. QED
    BY <1>1, <2>1, <2>2, FlagsStay DEF Flags, Hangup, Cancel
<1>2. CASE Cleanup(p) \/ Leave(p)
  <2>1. EventFlags'
    BY <1>2, FlagsStay DEF Flags, EventFlags, Cleanup, Leave, eventVars
  <2>2. QED
    BY <1>2, <2>1, FlagsStay DEF Flags, Cleanup, Leave
<1>3. CASE Unpend(p) \/ Unregister(p) \/ Join(p)
  <2>1. MgrFlags' /\ EventFlags'
    BY <1>3, FlagsStay DEF Flags, MgrFlags, EventFlags, Unpend, Unregister, Join, mgrVars,
                           eventVars
  <2>2. QED
    BY <1>3, <2>1, FlagsStay DEF Flags, Unpend, Unregister, Join
<1>4. CASE ClaimDisconnect(p) \/ Report(p) \/ Release(p)
  <2>1. EventFlags'
    BY <1>4 DEF Flags, EventFlags, ClaimDisconnect, Report, Release, roomVars
  <2>2. QED
    BY <1>4, <2>1, FlagsStay DEF Flags, ClaimDisconnect, Report, Release
<1>5. QED
  BY <1>1, <1>2, <1>3, <1>4 DEF TearDown

LEMMA OwnerFlags ==
    ASSUME Flags, OwnerStep \/ OwnerWaits \/ PeerEnds
    PROVE  Flags'
<1>1. CASE NewLeg \/ Pend \/ Route \/ Ring
  <2>1. MgrFlags' /\ EventFlags'
    BY <1>1, FlagsStay DEF Flags, MgrFlags, EventFlags, NewLeg, Pend, Route, Ring, roomVars,
                           eventVars
  <2>2. QED
    BY <1>1, <2>1, FlagsStay DEF Flags, NewLeg, Pend, Route, Ring
<1>2. CASE EarlyMedia \/ SetEarlyMedia \/ InviteFails \/ InviteAnswered
  <2>1. LegFlags'
    BY <1>2, FlagsStay DEF Flags, LegFlags, EarlyMedia, SetEarlyMedia, SetState, InviteFails,
                           InviteAnswered
  <2>2. SipFlags'
    BY <1>2, FlagsStay DEF Flags, SipFlags, EarlyMedia, SetEarlyMedia, InviteFails,
                           InviteAnswered
  <2>3. QED
    BY <1>2, <2>1, <2>2, FlagsStay
       DEF Flags, EarlyMedia, SetEarlyMedia, InviteFails, InviteAnswered
<1>3. CASE ConnectOutbound \/ ConnectSetup \/ ConnectFailed \/ Connected
  <2>1. LegFlags'
    BY <1>3, FlagsStay DEF Flags, LegFlags, ConnectOutbound, ConnectSetup, ConnectFailed,
                           Connected, SetState
  <2>2. SipFlags'
    <3>1. CASE ConnectOutbound
      <4>1. Unanswered \in BOOLEAN
        BY DEF Unanswered
      <4>2. hasDialog' \in BOOLEAN
        BY <3>1, <4>1 DEF ConnectOutbound
      <4>3. QED
        BY <3>1, <4>2 DEF Flags, SipFlags, ConnectOutbound
    <3>2. CASE ConnectSetup \/ ConnectFailed \/ Connected
      BY <3>2, FlagsStay DEF Flags, SipFlags, ConnectSetup, ConnectFailed, Connected
    <3>3. QED
      BY <1>3, <3>1, <3>2
  <2>3. QED
    BY <1>3, <2>1, <2>2, FlagsStay
       DEF Flags, ConnectOutbound, ConnectSetup, ConnectFailed, Connected
<1>4. CASE JoinPendingRoom \/ Joined \/ NotJoined \/ RoomGone
  <2>1. MgrFlags'
    BY <1>4, FlagsStay DEF Flags, MgrFlags, JoinPendingRoom, Joined, NotJoined, RoomGone
  <2>2. QED
    BY <1>4, <2>1, FlagsStay DEF Flags, JoinPendingRoom, Joined, NotJoined, RoomGone
<1>5. CASE AwaitEnds \/ Dropped \/ Answer \/ Answered
  <2>1. LegFlags'
    BY <1>5, FlagsStay DEF Flags, LegFlags, AwaitEnds, Dropped, Answer, Answered, SetState
  <2>2. SipFlags'
    BY <1>5, FlagsStay DEF Flags, SipFlags, AwaitEnds, Dropped, Answer, Answered
  <2>3. QED
    BY <1>5, <2>1, <2>2, FlagsStay DEF Flags, AwaitEnds, Dropped, Answer, Answered
<1>6. CASE AnswerFailed \/ Unroute \/ WatchDialogEnd \/ PeerEnds
  <2>1. SipFlags'
    BY <1>6, FlagsStay DEF Flags, SipFlags, AnswerFailed, Unroute, WatchDialogEnd, PeerEnds
  <2>2. MgrFlags' /\ EventFlags'
    BY <1>6, FlagsStay DEF Flags, MgrFlags, EventFlags, AnswerFailed, Unroute,
                           WatchDialogEnd, PeerEnds, roomVars, eventVars
  <2>3. QED
    BY <1>6, <2>1, <2>2, FlagsStay DEF Flags, AnswerFailed, Unroute, WatchDialogEnd, PeerEnds
<1>7. QED
  BY <1>1, <1>2, <1>3, <1>4, <1>5, <1>6, TearDownFlags DEF OwnerStep, OwnerWaits

LEMMA CallerFlags ==
    ASSUME Flags, NEW p \in Callers, CallerStart(p) \/ CallerStep(p)
    PROVE  Flags'
<1>1. CASE Delete(p) \/ DeleteRoom(p) \/ AddToRoom(p) \/ AnswerLeg(p)
  <2>1. MgrFlags'
    BY <1>1, FlagsStay DEF Flags, MgrFlags, Delete, DeleteRoom, AddToRoom, AnswerLeg
  <2>2. QED
    BY <1>1, <2>1, FlagsStay DEF Flags, Delete, DeleteRoom, AddToRoom, AnswerLeg
<1>2. CASE Expire(p) \/ MediaPanic(p) \/ Hold(p)
  BY <1>2, FlagsStay DEF Flags, Expire, MediaPanic, Hold
<1>3. CASE Reject(p) \/ Rejecting(p) \/ Rejected(p)
  <2>1. LegFlags'
    BY <1>3, FlagsStay DEF Flags, LegFlags, Reject, Rejecting, Rejected, SetState
  <2>2. QED
    BY <1>3, <2>1, FlagsStay DEF Flags, Reject, Rejecting, Rejected
<1>4. CASE SnapPending(p) \/ Unroom(p) \/ HangRoom(p) \/ CloseRoom(p)
  <2>1. EventFlags'
    BY <1>4, FlagsStay DEF Flags, EventFlags, SnapPending, Unroom, HangRoom, CloseRoom,
                           eventVars
  <2>2. QED
    BY <1>4, <2>1, FlagsStay DEF Flags, SnapPending, Unroom, HangRoom, CloseRoom
<1>5. CASE FindLegRoom(p) \/ SignalAnswer(p) \/ WaitConnected(p)
  BY <1>5, FlagsStay DEF Flags, FindLegRoom, SignalAnswer, WaitConnected
<1>6. CASE EnableEarlyMedia(p) \/ Expired(p) \/ SetHeld(p)
  <2>1. LegFlags'
    BY <1>6, FlagsStay DEF Flags, LegFlags, EnableEarlyMedia, Expired, SetHeld, SetState
  <2>2. QED
    BY <1>6, <2>1, FlagsStay DEF Flags, EnableEarlyMedia, Expired, SetHeld
<1>7. QED
  BY <1>1, <1>2, <1>3, <1>4, <1>5, <1>6, TearDownFlags DEF CallerStart, CallerStep

(* Most steps are usual: nobody claims or reports.                         *)
RoomsGrow ==
    /\ rooms' \in 0..MaxRooms /\ rooms <= rooms'
    /\ room' \in 0..rooms' /\ inRoom' \subseteq 1..rooms'

Sound(p) ==
    /\ task'[p].gen <= rooms'
    /\ task'[p].pc = "join" => task'[p].gen # 0
    /\ task'[p].pc # "report"

Usual(p) ==
    /\ Moved(p) /\ Sound(p) /\ RoomsGrow
    /\ UNCHANGED <<claimed, reports>>

LEMMA UsualKeeps ==
    ASSUME Numbered, Claims, NEW p \in Procs, Usual(p)
    PROVE  Numbered' /\ Claims'
<1>1. /\ task' \in Tasks /\ \A q \in Procs : q # p => task'[q] = task[q]
      /\ rooms' \in Nat /\ rooms \in Nat
  BY ProcsFact DEF Usual, Moved, RoomsGrow, Numbered
<1>2. ASSUME NEW q \in Procs
      PROVE  /\ task'[q].gen <= rooms'
             /\ task'[q].pc = "join" => task'[q].gen # 0
  <2>1. task[q].gen \in Nat
    BY ProcsFact DEF Numbered, Tasks, TaskType
  <2>2. CASE q # p
    BY <1>1, <2>1, <2>2 DEF Usual, RoomsGrow, Numbered
  <2>3. CASE q = p
    BY <2>3 DEF Usual, Sound
  <2>4. QED
    BY <2>2, <2>3
<1>3. \A q \in Procs : task'[q].pc = "report" => task[q].pc = "report"
  BY <1>1 DEF Usual, Sound
<1>4. claimed' = claimed /\ reports' = reports
  BY DEF Usual
<1>5. Numbered'
  BY <1>1, <1>2 DEF Numbered, Usual, RoomsGrow
<1>6. Claims'
  BY <1>3, <1>4 DEF Claims
<1>7. QED
  BY <1>5, <1>6

LEMMA RoomsFacts ==
    ASSUME Numbered
    PROVE  /\ UNCHANGED roomVars => RoomsGrow
           /\ UNCHANGED <<room, rooms, inRoom>> => RoomsGrow
           /\ CreateRoom /\ UNCHANGED inRoom => RoomsGrow
           /\ UNCHANGED <<room, rooms>> /\ inRoom' \subseteq 1..rooms => RoomsGrow
           /\ inRoom \subseteq 1..rooms
           /\ room \in 0..MaxRooms /\ room <= rooms
           /\ \A p \in Procs : task[p] \in TaskType /\ task[p].gen <= rooms
                               /\ task[p].gen \in Nat
<1>1. rooms \in 0..MaxRooms /\ room \in 0..rooms /\ inRoom \subseteq 1..rooms /\ MaxRooms \in Nat
  BY ProcsFact DEF Numbered
<1>2. UNCHANGED <<room, rooms, inRoom>> => RoomsGrow
  BY <1>1 DEF RoomsGrow
<1>3. UNCHANGED roomVars => RoomsGrow
  BY <1>2 DEF roomVars
<1>4. CreateRoom /\ UNCHANGED inRoom => RoomsGrow
  <2>1. SUFFICES ASSUME room = 0, rooms < MaxRooms, rooms' = rooms + 1, room' = rooms + 1,
                        inRoom' = inRoom
                 PROVE  RoomsGrow
    BY <1>2 DEF CreateRoom
  <2>2. 1..rooms \subseteq 1..rooms'
    BY <1>1, <2>1
  <2>3. QED
    BY <1>1, <2>1, <2>2 DEF RoomsGrow
<1>5. ASSUME NEW p \in Procs
      PROVE  task[p] \in TaskType /\ task[p].gen <= rooms /\ task[p].gen \in Nat
  BY <1>1 DEF Numbered, Tasks, TaskType
<1>6. UNCHANGED <<room, rooms>> /\ inRoom' \subseteq 1..rooms => RoomsGrow
  BY <1>1 DEF RoomsGrow
<1>7. QED
  BY <1>1, <1>2, <1>3, <1>4, <1>5, <1>6

(* A move by Goto, Hang or CleanUp in a room table that only grows.        *)
LEMMA GotoUsual ==
    ASSUME Numbered, NEW p \in Procs, NEW pc \in PCs \ {"join", "report"}, Goto(p, pc),
           RoomsGrow, UNCHANGED <<claimed, reports>>
    PROVE  Usual(p)
<1>1. Moved(p) /\ task'[p].pc = pc /\ task'[p].gen \in {task[p].gen, 0}
  BY GotoFacts DEF Numbered
<1>2. task[p].gen \in Nat /\ task[p].gen <= rooms /\ rooms \in Nat /\ rooms' \in Nat
      /\ rooms <= rooms'
  BY RoomsFacts, ProcsFact DEF Numbered, RoomsGrow
<1>3. QED
  BY <1>1, <1>2 DEF Usual, Sound

LEMMA MoveUsual ==
    ASSUME Numbered, NEW p \in Procs, Moved(p), task'[p].gen = task[p].gen,
           task'[p].pc \notin {"join", "report"},
           RoomsGrow, UNCHANGED <<claimed, reports>>
    PROVE  Usual(p)
<1>1. task[p].gen \in Nat /\ task[p].gen <= rooms /\ rooms \in Nat /\ rooms' \in Nat
      /\ rooms <= rooms'
  BY RoomsFacts, ProcsFact DEF Numbered, RoomsGrow
<1>2. QED
  BY <1>1 DEF Usual, Sound

LEMMA HangUsual ==
    ASSUME Numbered, NEW p \in Procs, NEW ret \in Rets, Hang(p, ret),
           RoomsGrow, UNCHANGED <<claimed, reports>>
    PROVE  Usual(p)
  BY HangFacts, MoveUsual DEF Numbered

LEMMA CleanUpUsual ==
    ASSUME Numbered, NEW p \in Procs, NEW then \in Thens, CleanUp(p, then),
           RoomsGrow, UNCHANGED <<claimed, reports>>
    PROVE  Usual(p)
  BY CleanUpFacts, MoveUsual DEF Numbered

LEMMA LookupUsual ==
    ASSUME Numbered, NEW p \in Procs, NEW failed \in PCs \ {"join", "report"},
           JoinLookup(p, failed), RoomsGrow, UNCHANGED <<claimed, reports>>
    PROVE  Usual(p)
<1>1. room \in 0..MaxRooms /\ room <= rooms
  BY RoomsFacts
<1>2. CASE Goto(p, failed)
  BY <1>2, GotoUsual
<1>3. CASE Moved(p) /\ task'[p].pc = "join" /\ task'[p].gen = room /\ room # 0
  <2>1. rooms \in Nat /\ rooms' \in Nat /\ rooms <= rooms' /\ room \in Nat
    BY <1>1, ProcsFact DEF Numbered, RoomsGrow
  <2>2. QED
    BY <1>1, <1>3, <2>1 DEF Usual, Sound
<1>4. QED
  BY <1>1, <1>2, <1>3, LookupFacts DEF Numbered


LEMMA TearDownTyped ==
    ASSUME Numbered, Claims, NEW p \in Procs, TearDown(p) \/ Join(p)
    PROVE  Numbered' /\ Claims'
<1>0. task \in Tasks /\ task[p] \in TaskType /\ task[p].ret \in Rets /\ task[p].then \in Thens
  BY RoomsFacts DEF Numbered, TaskType, Rets, Thens
<1>1. Rets \cup Thens \subseteq PCs \ {"join", "report"}
  BY DEF Rets, Thens, PCs
<1>2. CASE Hangup(p) \/ Cancel(p)
  <2>1. \E pc \in PCs \ {"join", "report"} : Goto(p, pc)
    BY <1>0, <1>1, <1>2 DEF Hangup, Cancel, PCs
  <2>2. RoomsGrow /\ UNCHANGED <<claimed, reports>>
    BY <1>2, RoomsFacts DEF Hangup, Cancel, eventVars
  <2>3. QED
    BY <2>1, <2>2, GotoUsual, UsualKeeps
<1>3. CASE Cleanup(p)
  <2>1. RoomsGrow /\ UNCHANGED <<claimed, reports>>
    BY <1>3, RoomsFacts DEF Cleanup, eventVars
  <2>2. CASE Hang(p, "unpend")
    BY <2>1, <2>2, HangUsual, UsualKeeps DEF Rets
  <2>3. CASE task' = [task EXCEPT ![p].pc = "leave", ![p].gen = room]
    <3>1. room \in 0..MaxRooms /\ room <= rooms /\ "leave" \in PCs
      BY RoomsFacts DEF PCs
    <3>2. Moved(p) /\ task'[p].pc = "leave" /\ task'[p].gen = room
      BY <1>0, <2>3, <3>1, GenFacts
    <3>3. rooms' = rooms
      BY <1>3 DEF Cleanup, roomVars
    <3>4. Usual(p)
      BY <2>1, <3>1, <3>2, <3>3 DEF Usual, Sound
    <3>5. QED
      BY <3>4, UsualKeeps
  <2>4. QED
    BY <1>3, <2>2, <2>3 DEF Cleanup
<1>4. CASE Leave(p)
  <2>1. RoomsGrow /\ UNCHANGED <<claimed, reports>>
    <3>1. inRoom' \subseteq 1..rooms /\ UNCHANGED <<room, rooms>>
      BY <1>4, RoomsFacts DEF Leave
    <3>2. QED
      BY <1>4, <3>1, RoomsFacts DEF Leave, eventVars
  <2>2. QED
    BY <1>4, <2>1, HangUsual, UsualKeeps DEF Leave, Rets
<1>5. CASE Unpend(p) \/ Unregister(p)
  <2>1. \E pc \in PCs \ {"join", "report"} : Goto(p, pc)
    BY <1>5 DEF Unpend, Unregister, PCs
  <2>2. RoomsGrow /\ UNCHANGED <<claimed, reports>>
    BY <1>5, RoomsFacts DEF Unpend, Unregister, eventVars
  <2>3. QED
    BY <2>1, <2>2, GotoUsual, UsualKeeps
<1>6. CASE Join(p)
  <2>1. PICK pc \in PCs \ {"join", "report"} : Goto(p, pc)
    BY <1>6 DEF Join, PCs
  <2>2. task[p].gen \in 1..rooms
    BY <1>6, RoomsFacts, ProcsFact DEF Join, At, Numbered
  <2>3. RoomsGrow /\ UNCHANGED <<claimed, reports>>
    <3>1. inRoom' \subseteq 1..rooms /\ UNCHANGED <<room, rooms>>
      BY <1>6, <2>2, RoomsFacts DEF Join
    <3>2. QED
      BY <1>6, <3>1, RoomsFacts DEF Join, eventVars
  <2>4. QED
    BY <2>1, <2>3, GotoUsual, UsualKeeps
<1>7. CASE Release(p)
  <2>1. task[p].then \in PCs \ {"join", "report"} /\ Goto(p, task[p].then)
    BY <1>0, <1>1, <1>7 DEF Release
  <2>2. RoomsGrow /\ UNCHANGED <<claimed, reports>>
    BY <1>7, RoomsFacts DEF Release
  <2>3. QED
    BY <2>1, <2>2, GotoUsual, UsualKeeps
<1>8. CASE ClaimDisconnect(p) /\ claimed
  <2>1. task[p].then \in PCs \ {"join", "report"} /\ Goto(p, task[p].then)
    BY <1>0, <1>1, <1>8 DEF ClaimDisconnect
  <2>2. RoomsGrow /\ UNCHANGED <<claimed, reports>>
    BY <1>8, RoomsFacts DEF ClaimDisconnect
  <2>3. QED
    BY <2>1, <2>2, GotoUsual, UsualKeeps
<1>9. CASE ClaimDisconnect(p) /\ ~ claimed
  <2>1. "report" \in PCs /\ Goto(p, "report") /\ UNCHANGED roomVars
    BY <1>9 DEF ClaimDisconnect, PCs
  <2>2. Moved(p) /\ task'[p].pc = "report" /\ task'[p].gen = task[p].gen
    BY <1>0, <2>1, GotoFacts
  <2>3. Numbered'
    BY <2>1, <2>2 DEF Numbered, Moved, roomVars
  <2>4. claimed' = TRUE /\ reports' = reports
    BY <1>9 DEF ClaimDisconnect
  <2>5. reports = 0 /\ \A q \in Procs : task[q].pc # "report"
    BY <1>9 DEF Claims
  <2>6. Claims'
    BY <2>2, <2>4, <2>5 DEF Claims, Moved
  <2>7. QED
    BY <2>3, <2>6
<1>10. CASE Report(p)
  <2>1. "release" \in PCs /\ Goto(p, "release") /\ UNCHANGED roomVars
    BY <1>10 DEF Report, PCs
  <2>2. Moved(p) /\ task'[p].pc = "release" /\ task'[p].gen = task[p].gen
    BY <1>0, <2>1, GotoFacts
  <2>3. Numbered'
    BY <2>1, <2>2 DEF Numbered, Moved, roomVars
  <2>4. claimed /\ reports = 0 /\ \A q \in Procs \ {p} : task[q].pc # "report"
    BY <1>10 DEF Report, At, Claims
  <2>5. claimed' = claimed /\ reports' = 1
    BY <1>10, <2>4 DEF Report
  <2>6. Claims'
    BY <2>2, <2>4, <2>5 DEF Claims, Moved
  <2>7. QED
    BY <2>3, <2>6
<1>11. QED
  BY <1>2, <1>3, <1>4, <1>5, <1>6, <1>7, <1>8, <1>9, <1>10 DEF TearDown

LEMMA OwnerTyped ==
    ASSUME Numbered, Claims, OwnerStep \/ OwnerWaits
    PROVE  Numbered' /\ Claims'
<1> DEFINE o == "owner"
<1>0. /\ o \in Procs /\ task \in Tasks
      /\ task[o].then \in Thens /\ Thens \subseteq PCs \ {"join", "report"}
  BY ProcsFact DEF Numbered, Tasks, TaskType, Thens, PCs
<1>1. CASE NewLeg
  <2>1. \E pc \in PCs \ {"join", "report"} : Goto(o, pc)
    BY <1>1 DEF NewLeg, PCs
  <2>2. RoomsGrow /\ UNCHANGED <<claimed, reports>>
    BY <1>1, RoomsFacts DEF NewLeg, eventVars
  <2>3. QED
    BY <1>0, <2>1, <2>2, GotoUsual, UsualKeeps
<1>2. CASE Pend \/ Route \/ Ring \/ EarlyMedia \/ InviteAnswered
  <2>1. \E pc \in PCs \ {"join", "report"} : Goto(o, pc)
    BY <1>2 DEF Pend, Route, Ring, EarlyMedia, InviteAnswered, PCs
  <2>2. RoomsGrow /\ UNCHANGED <<claimed, reports>>
    BY <1>2, RoomsFacts DEF Pend, Route, Ring, EarlyMedia, InviteAnswered, eventVars
  <2>3. QED
    BY <1>0, <2>1, <2>2, GotoUsual, UsualKeeps
<1>3. CASE ConnectOutbound \/ ConnectSetup \/ Joined \/ NotJoined
  <2>1. \E pc \in PCs \ {"join", "report"} : Goto(o, pc)
    BY <1>0, <1>3 DEF ConnectOutbound, ConnectSetup, Joined, NotJoined, PCs
  <2>2. RoomsGrow /\ UNCHANGED <<claimed, reports>>
    BY <1>3, RoomsFacts DEF ConnectOutbound, ConnectSetup, Joined, NotJoined, eventVars
  <2>3. QED
    BY <1>0, <2>1, <2>2, GotoUsual, UsualKeeps
<1>4. CASE Answer \/ Answered \/ AnswerFailed \/ Unroute \/ AwaitEnds
  <2>1. \E pc \in PCs \ {"join", "report"} : Goto(o, pc)
    BY <1>4 DEF Answer, Answered, AnswerFailed, Unroute, AwaitEnds, PCs
  <2>2. RoomsGrow /\ UNCHANGED <<claimed, reports>>
    BY <1>4, RoomsFacts DEF Answer, Answered, AnswerFailed, Unroute, AwaitEnds, eventVars
  <2>3. QED
    BY <1>0, <2>1, <2>2, GotoUsual, UsualKeeps
<1>5. CASE InviteFails \/ Dropped \/ WatchDialogEnd \/ ConnectFailed
  <2>1. Goto(o, "done") \/ CleanUp(o, "done")
    BY <1>5 DEF InviteFails, Dropped, WatchDialogEnd, ConnectFailed
  <2>2. RoomsGrow /\ UNCHANGED <<claimed, reports>>
    BY <1>5, RoomsFacts DEF InviteFails, Dropped, WatchDialogEnd, ConnectFailed, eventVars
  <2>3. QED
    BY <1>0, <2>1, <2>2, GotoUsual, CleanUpUsual, UsualKeeps DEF PCs, Thens
<1>6. CASE SetEarlyMedia \/ Connected
  <2>1. PICK pc \in PCs \ {"join", "report"}, then \in Thens :
           task' = [task EXCEPT ![o].pc = pc, ![o].then = then]
    BY <1>6 DEF SetEarlyMedia, Connected, PCs, Thens
  <2>0. Moved(o) /\ task'[o].pc = pc /\ task'[o].gen = task[o].gen
    BY <1>0, <2>1, ThenFacts
  <2>2. RoomsGrow /\ UNCHANGED <<claimed, reports>>
    BY <1>6, RoomsFacts DEF SetEarlyMedia, Connected, eventVars
  <2>3. Usual(o)
    BY <1>0, <2>0, <2>2, MoveUsual
  <2>4. QED
    BY <1>0, <2>3, UsualKeeps
<1>7. CASE JoinPendingRoom
  <2>1. JoinLookup(o, "notJoined") \/ \E pc \in PCs \ {"join", "report"} : Goto(o, pc)
    BY <1>0, <1>7 DEF JoinPendingRoom, PCs
  <2>2. RoomsGrow /\ UNCHANGED <<claimed, reports>>
    BY <1>7, RoomsFacts DEF JoinPendingRoom, eventVars
  <2>3. QED
    BY <1>0, <2>1, <2>2, GotoUsual, LookupUsual, UsualKeeps DEF PCs
<1>8. CASE RoomGone
  <2>1. Goto(o, task[o].then) \/ CleanUp(o, "invite") \/ CleanUp(o, "done")
    BY <1>8 DEF RoomGone
  <2>2. RoomsGrow /\ UNCHANGED <<claimed, reports>>
    BY <1>8, RoomsFacts DEF RoomGone, eventVars
  <2>3. QED
    BY <1>0, <2>1, <2>2, GotoUsual, CleanUpUsual, UsualKeeps DEF Thens
<1>9. QED
  BY <1>0, <1>1, <1>2, <1>3, <1>4, <1>5, <1>6, <1>7, <1>8, TearDownTyped
     DEF OwnerStep, OwnerWaits

LEMMA CallerTyped ==
    ASSUME Numbered, Claims, NEW p \in Callers, CallerStart(p) \/ CallerStep(p)
    PROVE  Numbered' /\ Claims'
<1>0. p \in Procs /\ task \in Tasks /\ task[p] \in TaskType
  BY ProcsFact DEF Numbered, Tasks
<1>1. CASE Delete(p) \/ MediaPanic(p) \/ Reject(p)
  <2>1. \/ Hang(p, "cleanup") \/ Hang(p, "idle")
        \/ \E pc \in PCs \ {"join", "report"} : Goto(p, pc)
    BY <1>1 DEF Delete, MediaPanic, Reject, PCs
  <2>2. RoomsGrow /\ UNCHANGED <<claimed, reports>>
    BY <1>1, RoomsFacts DEF Delete, MediaPanic, Reject, eventVars
  <2>3. QED
    BY <1>0, <2>1, <2>2, GotoUsual, HangUsual, UsualKeeps DEF Rets
<1>2. CASE AnswerLeg(p) \/ Expire(p) \/ Hold(p) \/ AddToRoom(p)
  <2>1. \E pc \in PCs \ {"join", "report"} : Goto(p, pc)
    BY <1>2 DEF AnswerLeg, Expire, Hold, AddToRoom, PCs
  <2>2. RoomsGrow /\ UNCHANGED <<claimed, reports>>
    BY <1>2, RoomsFacts DEF AnswerLeg, Expire, Hold, AddToRoom, eventVars
  <2>3. QED
    BY <1>0, <2>1, <2>2, GotoUsual, UsualKeeps
<1>3. CASE Rejecting(p) \/ Rejected(p) \/ EnableEarlyMedia(p) \/ SetHeld(p)
  <2>1. \E pc \in PCs \ {"join", "report"} : Goto(p, pc)
    BY <1>3 DEF Rejecting, Rejected, EnableEarlyMedia, SetHeld, PCs
  <2>2. RoomsGrow /\ UNCHANGED <<claimed, reports>>
    BY <1>3, RoomsFacts DEF Rejecting, Rejected, EnableEarlyMedia, SetHeld, eventVars
  <2>3. QED
    BY <1>0, <2>1, <2>2, GotoUsual, UsualKeeps
<1>4. CASE Expired(p)
  <2>1. Goto(p, "idle") \/ CleanUp(p, "idle")
    BY <1>4 DEF Expired
  <2>2. RoomsGrow /\ UNCHANGED <<claimed, reports>>
    BY <1>4, RoomsFacts DEF Expired, eventVars
  <2>3. QED
    BY <1>0, <2>1, <2>2, GotoUsual, CleanUpUsual, UsualKeeps DEF PCs, Thens
<1>5. CASE DeleteRoom(p) \/ SnapPending(p)
  <2>1. \E pc \in PCs \ {"join", "report"}, snap \in BOOLEAN :
           task' = [task EXCEPT ![p].pc = pc, ![p].snap = snap]
    <3>1. CASE DeleteRoom(p)
      <4>1. (room \in inRoom) \in BOOLEAN /\ "snapPending" \in PCs \ {"join", "report"}
        BY DEF PCs
      <4>2. QED
        BY <3>1, <4>1 DEF DeleteRoom
    <3>2. CASE SnapPending(p)
      <4>1. (task[p].snap \/ (pending /\ registered)) \in BOOLEAN
            /\ "unroom" \in PCs \ {"join", "report"}
        BY DEF PCs
      <4>2. task' = [task EXCEPT ![p].pc = "unroom",
                                 ![p].snap = task[p].snap \/ (pending /\ registered)]
        BY <1>0, <3>2 DEF SnapPending, Tasks
      <4>3. QED
        BY <4>1, <4>2
    <3>3. QED
      BY <1>5, <3>1, <3>2
  <2>2. RoomsGrow /\ UNCHANGED <<claimed, reports>>
    BY <1>5, RoomsFacts DEF DeleteRoom, SnapPending, eventVars
  <2>3. Usual(p)
    BY <1>0, <2>1, <2>2, SnapFacts, MoveUsual
  <2>4. QED
    BY <1>0, <2>3, UsualKeeps
<1>6. CASE Unroom(p)
  <2>1. RoomsGrow /\ UNCHANGED <<claimed, reports>> /\ rooms' = rooms
    BY <1>6, ProcsFact DEF Unroom, RoomsGrow, Numbered, eventVars
  <2>2. CASE room = 0
    <3>1. task' = [task EXCEPT ![p] = Task("idle")] /\ "idle" \in PCs
      BY <1>6, <2>2 DEF Unroom, PCs
    <3>2. Moved(p) /\ task'[p].pc = "idle" /\ task'[p].gen = 0
      BY <1>0, <3>1, TaskFacts DEF Moved, Tasks
    <3>3. Usual(p)
      BY <2>1, <3>2, ProcsFact DEF Usual, Sound, Numbered
    <3>4. QED
      BY <1>0, <3>3, UsualKeeps
  <2>3. CASE room # 0
    <3>1. task' = [task EXCEPT ![p].pc = "hangRoom", ![p].gen = room]
      BY <1>0, <1>6, <2>3 DEF Unroom, Tasks
    <3>2. room \in 0..MaxRooms /\ room <= rooms /\ "hangRoom" \in PCs
      BY RoomsFacts DEF PCs
    <3>3. Moved(p) /\ task'[p].pc = "hangRoom" /\ task'[p].gen = room
      BY <1>0, <3>1, <3>2, GenFacts
    <3>4. Usual(p)
      BY <2>1, <3>2, <3>3 DEF Usual, Sound
    <3>5. QED
      BY <1>0, <3>4, UsualKeeps
  <2>4. QED
    BY <2>2, <2>3
<1>7. CASE HangRoom(p)
  <2>1. Hang(p, "closeRoom") \/ Goto(p, "closeRoom")
    BY <1>7 DEF HangRoom
  <2>2. RoomsGrow /\ UNCHANGED <<claimed, reports>>
    BY <1>7, RoomsFacts DEF HangRoom, eventVars
  <2>3. QED
    BY <1>0, <2>1, <2>2, GotoUsual, HangUsual, UsualKeeps DEF Rets, PCs
<1>8. CASE CloseRoom(p)
  <2>1. RoomsGrow /\ UNCHANGED <<claimed, reports>> /\ rooms' = rooms
    <3>1. inRoom' \subseteq 1..rooms /\ UNCHANGED <<room, rooms>>
      BY <1>8, RoomsFacts DEF CloseRoom
    <3>2. QED
      BY <1>8, <3>1, RoomsFacts DEF CloseRoom, eventVars
  <2>2. PICK pc \in {"cleanup", "idle"} : task' = [task EXCEPT ![p] = Task(pc)]
    BY <1>8 DEF CloseRoom
  <2>3. Moved(p) /\ task'[p].pc = pc /\ task'[p].gen = 0
    BY <1>0, <2>2, TaskFacts DEF Moved, Tasks, PCs
  <2>4. Usual(p)
    BY <2>1, <2>3, ProcsFact DEF Usual, Sound, Numbered
  <2>5. QED
    BY <1>0, <2>4, UsualKeeps
<1>9. CASE FindLegRoom(p) \/ WaitConnected(p)
  <2>1. JoinLookup(p, "idle") \/ Goto(p, "idle") \/ Goto(p, "signalJoin")
    BY <1>9 DEF FindLegRoom, WaitConnected
  <2>2. RoomsGrow /\ UNCHANGED <<claimed, reports>>
    BY <1>9, RoomsFacts DEF FindLegRoom, WaitConnected, eventVars
  <2>3. QED
    BY <1>0, <2>1, <2>2, GotoUsual, LookupUsual, UsualKeeps DEF PCs
<1>10. CASE SignalAnswer(p)
  <2>1. UNCHANGED <<room, rooms, inRoom, claimed, reports>>
    BY <1>10 DEF SignalAnswer, roomVars, eventVars
  <2>2. /\ task' \in Tasks
        /\ \A q \in Procs : /\ task'[q].gen = task[q].gen
                            /\ task'[q].pc \in {task[q].pc, "idle", "waitConnected", "answer"}
    BY <1>0, <1>10, SignalFacts
  <2>3. \A q \in Procs : /\ task'[q].pc = "join" => task[q].pc = "join"
                         /\ task'[q].pc = "report" => task[q].pc = "report"
    BY <2>2
  <2>4. Numbered'
    BY <2>1, <2>2, <2>3 DEF Numbered
  <2>5. Claims'
    BY <2>1, <2>3 DEF Claims
  <2>6. QED
    BY <2>4, <2>5
<1>11. QED
  BY <1>0, <1>1, <1>2, <1>3, <1>4, <1>5, <1>6, <1>7, <1>8, <1>9, <1>10, TearDownTyped
     DEF CallerStart, CallerStep

LEMMA InitTyped ==
    ASSUME Init
    PROVE  TInv
<1>1. /\ Task("new") \in TaskType /\ Task("new").pc = "new" /\ Task("new").gen = 0
      /\ Task("idle") \in TaskType /\ Task("idle").pc = "idle" /\ Task("idle").gen = 0
  BY TaskFacts DEF PCs
<1>2. task = [p \in Procs |-> IF p = "owner" THEN Task("new") ELSE Task("idle")]
  BY DEF Init
<1>3. /\ task \in Tasks
      /\ \A p \in Procs : task[p].gen = 0 /\ task[p].pc \in {"new", "idle"}
  BY <1>1, <1>2 DEF Tasks
<1>4. Flags
  BY LegLifecycleAssumption
     DEF Init, LegLifecycleAssumption, Flags, LegFlags, SipFlags, MgrFlags, EventFlags
<1>5. Numbered
  BY <1>3, ProcsFact DEF Init, Numbered
<1>6. Claims
  BY <1>3 DEF Init, Claims
<1>7. QED
  BY <1>4, <1>5, <1>6 DEF TInv

LEMMA NextTyped ==
    ASSUME TInv, [Next]_vars
    PROVE  TInv'
<1>1. CASE OwnerStep \/ OwnerWaits
  BY <1>1, OwnerFlags, OwnerTyped DEF TInv
<1>2. CASE PeerEnds
  <2>1. UNCHANGED <<room, rooms, inRoom, claimed, reports, task>>
    BY <1>2 DEF PeerEnds, roomVars, eventVars
  <2>2. Numbered' /\ Claims'
    BY <2>1 DEF TInv, Numbered, Claims
  <2>3. QED
    BY <1>2, <2>2, OwnerFlags DEF TInv
<1>3. ASSUME NEW p \in Callers, CallerStart(p) \/ CallerStep(p)
      PROVE  TInv'
  BY <1>3, CallerFlags, CallerTyped DEF TInv
<1>4. CASE UNCHANGED vars
  <2>1. Flags'
    BY <1>4, FlagsStay DEF vars, Flags, TInv
  <2>2. UNCHANGED <<room, rooms, inRoom, claimed, reports, task>>
    BY <1>4 DEF vars, roomVars, eventVars
  <2>3. Numbered' /\ Claims'
    BY <2>2 DEF TInv, Numbered, Claims
  <2>4. QED
    BY <2>1, <2>3 DEF TInv
<1>5. QED
  BY <1>1, <1>2, <1>3, <1>4 DEF Next

(* The state of a leg has its types, whatever the callers do and whenever  *)
(* they begin: leg.disconnected is published once at most, and only by the *)
(* goroutine that claimed it (publishDisconnect, legs.go:104-114); a leg   *)
(* is only ever in rooms that were created (Manager.AddLeg).               *)
THEOREM LegTypes == Spec => []TypeOK
<1>1. Spec => []TInv
  BY InitTyped, NextTyped, PTL DEF Spec
<1>2. TInv => TypeOK
  BY TInvTypes
<1>3. QED
  BY <1>1, <1>2, PTL


-----------------------------------------------------------------------------
(* What ends a leg is seen through.  Media loops that panic, and deletions *)
(* of the leg's room, are left out: either may leave a leg behind.         *)
Orderly == EarlyCallers = FALSE /\ "panic" \notin Ops /\ "deleteRoom" \notin Ops

Finished == ~ registered /\ ~ pending /\ ~ routed

Ending(p) ==
    \/ task[p].pc \in {"hangup", "cancel"} /\ task[p].ret \in {"cleanup", "unpend"}
    \/ task[p].pc \in {"rejected", "cleanup", "leave", "unpend", "unregister",
                       "claim", "report", "release"}

EndAssured == Finished \/ \E p \in Procs : Ending(p)

(* What the code takes for a sign that the leg's end is, or was, seen to.  *)
Cause == state = "hung_up" \/ joinOnce = "gone" \/ task["owner"].pc = "done"

BeforeRing ==
    ~ Announced => /\ \A p \in Callers : task[p].pc = "idle"
                   /\ state = "ringing" /\ joinOnce = "no" /\ ~ claimed

OwnerAt ==
    /\ task["owner"].pc \in {"await", "answer", "answerFailed", "unroute"} => inbound
    /\ task["owner"].pc = "pend" => ~ inbound
    /\ task["owner"].pc \in {"joinRoom", "join", "joined", "notJoined", "roomGone"} =>
           task["owner"].then \in {"invite", "watch"}

EndsAt(p) ==
    /\ task[p].pc \in {"unregister", "claim", "report", "release"} => ~ pending
    /\ task[p].pc \in {"claim", "report", "release", "unroute"} => ~ registered
    /\ task[p].pc \in {"hangup", "cancel"} => task[p].ret \in {"cleanup", "unpend"}
    /\ task[p].pc \notin {"snapPending", "unroom", "hangRoom", "closeRoom"}

Held == claimed /\ routed => \E p \in Procs : task[p].pc \in {"report", "release"}

EndsInv ==
    /\ BeforeRing /\ OwnerAt /\ Held
    /\ inbound => ~ pending
    /\ \A p \in Procs : EndsAt(p)
    /\ Cause => EndAssured

(* One goroutine moved, and may have woken the owner.                      *)
Others(p) ==
    /\ task' \in Tasks
    /\ \A q \in Procs \ {p} :
          \/ task'[q] = task[q]
          \/ q = "owner" /\ task[q].pc = "await" /\ task'[q].pc = "answer"

Shrinks ==
    /\ registered' => registered
    /\ pending' => pending
    /\ routed' => routed
    /\ inbound' = inbound

LEMMA EndsStep ==
    ASSUME EndsInv, NEW p \in Procs, Announced, Others(p), Shrinks, Announced',
           EndsAt(p)', p = "owner" => OwnerAt', Held',
           Ending(p) => EndAssured', Cause' => Cause \/ EndAssured'
    PROVE  EndsInv'
<1>1. \A q \in Procs : q # p => \/ task'[q] = task[q]
                                \/ /\ q = "owner" /\ task[q].pc = "await"
                                   /\ task'[q].pc = "answer"
  BY DEF Others
<1>2. BeforeRing'
  BY DEF BeforeRing
<1>3. OwnerAt'
  <2>1. CASE p # "owner"
    <3>1. \/ task'["owner"] = task["owner"]
          \/ task["owner"].pc = "await" /\ task'["owner"].pc = "answer"
      BY <1>1, <2>1, ProcsFact
    <3>2. inbound' = inbound
      BY DEF Shrinks
    <3>3. QED
      BY <3>1, <3>2 DEF OwnerAt, EndsInv
  <2>2. QED
    BY <2>1
<1>4. inbound' => ~ pending'
  BY DEF Shrinks, EndsInv
<1>5. ASSUME NEW q \in Procs
      PROVE  EndsAt(q)'
  <2>1. CASE q # p
    <3>1. \/ task'[q] = task[q]
          \/ task'[q].pc = "answer"
      BY <1>1, <2>1
    <3>2. EndsAt(q)
      BY DEF EndsInv
    <3>3. QED
      BY <3>1, <3>2 DEF EndsAt, Shrinks
  <2>2. QED
    BY <2>1
<1>6. Cause' => EndAssured'
  <2>1. EndAssured => EndAssured'
    <3>1. CASE Finished
      BY <3>1 DEF Finished, Shrinks, EndAssured
    <3>2. ASSUME NEW q \in Procs, Ending(q), q # p
          PROVE  EndAssured'
      <4>1. task'[q] = task[q]
        BY <1>1, <3>2 DEF Ending
      <4>2. Ending(q)'
        BY <3>2, <4>1 DEF Ending
      <4>3. QED
        BY <4>2 DEF EndAssured
    <3>3. QED
      BY <3>1, <3>2 DEF EndAssured
  <2>2. QED
    BY <2>1 DEF EndsInv
<1>7. QED
  BY <1>2, <1>3, <1>4, <1>5, <1>6 DEF EndsInv

(* A goroutine that holds the claim still does.                            *)
LEMMA HeldStays ==
    ASSUME EndsInv, NEW p \in Procs, Others(p), task[p].pc \notin {"report", "release"},
           claimed' = claimed, routed' => routed
    PROVE  Held'
<1>1. SUFFICES ASSUME claimed', routed'
               PROVE  \E q \in Procs : task'[q].pc \in {"report", "release"}
  BY DEF Held
<1>2. PICK q \in Procs : task[q].pc \in {"report", "release"}
  BY <1>1 DEF EndsInv, Held
<1>3. task'[q] = task[q]
  BY <1>2 DEF Others
<1>4. QED
  BY <1>2, <1>3

Special ==
    {"new", "pend", "route", "ring", "unregister", "claim", "report", "release", "unroute",
     "hangup", "cancel", "snapPending", "unroom", "hangRoom", "closeRoom"}

Harmless(p) ==
    /\ Others(p) /\ Shrinks
    /\ task[p].pc \notin {"report", "release", "claim"} /\ claimed' = claimed
    /\ \/ task'[p].pc \notin Special
       \/ task'[p].pc = "hangup" /\ task'[p].ret \in {"cleanup", "unpend"}
    /\ p = "owner" => OwnerAt'

(* The owner or a caller moves, without ending the leg by this step.       *)
LEMMA HarmlessStep ==
    ASSUME EndsInv, NEW p \in Procs, Announced, Harmless(p),
           Ending(p) => Ending(p)',
           state' = "hung_up" => Cause \/ Ending(p)',
           joinOnce' = "gone" => Cause \/ Ending(p)',
           p = "owner" /\ task'[p].pc = "done" => Cause
    PROVE  EndsInv'
<1>1. Held'
  BY HeldStays DEF Harmless, Shrinks
<1>2. EndsAt(p)'
  BY DEF Harmless, EndsAt, Special
<1>3. Ending(p)' => EndAssured'
  BY DEF EndAssured
<1>4. Announced'
  <2>1. CASE p = "owner"
    BY <2>1 DEF Harmless, Special, Announced
  <2>2. CASE p # "owner"
    BY <2>2, ProcsFact DEF Harmless, Others, Announced
  <2>3. QED
    BY <2>1, <2>2
<1>5. Cause' => Cause \/ EndAssured'
  <2>1. CASE state' = "hung_up" \/ joinOnce' = "gone"
    BY <1>3, <2>1
  <2>2. CASE task'["owner"].pc = "done"
    <3>1. CASE p = "owner"
      BY <2>2, <3>1
    <3>2. CASE p # "owner"
      <4>1. task["owner"].pc = "done"
        BY <2>2, <3>2, ProcsFact DEF Harmless, Others
      <4>2. QED
        BY <4>1 DEF Cause
    <3>3. QED
      BY <3>1, <3>2
  <2>3. QED
    BY <2>1, <2>2 DEF Cause
<1>6. QED
  BY <1>1, <1>2, <1>3, <1>4, <1>5, EndsStep DEF Harmless

LEMMA MovedOthers ==
    ASSUME NEW p, Moved(p)
    PROVE  Others(p)
  BY DEF Moved, Others

LEMMA TFacts ==
    ASSUME TInv
    PROVE  /\ task \in Tasks /\ room \in 0..MaxRooms
           /\ \A p \in Procs : /\ task[p] \in TaskType
                               /\ task[p].ret \in Rets /\ task[p].then \in Thens
           /\ Rets \subseteq PCs /\ Thens \subseteq PCs
<1>1. task \in Tasks /\ room \in 0..MaxRooms
  BY RoomsFacts DEF TInv, Numbered
<1>2. \A p \in Procs : /\ task[p] \in TaskType
                       /\ task[p].ret \in Rets /\ task[p].then \in Thens
  BY <1>1 DEF Tasks, TaskType, Rets, Thens
<1>3. QED
  BY <1>1, <1>2 DEF Rets, Thens, PCs

(* Whoever is past leg.ringing.                                            *)
LEMMA RungFact ==
    ASSUME EndsInv, NEW p \in Procs,
           task[p].pc \notin {"idle", "new", "pend", "route", "ring"}
    PROVE  Announced
<1>1. CASE p = "owner"
  BY <1>1 DEF Announced
<1>2. CASE p # "owner"
  BY <1>2, ProcsFact DEF EndsInv, BeforeRing
<1>3. QED
  BY <1>1, <1>2


(* A goroutine is on its way through the cleanup after its step.           *)
LEMMA EndingStep ==
    ASSUME EndsInv, NEW p \in Procs, Announced, Others(p), Shrinks, claimed' = claimed,
           task[p].pc \notin {"report", "release"}, Ending(p)', EndsAt(p)'
    PROVE  EndsInv'
<1>1. Held'
  BY HeldStays DEF Shrinks
<1>2. EndAssured'
  BY DEF EndAssured
<1>3. Announced' /\ (p = "owner" => OwnerAt')
  <2>1. CASE p = "owner"
    BY <2>1 DEF Ending, Announced, OwnerAt
  <2>2. CASE p # "owner"
    BY <2>2, ProcsFact DEF Others, Announced
  <2>3. QED
    BY <2>1, <2>2
<1>4. QED
  BY <1>1, <1>2, <1>3, EndsStep

LEMMA EndsTearDown ==
    ASSUME TInv, EndsInv, NEW p \in Procs, TearDown(p)
    PROVE  EndsInv'
<1>0. /\ task \in Tasks /\ task[p].ret \in Rets /\ task[p].then \in Thens
      /\ Rets \subseteq PCs /\ Thens \subseteq PCs
  BY TFacts
<1>a. Announced
  BY RungFact DEF TearDown, Hangup, Cancel, Cleanup, Leave, Unpend, Unregister,
                  ClaimDisconnect, Report, Release, At
<1>b. EndsAt(p)
  BY DEF EndsInv
<1>1. CASE Hangup(p)
  <2>1. Goto(p, "cancel") /\ "cancel" \in PCs /\ task[p].ret \in {"cleanup", "unpend"}
    BY <1>1, <1>b DEF Hangup, At, EndsAt, PCs
  <2>2. Others(p) /\ task'[p].pc = "cancel" /\ task'[p].ret \in {"cleanup", "unpend"}
    BY <1>0, <2>1, GotoFacts, MovedOthers
  <2>3. Ending(p)' /\ EndsAt(p)'
    BY <2>2 DEF Ending, EndsAt
  <2>4. Shrinks /\ claimed' = claimed
    BY <1>1 DEF Hangup, Shrinks, mgrVars, eventVars
  <2>5. QED
    BY <1>1, <1>a, <2>2, <2>3, <2>4, EndingStep DEF Hangup, At
<1>2. CASE Cancel(p)
  <2>1. Goto(p, task[p].ret) /\ task[p].ret \in {"cleanup", "unpend"}
    BY <1>2, <1>b DEF Cancel, At, EndsAt
  <2>2. Others(p) /\ task'[p].pc \in {"cleanup", "unpend"}
    BY <1>0, <2>1, GotoFacts, MovedOthers
  <2>3. Ending(p)' /\ EndsAt(p)'
    BY <2>2 DEF Ending, EndsAt
  <2>4. Shrinks /\ claimed' = claimed
    BY <1>2 DEF Cancel, Shrinks, mgrVars, eventVars
  <2>5. QED
    BY <1>2, <1>a, <2>2, <2>3, <2>4, EndingStep DEF Cancel, At
<1>3. CASE Cleanup(p)
  <2> DEFINE Q == /\ Others(p)
                  /\ \/ task'[p].pc = "leave"
                     \/ task'[p].pc = "hangup" /\ task'[p].ret = "unpend"
  <2>1. Hang(p, "unpend") \/ task' = [task EXCEPT ![p].pc = "leave", ![p].gen = room]
    BY <1>3 DEF Cleanup
  <2>2. ASSUME Hang(p, "unpend")
        PROVE  Q
    BY <1>0, <2>2, HangFacts, MovedOthers DEF Rets
  <2>3. ASSUME task' = [task EXCEPT ![p].pc = "leave", ![p].gen = room]
        PROVE  Q
    <3>1. "leave" \in PCs /\ room \in 0..MaxRooms
      BY TFacts DEF PCs
    <3>2. Moved(p) /\ task'[p].pc = "leave"
      BY <1>0, <2>3, <3>1, GenFacts
    <3>3. QED
      BY <3>2, MovedOthers
  <2>4. Q
    BY <2>1, <2>2, <2>3
  <2>5. Ending(p)' /\ EndsAt(p)'
    BY <2>4 DEF Ending, EndsAt
  <2>6. Shrinks /\ claimed' = claimed
    BY <1>3 DEF Cleanup, Shrinks, legVars, mgrVars, eventVars
  <2>7. QED
    BY <1>3, <1>a, <2>4, <2>5, <2>6, EndingStep DEF Cleanup, At
<1>4. CASE Leave(p)
  <2>1. Others(p) /\ task'[p].pc = "hangup" /\ task'[p].ret = "unpend"
    BY <1>0, <1>4, HangFacts, MovedOthers DEF Leave, Rets
  <2>2. Ending(p)' /\ EndsAt(p)'
    BY <2>1 DEF Ending, EndsAt
  <2>3. Shrinks /\ claimed' = claimed
    BY <1>4 DEF Leave, Shrinks, legVars, mgrVars, eventVars
  <2>4. QED
    BY <1>4, <1>a, <2>1, <2>2, <2>3, EndingStep DEF Leave, At
<1>5. CASE Unpend(p)
  <2>1. Others(p) /\ task'[p].pc = "unregister"
    BY <1>0, <1>5, GotoFacts, MovedOthers DEF Unpend, PCs
  <2>2. Ending(p)' /\ EndsAt(p)'
    BY <1>5, <2>1 DEF Unpend, Ending, EndsAt
  <2>3. Shrinks /\ claimed' = claimed
    BY <1>5 DEF Unpend, Shrinks, legVars, eventVars
  <2>4. QED
    BY <1>5, <1>a, <2>1, <2>2, <2>3, EndingStep DEF Unpend, At
<1>6. CASE Unregister(p)
  <2>1. Others(p) /\ task'[p].pc = "claim"
    BY <1>0, <1>6, GotoFacts, MovedOthers DEF Unregister, PCs
  <2>2. Ending(p)' /\ EndsAt(p)'
    BY <1>6, <1>b, <2>1 DEF Unregister, At, Ending, EndsAt
  <2>3. Shrinks /\ claimed' = claimed
    BY <1>6 DEF Unregister, Shrinks, legVars, eventVars
  <2>4. QED
    BY <1>6, <1>a, <2>1, <2>2, <2>3, EndingStep DEF Unregister, At
<1>7. CASE ClaimDisconnect(p)
  <2>1. Shrinks
    BY <1>7 DEF ClaimDisconnect, Shrinks, legVars, mgrVars
  <2>2. ~ pending' /\ ~ registered' /\ task[p].pc = "claim"
    BY <1>7, <1>b DEF ClaimDisconnect, At, EndsAt, mgrVars
  <2>3. CASE claimed
    <3>1. Others(p) /\ task'[p].pc \in Thens
      BY <1>0, <1>7, <2>3, GotoFacts, MovedOthers DEF ClaimDisconnect
    <3>2. Held'
      BY <1>7, <2>1, <2>2, <2>3, <3>1, HeldStays DEF ClaimDisconnect, Shrinks
    <3>3. EndAssured'
      <4>1. CASE routed'
        BY <1>7, <3>2, <4>1 DEF ClaimDisconnect, Held, EndAssured, Ending
      <4>2. CASE ~ routed'
        BY <2>2, <4>2 DEF EndAssured, Finished
      <4>3. QED
        BY <4>1, <4>2
    <3>4. EndsAt(p)'
      BY <3>1 DEF EndsAt, Thens
    <3>5. Announced' /\ (p = "owner" => OwnerAt')
      <4>1. CASE p = "owner"
        BY <3>1, <4>1 DEF Announced, OwnerAt, Thens
      <4>2. CASE p # "owner"
        BY <1>a, <3>1, <4>2, ProcsFact DEF Others, Announced
      <4>3. QED
        BY <4>1, <4>2
    <3>6. QED
      BY <1>a, <2>1, <3>1, <3>2, <3>3, <3>4, <3>5, EndsStep
  <2>4. CASE ~ claimed
    <3>1. Others(p) /\ task'[p].pc = "report"
      BY <1>0, <1>7, <2>4, GotoFacts, MovedOthers DEF ClaimDisconnect, PCs
    <3>2. Held' /\ EndAssured'
      BY <3>1 DEF Held, EndAssured, Ending
    <3>3. EndsAt(p)'
      BY <2>2, <3>1 DEF EndsAt
    <3>4. Announced' /\ (p = "owner" => OwnerAt')
      <4>1. CASE p = "owner"
        BY <3>1, <4>1 DEF Announced, OwnerAt
      <4>2. CASE p # "owner"
        BY <1>a, <3>1, <4>2, ProcsFact DEF Others, Announced
      <4>3. QED
        BY <4>1, <4>2
    <3>5. QED
      BY <1>a, <2>1, <3>1, <3>2, <3>3, <3>4, EndsStep
  <2>5. QED
    BY <2>3, <2>4
<1>8. CASE Report(p)
  <2>1. Shrinks /\ ~ pending' /\ ~ registered'
    BY <1>8, <1>b DEF Report, Shrinks, At, EndsAt, legVars, mgrVars
  <2>2. Others(p) /\ task'[p].pc = "release"
    BY <1>0, <1>8, GotoFacts, MovedOthers DEF Report, PCs
  <2>3. Held' /\ EndAssured' /\ EndsAt(p)'
    BY <2>1, <2>2 DEF Held, EndAssured, Ending, EndsAt
  <2>4. Announced' /\ (p = "owner" => OwnerAt')
    <3>1. CASE p = "owner"
      BY <2>2, <3>1 DEF Announced, OwnerAt
    <3>2. CASE p # "owner"
      BY <1>a, <2>2, <3>2, ProcsFact DEF Others, Announced
    <3>3. QED
      BY <3>1, <3>2
  <2>5. QED
    BY <1>a, <2>1, <2>2, <2>3, <2>4, EndsStep
<1>9. CASE Release(p)
  <2>1. Shrinks /\ ~ pending' /\ ~ registered' /\ ~ routed'
    BY <1>9, <1>b DEF Release, Shrinks, At, EndsAt, legVars, mgrVars
  <2>2. Others(p) /\ task'[p].pc \in Thens
    BY <1>0, <1>9, GotoFacts, MovedOthers DEF Release
  <2>3. Held' /\ EndAssured' /\ EndsAt(p)'
    BY <2>1, <2>2 DEF Held, EndAssured, Finished, EndsAt, Thens
  <2>4. Announced' /\ (p = "owner" => OwnerAt')
    <3>1. CASE p = "owner"
      BY <2>2, <3>1 DEF Announced, OwnerAt, Thens
    <3>2. CASE p # "owner"
      BY <1>a, <2>2, <3>2, ProcsFact DEF Others, Announced
    <3>3. QED
      BY <3>1, <3>2
  <2>5. QED
    BY <1>a, <2>1, <2>2, <2>3, <2>4, EndsStep
<1>10. QED
  BY <1>1, <1>2, <1>3, <1>4, <1>5, <1>6, <1>7, <1>8, <1>9 DEF TearDown


(* Up to leg.ringing only the owner moves.                                 *)
LEMMA EndsBefore ==
    ASSUME TInv, EndsInv, NewLeg \/ Pend \/ Route \/ Ring
    PROVE  EndsInv'
<1>1. task["owner"].pc \in {"new", "pend", "route", "ring"} /\ ~ Announced
  BY DEF NewLeg, Pend, Route, Ring, At, Announced
<1>2. /\ \A q \in Callers : task[q].pc = "idle"
      /\ state = "ringing" /\ joinOnce = "no" /\ ~ claimed
  BY <1>1 DEF EndsInv, BeforeRing
<1>3. UNCHANGED <<inbound, state, joinOnce, claimed>>
  BY DEF NewLeg, Pend, Route, Ring, legVars, mgrVars, eventVars
<1>4. PICK pc \in {"pend", "route", "ring", "await", "invite"} :
         Goto("owner", pc) /\ (pc = "await" => inbound) /\ (pc = "pend" => ~ inbound)
  BY DEF NewLeg, Pend, Route, Ring
<1>5. /\ task'["owner"].pc = pc
      /\ \A q \in Callers : task'[q] = task[q]
  BY <1>4, TFacts, ProcsFact, GotoFacts DEF Moved, PCs
<1>6. BeforeRing' /\ ~ Cause' /\ Held'
  BY <1>2, <1>3, <1>5 DEF BeforeRing, Cause, Held
<1>7. OwnerAt'
  BY <1>3, <1>4, <1>5 DEF OwnerAt
<1>8. inbound' => ~ pending'
  <2>1. Pend => ~ inbound
    BY DEF Pend, At, EndsInv, OwnerAt
  <2>2. CASE Pend
    BY <1>3, <2>1, <2>2
  <2>3. CASE NewLeg \/ Route \/ Ring
    BY <1>3, <2>3 DEF NewLeg, Route, Ring, mgrVars, EndsInv
  <2>4. QED
    BY <2>2, <2>3
<1>9. ASSUME NEW q \in Procs
      PROVE  EndsAt(q)'
  <2>1. task'[q].pc \in {"pend", "route", "ring", "await", "invite", "idle"}
    BY <1>2, <1>5, ProcsFact
  <2>2. QED
    BY <2>1 DEF EndsAt
<1>10. QED
  BY <1>6, <1>7, <1>8, <1>9 DEF EndsInv

(* Moves of the owner that are harmless, or lead into the cleanup.         *)
LEMMA OwnerHarmless ==
    ASSUME TInv, EndsInv, Announced, NEW pc \in PCs, Goto("owner", pc),
           pc \notin Special \cup {"await", "answer", "answerFailed", "idle", "done"},
           pc \in {"joinRoom", "join", "joined", "notJoined", "roomGone"} =>
               task["owner"].then \in {"invite", "watch"},
           ~ Ending("owner"), task["owner"].pc \notin {"report", "release", "claim"},
           Shrinks, claimed' = claimed,
           state' = "hung_up" => Cause, joinOnce' = "gone" => Cause
    PROVE  EndsInv'
<1>1. /\ "owner" \in Procs /\ Others("owner") /\ task'["owner"].pc = pc
      /\ task'["owner"].then = task["owner"].then
  BY TFacts, ProcsFact, GotoFacts, MovedOthers
<1>2. OwnerAt'
  BY <1>1 DEF OwnerAt, Special
<1>3. Harmless("owner")
  BY <1>1, <1>2 DEF Harmless
<1>4. QED
  BY <1>1, <1>3, HarmlessStep

LEMMA OwnerDone ==
    ASSUME TInv, EndsInv, Announced, Goto("owner", "done"), Cause,
           ~ Ending("owner"), task["owner"].pc \notin {"report", "release", "claim"},
           Shrinks, claimed' = claimed
    PROVE  EndsInv'
<1>1. "owner" \in Procs /\ Others("owner") /\ task'["owner"].pc = "done"
  BY TFacts, ProcsFact, GotoFacts, MovedOthers DEF PCs
<1>2. OwnerAt'
  BY <1>1 DEF OwnerAt
<1>3. Harmless("owner")
  BY <1>1, <1>2 DEF Harmless, Special
<1>4. QED
  BY <1>1, <1>3, HarmlessStep

LEMMA CleanUpEnds ==
    ASSUME TInv, EndsInv, Announced, NEW p \in Procs, NEW then \in Thens, CleanUp(p, then),
           task[p].pc \notin {"report", "release", "claim"},
           Shrinks, claimed' = claimed
    PROVE  EndsInv'
<1>1. Others(p) /\ task'[p].pc = "cleanup"
  BY TFacts, CleanUpFacts, MovedOthers
<1>2. Ending(p)' /\ EndsAt(p)'
  BY <1>1 DEF Ending, EndsAt
<1>3. QED
  BY <1>1, <1>2, EndingStep

LEMMA EndsOwner ==
    ASSUME TInv, EndsInv, OwnerStep \/ OwnerWaits
    PROVE  EndsInv'
<1> DEFINE o == "owner"
<1>0. o \in Procs /\ OwnerAt /\ task[o].then \in Thens
  BY TFacts, ProcsFact DEF EndsInv
<1>a. ASSUME task[o].pc \in {"invite", "early", "connect", "setup", "connectFailed",
                  "connected", "joinRoom", "join", "joined", "notJoined", "roomGone",
                  "await", "dropped", "answer", "answered", "answerFailed", "unroute", "watch"}
      PROVE  /\ Announced /\ ~ Ending(o)
             /\ task[o].pc \notin {"report", "release", "claim"}
  BY <1>a DEF Announced, Ending
<1>1. CASE EarlyMedia
  <2>1. /\ Announced /\ ~ Ending(o)
        /\ task[o].pc \notin {"report", "release", "claim"}
    BY <1>1, <1>a DEF EarlyMedia, At
  <2>2. Shrinks /\ claimed' = claimed /\ state' = state /\ joinOnce' = joinOnce
    BY <1>1 DEF EarlyMedia, Shrinks, legVars, mgrVars, eventVars
  <2>3. QED
    BY <1>1, <2>1, <2>2, OwnerHarmless DEF EarlyMedia, PCs, Special, Cause
<1>2. CASE SetEarlyMedia
  <2>1. /\ Announced /\ ~ Ending(o)
        /\ task[o].pc \notin {"report", "release", "claim"}
    BY <1>2, <1>a DEF SetEarlyMedia, At
  <2>2. /\ Others(o) /\ task'[o].pc = "joinRoom" /\ task'[o].then = "invite"
    BY <1>0, <1>2, TFacts, ThenFacts, MovedOthers DEF SetEarlyMedia, PCs, Thens
  <2>3. /\ Shrinks /\ claimed' = claimed /\ state' = "early_media" /\ joinOnce' = joinOnce
    BY <1>2 DEF SetEarlyMedia, SetState, Shrinks, mgrVars, eventVars
  <2>4. Harmless(o)
    BY <2>1, <2>2, <2>3 DEF Harmless, Special, OwnerAt
  <2>5. QED
    BY <1>0, <2>1, <2>2, <2>3, <2>4, HarmlessStep DEF Cause
<1>3. CASE InviteFails \/ Dropped \/ WatchDialogEnd
  <2>1. /\ Announced /\ ~ Ending(o)
        /\ task[o].pc \notin {"report", "release", "claim"}
    BY <1>3, <1>a DEF InviteFails, Dropped, WatchDialogEnd, At
  <2>2. Shrinks /\ claimed' = claimed
    BY <1>3 DEF InviteFails, Dropped, WatchDialogEnd, Shrinks, legVars, mgrVars, eventVars
  <2>3. CASE state = "hung_up"
    <3>1. Goto(o, "done") /\ Cause
      BY <1>3, <2>3 DEF InviteFails, Dropped, WatchDialogEnd, Cause
    <3>2. QED
      BY <2>1, <2>2, <3>1, OwnerDone
  <2>4. CASE state # "hung_up"
    <3>1. CleanUp(o, "done") /\ "done" \in Thens
      BY <1>3, <2>4 DEF InviteFails, Dropped, WatchDialogEnd, Thens
    <3>2. QED
      BY <1>0, <2>1, <2>2, <3>1, CleanUpEnds
  <2>5. QED
    BY <2>3, <2>4
<1>4. CASE InviteAnswered \/ ConnectOutbound \/ ConnectSetup
  <2>1. /\ Announced /\ ~ Ending(o)
        /\ task[o].pc \notin {"report", "release", "claim"}
    BY <1>4, <1>a DEF InviteAnswered, ConnectOutbound, ConnectSetup, At
  <2>2. /\ Shrinks /\ claimed' = claimed /\ state' \in {state, "connected"}
        /\ joinOnce' = joinOnce
    BY <1>4 DEF InviteAnswered, ConnectOutbound, ConnectSetup, SetState, Shrinks, legVars,
                mgrVars, eventVars
  <2>3. PICK pc \in {"connect", "setup", "connected", "connectFailed"} : Goto(o, pc)
    BY <1>4 DEF InviteAnswered, ConnectOutbound, ConnectSetup
  <2>4. QED
    BY <2>1, <2>2, <2>3, OwnerHarmless DEF PCs, Special, Cause
<1>5. CASE ConnectFailed
  <2>1. /\ Announced /\ task[o].pc \notin {"report", "release", "claim"}
    BY <1>5, <1>a DEF ConnectFailed, At
  <2>2. Shrinks /\ claimed' = claimed
    BY <1>5 DEF ConnectFailed, Shrinks, legVars, mgrVars, eventVars
  <2>3. QED
    BY <1>0, <1>5, <2>1, <2>2, CleanUpEnds DEF ConnectFailed, Thens
<1>6. CASE Connected
  <2>1. /\ Announced /\ ~ Ending(o)
        /\ task[o].pc \notin {"report", "release", "claim"}
    BY <1>6, <1>a DEF Connected, At
  <2>2. /\ Shrinks /\ claimed' = claimed /\ state' = state /\ joinOnce' = joinOnce
    BY <1>6 DEF Connected, Shrinks, legVars, mgrVars, eventVars
  <2>3. PICK pc \in {"watch", "joinRoom"}, then \in {"watch"} :
           task' = [task EXCEPT ![o].pc = pc, ![o].then = then]
    BY <1>6 DEF Connected
  <2>4. Others(o) /\ task'[o].pc = pc /\ task'[o].then = "watch"
    <3>1. pc \in PCs /\ then \in Thens /\ task \in Tasks
      BY TFacts DEF PCs, Thens
    <3>2. Moved(o) /\ task'[o].pc = pc /\ task'[o].then = then
      BY <1>0, <2>3, <3>1, ThenFacts
    <3>3. QED
      BY <3>2, MovedOthers
  <2>5. Harmless(o)
    BY <2>1, <2>2, <2>4 DEF Harmless, Special, OwnerAt
  <2>6. QED
    BY <1>0, <2>1, <2>2, <2>4, <2>5, HarmlessStep DEF Cause
<1>7. CASE JoinPendingRoom
  <2>1. /\ Announced /\ ~ Ending(o) /\ task[o].then \in {"invite", "watch"}
        /\ task[o].pc \notin {"report", "release", "claim"}
    BY <1>0, <1>7, <1>a DEF JoinPendingRoom, At, OwnerAt
  <2>2. /\ Shrinks /\ claimed' = claimed /\ state' = state /\ joinOnce' = joinOnce
    BY <1>7 DEF JoinPendingRoom, Shrinks, legVars, mgrVars, eventVars
  <2>3. CASE joinOnce = "no"
    <3>1. JoinLookup(o, "notJoined") /\ "notJoined" \in PCs
      BY <1>7, <2>3 DEF JoinPendingRoom, PCs
    <3>2. /\ Others(o)
          /\ \/ task'[o].pc = "join" /\ task'[o].then = task[o].then
             \/ Goto(o, "notJoined")
      BY <1>0, <3>1, TFacts, LookupFacts, MovedOthers
    <3>3. CASE Goto(o, "notJoined")
      BY <2>1, <2>2, <3>1, <3>3, OwnerHarmless DEF Special, Cause
    <3>4. CASE task'[o].pc = "join" /\ task'[o].then = task[o].then
      <4>1. Harmless(o)
        BY <2>1, <2>2, <3>2, <3>4 DEF Harmless, Special, OwnerAt
      <4>2. QED
        BY <1>0, <2>1, <2>2, <3>4, <4>1, HarmlessStep DEF Cause
    <3>5. QED
      BY <3>2, <3>3, <3>4
  <2>4. CASE joinOnce = "yes"
    <3>1. Goto(o, task[o].then)
      BY <1>7, <2>4 DEF JoinPendingRoom
    <3>2. PICK pc \in {"invite", "watch"} : Goto(o, pc)
      BY <2>1, <3>1
    <3>3. QED
      BY <2>1, <2>2, <3>2, OwnerHarmless DEF PCs, Special, Cause
  <2>5. CASE joinOnce \notin {"no", "yes"}
    <3>1. Goto(o, "done") /\ Cause
      BY <1>7, <2>5 DEF JoinPendingRoom, Cause, TInv, Flags, MgrFlags
    <3>2. QED
      BY <2>1, <2>2, <3>1, OwnerDone
  <2>6. QED
    BY <2>3, <2>4, <2>5
<1>8. CASE Joined \/ NotJoined \/ Join(o)
  <2>1. /\ Announced /\ ~ Ending(o) /\ task[o].then \in {"invite", "watch"}
        /\ task[o].pc \notin {"report", "release", "claim"}
    BY <1>0, <1>8, <1>a DEF Joined, NotJoined, Join, At, OwnerAt
  <2>2. /\ Shrinks /\ claimed' = claimed /\ state' = state /\ joinOnce' \in {joinOnce, "yes"}
    BY <1>8 DEF Joined, NotJoined, Join, Shrinks, legVars, mgrVars, eventVars
  <2>3. PICK pc \in {"invite", "watch", "roomGone", "joined"} : Goto(o, pc)
    BY <1>8, <2>1 DEF Joined, NotJoined, Join
  <2>4. QED
    BY <2>1, <2>2, <2>3, OwnerHarmless DEF PCs, Special, Cause
<1>9. CASE RoomGone
  <2>1. /\ Announced /\ ~ Ending(o) /\ task[o].then \in {"invite", "watch"}
        /\ task[o].pc \notin {"report", "release", "claim"}
    BY <1>0, <1>9, <1>a DEF RoomGone, At, OwnerAt
  <2>2. Shrinks /\ claimed' = claimed /\ state' = state
    BY <1>9 DEF RoomGone, Shrinks, legVars, eventVars
  <2>3. CASE joinOnce' = "yes" /\ Goto(o, task[o].then)
    <3>1. PICK pc \in {"invite", "watch"} : Goto(o, pc)
      BY <2>1, <2>3
    <3>2. QED
      BY <2>1, <2>2, <2>3, <3>1, OwnerHarmless DEF PCs, Special, Cause
  <2>4. CASE \E then \in {"invite", "done"} : CleanUp(o, then)
    BY <1>0, <2>1, <2>2, <2>4, CleanUpEnds DEF Thens
  <2>5. QED
    BY <1>9, <2>3, <2>4 DEF RoomGone
<1>10. CASE AwaitEnds
  <2>1. /\ Announced /\ ~ Ending(o)
        /\ task[o].pc \notin {"report", "release", "claim"}
    BY <1>10, <1>a DEF AwaitEnds, At
  <2>2. /\ Shrinks /\ claimed' = claimed /\ state' = state /\ joinOnce' = joinOnce
    BY <1>10 DEF AwaitEnds, Shrinks, legVars, mgrVars, eventVars
  <2>3. CASE Goto(o, "dropped")
    BY <2>1, <2>2, <2>3, OwnerHarmless DEF PCs, Special, Cause
  <2>4. CASE state = "hung_up" /\ Goto(o, "done")
    BY <2>1, <2>2, <2>4, OwnerDone DEF Cause
  <2>5. QED
    BY <1>10, <2>3, <2>4 DEF AwaitEnds
<1>11. CASE Answer
  <2>1. /\ Announced /\ ~ Ending(o) /\ inbound
        /\ task[o].pc \notin {"report", "release", "claim"}
    BY <1>0, <1>11, <1>a DEF Answer, At, OwnerAt
  <2>2. /\ Shrinks /\ claimed' = claimed /\ state' = state /\ joinOnce' = joinOnce
    BY <1>11 DEF Answer, Shrinks, legVars, mgrVars, eventVars
  <2>3. PICK pc \in {"answered", "answerFailed"} : Goto(o, pc)
    BY <1>11 DEF Answer
  <2>4. Others(o) /\ task'[o].pc = pc
    BY <1>0, <2>3, TFacts, GotoFacts, MovedOthers DEF PCs
  <2>5. Harmless(o)
    BY <2>1, <2>2, <2>4 DEF Harmless, Special, OwnerAt, Shrinks
  <2>6. QED
    BY <1>0, <2>1, <2>2, <2>4, <2>5, HarmlessStep DEF Cause
<1>12. CASE Answered
  <2>1. /\ Announced /\ ~ Ending(o)
        /\ task[o].pc \notin {"report", "release", "claim"}
    BY <1>12, <1>a DEF Answered, At
  <2>2. /\ Shrinks /\ claimed' = claimed /\ state' = "connected" /\ joinOnce' = joinOnce
    BY <1>12 DEF Answered, SetState, Shrinks, mgrVars, eventVars
  <2>3. QED
    BY <1>12, <2>1, <2>2, OwnerHarmless DEF Answered, PCs, Special, Cause
<1>13. CASE AnswerFailed
  <2>1. /\ Announced /\ ~ Ending(o) /\ inbound
        /\ task[o].pc \notin {"report", "release", "claim"}
    BY <1>0, <1>13, <1>a DEF AnswerFailed, At, OwnerAt
  <2>2. /\ Shrinks /\ claimed' = claimed /\ state' = state /\ joinOnce' = joinOnce
        /\ ~ registered'
    BY <1>13 DEF AnswerFailed, Shrinks, legVars, eventVars
  <2>3. Others(o) /\ task'[o].pc = "unroute"
    BY <1>0, <1>13, TFacts, GotoFacts, MovedOthers DEF AnswerFailed, PCs
  <2>4. Held'
    BY <1>0, <2>1, <2>2, <2>3, HeldStays DEF Shrinks
  <2>5. Announced' /\ OwnerAt' /\ EndsAt(o)'
    BY <2>1, <2>2, <2>3 DEF Announced, OwnerAt, EndsAt, Shrinks
  <2>6. Cause' => Cause
    BY <2>2, <2>3 DEF Cause
  <2>7. QED
    BY <1>0, <2>1, <2>2, <2>3, <2>4, <2>5, <2>6, EndsStep
<1>14. CASE Unroute
  <2>1. /\ Announced /\ ~ Ending(o) /\ inbound
        /\ task[o].pc \notin {"report", "release", "claim"}
    BY <1>0, <1>14, <1>a DEF Unroute, At, OwnerAt
  <2>2. EndsAt(o) /\ ~ registered /\ ~ pending
    BY <1>0, <1>14, <2>1 DEF Unroute, At, EndsInv, EndsAt
  <2>3. Shrinks /\ claimed' = claimed /\ Finished'
    BY <1>14, <2>2 DEF Unroute, Shrinks, Finished, legVars, mgrVars
  <2>4. Others(o) /\ task'[o].pc = "done"
    BY <1>0, <1>14, TFacts, GotoFacts, MovedOthers DEF Unroute, PCs
  <2>5. Announced' /\ OwnerAt' /\ EndsAt(o)' /\ Held' /\ EndAssured'
    BY <2>3, <2>4 DEF Announced, OwnerAt, EndsAt, Held, EndAssured, Finished
  <2>6. QED
    BY <1>0, <2>1, <2>3, <2>4, <2>5, EndsStep
<1>15. QED
  BY <1>0, <1>1, <1>2, <1>3, <1>4, <1>5, <1>6, <1>7, <1>8, <1>9, <1>10, <1>11, <1>12,
     <1>13, <1>14, EndsTearDown, EndsBefore DEF OwnerStep, OwnerWaits


(* A caller's move that is harmless, or leads into the cleanup.            *)
LEMMA CallerAwake ==
    ASSUME Orderly, EndsInv, NEW p \in Callers, NEW op, Start(p, op)
    PROVE  /\ Announced /\ ~ Ending(p) /\ op \in Ops
           /\ task[p].pc \notin {"report", "release", "claim"}
  BY DEF Orderly, Start, At, Ending

LEMMA CallerHarmless ==
    ASSUME TInv, EndsInv, Announced, NEW p \in Callers, Others(p), Shrinks,
           claimed' = claimed, joinOnce' = joinOnce,
           task[p].pc \notin {"report", "release", "claim"}, ~ Ending(p),
           task'[p].pc \notin Special, state' = "hung_up" => Cause
    PROVE  EndsInv'
<1>1. p \in Procs /\ p # "owner"
  BY ProcsFact
<1>2. Harmless(p)
  BY <1>1 DEF Harmless
<1>3. QED
  BY <1>1, <1>2, HarmlessStep DEF Cause

LEMMA CallerGoto ==
    ASSUME TInv, EndsInv, Announced, NEW p \in Callers, NEW pc \in PCs \ Special, Goto(p, pc),
           Shrinks, claimed' = claimed, joinOnce' = joinOnce,
           task[p].pc \notin {"report", "release", "claim"}, ~ Ending(p),
           state' = "hung_up" => Cause
    PROVE  EndsInv'
<1>1. Others(p) /\ task'[p].pc = pc
  BY ProcsFact, TFacts, GotoFacts, MovedOthers
<1>2. QED
  BY <1>1, CallerHarmless

LEMMA HangEnds ==
    ASSUME TInv, EndsInv, Announced, NEW p \in Procs, Hang(p, "cleanup"),
           task[p].pc \notin {"report", "release", "claim"},
           Shrinks, claimed' = claimed
    PROVE  EndsInv'
<1>1. Others(p) /\ task'[p].pc = "hangup" /\ task'[p].ret = "cleanup"
  BY TFacts, HangFacts, MovedOthers DEF Rets
<1>2. Ending(p)' /\ EndsAt(p)'
  BY <1>1 DEF Ending, EndsAt
<1>3. QED
  BY <1>1, <1>2, EndingStep

LEMMA CallerLookup ==
    ASSUME TInv, EndsInv, Announced, NEW p \in Callers, JoinLookup(p, "idle"),
           Shrinks, claimed' = claimed, joinOnce' = joinOnce, state' = state,
           task[p].pc \notin {"report", "release", "claim"}, ~ Ending(p)
    PROVE  EndsInv'
<1>1. "idle" \in PCs \ Special
  BY DEF PCs, Special
<1>2. Others(p) /\ task'[p].pc \in {"join", "idle"}
  <2>1. Moved(p) /\ task'[p].pc \in {"join", "idle"}
    BY <1>1, ProcsFact, TFacts, LookupFacts
  <2>2. QED
    BY <2>1, MovedOthers
<1>3. QED
  BY <1>2, CallerHarmless DEF Special, Cause

LEMMA EndsCaller ==
    ASSUME Orderly, TInv, EndsInv, NEW p \in Callers, CallerStart(p) \/ CallerStep(p)
    PROVE  EndsInv'
<1>0. p \in Procs /\ p # "owner" /\ EndsAt(p)
  BY ProcsFact DEF EndsInv
<1>1. CASE Delete(p)
  <2>1. /\ Announced /\ ~ Ending(p)
        /\ task[p].pc \notin {"report", "release", "claim"}
    BY <1>1, CallerAwake DEF Delete
  <2>2. /\ Shrinks /\ claimed' = claimed /\ joinOnce' = joinOnce /\ state' = state
    BY <1>1 DEF Delete, Shrinks, legVars, eventVars
  <2>3. CASE Hang(p, "cleanup")
    BY <1>0, <2>1, <2>2, <2>3, HangEnds
  <2>4. CASE Goto(p, "reject")
    BY <2>1, <2>2, <2>4, CallerGoto DEF PCs, Special, Cause
  <2>5. QED
    BY <1>1, <2>3, <2>4 DEF Delete
<1>2. ~ DeleteRoom(p) /\ ~ MediaPanic(p)
  BY CallerAwake DEF DeleteRoom, MediaPanic, Orderly
<1>3. CASE AddToRoom(p) \/ AnswerLeg(p) \/ Expire(p) \/ Hold(p)
  <2>1. /\ Announced /\ ~ Ending(p)
        /\ task[p].pc \notin {"report", "release", "claim"}
    BY <1>3, CallerAwake DEF AddToRoom, AnswerLeg, Expire, Hold
  <2>2. /\ Shrinks /\ claimed' = claimed /\ joinOnce' = joinOnce /\ state' = state
    BY <1>3 DEF AddToRoom, AnswerLeg, Expire, Hold, Shrinks, legVars, mgrVars, eventVars
  <2>3. PICK pc \in {"findRoom", "signal", "expired", "setHeld"} : Goto(p, pc)
    BY <1>3 DEF AddToRoom, AnswerLeg, Expire, Hold
  <2>4. QED
    BY <2>1, <2>2, <2>3, CallerGoto DEF PCs, Special, Cause
<1>4. CASE Reject(p)
  <2>1. /\ Announced /\ ~ Ending(p)
        /\ task[p].pc \notin {"report", "release", "claim"}
    BY <1>0, <1>4, RungFact DEF Reject, At, Ending
  <2>2. /\ Shrinks /\ claimed' = claimed /\ joinOnce' = joinOnce /\ state' = state
    BY <1>4 DEF Reject, Shrinks, legVars, mgrVars, eventVars
  <2>3. CASE Hang(p, "cleanup")
    BY <1>0, <2>1, <2>2, <2>3, HangEnds
  <2>4. CASE Goto(p, "rejecting") \/ Goto(p, "cleanup")
    <3>1. PICK pc \in {"rejecting", "cleanup"} : Goto(p, pc)
      BY <2>4
    <3>2. QED
      BY <2>1, <2>2, <3>1, CallerGoto DEF PCs, Special, Cause
  <2>5. QED
    BY <1>4, <2>3, <2>4 DEF Reject
<1>5. CASE Rejecting(p)
  <2>1. Announced /\ task[p].pc = "rejecting"
    BY <1>0, <1>5, RungFact DEF Rejecting, At
  <2>2. Shrinks /\ claimed' = claimed
    BY <1>5 DEF Rejecting, Shrinks, mgrVars, eventVars
  <2>3. Others(p) /\ task'[p].pc = "rejected"
    BY <1>0, <1>5, TFacts, GotoFacts, MovedOthers DEF Rejecting, PCs
  <2>4. Ending(p)' /\ EndsAt(p)'
    BY <2>3 DEF Ending, EndsAt
  <2>5. QED
    BY <1>0, <2>1, <2>2, <2>3, <2>4, EndingStep
<1>6. CASE Rejected(p)
  <2>1. Announced /\ task[p].pc = "rejected"
    BY <1>0, <1>6, RungFact DEF Rejected, At
  <2>2. Shrinks /\ claimed' = claimed
    BY <1>6 DEF Rejected, Shrinks, mgrVars, eventVars
  <2>3. Others(p) /\ task'[p].pc = "cleanup"
    BY <1>0, <1>6, TFacts, GotoFacts, MovedOthers DEF Rejected, PCs
  <2>4. Ending(p)' /\ EndsAt(p)'
    BY <2>3 DEF Ending, EndsAt
  <2>5. QED
    BY <1>0, <2>1, <2>2, <2>3, <2>4, EndingStep
<1>7. ~ SnapPending(p) /\ ~ Unroom(p) /\ ~ HangRoom(p) /\ ~ CloseRoom(p)
  BY <1>0 DEF SnapPending, Unroom, HangRoom, CloseRoom, At, EndsAt
<1>8. CASE FindLegRoom(p) \/ WaitConnected(p)
  <2>1. /\ Announced /\ ~ Ending(p)
        /\ task[p].pc \notin {"report", "release", "claim"}
    BY <1>0, <1>8, RungFact DEF FindLegRoom, WaitConnected, At, Ending
  <2>2. /\ Shrinks /\ claimed' = claimed /\ joinOnce' = joinOnce /\ state' = state
    BY <1>8 DEF FindLegRoom, WaitConnected, Shrinks, legVars, mgrVars, eventVars
  <2>3. CASE JoinLookup(p, "idle")
    BY <2>1, <2>2, <2>3, CallerLookup
  <2>4. CASE Goto(p, "idle") \/ Goto(p, "signalJoin")
    <3>1. PICK pc \in {"idle", "signalJoin"} : Goto(p, pc)
      BY <2>4
    <3>2. QED
      BY <2>1, <2>2, <3>1, CallerGoto DEF PCs, Special, Cause
  <2>5. QED
    BY <1>8, <2>3, <2>4 DEF FindLegRoom, WaitConnected
<1>9. CASE SignalAnswer(p)
  <2>1. /\ Announced /\ ~ Ending(p)
        /\ task[p].pc \notin {"report", "release", "claim"}
    BY <1>0, <1>9, RungFact DEF SignalAnswer, Ending
  <2>2. /\ Shrinks /\ claimed' = claimed /\ joinOnce' = joinOnce /\ state' = state
    BY <1>9 DEF SignalAnswer, Shrinks, legVars, mgrVars, eventVars
  <2>3. Others(p) /\ task'[p].pc \notin Special
    BY <1>9, TFacts, SignalFacts DEF Others, Special
  <2>4. QED
    BY <2>1, <2>2, <2>3, CallerHarmless DEF Cause
<1>10. CASE EnableEarlyMedia(p)
  <2>1. /\ Announced /\ ~ Ending(p)
        /\ task[p].pc \notin {"report", "release", "claim"}
    BY <1>0, <1>10, RungFact, CallerAwake DEF EnableEarlyMedia, At, Ending
  <2>2. /\ Shrinks /\ claimed' = claimed /\ joinOnce' = joinOnce
        /\ state' \in {state, "early_media"}
    BY <1>10 DEF EnableEarlyMedia, SetState, Shrinks, mgrVars, eventVars
  <2>3. PICK pc \in {"early", "idle"} : Goto(p, pc)
    BY <1>10 DEF EnableEarlyMedia
  <2>4. QED
    BY <2>1, <2>2, <2>3, CallerGoto DEF PCs, Special, Cause
<1>11. CASE Expired(p)
  <2>1. /\ Announced /\ ~ Ending(p)
        /\ task[p].pc \notin {"report", "release", "claim"}
    BY <1>0, <1>11, RungFact DEF Expired, At, Ending
  <2>2. /\ Shrinks /\ claimed' = claimed /\ joinOnce' = joinOnce /\ state' = state
    BY <1>11 DEF Expired, Shrinks, legVars, mgrVars, eventVars
  <2>3. CASE Goto(p, "idle")
    BY <2>1, <2>2, <2>3, CallerGoto DEF PCs, Special, Cause
  <2>4. CASE CleanUp(p, "idle")
    BY <1>0, <2>1, <2>2, <2>4, CleanUpEnds DEF Thens
  <2>5. QED
    BY <1>11, <2>3, <2>4 DEF Expired
<1>12. CASE SetHeld(p)
  <2>1. /\ Announced /\ ~ Ending(p)
        /\ task[p].pc \notin {"report", "release", "claim"}
    BY <1>0, <1>12, RungFact DEF SetHeld, At, Ending
  <2>2. /\ Shrinks /\ claimed' = claimed /\ joinOnce' = joinOnce
        /\ state' \in {state, "held", "connected"}
    BY <1>12 DEF SetHeld, SetState, Shrinks, mgrVars, eventVars
  <2>3. Goto(p, "idle")
    BY <1>12 DEF SetHeld
  <2>4. QED
    BY <2>1, <2>2, <2>3, CallerGoto DEF PCs, Special, Cause
<1>13. CASE Join(p)
  <2>1. /\ Announced /\ ~ Ending(p)
        /\ task[p].pc \notin {"report", "release", "claim"}
    BY <1>0, <1>13, RungFact DEF Join, At, Ending
  <2>2. /\ Shrinks /\ claimed' = claimed /\ joinOnce' = joinOnce /\ state' = state
    BY <1>13 DEF Join, Shrinks, legVars, mgrVars, eventVars
  <2>3. Goto(p, "idle")
    BY <1>0, <1>13 DEF Join
  <2>4. QED
    BY <2>1, <2>2, <2>3, CallerGoto DEF PCs, Special, Cause
<1>14. QED
  BY <1>0, <1>1, <1>2, <1>3, <1>4, <1>5, <1>6, <1>7, <1>8, <1>9, <1>10, <1>11, <1>12, <1>13,
     EndsTearDown DEF CallerStart, CallerStep

LEMMA InitEnds ==
    ASSUME Init
    PROVE  EndsInv
<1>1. /\ Task("new").pc = "new" /\ Task("idle").pc = "idle"
  BY TaskFacts DEF PCs
<1>2. task = [p \in Procs |-> IF p = "owner" THEN Task("new") ELSE Task("idle")]
  BY DEF Init
<1>3. /\ task["owner"].pc = "new"
      /\ \A p \in Callers : task[p].pc = "idle"
      /\ \A p \in Procs : task[p].pc \in {"new", "idle"}
  BY <1>1, <1>2, ProcsFact
<1>4. state = "ringing" /\ joinOnce = "no" /\ ~ claimed /\ ~ pending
  BY DEF Init
<1>5. BeforeRing /\ OwnerAt /\ Held /\ ~ Cause
  BY <1>3, <1>4 DEF BeforeRing, OwnerAt, Held, Cause
<1>6. \A p \in Procs : EndsAt(p)
  BY <1>3 DEF EndsAt
<1>7. QED
  BY <1>4, <1>5, <1>6 DEF EndsInv

LEMMA NextEnds ==
    ASSUME Orderly, TInv, EndsInv, [Next]_vars
    PROVE  EndsInv'
<1>1. CASE OwnerStep \/ OwnerWaits
  BY <1>1, EndsOwner
<1>2. ASSUME NEW p \in Callers, CallerStart(p) \/ CallerStep(p)
      PROVE  EndsInv'
  BY <1>2, EndsCaller
<1>3. CASE PeerEnds \/ UNCHANGED vars
  <2>1. UNCHANGED <<inbound, state, joinOnce, claimed, routed, registered, pending, task>>
    BY <1>3 DEF PeerEnds, vars, legVars, mgrVars, roomVars, eventVars
  <2>2. BeforeRing' /\ OwnerAt' /\ Held' /\ (inbound' => ~ pending')
    BY <2>1 DEF EndsInv, BeforeRing, Announced, OwnerAt, Held
  <2>3. \A p \in Procs : EndsAt(p)'
    BY <2>1 DEF EndsInv, EndsAt
  <2>4. Cause' => EndAssured'
    BY <2>1 DEF EndsInv, Cause, EndAssured, Finished, Ending
  <2>5. QED
    BY <2>2, <2>3, <2>4 DEF EndsInv
<1>4. QED
  BY <1>1, <1>2, <1>3 DEF Next

(* Whatever races to end a leg - DELETE, a rejection, a failed answer, the *)
(* dialog's end, a timer, a room that is gone - once its goroutines are    *)
(* through it is out of the leg manager and the pending-room table and its *)
(* route is dropped (cleanupLeg, publishDisconnect), for any number of     *)
(* callers.  The guards that yield to "a teardown under way" rely on it.   *)
THEOREM NothingIsLeft ==
    ASSUME EarlyCallers = FALSE, "panic" \notin Ops, "deleteRoom" \notin Ops
    PROVE  Spec => []NothingLeftBehind
<1>1. Orderly
  BY DEF Orderly
<1>2. Init => TInv /\ EndsInv
  BY InitTyped, InitEnds
<1>3. TInv /\ EndsInv /\ [Next]_vars => (TInv /\ EndsInv)'
  BY <1>1, NextTyped, NextEnds
<1>4. TInv /\ EndsInv => NothingLeftBehind
  <2>1. SUFFICES ASSUME TInv, EndsInv, Quiet
                 PROVE  Finished
    BY DEF NothingLeftBehind, Finished
  <2>2. EndAssured
    BY <2>1 DEF EndsInv, Cause, Quiet, At
  <2>3. \A p \in Procs : task[p].pc \in {"done", "idle"}
    BY <2>1, ProcsFact DEF Quiet, At
  <2>4. QED
    BY <2>2, <2>3 DEF EndAssured, Ending
<1>5. QED
  BY <1>2, <1>3, <1>4, PTL DEF Spec


-----------------------------------------------------------------------------
(* An answered outbound call is ended at the peer.  Early media is left    *)
(* out: with it a hangup between the 183 and the answer goes unnoticed.    *)
Dialling == EarlyCallers = FALSE /\ "earlyMedia" \notin Ops

(* Where the owner is: before it has a dialog, with one, cleaning up before *)
(* the BYE and after it.                                                   *)
BeforeDialog == {"new", "pend", "route", "ring", "invite", "connect"}
Joining == {"joinRoom", "join", "joined", "notJoined", "roomGone"}
WithDialog == {"setup", "connected", "watch"} \cup Joining
BeforeBye == {"cleanup", "leave", "hangup", "cancel"}
AfterBye == {"unpend", "unregister", "claim", "report", "release"}

OwnerPC == task["owner"].pc
Cancelling == \E p \in Procs : task[p].pc = "cancel"

OwnerPoint ==
    /\ OwnerPC \in BeforeDialog \cup WithDialog \cup BeforeBye \cup AfterBye
                   \cup {"connectFailed", "done"}
    /\ OwnerPC \in BeforeDialog \cup {"setup", "connected"} \cup Joining => joinOnce = "no"
    /\ OwnerPC \in Joining => task["owner"].then = "watch"
    /\ OwnerPC \in BeforeBye \cup AfterBye => task["owner"].then = "done"
    /\ OwnerPC \in {"hangup", "cancel"} => task["owner"].ret = "unpend"

NotYetUp ==
    OwnerPC \in BeforeDialog =>
        /\ ~ hasDialog /\ ~ connected
        /\ state \in {"ringing", "hung_up"}
        /\ byeOnce \/ Cancelling => state = "hung_up"
        /\ answered => OwnerPC = "connect"

CallersAt ==
    \A p \in Callers :
        /\ task[p].pc = "setHeld" => connected
        /\ task[p].pc \notin {"early", "reject", "rejecting", "rejected",
                              "signal", "signalJoin", "waitConnected"}

ByeFollows ==
    /\ hasDialog /\ byeOnce => byeSent
    /\ state = "hung_up" => byeOnce \/ Cancelling

UpOrEnded ==
    /\ OwnerPC \in WithDialog => hasDialog
    /\ OwnerPC \in BeforeBye /\ answered => hasDialog \/ byeSent
    /\ OwnerPC \in AfterBye /\ answered => byeSent
    /\ OwnerPC = "done" /\ answered => byeSent \/ (hasDialog /\ Cancelling)

CallInv ==
    /\ inbound = FALSE
    /\ OwnerPoint /\ NotYetUp /\ CallersAt /\ ByeFollows /\ UpOrEnded

(* A caller moves that neither hangs up nor holds the call.                *)
LEMMA CallerAside ==
    ASSUME CallInv, NEW p \in Callers, Moved(p),
           UNCHANGED <<inbound, state, connected, hasDialog, byeOnce, byeSent, answered,
                       joinOnce>>,
           task[p].pc # "cancel",
           task'[p].pc \notin {"cancel", "early", "reject", "rejecting", "rejected",
                               "signal", "signalJoin", "waitConnected"},
           task'[p].pc = "setHeld" => connected
    PROVE  CallInv'
<1>1. /\ p \in Procs /\ p # "owner" /\ \A q \in Procs : q # p => task'[q] = task[q]
      /\ task'["owner"] = task["owner"]
  BY ProcsFact DEF Moved
<1>2. Cancelling' <=> Cancelling
  BY <1>1 DEF Cancelling
<1>3. CallersAt'
  <2>1. ASSUME NEW q \in Callers
        PROVE  /\ task'[q].pc = "setHeld" => connected
               /\ task'[q].pc \notin {"early", "reject", "rejecting", "rejected",
                                      "signal", "signalJoin", "waitConnected"}
    <3>1. CASE q = p
      BY <3>1
    <3>2. CASE q # p
      <4>1. task'[q] = task[q]
        BY <1>1, <3>2, ProcsFact
      <4>2. QED
        BY <4>1 DEF CallInv, CallersAt
    <3>3. QED
      BY <3>1, <3>2
  <2>2. QED
    BY <2>1 DEF CallersAt
<1>4. OwnerPoint'
  BY <1>1 DEF CallInv, OwnerPoint, OwnerPC
<1>5. NotYetUp'
  BY <1>1, <1>2 DEF CallInv, NotYetUp, OwnerPC
<1>6. ByeFollows' /\ UpOrEnded'
  BY <1>1, <1>2 DEF CallInv, ByeFollows, UpOrEnded, OwnerPC
<1>7. QED
  BY <1>3, <1>4, <1>5, <1>6 DEF CallInv

(* The owner moves; nobody begins or ends a hangup.                        *)
LEMMA OwnerAside ==
    ASSUME CallInv, Moved("owner"), inbound' = inbound, connected => connected',
           OwnerPC # "cancel", OwnerPC' # "cancel"
    PROVE  /\ Cancelling' <=> Cancelling
           /\ CallersAt'
<1>1. \A q \in Procs : q # "owner" => task'[q] = task[q]
  BY DEF Moved
<1>2. Cancelling' <=> Cancelling
  BY <1>1, ProcsFact DEF Cancelling, OwnerPC
<1>3. CallersAt'
  BY <1>1, ProcsFact DEF CallInv, CallersAt
<1>4. QED
  BY <1>2, <1>3

(* Nothing but the owner's place changes, and it knows as much there.      *)
LEMMA OwnerOnward ==
    ASSUME CallInv, Moved("owner"),
           UNCHANGED <<inbound, state, connected, hasDialog, byeOnce, byeSent, answered,
                       joinOnce>>,
           OwnerPC # "cancel", OwnerPC' # "cancel", OwnerPoint',
           OwnerPC' \in BeforeDialog => /\ OwnerPC \in BeforeDialog
                                        /\ answered => OwnerPC' = "connect",
           OwnerPC' \in WithDialog => hasDialog,
           OwnerPC' \in BeforeBye /\ answered => hasDialog \/ byeSent,
           OwnerPC' \in AfterBye /\ answered => byeSent,
           OwnerPC' = "done" /\ answered => byeSent \/ (hasDialog /\ Cancelling)
    PROVE  CallInv'
<1>1. (Cancelling' <=> Cancelling) /\ CallersAt'
  BY OwnerAside
<1>2. NotYetUp'
  <2>1. SUFFICES ASSUME OwnerPC' \in BeforeDialog
                 PROVE  /\ ~ hasDialog /\ ~ connected
                        /\ state \in {"ringing", "hung_up"}
                        /\ byeOnce \/ Cancelling => state = "hung_up"
                        /\ answered => OwnerPC' = "connect"
    BY <1>1 DEF NotYetUp
  <2>2. OwnerPC \in BeforeDialog /\ (answered => OwnerPC' = "connect")
    BY <2>1
  <2>3. QED
    BY <2>2 DEF CallInv, NotYetUp
<1>3. ByeFollows'
  BY <1>1 DEF CallInv, ByeFollows
<1>4. UpOrEnded'
  BY <1>1 DEF CallInv, UpOrEnded
<1>5. QED
  BY <1>1, <1>2, <1>3, <1>4 DEF CallInv


LEMMA CallHangup ==
    ASSUME TInv, CallInv, NEW p \in Procs, Hangup(p)
    PROVE  CallInv'
<1>1. /\ Moved(p) /\ task[p].pc = "hangup" /\ task'[p].pc = "cancel"
      /\ task'[p].ret = task[p].ret /\ task'[p].then = task[p].then
  BY TFacts, GotoFacts DEF Hangup, At, PCs
<1>2. /\ state' = "hung_up" /\ connected' = connected
      /\ UNCHANGED <<inbound, hasDialog, byeOnce, byeSent, answered, joinOnce>>
  BY DEF Hangup, SetState, sipVars, mgrVars, TInv, Flags, LegFlags
<1>3. Cancelling' /\ \A q \in Procs : q # p => task'[q] = task[q]
  BY <1>1 DEF Cancelling, Moved
<1>4. CallersAt'
  BY <1>1, <1>2, <1>3, ProcsFact DEF CallInv, CallersAt
<1>5. ByeFollows'
  BY <1>2, <1>3 DEF CallInv, ByeFollows
<1>6. CASE p = "owner"
  <2>1. OwnerPC = "hangup" /\ OwnerPC' = "cancel"
    BY <1>1, <1>6 DEF OwnerPC
  <2>2. OwnerPoint' /\ NotYetUp'
    BY <1>1, <1>6, <2>1 DEF CallInv, OwnerPoint, NotYetUp, BeforeDialog, WithDialog, Joining,
                            BeforeBye, AfterBye
  <2>3. UpOrEnded'
    BY <1>2, <2>1 DEF CallInv, UpOrEnded, WithDialog, Joining, BeforeBye, AfterBye
  <2>4. QED
    BY <1>2, <1>4, <1>5, <2>2, <2>3 DEF CallInv
<1>7. CASE p # "owner"
  <2>1. task'["owner"] = task["owner"] /\ OwnerPC' = OwnerPC
    BY <1>3, <1>7, ProcsFact DEF OwnerPC
  <2>2. OwnerPoint'
    BY <1>2, <2>1 DEF CallInv, OwnerPoint
  <2>3. NotYetUp'
    BY <1>2, <2>1 DEF CallInv, NotYetUp
  <2>4. UpOrEnded'
    BY <1>2, <1>3, <2>1 DEF CallInv, UpOrEnded
  <2>5. QED
    BY <1>2, <1>4, <1>5, <2>2, <2>3, <2>4 DEF CallInv
<1>8. QED
  BY <1>6, <1>7

LEMMA CallCancel ==
    ASSUME TInv, CallInv, NEW p \in Procs, Cancel(p)
    PROVE  CallInv'
<1>1. /\ Moved(p) /\ task[p].pc = "cancel" /\ task'[p].pc = task[p].ret
      /\ task'[p].pc \in Rets
      /\ task[p].ret # "idle" => task'[p].then = task[p].then
  BY TFacts, GotoFacts DEF Cancel, At
<1>2. /\ byeOnce' = TRUE /\ (hasDialog \/ byeSent => byeSent')
      /\ UNCHANGED <<inbound, state, connected, hasDialog, answered, joinOnce>>
  BY DEF Cancel, mgrVars, CallInv, ByeFollows
<1>3. \A q \in Procs : q # p => task'[q] = task[q]
  BY <1>1 DEF Moved
<1>4. Cancelling
  BY <1>1 DEF Cancelling
<1>5. CallersAt'
  BY <1>1, <1>2, <1>3, ProcsFact DEF CallInv, CallersAt, Rets
<1>6. ByeFollows'
  BY <1>2 DEF ByeFollows
<1>7. CASE p = "owner"
  <2>1. OwnerPC = "cancel" /\ OwnerPC' = "unpend" /\ task'["owner"].then = "done"
    BY <1>1, <1>7 DEF OwnerPC, CallInv, OwnerPoint, BeforeBye
  <2>2. OwnerPoint' /\ NotYetUp'
    BY <2>1 DEF OwnerPoint, NotYetUp, BeforeDialog, WithDialog, Joining, BeforeBye, AfterBye
  <2>3. UpOrEnded'
    BY <1>2, <2>1 DEF CallInv, UpOrEnded, WithDialog, Joining, BeforeBye, AfterBye
  <2>4. QED
    BY <1>2, <1>5, <1>6, <2>2, <2>3 DEF CallInv
<1>8. CASE p # "owner"
  <2>1. task'["owner"] = task["owner"] /\ OwnerPC' = OwnerPC
    BY <1>3, <1>8, ProcsFact DEF OwnerPC
  <2>2. OwnerPoint'
    BY <1>2, <2>1 DEF CallInv, OwnerPoint
  <2>3. NotYetUp'
    BY <1>2, <1>4, <2>1 DEF CallInv, NotYetUp
  <2>4. UpOrEnded'
    BY <1>2, <2>1 DEF CallInv, UpOrEnded
  <2>5. QED
    BY <1>2, <1>5, <1>6, <2>2, <2>3, <2>4 DEF CallInv
<1>9. QED
  BY <1>7, <1>8

(* The cleanup but for the hangup, in the owner and in a caller.           *)
Tidying(p) ==
    \/ Cleanup(p) \/ Leave(p) \/ Unpend(p) \/ Unregister(p)
    \/ ClaimDisconnect(p) \/ Report(p) \/ Release(p)

LEMMA TidyingFacts ==
    ASSUME TInv, NEW p \in Procs, Tidying(p)
    PROVE  /\ Moved(p)
           /\ UNCHANGED <<inbound, state, connected, hasDialog, byeOnce, byeSent, answered,
                          joinOnce>>
           /\ task[p].pc \in {"cleanup", "leave"} \cup AfterBye
           /\ task[p].pc \in {"cleanup", "leave"} =>
                 /\ \/ task'[p].pc = "leave"
                    \/ task'[p].pc = "hangup" /\ task'[p].ret = "unpend"
                 /\ task'[p].then = task[p].then
           /\ task[p].pc \in AfterBye =>
                 \/ task'[p].pc \in AfterBye /\ task'[p].then = task[p].then
                 \/ task'[p].pc = task[p].then
<1>0. task \in Tasks /\ task[p].then \in Thens /\ Thens \subseteq PCs /\ room \in 0..MaxRooms
  BY TFacts
<1>a. AfterBye \subseteq PCs /\ "leave" \in PCs /\ "unpend" \in Rets
  BY DEF AfterBye, PCs, Rets
<1>1. CASE Cleanup(p)
  <2>1. Hang(p, "unpend") \/ task' = [task EXCEPT ![p].pc = "leave", ![p].gen = room]
    BY <1>1 DEF Cleanup
  <2>2. /\ Moved(p) /\ task'[p].then = task[p].then
        /\ \/ task'[p].pc = "leave"
           \/ task'[p].pc = "hangup" /\ task'[p].ret = "unpend"
    <3>1. CASE Hang(p, "unpend")
      BY <1>0, <1>a, <3>1, HangFacts
    <3>2. CASE task' = [task EXCEPT ![p].pc = "leave", ![p].gen = room]
      BY <1>0, <1>a, <3>2, GenFacts
    <3>3. QED
      BY <2>1, <3>1, <3>2
  <2>3. task[p].pc = "cleanup"
        /\ UNCHANGED <<inbound, state, connected, hasDialog, byeOnce, byeSent, answered,
                       joinOnce>>
    BY <1>1 DEF Cleanup, At, legVars, sipVars, mgrVars
  <2>4. QED
    BY <2>2, <2>3 DEF AfterBye
<1>2. CASE Leave(p)
  <2>1. Moved(p) /\ task'[p].then = task[p].then /\ task'[p].pc = "hangup"
        /\ task'[p].ret = "unpend"
    BY <1>0, <1>a, <1>2, HangFacts DEF Leave
  <2>2. task[p].pc = "leave"
        /\ UNCHANGED <<inbound, state, connected, hasDialog, byeOnce, byeSent, answered,
                       joinOnce>>
    BY <1>2 DEF Leave, At, legVars, sipVars, mgrVars
  <2>3. QED
    BY <2>1, <2>2 DEF AfterBye
<1>3. CASE Unpend(p) \/ Unregister(p) \/ Report(p)
  <2>1. task[p].pc \in AfterBye /\ \E pc \in AfterBye : Goto(p, pc)
    BY <1>3 DEF Unpend, Unregister, Report, At, AfterBye
  <2>2. UNCHANGED <<inbound, state, connected, hasDialog, byeOnce, byeSent, answered,
                    joinOnce>>
    BY <1>3 DEF Unpend, Unregister, Report, legVars, sipVars, mgrVars
  <2>3. Moved(p) /\ task'[p].pc \in AfterBye /\ task'[p].then = task[p].then
    BY <1>0, <1>a, <2>1, GotoFacts DEF AfterBye
  <2>4. QED
    BY <2>1, <2>2, <2>3 DEF AfterBye
<1>4. CASE ClaimDisconnect(p) \/ Release(p)
  <2>1. task[p].pc \in AfterBye /\ (Goto(p, "report") \/ Goto(p, task[p].then))
    BY <1>4 DEF ClaimDisconnect, Release, At, AfterBye
  <2>2. UNCHANGED <<inbound, state, connected, hasDialog, byeOnce, byeSent, answered,
                    joinOnce>>
    BY <1>4 DEF ClaimDisconnect, Release, legVars, sipVars, mgrVars
  <2>3. Moved(p) /\ ((task'[p].pc \in AfterBye /\ task'[p].then = task[p].then)
                     \/ task'[p].pc = task[p].then)
    <3>1. CASE Goto(p, "report")
      BY <1>0, <1>a, <3>1, GotoFacts DEF AfterBye
    <3>2. CASE Goto(p, task[p].then)
      BY <1>0, <3>2, GotoFacts
    <3>3. QED
      BY <2>1, <3>1, <3>2
  <2>4. QED
    BY <2>1, <2>2, <2>3 DEF AfterBye
<1>5. QED
  BY <1>1, <1>2, <1>3, <1>4 DEF Tidying

LEMMA CallTidying ==
    ASSUME TInv, CallInv, NEW p \in Procs, Tidying(p)
    PROVE  CallInv'
<1>0. /\ Moved(p)
      /\ UNCHANGED <<inbound, state, connected, hasDialog, byeOnce, byeSent, answered,
                     joinOnce>>
      /\ task[p].pc \in {"cleanup", "leave"} \cup AfterBye
  BY TidyingFacts
<1>1. CASE p = "owner"
  <2>1. task["owner"].then = "done"
    BY <1>0, <1>1 DEF CallInv, OwnerPoint, OwnerPC, BeforeBye
  <2>2. CASE OwnerPC \in {"cleanup", "leave"}
    <3>1. /\ \/ OwnerPC' = "leave"
             \/ OwnerPC' = "hangup" /\ task'["owner"].ret = "unpend"
          /\ task'["owner"].then = "done"
      BY <1>1, <2>1, <2>2, TidyingFacts DEF OwnerPC
    <3>2. OwnerPoint'
      BY <3>1 DEF OwnerPoint, BeforeDialog, WithDialog, Joining, BeforeBye, AfterBye
    <3>3. answered => hasDialog \/ byeSent
      BY <2>2 DEF CallInv, UpOrEnded, BeforeBye
    <3>4. QED
      BY <1>0, <1>1, <2>2, <3>1, <3>2, <3>3, OwnerOnward
         DEF BeforeDialog, WithDialog, Joining, BeforeBye, AfterBye
  <2>3. CASE OwnerPC \in AfterBye
    <3>1. \/ OwnerPC' \in AfterBye /\ task'["owner"].then = "done"
          \/ OwnerPC' = "done"
      BY <1>1, <2>1, <2>3, TidyingFacts DEF OwnerPC
    <3>2. OwnerPoint'
      BY <3>1 DEF OwnerPoint, BeforeDialog, WithDialog, Joining, BeforeBye, AfterBye
    <3>3. answered => byeSent
      BY <2>3 DEF CallInv, UpOrEnded
    <3>4. QED
      BY <1>0, <1>1, <2>3, <3>1, <3>2, <3>3, OwnerOnward
         DEF BeforeDialog, WithDialog, Joining, BeforeBye, AfterBye
  <2>4. QED
    BY <1>0, <1>1, <2>2, <2>3 DEF OwnerPC
<1>2. CASE p # "owner"
  <2>1. p \in Callers /\ task[p].then \in Thens
    BY <1>2, ProcsFact, TFacts
  <2>2. task'[p].pc \in {"leave", "hangup"} \cup AfterBye \cup Thens
    BY <1>0, <2>1, TidyingFacts
  <2>3. QED
    BY <1>0, <2>1, <2>2, CallerAside DEF AfterBye, Thens
<1>3. QED
  BY <1>1, <1>2

LEMMA CallTearDown ==
    ASSUME TInv, CallInv, NEW p \in Procs, TearDown(p)
    PROVE  CallInv'
  BY CallHangup, CallCancel, CallTidying DEF TearDown, Tidying


LegFrame == UNCHANGED <<inbound, state, connected, hasDialog, byeOnce, byeSent, answered>>

LEMMA CallOwner ==
    ASSUME Dialling, TInv, CallInv, OwnerStep \/ OwnerWaits
    PROVE  CallInv'
<1> DEFINE o == "owner"
<1> USE DEF BeforeDialog, WithDialog, Joining, BeforeBye, AfterBye
<1>0. /\ o \in Procs /\ task \in Tasks /\ room \in 0..MaxRooms
      /\ inbound = FALSE /\ OwnerPoint /\ UpOrEnded /\ NotYetUp
  BY ProcsFact, TFacts DEF CallInv
<1>1. CASE NewLeg \/ Pend \/ Route \/ Ring
  <2>1. /\ LegFrame /\ joinOnce' = joinOnce
        /\ task[o].pc \in {"new", "pend", "route", "ring"}
        /\ \E pc \in {"pend", "route", "ring", "invite"} : Goto(o, pc)
    BY <1>0, <1>1 DEF NewLeg, Pend, Route, Ring, At, LegFrame, legVars, sipVars, mgrVars
  <2>2. Moved(o) /\ OwnerPC' \in {"pend", "route", "ring", "invite"}
    BY <1>0, <2>1, GotoFacts DEF PCs, OwnerPC
  <2>3. joinOnce = "no" /\ ~ answered
    BY <1>0, <2>1 DEF OwnerPoint, NotYetUp, OwnerPC
  <2>4. OwnerPoint'
    BY <2>1, <2>2, <2>3 DEF OwnerPoint
  <2>5. QED
    BY <2>1, <2>2, <2>3, <2>4, OwnerOnward DEF OwnerPC, LegFrame
<1>2. ~ EarlyMedia /\ ~ SetEarlyMedia
  BY <1>0 DEF EarlyMedia, SetEarlyMedia, Dialling, At, OwnerPoint, OwnerPC
<1>3. ~ AwaitEnds /\ ~ Dropped /\ ~ Answer /\ ~ Answered /\ ~ AnswerFailed /\ ~ Unroute
  BY <1>0 DEF AwaitEnds, Dropped, Answer, Answered, AnswerFailed, Unroute, At, OwnerPoint,
              OwnerPC
<1>4. CASE InviteFails
  <2>1. LegFrame /\ joinOnce' = joinOnce /\ OwnerPC = "invite" /\ ~ answered
    BY <1>0, <1>4 DEF InviteFails, At, OwnerPC, NotYetUp, LegFrame, legVars, sipVars, mgrVars
  <2>2. /\ Moved(o)
        /\ OwnerPC' = "done" \/ (OwnerPC' = "cleanup" /\ task'[o].then = "done")
    <3>1. CASE Goto(o, "done")
      BY <1>0, <3>1, GotoFacts DEF PCs, OwnerPC
    <3>2. CASE CleanUp(o, "done")
      BY <1>0, <3>2, CleanUpFacts DEF Thens, OwnerPC
    <3>3. QED
      BY <1>4, <3>1, <3>2 DEF InviteFails
  <2>3. OwnerPoint'
    BY <2>1, <2>2 DEF OwnerPoint
  <2>4. QED
    BY <2>1, <2>2, <2>3, OwnerOnward DEF LegFrame
<1>5. CASE InviteAnswered
  <2>1. /\ UNCHANGED <<inbound, state, connected, hasDialog, byeOnce, byeSent, joinOnce>>
        /\ OwnerPC = "invite"
    BY <1>5 DEF InviteAnswered, At, OwnerPC, legVars, mgrVars
  <2>2. Moved(o) /\ OwnerPC' = "connect"
    BY <1>0, <1>5, GotoFacts DEF InviteAnswered, PCs, OwnerPC
  <2>3. (Cancelling' <=> Cancelling) /\ CallersAt'
    BY <2>1, <2>2, OwnerAside
  <2>4. OwnerPoint' /\ UpOrEnded'
    BY <1>0, <2>1, <2>2 DEF OwnerPoint, UpOrEnded
  <2>5. NotYetUp'
    BY <1>0, <2>1, <2>2, <2>3 DEF NotYetUp
  <2>6. ByeFollows'
    BY <2>1, <2>3 DEF CallInv, ByeFollows
  <2>7. QED
    BY <1>0, <2>1, <2>3, <2>4, <2>5, <2>6 DEF CallInv
<1>6. CASE ConnectOutbound
  <2>1. /\ UNCHANGED <<inbound, state, connected, byeOnce, byeSent, answered, joinOnce>>
        /\ OwnerPC = "connect" /\ hasDialog' = Unanswered
    BY <1>6 DEF ConnectOutbound, At, OwnerPC, legVars, mgrVars
  <2>2. Moved(o) /\ OwnerPC' = IF Unanswered THEN "setup" ELSE "connectFailed"
    <3>1. CASE Unanswered
      BY <1>0, <1>6, <3>1, GotoFacts DEF ConnectOutbound, PCs, OwnerPC
    <3>2. CASE ~ Unanswered
      BY <1>0, <1>6, <3>2, GotoFacts DEF ConnectOutbound, PCs, OwnerPC
    <3>3. QED
      BY <3>1, <3>2
  <2>3. (Cancelling' <=> Cancelling) /\ CallersAt'
    BY <2>1, <2>2, OwnerAside
  <2>4. joinOnce = "no" /\ (Unanswered => ~ byeOnce)
    BY <1>0, <2>1 DEF OwnerPoint, NotYetUp, Unanswered
  <2>5. OwnerPoint' /\ NotYetUp'
    BY <2>1, <2>2, <2>4 DEF OwnerPoint, NotYetUp
  <2>6. UpOrEnded' /\ ByeFollows'
    BY <2>1, <2>2, <2>3, <2>4 DEF UpOrEnded, CallInv, ByeFollows
  <2>7. QED
    BY <1>0, <2>1, <2>3, <2>5, <2>6 DEF CallInv
<1>7. CASE ConnectSetup
  <2>1. /\ UNCHANGED <<inbound, hasDialog, byeOnce, byeSent, answered, joinOnce>>
        /\ OwnerPC = "setup" /\ state' \in {state, "connected"}
        /\ connected => connected'
    <3>1. connected => connected'
      BY <1>7, Zenon DEF ConnectSetup, SetState
    <3>2. state' \in {state, "connected"}
      BY <1>7 DEF ConnectSetup, SetState
    <3>3. QED
      BY <1>7, <3>1, <3>2 DEF ConnectSetup, At, OwnerPC, sipVars, mgrVars
  <2>2. Moved(o) /\ OwnerPC' \in {"connected", "connectFailed"}
    <3>1. PICK pc \in {"connected", "connectFailed"} : Goto(o, pc)
      BY <1>7 DEF ConnectSetup
    <3>2. QED
      BY <1>0, <3>1, GotoFacts DEF PCs, OwnerPC
  <2>3. (Cancelling' <=> Cancelling) /\ CallersAt'
    BY <1>0, <2>1, <2>2, OwnerAside
  <2>4. OwnerPoint' /\ NotYetUp'
    BY <1>0, <2>1, <2>2 DEF OwnerPoint, NotYetUp
  <2>5. UpOrEnded'
    BY <1>0, <2>1, <2>2 DEF UpOrEnded
  <2>6. ByeFollows'
    BY <2>1, <2>3 DEF CallInv, ByeFollows
  <2>7. QED
    BY <1>0, <2>1, <2>3, <2>4, <2>5, <2>6 DEF CallInv
<1>8. CASE ConnectFailed
  <2>1. /\ UNCHANGED <<inbound, state, connected, hasDialog, byeOnce, answered, joinOnce>>
        /\ byeSent' = TRUE /\ OwnerPC = "connectFailed"
    BY <1>8 DEF ConnectFailed, At, OwnerPC, legVars, mgrVars
  <2>2. Moved(o) /\ OwnerPC' = "cleanup" /\ task'[o].then = "done"
    BY <1>0, <1>8, CleanUpFacts DEF ConnectFailed, Thens, OwnerPC
  <2>3. (Cancelling' <=> Cancelling) /\ CallersAt'
    BY <1>0, <2>1, <2>2, OwnerAside
  <2>4. OwnerPoint' /\ NotYetUp' /\ UpOrEnded'
    BY <2>1, <2>2 DEF OwnerPoint, NotYetUp, UpOrEnded
  <2>5. ByeFollows'
    BY <2>1, <2>3 DEF CallInv, ByeFollows
  <2>6. QED
    BY <1>0, <2>1, <2>3, <2>4, <2>5 DEF CallInv
<1>9. CASE Connected
  <2>1. LegFrame /\ joinOnce' = joinOnce /\ OwnerPC = "connected" /\ joinOnce = "no"
    BY <1>0, <1>9 DEF Connected, At, OwnerPC, OwnerPoint, LegFrame, legVars, sipVars, mgrVars
  <2>2. task' = [task EXCEPT ![o].pc = "joinRoom", ![o].then = "watch"]
    BY <1>0, <1>9 DEF Connected
  <2>3. Moved(o) /\ OwnerPC' = "joinRoom" /\ task'[o].then = "watch"
    BY <1>0, <2>2, ThenFacts DEF PCs, Thens, OwnerPC
  <2>4. OwnerPoint' /\ hasDialog
    BY <1>0, <2>1, <2>3 DEF OwnerPoint, UpOrEnded
  <2>5. QED
    BY <2>1, <2>3, <2>4, OwnerOnward DEF LegFrame
<1>10. CASE JoinPendingRoom
  <2>1. /\ LegFrame /\ joinOnce' = joinOnce /\ OwnerPC = "joinRoom" /\ joinOnce = "no"
        /\ task[o].then = "watch" /\ hasDialog
    BY <1>0, <1>10 DEF JoinPendingRoom, At, OwnerPC, OwnerPoint, UpOrEnded, LegFrame, legVars,
                       sipVars, mgrVars
  <2>2. JoinLookup(o, "notJoined") /\ "notJoined" \in PCs
    BY <1>10, <2>1 DEF JoinPendingRoom, PCs
  <2>3. Moved(o) /\ OwnerPC' \in {"join", "notJoined"} /\ task'[o].then = "watch"
    <3>1. CASE Goto(o, "notJoined")
      BY <1>0, <2>1, <2>2, <3>1, GotoFacts DEF OwnerPC
    <3>2. QED
      BY <1>0, <2>1, <2>2, <3>1, LookupFacts DEF OwnerPC
  <2>4. OwnerPoint'
    BY <2>1, <2>3 DEF OwnerPoint
  <2>5. QED
    BY <2>1, <2>3, <2>4, OwnerOnward DEF LegFrame
<1>11. CASE Join(o) \/ NotJoined
  <2>1. /\ LegFrame /\ joinOnce' = joinOnce /\ OwnerPC \in {"join", "notJoined"}
        /\ joinOnce = "no" /\ task[o].then = "watch" /\ hasDialog
    BY <1>0, <1>11 DEF Join, NotJoined, At, OwnerPC, OwnerPoint, UpOrEnded, LegFrame, legVars,
                       sipVars, mgrVars
  <2>2. PICK pc \in {"joined", "roomGone"} : Goto(o, pc)
    BY <1>11 DEF Join, NotJoined
  <2>3. Moved(o) /\ OwnerPC' \in {"joined", "roomGone"} /\ task'[o].then = "watch"
    BY <1>0, <2>1, <2>2, GotoFacts DEF PCs, OwnerPC
  <2>4. OwnerPoint'
    BY <2>1, <2>3 DEF OwnerPoint
  <2>5. QED
    BY <2>1, <2>3, <2>4, OwnerOnward DEF LegFrame
<1>12. CASE Joined \/ RoomGone
  <2>1. /\ LegFrame /\ OwnerPC \in {"joined", "roomGone"}
        /\ task[o].then = "watch" /\ hasDialog
    BY <1>0, <1>12 DEF Joined, RoomGone, At, OwnerPC, OwnerPoint, UpOrEnded, LegFrame, legVars,
                       sipVars
  <2>2. Goto(o, "watch") \/ CleanUp(o, "done")
    BY <1>12, <2>1 DEF Joined, RoomGone
  <2>3. /\ Moved(o)
        /\ OwnerPC' = "watch" \/ (OwnerPC' = "cleanup" /\ task'[o].then = "done")
    <3>1. CASE Goto(o, "watch")
      BY <1>0, <3>1, GotoFacts DEF PCs, OwnerPC
    <3>2. CASE CleanUp(o, "done")
      BY <1>0, <3>2, CleanUpFacts DEF Thens, OwnerPC
    <3>3. QED
      BY <2>2, <3>1, <3>2
  <2>4. (Cancelling' <=> Cancelling) /\ CallersAt'
    BY <2>1, <2>3, OwnerAside DEF LegFrame
  <2>5. OwnerPoint' /\ NotYetUp' /\ UpOrEnded'
    BY <2>1, <2>3 DEF OwnerPoint, NotYetUp, UpOrEnded, LegFrame
  <2>6. ByeFollows'
    BY <2>1, <2>4 DEF CallInv, ByeFollows, LegFrame
  <2>7. QED
    BY <1>0, <2>1, <2>4, <2>5, <2>6 DEF CallInv, LegFrame
<1>13. CASE WatchDialogEnd
  <2>1. LegFrame /\ joinOnce' = joinOnce /\ OwnerPC = "watch" /\ hasDialog
    BY <1>0, <1>13 DEF WatchDialogEnd, At, OwnerPC, UpOrEnded, LegFrame, legVars, sipVars,
                       mgrVars
  <2>2. /\ Moved(o)
        /\ \/ OwnerPC' = "done" /\ state = "hung_up"
           \/ OwnerPC' = "cleanup" /\ task'[o].then = "done"
    <3>1. CASE Goto(o, "done") /\ state = "hung_up"
      BY <1>0, <3>1, GotoFacts DEF PCs, OwnerPC
    <3>2. CASE CleanUp(o, "done")
      BY <1>0, <3>2, CleanUpFacts DEF Thens, OwnerPC
    <3>3. QED
      BY <1>13, <3>1, <3>2 DEF WatchDialogEnd
  <2>3. OwnerPoint'
    BY <2>1, <2>2 DEF OwnerPoint
  <2>4. state = "hung_up" => byeSent \/ (hasDialog /\ Cancelling)
    BY <2>1 DEF CallInv, ByeFollows
  <2>5. QED
    BY <2>1, <2>2, <2>3, <2>4, OwnerOnward DEF LegFrame
<1>14. CASE TearDown(o)
  BY <1>0, <1>14, CallTearDown
<1>15. QED
  BY <1>1, <1>2, <1>3, <1>4, <1>5, <1>6, <1>7, <1>8, <1>9, <1>10, <1>11, <1>12, <1>13, <1>14
     DEF OwnerStep, OwnerWaits

LEMMA CallCaller ==
    ASSUME Dialling, TInv, CallInv, NEW p \in Callers, CallerStart(p) \/ CallerStep(p)
    PROVE  CallInv'
<1>0. /\ p \in Procs /\ p # "owner" /\ task \in Tasks /\ room \in 0..MaxRooms
      /\ inbound = FALSE
      /\ task[p].pc = "setHeld" => connected
      /\ task[p].pc \notin {"early", "reject", "rejecting", "rejected",
                            "signal", "signalJoin", "waitConnected"}
  BY ProcsFact, TFacts DEF CallInv, CallersAt
<1>1. CASE Delete(p) \/ MediaPanic(p)
  <2>1. LegFrame /\ joinOnce' = joinOnce /\ task[p].pc = "idle"
    BY <1>1 DEF Delete, MediaPanic, Start, At, LegFrame, legVars, sipVars, mgrVars
  <2>2. PICK ret \in {"cleanup", "idle"} : Hang(p, ret)
    BY <1>0, <1>1 DEF Delete, MediaPanic
  <2>3. Moved(p) /\ task'[p].pc = "hangup"
    BY <1>0, <2>2, HangFacts DEF Rets
  <2>4. QED
    BY <2>1, <2>3, CallerAside DEF LegFrame
<1>2. ~ AnswerLeg(p) /\ ~ Reject(p) /\ ~ Rejecting(p) /\ ~ Rejected(p) /\ ~ SignalAnswer(p)
      /\ ~ WaitConnected(p) /\ ~ EnableEarlyMedia(p)
  BY <1>0 DEF AnswerLeg, Reject, Rejecting, Rejected, SignalAnswer, WaitConnected,
              EnableEarlyMedia, Start, At
<1>3. CASE AddToRoom(p) \/ Expire(p) \/ Hold(p)
  <2>1. /\ LegFrame /\ joinOnce' = joinOnce /\ task[p].pc = "idle"
        /\ \E pc \in {"findRoom", "expired", "setHeld"} :
              Goto(p, pc) /\ (pc = "setHeld" => connected)
    BY <1>3 DEF AddToRoom, Expire, Hold, Start, At, LegFrame, legVars, sipVars, mgrVars
  <2>2. PICK pc \in {"findRoom", "expired", "setHeld"} :
           Goto(p, pc) /\ (pc = "setHeld" => connected)
    BY <2>1
  <2>3. Moved(p) /\ task'[p].pc = pc
    BY <1>0, <2>2, GotoFacts DEF PCs
  <2>4. QED
    BY <2>1, <2>2, <2>3, CallerAside DEF LegFrame
<1>4. CASE DeleteRoom(p) \/ SnapPending(p)
  <2>1. LegFrame /\ joinOnce' = joinOnce /\ task[p].pc # "cancel"
    BY <1>4 DEF DeleteRoom, SnapPending, Start, At, LegFrame, legVars, sipVars, mgrVars
  <2>2. PICK pc \in {"snapPending", "unroom"}, snap \in BOOLEAN :
           task' = [task EXCEPT ![p].pc = pc, ![p].snap = snap]
    <3>1. CASE DeleteRoom(p)
      <4>1. (room \in inRoom) \in BOOLEAN
        OBVIOUS
      <4>2. QED
        BY <3>1, <4>1 DEF DeleteRoom
    <3>2. CASE SnapPending(p)
      <4>1. (task[p].snap \/ (pending /\ registered)) \in BOOLEAN
        OBVIOUS
      <4>2. task' = [task EXCEPT ![p].pc = "unroom",
                                 ![p].snap = task[p].snap \/ (pending /\ registered)]
        BY <1>0, <3>2 DEF SnapPending, Tasks
      <4>3. QED
        BY <4>1, <4>2
    <3>3. QED
      BY <1>4, <3>1, <3>2
  <2>3. pc \in PCs /\ pc \in {"snapPending", "unroom"}
    BY DEF PCs
  <2>4. Moved(p) /\ task'[p].pc = pc
    BY <1>0, <2>2, <2>3, SnapFacts
  <2>5. QED
    BY <2>1, <2>3, <2>4, CallerAside DEF LegFrame
<1>5. CASE Unroom(p)
  <2>1. LegFrame /\ joinOnce' = joinOnce /\ task[p].pc # "cancel"
    BY <1>5 DEF Unroom, At, LegFrame, legVars, sipVars, mgrVars
  <2>2. Moved(p) /\ task'[p].pc \in {"idle", "hangRoom"}
    <3>1. CASE room = 0
      <4>1. task' = [task EXCEPT ![p] = Task("idle")] /\ "idle" \in PCs
        BY <1>5, <3>1 DEF Unroom, PCs
      <4>2. QED
        BY <1>0, <4>1, TaskFacts DEF Moved, Tasks
    <3>2. CASE room # 0
      <4>1. task' = [task EXCEPT ![p].pc = "hangRoom", ![p].gen = room] /\ "hangRoom" \in PCs
        BY <1>0, <1>5, <3>2 DEF Unroom, Tasks, PCs
      <4>2. QED
        BY <1>0, <4>1, GenFacts
    <3>3. QED
      BY <3>1, <3>2
  <2>3. QED
    BY <2>1, <2>2, CallerAside DEF LegFrame
<1>6. CASE HangRoom(p)
  <2>1. LegFrame /\ joinOnce' = joinOnce /\ task[p].pc # "cancel"
    BY <1>6 DEF HangRoom, At, LegFrame, legVars, sipVars, mgrVars
  <2>2. Moved(p) /\ task'[p].pc \in {"hangup", "closeRoom"}
    <3>1. CASE Hang(p, "closeRoom")
      BY <1>0, <3>1, HangFacts DEF Rets
    <3>2. CASE Goto(p, "closeRoom")
      BY <1>0, <3>2, GotoFacts DEF PCs
    <3>3. QED
      BY <1>6, <3>1, <3>2 DEF HangRoom
  <2>3. QED
    BY <2>1, <2>2, CallerAside DEF LegFrame
<1>7. CASE CloseRoom(p)
  <2>1. LegFrame /\ joinOnce' = joinOnce /\ task[p].pc # "cancel"
    BY <1>7 DEF CloseRoom, At, LegFrame, legVars, sipVars, mgrVars
  <2>2. PICK pc \in {"cleanup", "idle"} : task' = [task EXCEPT ![p] = Task(pc)]
    BY <1>7 DEF CloseRoom
  <2>3. Moved(p) /\ task'[p].pc = pc
    BY <1>0, <2>2, TaskFacts DEF Moved, Tasks, PCs
  <2>4. QED
    BY <2>1, <2>3, CallerAside DEF LegFrame
<1>8. CASE FindLegRoom(p)
  <2>1. LegFrame /\ joinOnce' = joinOnce /\ task[p].pc # "cancel"
    BY <1>8 DEF FindLegRoom, At, LegFrame, legVars, sipVars, mgrVars
  <2>2. Goto(p, "idle") \/ JoinLookup(p, "idle")
    BY <1>0, <1>8 DEF FindLegRoom
  <2>3. "idle" \in PCs
    BY DEF PCs
  <2>4. Moved(p) /\ task'[p].pc \in {"idle", "join"}
    BY <1>0, <2>2, <2>3, GotoFacts, LookupFacts
  <2>5. QED
    BY <2>1, <2>4, CallerAside DEF LegFrame
<1>9. CASE Expired(p)
  <2>1. LegFrame /\ joinOnce' = joinOnce /\ task[p].pc # "cancel"
    BY <1>9 DEF Expired, At, LegFrame, legVars, sipVars, mgrVars
  <2>2. Moved(p) /\ task'[p].pc \in {"idle", "cleanup"}
    <3>1. CASE Goto(p, "idle")
      BY <1>0, <3>1, GotoFacts DEF PCs
    <3>2. CASE CleanUp(p, "idle")
      BY <1>0, <3>2, CleanUpFacts DEF Thens
    <3>3. QED
      BY <1>9, <3>1, <3>2 DEF Expired
  <2>3. QED
    BY <2>1, <2>2, CallerAside DEF LegFrame
<1>10. CASE SetHeld(p)
  <2>1. /\ UNCHANGED <<inbound, hasDialog, byeOnce, byeSent, answered, joinOnce>>
        /\ task[p].pc = "setHeld" /\ Goto(p, "idle")
        /\ state' \in {state, "held", "connected"}
        /\ connected => connected'
    <3>1. connected => connected'
      BY <1>10, Zenon DEF SetHeld, SetState
    <3>2. state' \in {state, "held", "connected"}
      BY <1>10 DEF SetHeld, SetState
    <3>3. QED
      BY <1>10, <3>1, <3>2 DEF SetHeld, At, sipVars, mgrVars
  <2>2. connected /\ connected'
    BY <1>0, <2>1
  <2>3. Moved(p) /\ task'[p].pc = "idle"
    BY <1>0, <2>1, GotoFacts DEF PCs
  <2>4. \A q \in Procs : q # p => task'[q] = task[q]
    BY <2>3 DEF Moved
  <2>5. task'["owner"] = task["owner"] /\ OwnerPC' = OwnerPC
    BY <1>0, <2>4, ProcsFact DEF OwnerPC
  <2>6. Cancelling' <=> Cancelling
    BY <2>1, <2>3, <2>4 DEF Cancelling
  <2>7. CallersAt'
    BY <2>2, <2>3, <2>4, ProcsFact DEF CallInv, CallersAt
  <2>8. OwnerPoint' /\ NotYetUp'
    BY <2>1, <2>2, <2>5 DEF CallInv, OwnerPoint, NotYetUp
  <2>9. ByeFollows' /\ UpOrEnded'
    BY <2>1, <2>5, <2>6 DEF CallInv, ByeFollows, UpOrEnded
  <2>10. QED
    BY <1>0, <2>1, <2>7, <2>8, <2>9 DEF CallInv
<1>11. CASE Join(p)
  <2>1. LegFrame /\ joinOnce' = joinOnce /\ task[p].pc # "cancel" /\ Goto(p, "idle")
    BY <1>0, <1>11 DEF Join, At, LegFrame, legVars, sipVars, mgrVars
  <2>2. Moved(p) /\ task'[p].pc = "idle"
    BY <1>0, <2>1, GotoFacts DEF PCs
  <2>3. QED
    BY <2>1, <2>2, CallerAside DEF LegFrame
<1>12. QED
  BY <1>0, <1>1, <1>2, <1>3, <1>4, <1>5, <1>6, <1>7, <1>8, <1>9, <1>10, <1>11, CallTearDown
     DEF CallerStart, CallerStep

LEMMA InitCall ==
    ASSUME Init, inbound = FALSE
    PROVE  CallInv
<1>1. /\ Task("new").pc = "new" /\ Task("idle").pc = "idle"
  BY TaskFacts DEF PCs
<1>2. task = [p \in Procs |-> IF p = "owner" THEN Task("new") ELSE Task("idle")]
  BY DEF Init
<1>3. /\ task["owner"].pc = "new"
      /\ \A p \in Callers : task[p].pc = "idle"
      /\ \A p \in Procs : task[p].pc \in {"new", "idle"}
  BY <1>1, <1>2, ProcsFact
<1>4. /\ ~ hasDialog /\ ~ connected /\ state = "ringing" /\ ~ byeOnce /\ ~ answered
      /\ joinOnce = "no"
  BY DEF Init
<1>5. ~ Cancelling
  BY <1>3 DEF Cancelling
<1>6. OwnerPoint /\ NotYetUp /\ UpOrEnded
  BY <1>3, <1>4, <1>5 DEF OwnerPoint, NotYetUp, UpOrEnded, OwnerPC, BeforeDialog, WithDialog,
                          Joining, BeforeBye, AfterBye
<1>7. CallersAt /\ ByeFollows
  BY <1>3, <1>4 DEF CallersAt, ByeFollows
<1>8. QED
  BY <1>6, <1>7 DEF CallInv

LEMMA NextCall ==
    ASSUME Dialling, TInv, CallInv, [Next]_vars
    PROVE  CallInv'
<1>1. CASE OwnerStep \/ OwnerWaits
  BY <1>1, CallOwner
<1>2. ASSUME NEW p \in Callers, CallerStart(p) \/ CallerStep(p)
      PROVE  CallInv'
  BY <1>2, CallCaller
<1>3. CASE PeerEnds \/ UNCHANGED vars
  <2>1. UNCHANGED <<inbound, state, connected, hasDialog, byeOnce, byeSent, answered,
                    joinOnce, task>>
    BY <1>3 DEF PeerEnds, vars, legVars, sipVars, mgrVars
  <2>2. (Cancelling' <=> Cancelling) /\ OwnerPC' = OwnerPC
    BY <2>1 DEF Cancelling, OwnerPC
  <2>3. OwnerPoint' /\ NotYetUp' /\ CallersAt'
    BY <2>1, <2>2 DEF CallInv, OwnerPoint, NotYetUp, CallersAt
  <2>4. ByeFollows' /\ UpOrEnded'
    BY <2>1, <2>2 DEF CallInv, ByeFollows, UpOrEnded
  <2>5. QED
    BY <2>1, <2>3, <2>4 DEF CallInv
<1>4. QED
  BY <1>1, <1>2, <1>3 DEF Next

(* An answered outbound call is never left up at the peer, however the     *)
(* answer interleaves with DELETEs, room deletions, timers and panics of   *)
(* any number of callers: Hangup sends the BYE if the dialog is adopted,   *)
(* and ConnectOutbound refuses a call that was hung up meanwhile, which    *)
(* the INVITE goroutine then ends with a BYE (legs.go:1466-1472).          *)
THEOREM AnsweredCallsEnd ==
    ASSUME Inbounds = {FALSE}, EarlyCallers = FALSE, "earlyMedia" \notin Ops
    PROVE  Spec => []AnsweredCallEnds
<1>1. Dialling
  BY DEF Dialling
<1>2. Init => TInv /\ CallInv
  BY InitTyped, InitCall DEF Init
<1>3. TInv /\ CallInv /\ [Next]_vars => (TInv /\ CallInv)'
  BY <1>1, NextTyped, NextCall
<1>4. CallInv => AnsweredCallEnds
  <2>1. SUFFICES ASSUME CallInv, Quiet, answered
                 PROVE  byeSent
    BY DEF AnsweredCallEnds
  <2>2. \A p \in Procs : task[p].pc \in {"done", "idle"}
    BY <2>1, ProcsFact DEF Quiet, At
  <2>3. ~ Cancelling /\ OwnerPC = "done"
    BY <2>1, <2>2 DEF Cancelling, OwnerPC, Quiet, At
  <2>4. QED
    BY <2>1, <2>3 DEF CallInv, UpOrEnded
<1>5. QED
  BY <1>2, <1>3, <1>4, PTL DEF Spec
=============================================================================
