----------------------------- MODULE RoomManager -----------------------------
(***************************************************************************)
(* The room manager, its rooms and the lifecycle of their mixers           *)
(* (internal/room/manager.go, room.go, bridge.go).                         *)
(*                                                                         *)
(* One step of the model is one critical section of the code: the manager's*)
(* registry lock m.mu or one room's lock r.mu.  Between two of them the    *)
(* code holds only what it read earlier, a *Room pointer above all, so an  *)
(* operation with several sections is a goroutine p whose progress is      *)
(* task[p].  A room deleted and created again under the same ID is another *)
(* pointer.  Every participant the mixer is given is a fresh instance,     *)
(* numbered 1, 2, ...; 0 stands for none.  Secondary streams are left out. *)
(***************************************************************************)
EXTENDS Naturals, FiniteSets

CONSTANTS
    RoomIDs, Rooms,        \* room IDs, and the *Room pointers behind them
    Legs, BridgeIDs,
    Procs,                 \* goroutines: API handlers and panic teardowns
    None,
    Dirs,                  \* the directions callers ask for
    MaxParts               \* bound: participant instances ever created

Directions == {"bidirectional", "a_to_b", "b_to_a", "none"}
ASends(dir) == dir \in {"bidirectional", "a_to_b"}
BSends(dir) == dir \in {"bidirectional", "b_to_a"}

Bridge == [a : RoomIDs, b : RoomIDs, dir : Directions]

ASSUME RoomManagerAssumption ==
    /\ None \notin RoomIDs \cup Rooms \cup Legs \cup BridgeIDs \cup Bridge
    /\ MaxParts \in Nat
    /\ Dirs \subseteq Directions /\ IsFiniteSet(BridgeIDs)

VARIABLES
    rooms,         \* m.rooms: the registered room of an ID, or None
    bridges,       \* m.bridges: the registered bridge of an ID, or None
    idOf,          \* r.ID of an allocated room, None of one not yet allocated
    participants,  \* r.participants
    legParts,      \* r.legParts: the instance carrying a leg's audio, or 0
    mixLeg,        \* the instance in the mixer's map under a leg's ID, or 0
    mixBridge,     \* a bridge's participant in the mixer: does it send?
    bridgeRefs, mixerRunning,
    roomID,        \* l.RoomID()
    up,            \* legs neither hung up nor gone from the leg manager
    lastPart,      \* instances created so far
    task,          \* what each goroutine has left to do
    orderly        \* callers never overlap operations on one thing

roomVars == <<participants, legParts, mixLeg, roomID, lastPart>>
bridgeVars == <<mixBridge, bridgeRefs>>
vars == <<rooms, bridges, idOf, roomVars, bridgeVars, mixerRunning, up, task, orderly>>

Idle == [pc |-> "idle", leg |-> None, src |-> None, dst |-> None, id |-> None,
         br |-> None, dir |-> "none", part |-> 0, torn |-> {}]

Live == {rooms[i] : i \in RoomIDs} \ {None}
Running(p) == task[p].pc # "idle"

Goto(p, t) == task' = [task EXCEPT ![p] = t]
At(p, pc) == task[p].pc = pc
Done(p) == Goto(p, Idle)

Init ==
    /\ rooms = [i \in RoomIDs |-> None]
    /\ bridges = [b \in BridgeIDs |-> None]
    /\ idOf = [o \in Rooms |-> None]
    /\ participants = [o \in Rooms |-> {}]
    /\ legParts = [o \in Rooms |-> [l \in Legs |-> 0]]
    /\ mixLeg = [o \in Rooms |-> [l \in Legs |-> 0]]
    /\ mixBridge = [o \in Rooms |-> [b \in BridgeIDs |-> "absent"]]
    /\ bridgeRefs = [o \in Rooms |-> 0]
    /\ mixerRunning = [o \in Rooms |-> FALSE]
    /\ roomID = [l \in Legs |-> None]
    /\ up = Legs
    /\ lastPart = 0
    /\ task = [p \in Procs |-> Idle]
    /\ orderly \in BOOLEAN

-----------------------------------------------------------------------------
(* What callers may overlap.  If orderly, a new operation waits for those    *)
(* in flight on its leg or bridge, and a delete for those on its room.      *)
Clear(legs, brs) ==
    orderly => \A p \in Procs : /\ task[p].leg \notin legs
                                /\ task[p].br \notin brs

RoomClear(i) ==
    orderly => \A p \in Procs :
                   /\ rooms[i] \notin {task[p].src, task[p].dst}
                   /\ task[p].id # i
                   /\ \A t \in task[p].torn : rooms[i] # t.peer

-----------------------------------------------------------------------------
(* syncMixerLocked ends each r.mu section: the mixer runs iff it should.    *)
ShouldRun(members, refs) == members # {} \/ refs > 0

MutNeverStops(o, members, refs) ==    \* mutant: only ever starts the mixer
    mixerRunning' = [mixerRunning EXCEPT ![o] = @ \/ ShouldRun(members, refs)]

SyncMixer(o, members, refs) ==
    mixerRunning' = [mixerRunning EXCEPT ![o] = ShouldRun(members, refs)]

AddLegLocked(o, l, part) ==
    /\ participants' = [participants EXCEPT ![o] = @ \cup {l}]
    /\ roomID' = [roomID EXCEPT ![l] = idOf[o]]
    /\ legParts' = [legParts EXCEPT ![o][l] = part]
    /\ mixLeg' = [mixLeg EXCEPT ![o][l] = IF part = 0 THEN @ ELSE part]
    /\ lastPart' = IF part = 0 THEN lastPart ELSE part

MutRemoveKeepsPart(o, l) ==           \* mutant: the mixer keeps the leg
    /\ participants' = [participants EXCEPT ![o] = @ \ {l}]
    /\ roomID' = [roomID EXCEPT ![l] = None]
    /\ legParts' = [legParts EXCEPT ![o][l] = 0]
    /\ UNCHANGED <<mixLeg, lastPart>>

RemoveLegLocked(o, l) ==
    /\ participants' = [participants EXCEPT ![o] = @ \ {l}]
    /\ roomID' = [roomID EXCEPT ![l] = None]
    /\ legParts' = [legParts EXCEPT ![o][l] = 0]
    /\ mixLeg' = [mixLeg EXCEPT ![o][l] = 0]
    /\ UNCHANGED lastPart

(* A leg with no media yet joins without a mixer participant.               *)
NewPart == {0} \cup {q \in {lastPart + 1} : q <= MaxParts}
-----------------------------------------------------------------------------
(* Create: the exists-check and the insert are one m.mu section.            *)
Allocate(o, i) ==
    /\ idOf[o] = None
    /\ idOf' = [idOf EXCEPT ![o] = i]
    /\ rooms' = [rooms EXCEPT ![i] = o]

CreateRoom(o, i) ==
    /\ rooms[i] = None
    /\ Allocate(o, i)
    /\ UNCHANGED <<bridges, roomVars, bridgeVars, mixerRunning, up, task>>

(* addLeg: room and leg are looked up and the state is checked first...      *)
AddLegStart(p, i, l) ==
    /\ ~ Running(p) /\ rooms[i] # None /\ l \in up
    /\ Clear({l}, {})
    /\ orderly => \A o \in Live : l \notin participants[o]
    /\ Goto(p, [Idle EXCEPT !.pc = "addLeg", !.leg = l, !.dst = rooms[i]])
    /\ UNCHANGED <<rooms, bridges, idOf, roomVars, bridgeVars, mixerRunning, up>>

(* ... and r.AddLeg runs later, on whatever became of both.                 *)
AddLegFinish(p) ==
    LET o == task[p].dst  l == task[p].leg IN
    /\ At(p, "addLeg")
    /\ \E part \in NewPart : AddLegLocked(o, l, part)
    /\ SyncMixer(o, participants[o] \cup {l}, bridgeRefs[o])
    /\ Done(p)
    /\ UNCHANGED <<rooms, bridges, idOf, bridgeVars, up>>

(* MoveLeg: get the source, get or create the target, detach, add.          *)
MoveLegStart(p, i, j, l) ==
    /\ ~ Running(p) /\ rooms[i] # None /\ i # j
    /\ Clear({l}, {})
    /\ Goto(p, [Idle EXCEPT !.pc = "moveTarget", !.leg = l, !.src = rooms[i], !.id = j])
    /\ UNCHANGED <<rooms, bridges, idOf, roomVars, bridgeVars, mixerRunning, up>>

MoveLegTarget(p) ==
    LET j == task[p].id IN
    /\ At(p, "moveTarget")
    /\ \/ /\ rooms[j] # None
          /\ Goto(p, [task[p] EXCEPT !.pc = "moveDetach", !.dst = rooms[j], !.id = None])
          /\ UNCHANGED <<rooms, idOf>>
       \/ /\ rooms[j] = None
          /\ \E o \in Rooms :
                /\ Allocate(o, j)
                /\ Goto(p, [task[p] EXCEPT !.pc = "moveDetach", !.dst = o, !.id = None])
    /\ UNCHANGED <<bridges, roomVars, bridgeVars, mixerRunning, up>>

MutMoveKeepsLeg(p) ==                 \* mutant: added without being detached
    /\ At(p, "moveDetach")
    /\ Goto(p, [task[p] EXCEPT !.pc = "addLeg", !.src = None])
    /\ UNCHANGED <<rooms, bridges, idOf, roomVars, bridgeVars, mixerRunning, up>>

MoveLegDetach(p) ==
    LET o == task[p].src  l == task[p].leg IN
    /\ At(p, "moveDetach")
    /\ \/ /\ l \in participants[o]
          /\ RemoveLegLocked(o, l)
          /\ SyncMixer(o, participants[o] \ {l}, bridgeRefs[o])
          /\ Goto(p, [task[p] EXCEPT !.pc = "addLeg", !.src = None])
       \/ /\ l \notin participants[o]
          /\ Done(p)
          /\ UNCHANGED <<roomVars, mixerRunning>>
    /\ UNCHANGED <<rooms, bridges, idOf, bridgeVars, up>>

(* RemoveLeg: a leg that is not in the room by then is left alone.          *)
RemoveLegStart(p, i, l) ==
    /\ ~ Running(p) /\ rooms[i] # None
    /\ Clear({l}, {})
    /\ Goto(p, [Idle EXCEPT !.pc = "removeLeg", !.leg = l, !.src = rooms[i]])
    /\ UNCHANGED <<rooms, bridges, idOf, roomVars, bridgeVars, mixerRunning, up>>

RoomRemoveLeg(o, l) ==
    /\ \/ l \in participants[o] /\ RemoveLegLocked(o, l)
       \/ l \notin participants[o] /\ UNCHANGED roomVars
    /\ SyncMixer(o, participants[o] \ {l}, bridgeRefs[o])

RemoveLegFinish(p) ==
    /\ At(p, "removeLeg")
    /\ RoomRemoveLeg(task[p].src, task[p].leg)
    /\ Done(p)
    /\ UNCHANGED <<rooms, bridges, idOf, bridgeVars, up>>

(* A leg ends: the remote side's BYE goes straight to cleanupLeg, a DELETE of *)
(* the leg hangs it up first.  doDeleteRoom also ends, once Delete is done,  *)
(* the legs that were in the room.                                           *)
LegEnds(p, l) ==
    /\ ~ Running(p)
    /\ Clear({l}, {})
    /\ \E pc \in {"cleanup", "hangupFirst"} :
          Goto(p, [Idle EXCEPT !.pc = pc, !.leg = l])
    /\ UNCHANGED <<rooms, bridges, idOf, roomVars, bridgeVars, mixerRunning, up>>

HangupFirst(p) ==
    /\ At(p, "hangupFirst")
    /\ up' = up \ {task[p].leg}
    /\ Goto(p, [task[p] EXCEPT !.pc = "cleanup"])
    /\ UNCHANGED <<rooms, bridges, idOf, roomVars, bridgeVars, mixerRunning>>

(* cleanupLeg takes the leg out of the room it says it is in, whatever room  *)
(* has that ID by then, and hangs it up for good.                            *)
Cleanup(p) ==
    LET i == roomID[task[p].leg] IN
    /\ At(p, "cleanup")
    /\ Goto(p, [task[p] EXCEPT !.pc = IF i = None THEN "hangup" ELSE "endLookup",
                               !.id = i])
    /\ UNCHANGED <<rooms, bridges, idOf, roomVars, bridgeVars, mixerRunning, up>>

CleanupLookup(p) ==
    LET o == rooms[task[p].id] IN
    /\ At(p, "endLookup")
    /\ Goto(p, [task[p] EXCEPT !.pc = IF o = None THEN "hangup" ELSE "endRemove",
                               !.id = None, !.src = o])
    /\ UNCHANGED <<rooms, bridges, idOf, roomVars, bridgeVars, mixerRunning, up>>

CleanupRemove(p) ==
    /\ At(p, "endRemove")
    /\ RoomRemoveLeg(task[p].src, task[p].leg)
    /\ Goto(p, [task[p] EXCEPT !.pc = "hangup", !.src = None])
    /\ UNCHANGED <<rooms, bridges, idOf, bridgeVars, up>>

Hangup(p) ==
    /\ At(p, "hangup")
    /\ up' = up \ {task[p].leg}
    /\ Done(p)
    /\ UNCHANGED <<rooms, bridges, idOf, roomVars, bridgeVars, mixerRunning>>

(* A mid-call rate change replaces the leg's participant, or, when its media *)
(* is gone by then, only drops the old one.                                  *)
RebuildLegMedia(o, l) ==
    /\ l \in participants[o]
    /\ \E part \in NewPart :
          /\ legParts' = [legParts EXCEPT ![o][l] = part]
          /\ mixLeg' = [mixLeg EXCEPT ![o][l] = part]
          /\ \/ /\ part = 0
                /\ UNCHANGED <<lastPart, mixerRunning>>
             \/ /\ part # 0 /\ lastPart' = part
                /\ SyncMixer(o, participants[o], bridgeRefs[o])
    /\ UNCHANGED <<rooms, bridges, idOf, participants, bridgeVars, roomID, up, task>>
-----------------------------------------------------------------------------
(* A mixer IO loop of a leg panics: the mixer drops the instance, and a new  *)
(* goroutine is told the room's ID and the instance that died.               *)
LegLoopPanic(p, o, l) ==
    /\ ~ Running(p) /\ mixLeg[o][l] # 0
    /\ mixLeg' = [mixLeg EXCEPT ![o][l] = 0]
    /\ Goto(p, [Idle EXCEPT !.pc = "panicLeg", !.leg = l, !.id = idOf[o],
                            !.part = mixLeg[o][l]])
    /\ UNCHANGED <<rooms, bridges, idOf, participants, legParts, roomID, lastPart,
                   bridgeVars, mixerRunning, up>>

(* A leg hung up may, or may not, still be in the leg manager.               *)
PanicLegLookup(p) ==
    LET o == rooms[task[p].id] IN
    /\ At(p, "panicLeg")
    /\ \/ /\ o # None
          /\ Goto(p, [task[p] EXCEPT !.pc = "panicRemove", !.src = o, !.id = None])
       \/ /\ o = None \/ task[p].leg \notin up
          /\ Done(p)
    /\ UNCHANGED <<rooms, bridges, idOf, roomVars, bridgeVars, mixerRunning, up>>

MutElectOnMembership(o, l, part) == l \in participants[o]   \* mutant

(* RemoveLegIfParticipant elects on the instance that died.                  *)
StillCarriedBy(o, l, part) == l \in participants[o] /\ legParts[o][l] = part

PanicLegRemove(p) ==
    LET o == task[p].src  l == task[p].leg IN
    /\ At(p, "panicRemove")
    /\ \/ /\ StillCarriedBy(o, l, task[p].part)
          /\ RemoveLegLocked(o, l)
          /\ SyncMixer(o, participants[o] \ {l}, bridgeRefs[o])
          /\ Goto(p, [Idle EXCEPT !.pc = "hangupFirst", !.leg = l])
       \/ /\ ~ StillCarriedBy(o, l, task[p].part)
          /\ Done(p)
          /\ UNCHANGED <<roomVars, mixerRunning>>
    /\ UNCHANGED <<rooms, bridges, idOf, bridgeVars, up>>
-----------------------------------------------------------------------------
(* Delete: unregister the room and every bridge that names it, in one m.mu   *)
(* section.  The room is gone from m.rooms by then, so only the peer of each *)
(* bridge is remembered for detaching.                                       *)
Touches(b, i) == bridges[b] # None /\ i \in {bridges[b].a, bridges[b].b}
Peer(b, i) == rooms[IF bridges[b].a = i THEN bridges[b].b ELSE bridges[b].a]

MutDeleteKeepsBridges(i) == bridges   \* mutant: bridges outlive their room

WithoutBridgesOf(i) ==
    [b \in BridgeIDs |-> IF Touches(b, i) THEN None ELSE bridges[b]]

DeleteStart(p, i) ==
    /\ ~ Running(p) /\ rooms[i] # None
    /\ RoomClear(i)
    /\ Clear({}, {b \in BridgeIDs : Touches(b, i)})
    /\ rooms' = [rooms EXCEPT ![i] = None]
    /\ bridges' = WithoutBridgesOf(i)
    /\ Goto(p, [Idle EXCEPT
                   !.pc = "unbridge", !.src = rooms[i],
                   !.torn = {[br |-> b, peer |-> Peer(b, i)] :
                                b \in {c \in BridgeIDs : Touches(c, i)}}])
    /\ UNCHANGED <<idOf, roomVars, bridgeVars, mixerRunning, up>>

MutUnrefUnguarded(o) == bridgeRefs[o] - 1   \* mutant: no check for zero
MutNeverUnref(o) == bridgeRefs[o]           \* mutant: the reference is kept

Unref(o) == IF bridgeRefs[o] > 0 THEN bridgeRefs[o] - 1 ELSE 0

(* detachBridge gives back a reference whether or not it finds its endpoint. *)
(* A room it is given is never nil, see BridgesJoinLiveRooms.                *)
DetachBridge(o, b) ==
    /\ mixBridge' = [mixBridge EXCEPT ![o][b] = "absent"]
    /\ bridgeRefs' = [bridgeRefs EXCEPT ![o] = Unref(o)]
    /\ SyncMixer(o, participants[o], Unref(o))

DeleteUnbridge(p) ==
    /\ At(p, "unbridge")
    /\ \/ \E t \in task[p].torn :
             /\ DetachBridge(t.peer, t.br)
             /\ Goto(p, [task[p] EXCEPT !.torn = @ \ {t}])
       \/ /\ task[p].torn = {}
          /\ Goto(p, [task[p] EXCEPT !.pc = "deleteHangup"])
          /\ UNCHANGED <<bridgeVars, mixerRunning>>
    /\ UNCHANGED <<rooms, bridges, idOf, roomVars, up>>

(* Everyone in the room at this moment is hung up...                         *)
DeleteHangup(p) ==
    /\ At(p, "deleteHangup")
    /\ up' = up \ participants[task[p].src]
    /\ Goto(p, [task[p] EXCEPT !.pc = "deleteClose"])
    /\ UNCHANGED <<rooms, bridges, idOf, roomVars, bridgeVars, mixerRunning>>

MutCloseKeepsRoomID(o) == UNCHANGED roomID   \* mutant: legs keep their room

ClearRoomIDs(o) ==
    roomID' = [l \in Legs |-> IF l \in participants[o] THEN None ELSE roomID[l]]

MutCloseLeavesMixer(o) == UNCHANGED mixerRunning   \* mutant

StopMixer(o) == mixerRunning' = [mixerRunning EXCEPT ![o] = FALSE]

(* ... and Close stops the mixer, whatever still refers to the room.         *)
DeleteClose(p) ==
    LET o == task[p].src IN
    /\ At(p, "deleteClose")
    /\ ClearRoomIDs(o)
    /\ participants' = [participants EXCEPT ![o] = {}]
    /\ StopMixer(o)
    /\ Done(p)
    /\ UNCHANGED <<rooms, bridges, idOf, legParts, mixLeg, lastPart, bridgeVars, up>>
-----------------------------------------------------------------------------
(* CreateBridge: validated and registered under m.mu, then wired room by     *)
(* room.                                                                     *)
Bridged(i, j) == \E b \in BridgeIDs : Touches(b, i) /\ Touches(b, j)

CreateBridgeStart(p, b, i, j, dir) ==
    /\ ~ Running(p) /\ bridges[b] = None
    /\ i # j /\ rooms[i] # None /\ rooms[j] # None /\ ~ Bridged(i, j)
    /\ Clear({}, {b})
    /\ orderly => \A q \in Procs : \A t \in task[q].torn : t.br # b
    /\ bridges' = [bridges EXCEPT ![b] = [a |-> i, b |-> j, dir |-> dir]]
    /\ Goto(p, [Idle EXCEPT !.pc = "attachA", !.br = b, !.dir = dir,
                            !.src = rooms[i], !.dst = rooms[j]])
    /\ UNCHANGED <<rooms, idOf, roomVars, bridgeVars, mixerRunning, up>>

AttachBridge(o, b) ==
    /\ mixBridge' = [mixBridge EXCEPT ![o][b] = "send"]
    /\ bridgeRefs' = [bridgeRefs EXCEPT ![o] = @ + 1]
    /\ SyncMixer(o, participants[o], bridgeRefs[o] + 1)

AttachA(p) ==
    /\ At(p, "attachA")
    /\ AttachBridge(task[p].src, task[p].br)
    /\ Goto(p, [task[p] EXCEPT !.pc = "attachB"])
    /\ UNCHANGED <<rooms, bridges, idOf, roomVars, up>>

AttachB(p) ==
    /\ At(p, "attachB")
    /\ AttachBridge(task[p].dst, task[p].br)
    /\ Goto(p, [task[p] EXCEPT !.pc = "directA"])
    /\ UNCHANGED <<rooms, bridges, idOf, roomVars, up>>

(* setBridgeDirection: a participant that is not there is left alone.        *)
SetSends(o, b, sends) ==
    mixBridge' = [mixBridge EXCEPT ![o][b] =
                     IF @ = "absent" THEN @ ELSE IF sends THEN "send" ELSE "deaf"]

DirectA(p) ==
    /\ At(p, "directA")
    /\ SetSends(task[p].src, task[p].br, ASends(task[p].dir))
    /\ Goto(p, [task[p] EXCEPT !.pc = "directB"])
    /\ UNCHANGED <<rooms, bridges, idOf, roomVars, bridgeRefs, mixerRunning, up>>

MutDirectBLikeA(p) ==                 \* mutant: both rooms get the same flag
    /\ At(p, "directB")
    /\ SetSends(task[p].dst, task[p].br, ASends(task[p].dir))
    /\ Done(p)
    /\ UNCHANGED <<rooms, bridges, idOf, roomVars, bridgeRefs, mixerRunning, up>>

DirectB(p) ==
    /\ At(p, "directB")
    /\ SetSends(task[p].dst, task[p].br, BSends(task[p].dir))
    /\ Done(p)
    /\ UNCHANGED <<rooms, bridges, idOf, roomVars, bridgeRefs, mixerRunning, up>>

(* SetBridgeDirection: recorded under m.mu, applied to each mixer later.     *)
SetDirectionStart(p, b, dir) ==
    /\ ~ Running(p) /\ bridges[b] # None
    /\ Clear({}, {b})
    /\ bridges' = [bridges EXCEPT ![b].dir = dir]
    /\ Goto(p, [Idle EXCEPT !.pc = "directA", !.br = b, !.dir = dir,
                            !.src = rooms[bridges[b].a], !.dst = rooms[bridges[b].b]])
    /\ UNCHANGED <<rooms, idOf, roomVars, bridgeVars, mixerRunning, up>>

(* DeleteBridge: unregistered under m.mu, detached from each room later.     *)
Unregister(p, b) ==
    /\ bridges' = [bridges EXCEPT ![b] = None]
    /\ Goto(p, [Idle EXCEPT !.pc = "detachA", !.br = b,
                            !.src = rooms[bridges[b].a], !.dst = rooms[bridges[b].b]])

DeleteBridgeStart(p, b) ==
    /\ ~ Running(p) /\ bridges[b] # None
    /\ Clear({}, {b})
    /\ Unregister(p, b)
    /\ UNCHANGED <<rooms, idOf, roomVars, bridgeVars, mixerRunning, up>>

DetachA(p) ==
    /\ At(p, "detachA")
    /\ DetachBridge(task[p].src, task[p].br)
    /\ Goto(p, [task[p] EXCEPT !.pc = "detachB"])
    /\ UNCHANGED <<rooms, bridges, idOf, roomVars, up>>

DetachB(p) ==
    /\ At(p, "detachB")
    /\ DetachBridge(task[p].dst, task[p].br)
    /\ Done(p)
    /\ UNCHANGED <<rooms, bridges, idOf, roomVars, up>>

(* A bridge endpoint's mixer loop panics: the goroutine it starts deletes    *)
(* whatever bridge has that ID by then.                                      *)
BridgeLoopPanic(p, o, b) ==
    /\ ~ Running(p) /\ mixBridge[o][b] # "absent"
    /\ Clear({}, {b})
    /\ mixBridge' = [mixBridge EXCEPT ![o][b] = "absent"]
    /\ Goto(p, [Idle EXCEPT !.pc = "panicBridge", !.br = b])
    /\ UNCHANGED <<rooms, bridges, idOf, roomVars, bridgeRefs, mixerRunning, up>>

PanicBridgeDelete(p) ==
    LET b == task[p].br IN
    /\ At(p, "panicBridge")
    /\ \/ bridges[b] # None /\ Unregister(p, b)
       \/ bridges[b] = None /\ Done(p) /\ UNCHANGED bridges
    /\ UNCHANGED <<rooms, idOf, roomVars, bridgeVars, mixerRunning, up>>
-----------------------------------------------------------------------------
LegStart(p) ==
    \E i \in RoomIDs, l \in Legs :
        \/ AddLegStart(p, i, l)
        \/ RemoveLegStart(p, i, l)
        \/ \E j \in RoomIDs : MoveLegStart(p, i, j, l)

LegStep(p) ==
    \/ AddLegFinish(p) \/ RemoveLegFinish(p)
    \/ MoveLegTarget(p) \/ MoveLegDetach(p)
    \/ HangupFirst(p) \/ Cleanup(p) \/ CleanupLookup(p) \/ CleanupRemove(p)
    \/ Hangup(p) \/ PanicLegLookup(p) \/ PanicLegRemove(p)

DeleteRoom(p) ==
    \/ \E i \in RoomIDs : DeleteStart(p, i)
    \/ DeleteUnbridge(p) \/ DeleteHangup(p) \/ DeleteClose(p)

BridgeStart(p) ==
    \E b \in BridgeIDs :
        \/ DeleteBridgeStart(p, b)
        \/ \E dir \in Dirs :
              \/ SetDirectionStart(p, b, dir)
              \/ \E i, j \in RoomIDs : CreateBridgeStart(p, b, i, j, dir)

BridgeStep(p) ==
    \/ AttachA(p) \/ AttachB(p) \/ DirectA(p) \/ DirectB(p)
    \/ DetachA(p) \/ DetachB(p) \/ PanicBridgeDelete(p)

Panic(p) ==
    \E o \in Rooms :
        \/ \E l \in Legs : LegLoopPanic(p, o, l)
        \/ \E b \in BridgeIDs : BridgeLoopPanic(p, o, b)

Next ==
    /\ UNCHANGED orderly
    /\ \/ \E o \in Rooms, i \in RoomIDs : CreateRoom(o, i)
       \/ \E o \in Rooms, l \in Legs : RebuildLegMedia(o, l)
       \/ \E p \in Procs :
             \/ LegStart(p) \/ LegStep(p) \/ (\E l \in Legs : LegEnds(p, l))
             \/ DeleteRoom(p) \/ BridgeStart(p) \/ BridgeStep(p) \/ Panic(p)

Spec == Init /\ [][Next]_vars
-----------------------------------------------------------------------------
PCs ==
    {"idle", "addLeg", "moveTarget", "moveDetach", "removeLeg",
     "cleanup", "hangupFirst", "endLookup", "endRemove", "hangup",
     "panicLeg", "panicRemove", "unbridge", "deleteHangup", "deleteClose",
     "attachA", "attachB", "directA", "directB", "detachA", "detachB",
     "panicBridge"}

TaskType ==
    [pc : PCs,
     leg : Legs \cup {None}, src : Rooms \cup {None}, dst : Rooms \cup {None},
     id : RoomIDs \cup {None}, br : BridgeIDs \cup {None}, dir : Directions,
     part : 0..MaxParts, torn : SUBSET [br : BridgeIDs, peer : Rooms]]

(* Type invariant; a reference count is never negative (room.go:459-461).    *)
TypeOK ==
    /\ rooms \in [RoomIDs -> Rooms \cup {None}]
    /\ bridges \in [BridgeIDs -> Bridge \cup {None}]
    /\ idOf \in [Rooms -> RoomIDs \cup {None}]
    /\ participants \in [Rooms -> SUBSET Legs]
    /\ legParts \in [Rooms -> [Legs -> 0..MaxParts]]
    /\ mixLeg \in [Rooms -> [Legs -> 0..MaxParts]]
    /\ mixBridge \in [Rooms -> [BridgeIDs -> {"absent", "send", "deaf"}]]
    /\ bridgeRefs \in [Rooms -> Nat]
    /\ mixerRunning \in [Rooms -> BOOLEAN]
    /\ roomID \in [Legs -> RoomIDs \cup {None}]
    /\ up \subseteq Legs
    /\ lastPart \in 0..MaxParts
    /\ task \in [Procs -> TaskType]
    /\ orderly \in BOOLEAN

(* A registered bridge joins two different rooms that are both registered,   *)
(* and no two bridges join the same two, however bridge and room operations  *)
(* interleave: Delete unregisters the bridges of its room with the room.     *)
BridgesJoinLiveRooms ==
    \A b \in BridgeIDs : bridges[b] # None =>
        LET i == bridges[b].a  j == bridges[b].b IN
        /\ i # j /\ rooms[i] # None /\ rooms[j] # None
        /\ \A c \in BridgeIDs \ {b} : ~ (Touches(c, i) /\ Touches(c, j))

(* The mixer of a room ticks exactly while it has a leg or a bridge          *)
(* reference, a deleted room's mixer excepted only for the references left:  *)
(* no order of joins, moves, panics and teardowns starves or orphans it.     *)
MixerFollowsRoom ==
    \A o \in Live : mixerRunning[o] <=> ShouldRun(participants[o], bridgeRefs[o])

(* A leg that says it is in a room is a participant of some room made under  *)
(* that ID: nothing that ends, moves or deletes leaves l.RoomID() behind.    *)
RoomIDIsBacked ==
    \A l \in Legs : roomID[l] # None =>
        \E o \in Rooms : idOf[o] = roomID[l] /\ l \in participants[o]

PanicPending(l, part) ==
    \E p \in Procs : /\ task[p].pc \in {"panicLeg", "panicRemove"}
                     /\ task[p].leg = l /\ task[p].part = part

(* The instance the room believes carries a leg still up is the one in its mixer, or  *)
(* it has panicked and its teardown is still to come; and a leg outside the  *)
(* room is not heard in it.                                                  *)
AudioPathMatchesMembership ==
    \A o \in Live, l \in Legs :
        IF l \in participants[o]
        THEN l \in up /\ legParts[o][l] \notin {0, mixLeg[o][l]}
                => PanicPending(l, legParts[o][l])
        ELSE mixLeg[o][l] = 0

(* The asynchronous teardown of a panicked leg never takes a leg whose       *)
(* healthy participant is in the room's mixer (room.go:366-370).             *)
HealthyAudioSurvivesPanic ==
    [][\A p \in Procs, o \in Rooms, l \in Legs :
          PanicLegRemove(p) /\ l \in participants[o] /\ l \notin participants'[o]
              => mixLeg[o][l] \in {0, task[p].part}]_vars

-----------------------------------------------------------------------------
(* What holds when callers do not overlap operations on one leg, bridge or   *)
(* room.                                                                     *)

(* A leg is in one room at a time.                                           *)
OneRoomPerLeg ==
    \A l \in Legs : Cardinality({o \in Live : l \in participants[o]}) <= 1

(* Who still owes a room an attach or a detach.                              *)
ToAttach(o, b) ==
    \E p \in Procs : task[p].br = b /\
        \/ At(p, "attachA") /\ o \in {task[p].src, task[p].dst}
        \/ At(p, "attachB") /\ o = task[p].dst

ToDetach(o, b) ==
    \E p \in Procs :
        \/ task[p].br = b /\ At(p, "detachA") /\ o \in {task[p].src, task[p].dst}
        \/ task[p].br = b /\ At(p, "detachB") /\ o = task[p].dst
        \/ [br |-> b, peer |-> o] \in task[p].torn

(* Every reference a live room's mixer counts is a registered bridge wired   *)
(* to it, or one about to be given back: none is leaked, none lost.          *)
RefsMatchBridges ==
    \A o \in Live :
        bridgeRefs[o] = Cardinality({b \in BridgeIDs :
                            \/ Touches(b, idOf[o]) /\ ~ ToAttach(o, b)
                            \/ ToDetach(o, b)})

(* What a bridge's direction says is what both mixers do, once no operation  *)
(* on the bridge is under way.                                               *)
DirectionIsApplied ==
    \A b \in BridgeIDs :
        LET br == bridges[b]  says(sends) == IF sends THEN "send" ELSE "deaf" IN
        br # None /\ (\A p \in Procs : task[p].br # b) =>
            /\ mixBridge[rooms[br.a]][b] = says(ASends(br.dir))
            /\ mixBridge[rooms[br.b]][b] = says(BSends(br.dir))

(* A deleted room is inert: no leg in it and no mixer ticking.               *)
NoZombieMixer ==
    \A o \in Rooms \ Live :
        (\A p \in Procs : o \notin {task[p].src, task[p].dst})
            => participants[o] = {} /\ ~ mixerRunning[o]

(* Where callers keep their operations on one leg apart, a leg is in one     *)
(* room at a time, and a deleted room has neither legs nor a running mixer   *)
(* (manager.go: MoveLeg, Delete; room.go: Close).                            *)
OrderlyRooms == orderly => OneRoomPerLeg /\ NoZombieMixer

(* Where callers keep their operations on one bridge apart, every reference  *)
(* a mixer counts is a bridge's, and both mixers do what the direction says  *)
(* (manager.go: CreateBridge, SetBridgeDirection; bridge.go).                *)
OrderlyBridges == orderly => RefsMatchBridges /\ DirectionIsApplied

(* Does not hold where a delete comes between CreateBridge's registration    *)
(* and its attach; room.go:439-440 says a reference "keeps the mixer alive   *)
(* while the bridge exists".                                                 *)
BridgeKeepsMixerAlive ==
    \A o \in Live, b \in BridgeIDs :
        Touches(b, idOf[o]) /\ mixBridge[o][b] # "absent" => mixerRunning[o]
=============================================================================
