------------------------- MODULE RoomManagerProofs -------------------------
(***************************************************************************)
(* What holds of the room manager for any number of rooms, legs, bridges   *)
(* and goroutines, with and without overlapping callers.  Every step is    *)
(* first reduced to what it does to the goroutine that takes it (TaskStep),*)
(* to the registries (RegistryStep) and to one room (DataStep); each       *)
(* invariant then follows from those.                                      *)
(***************************************************************************)
EXTENDS RoomManager, FiniteSetTheorems, TLAPS

-----------------------------------------------------------------------------
(* The inductive invariant.                                                *)

HasLeg == {"addLeg", "moveTarget", "moveDetach", "removeLeg", "cleanup",
           "hangupFirst", "endLookup", "endRemove", "hangup", "panicLeg",
           "panicRemove"}
HasSrc == {"moveTarget", "moveDetach", "removeLeg", "endRemove", "panicRemove",
           "unbridge", "deleteHangup", "deleteClose", "attachA", "attachB",
           "directA", "directB", "detachA", "detachB"}
HasDst == {"addLeg", "moveDetach", "attachA", "attachB", "directA", "directB",
           "detachA", "detachB"}
HasID == {"moveTarget", "endLookup", "panicLeg"}
HasBridge == {"attachA", "attachB", "directA", "directB", "detachA", "detachB",
              "panicBridge"}
Deleting == {"unbridge", "deleteHangup", "deleteClose"}

(* A goroutine has at hand what its next section needs...                  *)
TaskOK(t) ==
    /\ t.pc \in HasLeg => t.leg # None
    /\ t.pc \in HasSrc => t.src # None
    /\ t.pc \in HasDst => t.dst # None
    /\ t.pc \in HasID => t.id # None
    /\ t.pc \in HasBridge => t.br # None

(* ... and the rooms it holds were allocated; one it deletes is registered *)
(* nowhere.                                                                *)
Holds(t, reg, ids) ==
    /\ t.src # None => ids[t.src] # None
    /\ t.dst # None => ids[t.dst] # None
    /\ \A x \in t.torn : ids[x.peer] # None
    /\ t.pc \in Deleting => \A i \in RoomIDs : reg[i] # t.src

TasksOK == \A p \in Procs : TaskOK(task[p]) /\ Holds(task[p], rooms, idOf)

RoomsUnderTheirID == \A i \in RoomIDs : rooms[i] # None => idOf[rooms[i]] = i

(* A room not yet allocated is blank.                                      *)
FreshRoomsBlank ==
    \A o \in Rooms : idOf[o] = None =>
        /\ participants[o] = {} /\ bridgeRefs[o] = 0 /\ ~ mixerRunning[o]
        /\ \A l \in Legs : mixLeg[o][l] = 0

IInv == /\ TypeOK /\ TasksOK /\ RoomsUnderTheirID /\ FreshRoomsBlank
        /\ BridgesJoinLiveRooms /\ MixerFollowsRoom /\ RoomIDIsBacked

-----------------------------------------------------------------------------
(* What a step does.                                                       *)

TaskStep ==
    \/ UNCHANGED task
    \/ \E p \in Procs, t \in TaskType : 
          TaskOK(t) /\ Holds(t, rooms', idOf') /\ Goto(p, t)

RegistryStep ==
    \/ UNCHANGED <<rooms, bridges, idOf>>
    \/ \E o \in Rooms, i \in RoomIDs :
          rooms[i] = None /\ Allocate(o, i) /\ UNCHANGED bridges
    \/ \E i \in RoomIDs : /\ rooms' = [rooms EXCEPT ![i] = None]
                          /\ bridges' = WithoutBridgesOf(i) /\ UNCHANGED idOf
    \/ \E b \in BridgeIDs, i, j \in RoomIDs, dir \in Directions :
          /\ i # j /\ rooms[i] # None /\ rooms[j] # None /\ ~ Bridged(i, j)
          /\ bridges' = [bridges EXCEPT ![b] = [a |-> i, b |-> j, dir |-> dir]]
          /\ UNCHANGED <<rooms, idOf>>
    \/ \E b \in BridgeIDs, dir \in Directions :
          /\ bridges[b] # None
          /\ bridges' = [bridges EXCEPT ![b].dir = dir]
          /\ UNCHANGED <<rooms, idOf>>
    \/ \E b \in BridgeIDs : /\ bridges' = [bridges EXCEPT ![b] = None]
                            /\ UNCHANGED <<rooms, idOf>>

(* Only the room o of a section changes, and it is an allocated one.       *)
JoinStep(o, l, part) ==
    /\ AddLegLocked(o, l, part)
    /\ SyncMixer(o, participants[o] \cup {l}, bridgeRefs[o])
    /\ UNCHANGED bridgeVars

LeaveStep(o, l) == RoomRemoveLeg(o, l) /\ UNCHANGED bridgeVars

MediaStep(o, l, part) ==
    /\ mixLeg' = [mixLeg EXCEPT ![o][l] = part]
    /\ legParts' = [legParts EXCEPT ![o][l] = part] \/ UNCHANGED legParts
    /\ lastPart' \in {lastPart, part}
    /\ UNCHANGED mixerRunning \/ SyncMixer(o, participants[o], bridgeRefs[o])
    /\ UNCHANGED <<participants, roomID, bridgeVars>>

RefStep(o, b, sends, refs) ==
    /\ mixBridge' = [mixBridge EXCEPT ![o][b] = sends]
    /\ bridgeRefs' = [bridgeRefs EXCEPT ![o] = refs]
    /\ SyncMixer(o, participants[o], refs)
    /\ UNCHANGED roomVars

CloseStep(o) ==
    /\ ClearRoomIDs(o) /\ StopMixer(o)
    /\ participants' = [participants EXCEPT ![o] = {}]
    /\ UNCHANGED <<legParts, mixLeg, lastPart, bridgeVars>>

SectionStep(o) ==
    \/ \E l \in Legs, part \in NewPart : JoinStep(o, l, part)
    \/ \E l \in Legs : LeaveStep(o, l)
    \/ \E l \in Legs, part \in NewPart : MediaStep(o, l, part)
    \/ \E b \in BridgeIDs, sends \in {"absent", "send"}, refs \in Nat :
          RefStep(o, b, sends, refs)
    \/ (\A i \in RoomIDs : rooms[i] # o) /\ CloseStep(o)

DataStep ==
    /\ up' \subseteq up
    /\ \/ /\ UNCHANGED <<roomVars, bridgeRefs, mixerRunning>>
          /\ mixBridge' \in [Rooms -> [BridgeIDs -> {"absent", "send", "deaf"}]]
       \/ \E o \in Rooms : idOf[o] # None /\ SectionStep(o)

-----------------------------------------------------------------------------
(* What a goroutine about to enter a section holds.                         *)
LEMMA Held ==
    ASSUME IInv, NEW p \in Procs
    PROVE  /\ task[p] \in TaskType
           /\ task[p].pc \in HasLeg => task[p].leg \in Legs
           /\ task[p].pc \in HasID => task[p].id \in RoomIDs
           /\ task[p].pc \in HasBridge => task[p].br \in BridgeIDs
           /\ task[p].pc \in HasSrc => /\ task[p].src \in Rooms
                                       /\ idOf[task[p].src] # None
           /\ task[p].pc \in HasDst => /\ task[p].dst \in Rooms
                                       /\ idOf[task[p].dst] # None
  BY DEF IInv, TypeOK, TaskType, TasksOK, TaskOK, Holds

(* A registered room is allocated, and no other ID names it.               *)
LEMMA Registered ==
    ASSUME IInv, NEW i \in RoomIDs, rooms[i] # None
    PROVE  /\ rooms[i] \in Rooms /\ idOf[rooms[i]] = i /\ idOf[rooms[i]] # None
           /\ \A j \in RoomIDs : rooms[j] = rooms[i] => j = i
  BY RoomManagerAssumption DEF RoomManagerAssumption, IInv, TypeOK, RoomsUnderTheirID

LEMMA IdleTask == Idle \in TaskType /\ TaskOK(Idle) /\ Holds(Idle, rooms', idOf')
  BY RoomManagerAssumption DEF RoomManagerAssumption, Idle, TaskType, PCs,
     Directions, TaskOK, Holds, HasLeg, HasSrc, HasDst, HasID, HasBridge, Deleting

LEMMA DoneStep ==
    ASSUME NEW p \in Procs, Done(p)
    PROVE  TaskStep
  BY IdleTask DEF Done, TaskStep


LEMMA AddLegStartEffects ==
    ASSUME IInv, NEW p \in Procs, NEW i \in RoomIDs, NEW l \in Legs, AddLegStart(p, i, l)
    PROVE  TaskStep /\ RegistryStep /\ DataStep
<1> DEFINE t == [Idle EXCEPT !.pc = "addLeg", !.leg = l, !.dst = rooms[i]]
<1>1. "addLeg" \in PCs
  BY DEF PCs
<1>2. t \in TaskType
  BY <1>1, IdleTask DEF IInv, TypeOK, TaskType, AddLegStart, At
<1>3. TaskOK(t)
  BY RoomManagerAssumption DEF RoomManagerAssumption, IInv, TypeOK, TaskType, TasksOK, AddLegStart, At, Idle,
     TaskOK, HasLeg, HasSrc, HasDst, HasID, HasBridge
<1>4. Holds(t, rooms', idOf')
  BY RoomManagerAssumption DEF RoomManagerAssumption, IInv, TypeOK, RoomsUnderTheirID, Holds, Deleting, Idle, AddLegStart
<1>5. RegistryStep /\ DataStep
  BY DEF IInv, TypeOK, AddLegStart, RegistryStep, DataStep, roomVars, bridgeVars, SetSends
<1>6. QED
  BY <1>2, <1>3, <1>4, <1>5 DEF TaskStep, AddLegStart

LEMMA RemoveLegStartEffects ==
    ASSUME IInv, NEW p \in Procs, NEW i \in RoomIDs, NEW l \in Legs, RemoveLegStart(p, i, l)
    PROVE  TaskStep /\ RegistryStep /\ DataStep
<1> DEFINE t == [Idle EXCEPT !.pc = "removeLeg", !.leg = l, !.src = rooms[i]]
<1>1. "removeLeg" \in PCs
  BY DEF PCs
<1>2. t \in TaskType
  BY <1>1, IdleTask DEF IInv, TypeOK, TaskType, RemoveLegStart, At
<1>3. TaskOK(t)
  BY RoomManagerAssumption DEF RoomManagerAssumption, IInv, TypeOK, TaskType, TasksOK, RemoveLegStart, At, Idle,
     TaskOK, HasLeg, HasSrc, HasDst, HasID, HasBridge
<1>4. Holds(t, rooms', idOf')
  BY RoomManagerAssumption DEF RoomManagerAssumption, IInv, TypeOK, RoomsUnderTheirID, Holds, Deleting, Idle, RemoveLegStart
<1>5. RegistryStep /\ DataStep
  BY DEF IInv, TypeOK, RemoveLegStart, RegistryStep, DataStep, roomVars, bridgeVars, SetSends
<1>6. QED
  BY <1>2, <1>3, <1>4, <1>5 DEF TaskStep, RemoveLegStart

LEMMA MoveLegStartEffects ==
    ASSUME IInv, NEW p \in Procs, NEW i \in RoomIDs, NEW j \in RoomIDs, NEW l \in Legs, MoveLegStart(p, i, j, l)
    PROVE  TaskStep /\ RegistryStep /\ DataStep
<1> DEFINE t == [Idle EXCEPT !.pc = "moveTarget", !.leg = l, !.src = rooms[i], !.id = j]
<1>1. "moveTarget" \in PCs
  BY DEF PCs
<1>2. t \in TaskType
  BY <1>1, IdleTask DEF IInv, TypeOK, TaskType, MoveLegStart, At
<1>3. TaskOK(t)
  BY RoomManagerAssumption DEF RoomManagerAssumption, IInv, TypeOK, TaskType, TasksOK, MoveLegStart, At, Idle,
     TaskOK, HasLeg, HasSrc, HasDst, HasID, HasBridge
<1>4. Holds(t, rooms', idOf')
  BY RoomManagerAssumption DEF RoomManagerAssumption, IInv, TypeOK, RoomsUnderTheirID, Holds, Deleting, Idle, MoveLegStart
<1>5. RegistryStep /\ DataStep
  BY DEF IInv, TypeOK, MoveLegStart, RegistryStep, DataStep, roomVars, bridgeVars, SetSends
<1>6. QED
  BY <1>2, <1>3, <1>4, <1>5 DEF TaskStep, MoveLegStart

LEMMA HangupFirstEffects ==
    ASSUME IInv, NEW p \in Procs, HangupFirst(p)
    PROVE  TaskStep /\ RegistryStep /\ DataStep
<1> DEFINE t == [task[p] EXCEPT !.pc = "cleanup"]
<1>1. "cleanup" \in PCs
  BY DEF PCs
<1>2. t \in TaskType
  BY <1>1, IdleTask DEF IInv, TypeOK, TaskType, HangupFirst, At
<1>3. TaskOK(t)
  BY RoomManagerAssumption DEF RoomManagerAssumption, IInv, TypeOK, TaskType, TasksOK, HangupFirst, At, Idle,
     TaskOK, HasLeg, HasSrc, HasDst, HasID, HasBridge
<1>4. Holds(t, rooms', idOf')
  BY DEF IInv, TypeOK, TaskType, TasksOK, Holds, Deleting, HangupFirst, At
<1>5. RegistryStep /\ DataStep
  BY DEF IInv, TypeOK, HangupFirst, RegistryStep, DataStep, roomVars, bridgeVars, SetSends
<1>6. QED
  BY <1>2, <1>3, <1>4, <1>5 DEF TaskStep, HangupFirst

LEMMA CleanupEffects ==
    ASSUME IInv, NEW p \in Procs, Cleanup(p)
    PROVE  TaskStep /\ RegistryStep /\ DataStep
<1> DEFINE t == [task[p] EXCEPT !.pc = IF roomID[task[p].leg] = None THEN "hangup"
                                             ELSE "endLookup",
                               !.id = roomID[task[p].leg]]
<1>1. "hangup" \in PCs /\ "endLookup" \in PCs
  BY DEF PCs
<1>2. t \in TaskType
  BY <1>1, IdleTask DEF IInv, TypeOK, TaskType, TasksOK, TaskOK, HasLeg, HasID, Cleanup, At
<1>3. TaskOK(t)
  BY RoomManagerAssumption DEF RoomManagerAssumption, IInv, TypeOK, TaskType, TasksOK, Cleanup, At, Idle,
     TaskOK, HasLeg, HasSrc, HasDst, HasID, HasBridge
<1>4. Holds(t, rooms', idOf')
  BY DEF IInv, TypeOK, TaskType, TasksOK, Holds, Deleting, Cleanup, At
<1>5. RegistryStep /\ DataStep
  BY DEF IInv, TypeOK, Cleanup, RegistryStep, DataStep, roomVars, bridgeVars, SetSends
<1>6. QED
  BY <1>2, <1>3, <1>4, <1>5 DEF TaskStep, Cleanup

LEMMA CleanupLookupEffects ==
    ASSUME IInv, NEW p \in Procs, CleanupLookup(p)
    PROVE  TaskStep /\ RegistryStep /\ DataStep
<1> DEFINE t == [task[p] EXCEPT !.pc = IF rooms[task[p].id] = None THEN "hangup"
                                             ELSE "endRemove",
                               !.id = None, !.src = rooms[task[p].id]]
<1>1. "hangup" \in PCs /\ "endRemove" \in PCs
  BY DEF PCs
<1>2. t \in TaskType
  BY <1>1, IdleTask DEF IInv, TypeOK, TaskType, TasksOK, TaskOK, HasLeg, HasID, CleanupLookup, At
<1>3. TaskOK(t)
  BY RoomManagerAssumption DEF RoomManagerAssumption, IInv, TypeOK, TaskType, TasksOK, CleanupLookup, At, Idle,
     TaskOK, HasLeg, HasSrc, HasDst, HasID, HasBridge
<1>4. Holds(t, rooms', idOf')
  BY RoomManagerAssumption DEF RoomManagerAssumption, IInv, TypeOK, TaskType, TasksOK, TaskOK, HasID, Holds, RoomsUnderTheirID, Deleting, CleanupLookup, At
<1>5. RegistryStep /\ DataStep
  BY DEF IInv, TypeOK, CleanupLookup, RegistryStep, DataStep, roomVars, bridgeVars, SetSends
<1>6. QED
  BY <1>2, <1>3, <1>4, <1>5 DEF TaskStep, CleanupLookup

LEMMA DirectAEffects ==
    ASSUME IInv, NEW p \in Procs, DirectA(p)
    PROVE  TaskStep /\ RegistryStep /\ DataStep
<1> DEFINE t == [task[p] EXCEPT !.pc = "directB"]
<1>1. "directB" \in PCs
  BY DEF PCs
<1>2. t \in TaskType
  BY <1>1, IdleTask DEF IInv, TypeOK, TaskType, DirectA, At
<1>3. TaskOK(t)
  BY RoomManagerAssumption DEF RoomManagerAssumption, IInv, TypeOK, TaskType, TasksOK, DirectA, At, Idle,
     TaskOK, HasLeg, HasSrc, HasDst, HasID, HasBridge
<1>4. Holds(t, rooms', idOf')
  BY DEF IInv, TypeOK, TaskType, TasksOK, Holds, Deleting, DirectA, At
<1>5. RegistryStep /\ DataStep
  BY DEF IInv, TypeOK, DirectA, RegistryStep, DataStep, roomVars, bridgeVars, SetSends
<1>6. QED
  BY <1>2, <1>3, <1>4, <1>5 DEF TaskStep, DirectA

LEMMA AttachAEffects ==
    ASSUME IInv, NEW p \in Procs, AttachA(p)
    PROVE  TaskStep /\ RegistryStep /\ DataStep
<1> DEFINE t == [task[p] EXCEPT !.pc = "attachB"]
<1>1. "attachB" \in PCs
  BY DEF PCs
<1>2. t \in TaskType
  BY <1>1, IdleTask DEF IInv, TypeOK, TaskType, AttachA, At
<1>3. TaskOK(t)
  BY RoomManagerAssumption DEF RoomManagerAssumption, IInv, TypeOK, TaskType, TasksOK, AttachA, At, Idle,
     TaskOK, HasLeg, HasSrc, HasDst, HasID, HasBridge
<1>4. Holds(t, rooms', idOf')
  BY DEF IInv, TypeOK, TaskType, TasksOK, Holds, Deleting, AttachA, At
<1>5. RegistryStep /\ DataStep
  <2>1. task[p].src \in Rooms /\ idOf[task[p].src] # None /\ task[p].br \in BridgeIDs
    BY Held DEF AttachA, At, HasSrc, HasDst, HasBridge
  <2>2. RefStep(task[p].src, task[p].br, "send", bridgeRefs[task[p].src] + 1)
    BY DEF AttachA, AttachBridge, RefStep
  <2>3. bridgeRefs[task[p].src] + 1 \in Nat
    BY <2>1 DEF IInv, TypeOK
  <2>4. QED
    BY <2>1, <2>2, <2>3 DEF AttachA, RegistryStep, DataStep, SectionStep
<1>6. QED
  BY <1>2, <1>3, <1>4, <1>5 DEF TaskStep, AttachA

LEMMA AttachBEffects ==
    ASSUME IInv, NEW p \in Procs, AttachB(p)
    PROVE  TaskStep /\ RegistryStep /\ DataStep
<1> DEFINE t == [task[p] EXCEPT !.pc = "directA"]
<1>1. "directA" \in PCs
  BY DEF PCs
<1>2. t \in TaskType
  BY <1>1, IdleTask DEF IInv, TypeOK, TaskType, AttachB, At
<1>3. TaskOK(t)
  BY RoomManagerAssumption DEF RoomManagerAssumption, IInv, TypeOK, TaskType, TasksOK, AttachB, At, Idle,
     TaskOK, HasLeg, HasSrc, HasDst, HasID, HasBridge
<1>4. Holds(t, rooms', idOf')
  BY DEF IInv, TypeOK, TaskType, TasksOK, Holds, Deleting, AttachB, At
<1>5. RegistryStep /\ DataStep
  <2>1. task[p].dst \in Rooms /\ idOf[task[p].dst] # None /\ task[p].br \in BridgeIDs
    BY Held DEF AttachB, At, HasSrc, HasDst, HasBridge
  <2>2. RefStep(task[p].dst, task[p].br, "send", bridgeRefs[task[p].dst] + 1)
    BY DEF AttachB, AttachBridge, RefStep
  <2>3. bridgeRefs[task[p].dst] + 1 \in Nat
    BY <2>1 DEF IInv, TypeOK
  <2>4. QED
    BY <2>1, <2>2, <2>3 DEF AttachB, RegistryStep, DataStep, SectionStep
<1>6. QED
  BY <1>2, <1>3, <1>4, <1>5 DEF TaskStep, AttachB

LEMMA DetachAEffects ==
    ASSUME IInv, NEW p \in Procs, DetachA(p)
    PROVE  TaskStep /\ RegistryStep /\ DataStep
<1> DEFINE t == [task[p] EXCEPT !.pc = "detachB"]
<1>1. "detachB" \in PCs
  BY DEF PCs
<1>2. t \in TaskType
  BY <1>1, IdleTask DEF IInv, TypeOK, TaskType, DetachA, At
<1>3. TaskOK(t)
  BY RoomManagerAssumption DEF RoomManagerAssumption, IInv, TypeOK, TaskType, TasksOK, DetachA, At, Idle,
     TaskOK, HasLeg, HasSrc, HasDst, HasID, HasBridge
<1>4. Holds(t, rooms', idOf')
  BY DEF IInv, TypeOK, TaskType, TasksOK, Holds, Deleting, DetachA, At
<1>5. RegistryStep /\ DataStep
  <2>1. task[p].src \in Rooms /\ idOf[task[p].src] # None /\ task[p].br \in BridgeIDs
    BY Held DEF DetachA, At, HasSrc, HasDst, HasBridge
  <2>2. RefStep(task[p].src, task[p].br, "absent", Unref(task[p].src))
    BY DEF DetachA, DetachBridge, RefStep
  <2>3. Unref(task[p].src) \in Nat
    BY <2>1 DEF IInv, TypeOK, Unref
  <2>4. QED
    BY <2>1, <2>2, <2>3 DEF DetachA, RegistryStep, DataStep, SectionStep
<1>6. QED
  BY <1>2, <1>3, <1>4, <1>5 DEF TaskStep, DetachA

LEMMA DirectBEffects ==
    ASSUME IInv, NEW p \in Procs, DirectB(p)
    PROVE  TaskStep /\ RegistryStep /\ DataStep
<1>1. TaskStep
  BY DoneStep DEF DirectB
<1>2. QED
  BY <1>1 DEF IInv, TypeOK, DirectB, RegistryStep, DataStep, roomVars, SetSends

LEMMA DetachBEffects ==
    ASSUME IInv, NEW p \in Procs, DetachB(p)
    PROVE  TaskStep /\ RegistryStep /\ DataStep
<1>1. TaskStep
  BY DoneStep DEF DetachB
<1>2. /\ task[p].dst \in Rooms /\ idOf[task[p].dst] # None
      /\ task[p].br \in BridgeIDs
  BY Held DEF DetachB, At, HasDst, HasBridge
<1>3. RefStep(task[p].dst, task[p].br, "absent", Unref(task[p].dst))
  BY DEF DetachB, DetachBridge, RefStep
<1>4. Unref(task[p].dst) \in Nat
  BY <1>2 DEF IInv, TypeOK, Unref
<1>5. QED
  BY <1>1, <1>2, <1>3, <1>4 DEF DetachB, RegistryStep, DataStep, SectionStep

LEMMA AddLegFinishEffects ==
    ASSUME IInv, NEW p \in Procs, AddLegFinish(p)
    PROVE  TaskStep /\ RegistryStep /\ DataStep
<1>1. TaskStep
  BY DoneStep DEF AddLegFinish
<1>2. /\ task[p].dst \in Rooms /\ idOf[task[p].dst] # None
      /\ task[p].leg \in Legs
  BY Held DEF AddLegFinish, At, HasDst, HasLeg
<1>3. \E part \in NewPart : JoinStep(task[p].dst, task[p].leg, part)
  BY DEF AddLegFinish, JoinStep
<1>4. QED
  BY <1>1, <1>2, <1>3 DEF AddLegFinish, RegistryStep, DataStep, SectionStep

LEMMA RemoveLegFinishEffects ==
    ASSUME IInv, NEW p \in Procs, RemoveLegFinish(p)
    PROVE  TaskStep /\ RegistryStep /\ DataStep
<1>1. TaskStep
  BY DoneStep DEF RemoveLegFinish
<1>2. /\ task[p].src \in Rooms /\ idOf[task[p].src] # None
      /\ task[p].leg \in Legs
  BY Held DEF RemoveLegFinish, At, HasSrc, HasLeg
<1>3. LeaveStep(task[p].src, task[p].leg)
  BY DEF RemoveLegFinish, LeaveStep
<1>4. QED
  BY <1>1, <1>2, <1>3 DEF RemoveLegFinish, RegistryStep, DataStep, SectionStep

LEMMA HangupEffects ==
    ASSUME IInv, NEW p \in Procs, Hangup(p)
    PROVE  TaskStep /\ RegistryStep /\ DataStep
<1>1. TaskStep
  BY DoneStep DEF Hangup
<1>2. QED
  BY <1>1 DEF IInv, TypeOK, Hangup, RegistryStep, DataStep, bridgeVars

LEMMA LegEndsEffects ==
    ASSUME IInv, NEW p \in Procs, NEW l \in Legs, LegEnds(p, l)
    PROVE  TaskStep /\ RegistryStep /\ DataStep
<1>1. PICK pc \in {"cleanup", "hangupFirst"} :
          Goto(p, [Idle EXCEPT !.pc = pc, !.leg = l])
  BY DEF LegEnds
<1> DEFINE t == [Idle EXCEPT !.pc = pc, !.leg = l]
<1>2. pc \in PCs
  BY DEF PCs
<1>3. t \in TaskType
  BY <1>2, IdleTask DEF TaskType
<1>4. TaskOK(t) /\ Holds(t, rooms', idOf')
  BY <1>1, RoomManagerAssumption DEF RoomManagerAssumption, TaskOK, Holds, Idle,
     HasLeg, HasSrc, HasDst, HasID, HasBridge, Deleting
<1>5. QED
  BY <1>1, <1>3, <1>4 DEF IInv, TypeOK, TaskStep, LegEnds, RegistryStep, DataStep,
     bridgeVars

LEMMA CleanupRemoveEffects ==
    ASSUME IInv, NEW p \in Procs, CleanupRemove(p)
    PROVE  TaskStep /\ RegistryStep /\ DataStep
<1> DEFINE t == [task[p] EXCEPT !.pc = "hangup", !.src = None]
<1>1. "hangup" \in PCs
  BY DEF PCs
<1>2. t \in TaskType
  BY <1>1, Held DEF TaskType
<1>3. TaskOK(t) /\ Holds(t, rooms', idOf')
  BY <1>2, Held DEF IInv, TasksOK, TaskOK, Holds, TaskType, CleanupRemove, At,
     HasLeg, HasSrc, HasDst, HasID, HasBridge, Deleting
<1>4. /\ task[p].src \in Rooms /\ idOf[task[p].src] # None
      /\ task[p].leg \in Legs
  BY Held DEF CleanupRemove, At, HasSrc, HasLeg
<1>5. LeaveStep(task[p].src, task[p].leg)
  BY DEF CleanupRemove, LeaveStep
<1>6. QED
  BY <1>2, <1>3, <1>4, <1>5 DEF CleanupRemove, TaskStep, RegistryStep, DataStep,
     SectionStep

LEMMA MoveLegDetachEffects ==
    ASSUME IInv, NEW p \in Procs, MoveLegDetach(p)
    PROVE  TaskStep /\ RegistryStep /\ DataStep
<1>1. /\ task[p].src \in Rooms /\ idOf[task[p].src] # None
      /\ task[p].leg \in Legs
  BY Held DEF MoveLegDetach, At, HasSrc, HasLeg
<1>2. CASE task[p].leg \in participants[task[p].src]
  <2> DEFINE t == [task[p] EXCEPT !.pc = "addLeg", !.src = None]
  <2>1. "addLeg" \in PCs
    BY DEF PCs
  <2>2. t \in TaskType
    BY <2>1, Held DEF TaskType
  <2>3. TaskOK(t) /\ Holds(t, rooms', idOf')
    BY <2>2, Held DEF IInv, TasksOK, TaskOK, Holds, TaskType, MoveLegDetach, At,
       HasLeg, HasSrc, HasDst, HasID, HasBridge, Deleting
  <2>4. LeaveStep(task[p].src, task[p].leg)
    BY <1>2 DEF MoveLegDetach, LeaveStep, RoomRemoveLeg
  <2>5. QED
    BY <1>1, <1>2, <2>2, <2>3, <2>4 DEF MoveLegDetach, TaskStep, RegistryStep,
       DataStep, SectionStep
<1>3. CASE task[p].leg \notin participants[task[p].src]
  <2>1. TaskStep
    BY <1>3, DoneStep DEF MoveLegDetach
  <2>2. QED
    BY <1>3, <2>1 DEF IInv, TypeOK, MoveLegDetach, RegistryStep, DataStep, bridgeVars
<1>4. QED
  BY <1>2, <1>3

LEMMA PanicLegRemoveEffects ==
    ASSUME IInv, NEW p \in Procs, PanicLegRemove(p)
    PROVE  TaskStep /\ RegistryStep /\ DataStep
<1>1. /\ task[p].src \in Rooms /\ idOf[task[p].src] # None
      /\ task[p].leg \in Legs
  BY Held DEF PanicLegRemove, At, HasSrc, HasLeg
<1>2. CASE StillCarriedBy(task[p].src, task[p].leg, task[p].part)
  <2> DEFINE t == [Idle EXCEPT !.pc = "hangupFirst", !.leg = task[p].leg]
  <2>1. "hangupFirst" \in PCs
    BY DEF PCs
  <2>2. t \in TaskType
    BY <1>1, <2>1, IdleTask DEF TaskType
  <2>3. TaskOK(t) /\ Holds(t, rooms', idOf')
    BY <1>1, RoomManagerAssumption DEF RoomManagerAssumption, TaskOK, Holds, Idle,
       HasLeg, HasSrc, HasDst, HasID, HasBridge, Deleting
  <2>4. LeaveStep(task[p].src, task[p].leg)
    BY <1>2 DEF PanicLegRemove, StillCarriedBy, LeaveStep, RoomRemoveLeg
  <2>5. Goto(p, t)
    BY <1>2 DEF PanicLegRemove
  <2>6. QED
    BY <1>1, <2>2, <2>3, <2>4, <2>5 DEF PanicLegRemove, TaskStep, RegistryStep,
       DataStep, SectionStep
<1>3. CASE ~ StillCarriedBy(task[p].src, task[p].leg, task[p].part)
  <2>1. TaskStep
    BY <1>3, DoneStep DEF PanicLegRemove
  <2>2. QED
    BY <1>3, <2>1 DEF IInv, TypeOK, PanicLegRemove, RegistryStep, DataStep, bridgeVars
<1>4. QED
  BY <1>2, <1>3

LEMMA PanicLegLookupEffects ==
    ASSUME IInv, NEW p \in Procs, PanicLegLookup(p)
    PROVE  TaskStep /\ RegistryStep /\ DataStep
<1> DEFINE o == rooms[task[p].id]
           t == [task[p] EXCEPT !.pc = "panicRemove", !.src = o, !.id = None]
<1>1. task[p].id \in RoomIDs /\ "panicRemove" \in PCs
  BY Held DEF PanicLegLookup, At, HasID, PCs
<1>2. CASE o # None /\ Goto(p, t)
  <2>1. t \in TaskType
    BY <1>1, Held DEF IInv, TypeOK, TaskType
  <2>2. TaskOK(t)
    BY <1>2, <2>1, Held DEF IInv, TasksOK, TaskOK, TaskType, PanicLegLookup, At,
       HasLeg, HasSrc, HasDst, HasID, HasBridge
  <2>3. Holds(t, rooms', idOf')
    BY <1>1, <1>2, Held, Registered DEF IInv, TasksOK, Holds, TaskType,
       PanicLegLookup, Deleting
  <2>4. QED
    BY <1>2, <2>1, <2>2, <2>3 DEF IInv, TypeOK, PanicLegLookup, TaskStep,
       RegistryStep, DataStep, bridgeVars
<1>3. CASE Done(p)
  BY <1>3, DoneStep DEF IInv, TypeOK, PanicLegLookup, RegistryStep, DataStep, bridgeVars
<1>4. QED
  BY <1>2, <1>3 DEF PanicLegLookup

LEMMA MoveLegTargetEffects ==
    ASSUME IInv, NEW p \in Procs, MoveLegTarget(p)
    PROVE  TaskStep /\ RegistryStep /\ DataStep
<1> DEFINE j == task[p].id
           t(o) == [task[p] EXCEPT !.pc = "moveDetach", !.dst = o, !.id = None]
<1>1. j \in RoomIDs /\ "moveDetach" \in PCs
  BY Held DEF MoveLegTarget, At, HasID, PCs
<1>2. ASSUME NEW o \in Rooms
      PROVE  t(o) \in TaskType /\ TaskOK(t(o))
  <2>1. t(o) \in TaskType
    BY <1>1, Held DEF TaskType
  <2>2. QED
    BY <2>1, Held, RoomManagerAssumption DEF RoomManagerAssumption, IInv, TasksOK,
       TaskOK, TaskType, MoveLegTarget, At, HasLeg, HasSrc, HasDst, HasID, HasBridge
<1>3. DataStep
  BY DEF IInv, TypeOK, MoveLegTarget, DataStep, bridgeVars
<1>4. CASE rooms[j] # None
  <2>1. Goto(p, t(rooms[j])) /\ UNCHANGED <<rooms, bridges, idOf>>
    BY <1>4 DEF MoveLegTarget
  <2>2. Holds(t(rooms[j]), rooms', idOf')
    BY <1>1, <1>4, <2>1, Held, Registered DEF IInv, TasksOK, Holds, TaskType, Deleting
  <2>3. QED
    BY <1>1, <1>2, <1>3, <1>4, <2>1, <2>2, Registered DEF TaskStep, RegistryStep
<1>5. CASE rooms[j] = None
  <2>1. PICK o \in Rooms : Allocate(o, j) /\ Goto(p, t(o))
    BY <1>5 DEF MoveLegTarget
  <2>2. Holds(t(o), rooms', idOf')
    <3>1. idOf'[o] # None /\ \A x \in Rooms \ {o} : idOf'[x] = idOf[x]
      BY <1>1, <2>1, RoomManagerAssumption DEF RoomManagerAssumption, IInv, TypeOK, Allocate
    <3>2. Holds(task[p], rooms, idOf) /\ task[p] \in TaskType
      BY Held DEF IInv, TasksOK
    <3>3. QED
      BY <3>1, <3>2 DEF Holds, TaskType, Deleting
  <2>3. QED
    BY <1>1, <1>2, <1>3, <1>5, <2>1, <2>2 DEF MoveLegTarget, TaskStep, RegistryStep
<1>6. QED
  BY <1>4, <1>5

LEMMA CreateRoomEffects ==
    ASSUME IInv, NEW o \in Rooms, NEW i \in RoomIDs, CreateRoom(o, i)
    PROVE  TaskStep /\ RegistryStep /\ DataStep
  BY DEF IInv, TypeOK, CreateRoom, TaskStep, RegistryStep, DataStep, bridgeVars

LEMMA RebuildLegMediaEffects ==
    ASSUME IInv, NEW o \in Rooms, NEW l \in Legs, RebuildLegMedia(o, l)
    PROVE  TaskStep /\ RegistryStep /\ DataStep
<1>1. idOf[o] # None
  BY DEF RebuildLegMedia, IInv, FreshRoomsBlank
<1>2. \E part \in NewPart : MediaStep(o, l, part)
  BY DEF RebuildLegMedia, MediaStep
<1>3. QED
  BY <1>1, <1>2 DEF RebuildLegMedia, TaskStep, RegistryStep, DataStep, SectionStep

LEMMA LegLoopPanicEffects ==
    ASSUME IInv, NEW p \in Procs, NEW o \in Rooms, NEW l \in Legs,
           LegLoopPanic(p, o, l)
    PROVE  TaskStep /\ RegistryStep /\ DataStep
<1> DEFINE t == [Idle EXCEPT !.pc = "panicLeg", !.leg = l, !.id = idOf[o],
                             !.part = mixLeg[o][l]]
<1>1. idOf[o] # None
  BY DEF LegLoopPanic, IInv, FreshRoomsBlank
<1>2. "panicLeg" \in PCs
  BY DEF PCs
<1>3. mixLeg[o][l] \in 0..MaxParts /\ idOf[o] \in RoomIDs
  BY <1>1 DEF IInv, TypeOK
<1>4. t \in TaskType
  BY <1>2, <1>3, IdleTask DEF TaskType
<1>5. TaskOK(t) /\ Holds(t, rooms', idOf')
  BY <1>1, RoomManagerAssumption DEF RoomManagerAssumption, TaskOK, Holds, Idle,
     HasLeg, HasSrc, HasDst, HasID, HasBridge, Deleting
<1>6. 0 \in NewPart /\ MediaStep(o, l, 0)
  BY DEF LegLoopPanic, MediaStep, NewPart, roomVars
<1>7. QED
  BY <1>1, <1>4, <1>5, <1>6 DEF LegLoopPanic, TaskStep, RegistryStep, DataStep,
     SectionStep

LEMMA BridgeLoopPanicEffects ==
    ASSUME IInv, NEW p \in Procs, NEW o \in Rooms, NEW b \in BridgeIDs,
           BridgeLoopPanic(p, o, b)
    PROVE  TaskStep /\ RegistryStep /\ DataStep
<1> DEFINE t == [Idle EXCEPT !.pc = "panicBridge", !.br = b]
<1>1. "panicBridge" \in PCs
  BY DEF PCs
<1>2. t \in TaskType
  BY <1>1, IdleTask DEF TaskType
<1>3. TaskOK(t) /\ Holds(t, rooms', idOf')
  BY RoomManagerAssumption DEF RoomManagerAssumption, TaskOK, Holds, Idle,
     HasLeg, HasSrc, HasDst, HasID, HasBridge, Deleting
<1>4. QED
  BY <1>2, <1>3 DEF IInv, TypeOK, BridgeLoopPanic, TaskStep, RegistryStep, DataStep

(* A registered bridge names two registered rooms, so the peer of a room   *)
(* being deleted is still there to be detached.                            *)
LEMMA Joined ==
    ASSUME IInv, NEW b \in BridgeIDs, bridges[b] # None
    PROVE  /\ bridges[b] \in Bridge
           /\ rooms[bridges[b].a] # None /\ rooms[bridges[b].b] # None
           /\ \A i \in RoomIDs : Peer(b, i) \in Rooms /\ idOf[Peer(b, i)] # None
<1>1. bridges[b] \in Bridge
  BY DEF IInv, TypeOK
<1>2. rooms[bridges[b].a] # None /\ rooms[bridges[b].b] # None
  BY DEF IInv, BridgesJoinLiveRooms
<1>3. bridges[b].a \in RoomIDs /\ bridges[b].b \in RoomIDs
  BY <1>1 DEF Bridge
<1>4. QED
  BY <1>1, <1>2, <1>3, Registered DEF Peer

LEMMA DeleteStartEffects ==
    ASSUME IInv, NEW p \in Procs, NEW i \in RoomIDs, DeleteStart(p, i)
    PROVE  TaskStep /\ RegistryStep /\ DataStep
<1> DEFINE torn == {[br |-> b, peer |-> Peer(b, i)] :
                       b \in {c \in BridgeIDs : Touches(c, i)}}
           t == [Idle EXCEPT !.pc = "unbridge", !.src = rooms[i], !.torn = torn]
<1>1. "unbridge" \in PCs
  BY DEF PCs
<1>2. rooms[i] \in Rooms /\ idOf[rooms[i]] # None
  BY Registered DEF DeleteStart
<1>3. \A x \in torn : x \in [br : BridgeIDs, peer : Rooms] /\ idOf[x.peer] # None
  BY Joined DEF Touches
<1>4. t \in TaskType
  BY <1>1, <1>2, <1>3, IdleTask DEF TaskType
<1>5. TaskOK(t)
  BY <1>2, RoomManagerAssumption DEF RoomManagerAssumption, TaskOK, Idle,
     HasLeg, HasSrc, HasDst, HasID, HasBridge
<1>6. rooms' = [rooms EXCEPT ![i] = None] /\ UNCHANGED idOf
  BY DEF DeleteStart
<1>7. \A k \in RoomIDs : rooms'[k] # rooms[i]
  BY <1>2, <1>6, Registered, RoomManagerAssumption DEF RoomManagerAssumption, IInv,
     TypeOK, DeleteStart
<1>8. t.src = rooms[i] /\ t.dst = None /\ t.torn = torn
  BY DEF Idle
<1> HIDE DEF t, torn
<1>9. Holds(t, rooms', idOf')
  BY <1>2, <1>3, <1>6, <1>7, <1>8 DEF Holds
<1>10. Goto(p, t)
  BY DEF DeleteStart, t, torn
<1>11. QED
  BY <1>4, <1>5, <1>9, <1>10 DEF IInv, TypeOK, DeleteStart, TaskStep, RegistryStep,
     DataStep, bridgeVars

LEMMA DeleteUnbridgeEffects ==
    ASSUME IInv, NEW p \in Procs, DeleteUnbridge(p)
    PROVE  TaskStep /\ RegistryStep /\ DataStep
<1>1. ASSUME NEW x \in task[p].torn, DetachBridge(x.peer, x.br),
             Goto(p, [task[p] EXCEPT !.torn = @ \ {x}])
      PROVE  TaskStep /\ RegistryStep /\ DataStep
  <2> DEFINE t == [task[p] EXCEPT !.torn = @ \ {x}]
  <2>1. t \in TaskType
    BY Held DEF TaskType
  <2>2. TaskOK(t) /\ Holds(t, rooms', idOf')
    BY <2>1, Held DEF IInv, TasksOK, TaskOK, Holds, TaskType, DeleteUnbridge
  <2>3. x.peer \in Rooms /\ idOf[x.peer] # None /\ x.br \in BridgeIDs
    BY Held DEF IInv, TasksOK, Holds, TaskType
  <2>4. RefStep(x.peer, x.br, "absent", Unref(x.peer))
    BY <1>1 DEF DetachBridge, RefStep, DeleteUnbridge
  <2>5. Unref(x.peer) \in Nat
    BY <2>3 DEF IInv, TypeOK, Unref
  <2>6. QED
    BY <1>1, <2>1, <2>2, <2>3, <2>4, <2>5 DEF DeleteUnbridge, TaskStep,
       RegistryStep, DataStep, SectionStep
<1>2. ASSUME Goto(p, [task[p] EXCEPT !.pc = "deleteHangup"]),
             UNCHANGED <<bridgeVars, mixerRunning>>
      PROVE  TaskStep /\ RegistryStep /\ DataStep
  <2> DEFINE t == [task[p] EXCEPT !.pc = "deleteHangup"]
  <2>1. "deleteHangup" \in PCs
    BY DEF PCs
  <2>2. t \in TaskType
    BY <2>1, Held DEF TaskType
  <2>3. TaskOK(t)
    BY <2>2, Held DEF IInv, TasksOK, TaskOK, TaskType, DeleteUnbridge, At,
       HasLeg, HasSrc, HasDst, HasID, HasBridge
  <2>4. Holds(t, rooms', idOf')
    BY <2>2, Held DEF IInv, TasksOK, Holds, TaskType, DeleteUnbridge, At, Deleting
  <2>5. QED
    BY <1>2, <2>2, <2>3, <2>4 DEF IInv, TypeOK, DeleteUnbridge, TaskStep,
       RegistryStep, DataStep, bridgeVars
<1>3. QED
  BY <1>1, <1>2 DEF DeleteUnbridge

LEMMA DeleteHangupEffects ==
    ASSUME IInv, NEW p \in Procs, DeleteHangup(p)
    PROVE  TaskStep /\ RegistryStep /\ DataStep
<1> DEFINE t == [task[p] EXCEPT !.pc = "deleteClose"]
<1>1. "deleteClose" \in PCs
  BY DEF PCs
<1>2. t \in TaskType
  BY <1>1, Held DEF TaskType
<1>3. TaskOK(t)
  BY <1>2, Held DEF IInv, TasksOK, TaskOK, TaskType, DeleteHangup, At,
     HasLeg, HasSrc, HasDst, HasID, HasBridge
<1>4. Holds(t, rooms', idOf')
  BY <1>2, Held DEF IInv, TasksOK, Holds, TaskType, DeleteHangup, At, Deleting
<1>5. QED
  BY <1>2, <1>3, <1>4 DEF IInv, TypeOK, DeleteHangup, TaskStep, RegistryStep,
     DataStep, bridgeVars

LEMMA DeleteCloseEffects ==
    ASSUME IInv, NEW p \in Procs, DeleteClose(p)
    PROVE  TaskStep /\ RegistryStep /\ DataStep
<1>1. TaskStep
  BY DoneStep DEF DeleteClose
<1>2. task[p].src \in Rooms /\ idOf[task[p].src] # None
  BY Held DEF DeleteClose, At, HasSrc
<1>3. \A i \in RoomIDs : rooms[i] # task[p].src
  BY DEF IInv, TasksOK, Holds, DeleteClose, At, Deleting
<1>4. CloseStep(task[p].src)
  BY DEF DeleteClose, CloseStep
<1>5. QED
  BY <1>1, <1>2, <1>3, <1>4 DEF DeleteClose, RegistryStep, DataStep, SectionStep

LEMMA CreateBridgeStartEffects ==
    ASSUME IInv, NEW p \in Procs, NEW b \in BridgeIDs, NEW i \in RoomIDs,
           NEW j \in RoomIDs, NEW dir \in Dirs, CreateBridgeStart(p, b, i, j, dir)
    PROVE  TaskStep /\ RegistryStep /\ DataStep
<1> DEFINE t == [Idle EXCEPT !.pc = "attachA", !.br = b, !.dir = dir,
                             !.src = rooms[i], !.dst = rooms[j]]
<1>1. "attachA" \in PCs /\ dir \in Directions
  BY RoomManagerAssumption DEF RoomManagerAssumption, PCs
<1>2. /\ rooms[i] \in Rooms /\ idOf[rooms[i]] # None
      /\ rooms[j] \in Rooms /\ idOf[rooms[j]] # None
  BY Registered DEF CreateBridgeStart
<1>3. t \in TaskType
  BY <1>1, <1>2, IdleTask DEF TaskType
<1>4. TaskOK(t) /\ Holds(t, rooms', idOf')
  BY <1>2, RoomManagerAssumption DEF RoomManagerAssumption, TaskOK, Holds, Idle,
     HasLeg, HasSrc, HasDst, HasID, HasBridge, Deleting, CreateBridgeStart
<1>5. RegistryStep
  BY <1>1 DEF CreateBridgeStart, RegistryStep
<1>6. QED
  BY <1>3, <1>4, <1>5 DEF IInv, TypeOK, CreateBridgeStart, TaskStep, DataStep,
     bridgeVars

LEMMA SetDirectionStartEffects ==
    ASSUME IInv, NEW p \in Procs, NEW b \in BridgeIDs, NEW dir \in Dirs,
           SetDirectionStart(p, b, dir)
    PROVE  TaskStep /\ RegistryStep /\ DataStep
<1> DEFINE i == bridges[b].a
           j == bridges[b].b
           t == [Idle EXCEPT !.pc = "directA", !.br = b, !.dir = dir,
                             !.src = rooms[i], !.dst = rooms[j]]
<1>1. "directA" \in PCs /\ dir \in Directions
  BY RoomManagerAssumption DEF RoomManagerAssumption, PCs
<1>2. i \in RoomIDs /\ j \in RoomIDs /\ rooms[i] # None /\ rooms[j] # None
  BY Joined DEF SetDirectionStart, Bridge
<1>3. /\ rooms[i] \in Rooms /\ idOf[rooms[i]] # None
      /\ rooms[j] \in Rooms /\ idOf[rooms[j]] # None
  BY <1>2, Registered
<1>4. t \in TaskType
  BY <1>1, <1>3, IdleTask DEF TaskType
<1>5. TaskOK(t) /\ Holds(t, rooms', idOf')
  BY <1>2, <1>3, RoomManagerAssumption DEF RoomManagerAssumption, TaskOK, Holds,
     Idle, HasLeg, HasSrc, HasDst, HasID, HasBridge, Deleting, SetDirectionStart
<1>6. RegistryStep
  BY <1>1 DEF SetDirectionStart, RegistryStep
<1>7. QED
  BY <1>4, <1>5, <1>6 DEF IInv, TypeOK, SetDirectionStart, TaskStep, DataStep,
     bridgeVars

LEMMA UnregisterEffects ==
    ASSUME IInv, NEW p \in Procs, NEW b \in BridgeIDs, bridges[b] # None,
           Unregister(p, b), UNCHANGED <<rooms, idOf>>
    PROVE  TaskStep /\ RegistryStep
<1> DEFINE i == bridges[b].a
           j == bridges[b].b
           t == [Idle EXCEPT !.pc = "detachA", !.br = b,
                             !.src = rooms[i], !.dst = rooms[j]]
<1>1. "detachA" \in PCs
  BY DEF PCs
<1>2. i \in RoomIDs /\ j \in RoomIDs /\ rooms[i] # None /\ rooms[j] # None
  BY Joined DEF Bridge
<1>3. /\ rooms[i] \in Rooms /\ idOf[rooms[i]] # None
      /\ rooms[j] \in Rooms /\ idOf[rooms[j]] # None
  BY <1>2, Registered
<1>4. t \in TaskType
  BY <1>1, <1>3, IdleTask DEF TaskType
<1>5. TaskOK(t) /\ Holds(t, rooms', idOf')
  BY <1>2, <1>3, RoomManagerAssumption DEF RoomManagerAssumption, TaskOK, Holds,
     Idle, HasLeg, HasSrc, HasDst, HasID, HasBridge, Deleting
<1>6. QED
  BY <1>4, <1>5 DEF Unregister, TaskStep, RegistryStep

LEMMA DeleteBridgeStartEffects ==
    ASSUME IInv, NEW p \in Procs, NEW b \in BridgeIDs, DeleteBridgeStart(p, b)
    PROVE  TaskStep /\ RegistryStep /\ DataStep
<1>1. TaskStep /\ RegistryStep
  BY UnregisterEffects DEF DeleteBridgeStart
<1>2. QED
  BY <1>1 DEF IInv, TypeOK, DeleteBridgeStart, DataStep, bridgeVars

LEMMA PanicBridgeDeleteEffects ==
    ASSUME IInv, NEW p \in Procs, PanicBridgeDelete(p)
    PROVE  TaskStep /\ RegistryStep /\ DataStep
<1>1. task[p].br \in BridgeIDs
  BY Held DEF PanicBridgeDelete, At, HasBridge
<1>2. DataStep
  BY DEF IInv, TypeOK, PanicBridgeDelete, DataStep, bridgeVars
<1>3. CASE bridges[task[p].br] # None
  BY <1>1, <1>2, <1>3, UnregisterEffects DEF PanicBridgeDelete
<1>4. CASE bridges[task[p].br] = None
  BY <1>2, <1>4, DoneStep DEF PanicBridgeDelete, RegistryStep
<1>5. QED
  BY <1>3, <1>4

LEMMA NextEffects ==
    ASSUME IInv, Next
    PROVE  TaskStep /\ RegistryStep /\ DataStep
<1>1. ASSUME NEW p \in Procs, LegStart(p)
      PROVE  TaskStep /\ RegistryStep /\ DataStep
  BY <1>1, AddLegStartEffects, RemoveLegStartEffects, MoveLegStartEffects DEF LegStart
<1>2. ASSUME NEW p \in Procs, LegStep(p)
      PROVE  TaskStep /\ RegistryStep /\ DataStep
  BY <1>2, AddLegFinishEffects, RemoveLegFinishEffects, MoveLegTargetEffects,
     MoveLegDetachEffects, HangupFirstEffects, CleanupEffects, CleanupLookupEffects,
     CleanupRemoveEffects, HangupEffects, PanicLegLookupEffects, PanicLegRemoveEffects
     DEF LegStep
<1>3. ASSUME NEW p \in Procs, DeleteRoom(p)
      PROVE  TaskStep /\ RegistryStep /\ DataStep
  BY <1>3, DeleteStartEffects, DeleteUnbridgeEffects, DeleteHangupEffects,
     DeleteCloseEffects DEF DeleteRoom
<1>4. ASSUME NEW p \in Procs, BridgeStart(p)
      PROVE  TaskStep /\ RegistryStep /\ DataStep
  BY <1>4, DeleteBridgeStartEffects, SetDirectionStartEffects,
     CreateBridgeStartEffects DEF BridgeStart
<1>5. ASSUME NEW p \in Procs, BridgeStep(p)
      PROVE  TaskStep /\ RegistryStep /\ DataStep
  BY <1>5, AttachAEffects, AttachBEffects, DirectAEffects, DirectBEffects,
     DetachAEffects, DetachBEffects, PanicBridgeDeleteEffects DEF BridgeStep
<1>6. ASSUME NEW p \in Procs, Panic(p)
      PROVE  TaskStep /\ RegistryStep /\ DataStep
  BY <1>6, LegLoopPanicEffects, BridgeLoopPanicEffects DEF Panic
<1>7. QED
  BY <1>1, <1>2, <1>3, <1>4, <1>5, <1>6, CreateRoomEffects, RebuildLegMediaEffects,
     LegEndsEffects DEF Next

-----------------------------------------------------------------------------
(* The registries.                                                         *)

LEMMA AllocateFacts ==
    ASSUME TypeOK, NEW o \in Rooms, NEW i \in RoomIDs, Allocate(o, i)
    PROVE  /\ rooms'[i] = o /\ idOf'[o] = i /\ i # None /\ o # None
           /\ \A j \in RoomIDs \ {i} : rooms'[j] = rooms[j]
           /\ \A x \in Rooms \ {o} : idOf'[x] = idOf[x]
           /\ rooms' \in [RoomIDs -> Rooms \cup {None}]
           /\ idOf' \in [Rooms -> RoomIDs \cup {None}]
  BY RoomManagerAssumption DEF RoomManagerAssumption, TypeOK, Allocate

LEMMA RegistryTypes ==
    ASSUME IInv, RegistryStep
    PROVE  /\ rooms' \in [RoomIDs -> Rooms \cup {None}]
           /\ bridges' \in [BridgeIDs -> Bridge \cup {None}]
           /\ idOf' \in [Rooms -> RoomIDs \cup {None}]
<1>1. TypeOK
  BY DEF IInv
<1>2. ASSUME NEW i \in RoomIDs
      PROVE  WithoutBridgesOf(i) \in [BridgeIDs -> Bridge \cup {None}]
  BY <1>1 DEF TypeOK, WithoutBridgesOf
<1>3. ASSUME NEW b \in BridgeIDs, bridges[b] # None, NEW dir \in Directions
      PROVE  [bridges EXCEPT ![b].dir = dir] \in [BridgeIDs -> Bridge \cup {None}]
  <2>1. [bridges[b] EXCEPT !.dir = dir] \in Bridge
    BY <1>1, <1>3 DEF TypeOK, Bridge
  <2>2. QED
    BY <1>1, <2>1 DEF TypeOK
<1>4. ASSUME NEW i \in RoomIDs, NEW j \in RoomIDs, NEW dir \in Directions
      PROVE  [a |-> i, b |-> j, dir |-> dir] \in Bridge
  BY DEF Bridge
<1>5. CASE UNCHANGED <<rooms, bridges, idOf>>
  BY <1>1, <1>5 DEF TypeOK
<1>6. CASE \E o \in Rooms, i \in RoomIDs : Allocate(o, i) /\ UNCHANGED bridges
  BY <1>1, <1>6, AllocateFacts DEF TypeOK
<1>7. CASE \E i \in RoomIDs : /\ rooms' = [rooms EXCEPT ![i] = None]
                              /\ bridges' = WithoutBridgesOf(i) /\ UNCHANGED idOf
  BY <1>1, <1>2, <1>7 DEF TypeOK
<1>8. CASE \E b \in BridgeIDs, i, j \in RoomIDs, dir \in Directions :
              /\ bridges' = [bridges EXCEPT ![b] = [a |-> i, b |-> j, dir |-> dir]]
              /\ UNCHANGED <<rooms, idOf>>
  BY <1>1, <1>4, <1>8 DEF TypeOK
<1>9. CASE \E b \in BridgeIDs, dir \in Directions :
              /\ bridges[b] # None
              /\ bridges' = [bridges EXCEPT ![b].dir = dir]
              /\ UNCHANGED <<rooms, idOf>>
  BY <1>1, <1>3, <1>9 DEF TypeOK
<1>10. CASE \E b \in BridgeIDs : /\ bridges' = [bridges EXCEPT ![b] = None]
                                 /\ UNCHANGED <<rooms, idOf>>
  BY <1>1, <1>10 DEF TypeOK
<1>11. QED
  BY <1>5, <1>6, <1>7, <1>8, <1>9, <1>10 DEF RegistryStep

(* No bridge outlives one of its rooms, and none is created twice.         *)
LEMMA BridgesStayJoined ==
    ASSUME IInv, RegistryStep
    PROVE  BridgesJoinLiveRooms'
<1>1. TypeOK /\ BridgesJoinLiveRooms
  BY DEF IInv
<1>2. CASE UNCHANGED <<rooms, bridges, idOf>>
  BY <1>1, <1>2 DEF BridgesJoinLiveRooms, Touches
<1>3. CASE \E o \in Rooms, i \in RoomIDs :
              rooms[i] = None /\ Allocate(o, i) /\ UNCHANGED bridges
  BY <1>1, <1>3, AllocateFacts DEF BridgesJoinLiveRooms, Touches, TypeOK, Bridge
<1>4. ASSUME NEW i \in RoomIDs, rooms' = [rooms EXCEPT ![i] = None],
             bridges' = WithoutBridgesOf(i)
      PROVE  BridgesJoinLiveRooms'
  BY <1>1, <1>4 DEF BridgesJoinLiveRooms, Touches, TypeOK, Bridge, WithoutBridgesOf
<1>5. ASSUME NEW c \in BridgeIDs, NEW i \in RoomIDs, NEW j \in RoomIDs,
             NEW dir \in Directions,
             i # j, rooms[i] # None, rooms[j] # None, ~ Bridged(i, j),
             bridges' = [bridges EXCEPT ![c] = [a |-> i, b |-> j, dir |-> dir]],
             UNCHANGED rooms
      PROVE  BridgesJoinLiveRooms'
  <2>1. /\ bridges'[c] = [a |-> i, b |-> j, dir |-> dir]
        /\ \A b \in BridgeIDs \ {c} : bridges'[b] = bridges[b]
    BY <1>1, <1>5 DEF TypeOK
  <2>2. QED
    BY <1>1, <1>5, <2>1 DEF BridgesJoinLiveRooms, Touches, Bridged
<1>6. ASSUME NEW c \in BridgeIDs, NEW dir \in Directions, bridges[c] # None,
             bridges' = [bridges EXCEPT ![c].dir = dir], UNCHANGED rooms
      PROVE  BridgesJoinLiveRooms'
  BY <1>1, <1>6 DEF BridgesJoinLiveRooms, Touches, TypeOK, Bridge
<1>7. ASSUME NEW c \in BridgeIDs, bridges' = [bridges EXCEPT ![c] = None],
             UNCHANGED rooms
      PROVE  BridgesJoinLiveRooms'
  BY <1>1, <1>7 DEF BridgesJoinLiveRooms, Touches, TypeOK
<1>8. QED
  BY <1>2, <1>3, <1>4, <1>5, <1>6, <1>7 DEF RegistryStep

LEMMA RoomsStayUnderTheirID ==
    ASSUME IInv, RegistryStep
    PROVE  RoomsUnderTheirID'
<1>1. TypeOK /\ RoomsUnderTheirID
  BY DEF IInv
<1>2. CASE UNCHANGED <<rooms, idOf>>
  BY <1>1, <1>2 DEF RoomsUnderTheirID
<1>3. ASSUME NEW o \in Rooms, NEW i \in RoomIDs, Allocate(o, i)
      PROVE  RoomsUnderTheirID'
  <2>1. idOf[o] = None
    BY <1>3 DEF Allocate
  <2>2. \A j \in RoomIDs : rooms[j] # o
    BY <2>1, Registered, RoomManagerAssumption DEF RoomManagerAssumption
  <2>3. QED
    BY <1>1, <1>3, <2>2, AllocateFacts, Registered DEF RoomsUnderTheirID
<1>4. ASSUME NEW i \in RoomIDs, rooms' = [rooms EXCEPT ![i] = None], UNCHANGED idOf
      PROVE  RoomsUnderTheirID'
  BY <1>1, <1>4 DEF RoomsUnderTheirID, TypeOK
<1>5. QED
  BY <1>2, <1>3, <1>4 DEF RegistryStep

(* A room once allocated stays so, and one that is deleted does not return.*)
LEMMA HoldingIsStable ==
    ASSUME IInv, RegistryStep, NEW t \in TaskType, TaskOK(t),
           Holds(t, rooms, idOf)
    PROVE  Holds(t, rooms', idOf')
<1>1. TypeOK /\ RoomsUnderTheirID
  BY DEF IInv
<1>2. CASE UNCHANGED <<rooms, idOf>>
  BY <1>2
<1>3. ASSUME NEW o \in Rooms, NEW i \in RoomIDs, Allocate(o, i)
      PROVE  Holds(t, rooms', idOf')
  <2>1. idOf[o] = None
    BY <1>3 DEF Allocate
  <2>2. t.pc \in Deleting => t.src # o
    BY <1>1, <2>1, RoomManagerAssumption DEF RoomManagerAssumption, Holds, TypeOK
  <2>3. QED
    BY <1>1, <1>3, <2>1, <2>2, AllocateFacts DEF Holds, TaskType
<1>4. ASSUME NEW i \in RoomIDs, rooms' = [rooms EXCEPT ![i] = None], UNCHANGED idOf
      PROVE  Holds(t, rooms', idOf')
  BY <1>1, <1>4 DEF Holds, TypeOK, TaskOK, Deleting, HasSrc
<1>5. QED
  BY <1>2, <1>3, <1>4 DEF RegistryStep

LEMMA TasksStayOK ==
    ASSUME IInv, TaskStep, RegistryStep
    PROVE  task' \in [Procs -> TaskType] /\ TasksOK'
<1>1. TypeOK /\ TasksOK
  BY DEF IInv
<1>2. \A p \in Procs : TaskOK(task[p]) /\ Holds(task[p], rooms', idOf')
  BY <1>1, HoldingIsStable DEF TypeOK, TasksOK
<1>3. CASE UNCHANGED task
  BY <1>1, <1>2, <1>3 DEF TypeOK, TasksOK
<1>4. ASSUME NEW p \in Procs, NEW t \in TaskType, TaskOK(t),
             Holds(t, rooms', idOf'), Goto(p, t)
      PROVE  task' \in [Procs -> TaskType] /\ TasksOK'
  <2>1. task' \in [Procs -> TaskType] /\ task'[p] = t
        /\ \A q \in Procs \ {p} : task'[q] = task[q]
    BY <1>1, <1>4 DEF TypeOK, Goto
  <2>2. QED
    BY <1>2, <1>4, <2>1 DEF TasksOK
<1>5. QED
  BY <1>3, <1>4 DEF TaskStep

-----------------------------------------------------------------------------
(* The rooms.                                                              *)

LEMMA SyncFacts ==
    ASSUME TypeOK, NEW o \in Rooms, NEW members, NEW refs,
           SyncMixer(o, members, refs)
    PROVE  /\ mixerRunning' \in [Rooms -> BOOLEAN]
           /\ mixerRunning'[o] <=> members # {} \/ refs > 0
           /\ \A x \in Rooms \ {o} : mixerRunning'[x] = mixerRunning[x]
<1>1. mixerRunning \in [Rooms -> BOOLEAN]
  BY DEF TypeOK
<1>2. mixerRunning' = [mixerRunning EXCEPT ![o] = ShouldRun(members, refs)]
  BY DEF SyncMixer
<1>3. ShouldRun(members, refs) \in BOOLEAN
      /\ (ShouldRun(members, refs) <=> members # {} \/ refs > 0)
  BY DEF ShouldRun
<1>4. QED
  BY <1>1, <1>2, <1>3, Zenon

(* What the three ways a room's membership changes do, room by room.       *)
LEMMA JoinFacts ==
    ASSUME TypeOK, NEW o \in Rooms, NEW l \in Legs, NEW part \in NewPart,
           idOf[o] # None, JoinStep(o, l, part)
    PROVE  /\ participants' \in [Rooms -> SUBSET Legs]
           /\ participants'[o] = participants[o] \cup {l}
           /\ \A x \in Rooms \ {o} : participants'[x] = participants[x]
           /\ roomID' \in [Legs -> RoomIDs \cup {None}]
           /\ roomID'[l] = idOf[o]
           /\ \A k \in Legs \ {l} : roomID'[k] = roomID[k]
           /\ legParts' \in [Rooms -> [Legs -> 0..MaxParts]]
           /\ mixLeg' \in [Rooms -> [Legs -> 0..MaxParts]]
           /\ \A x \in Rooms \ {o} : mixLeg'[x] = mixLeg[x]
           /\ lastPart' \in 0..MaxParts
           /\ UNCHANGED bridgeVars
<1>1. part \in 0..MaxParts
  BY RoomManagerAssumption DEF RoomManagerAssumption, TypeOK, NewPart
<1>2. /\ participants' \in [Rooms -> SUBSET Legs]
      /\ participants'[o] = participants[o] \cup {l}
      /\ \A x \in Rooms \ {o} : participants'[x] = participants[x]
  BY DEF TypeOK, JoinStep, AddLegLocked
<1>3. /\ roomID' \in [Legs -> RoomIDs \cup {None}]
      /\ roomID'[l] = idOf[o]
      /\ \A k \in Legs \ {l} : roomID'[k] = roomID[k]
  BY DEF TypeOK, JoinStep, AddLegLocked
<1>4. legParts' \in [Rooms -> [Legs -> 0..MaxParts]]
  BY <1>1 DEF TypeOK, JoinStep, AddLegLocked
<1>5. /\ mixLeg' \in [Rooms -> [Legs -> 0..MaxParts]]
      /\ \A x \in Rooms \ {o} : mixLeg'[x] = mixLeg[x]
  BY <1>1 DEF TypeOK, JoinStep, AddLegLocked
<1>6. QED
  BY <1>1, <1>2, <1>3, <1>4, <1>5 DEF TypeOK, JoinStep, AddLegLocked

LEMMA LeaveFacts ==
    ASSUME TypeOK, NEW o \in Rooms, NEW l \in Legs, LeaveStep(o, l)
    PROVE  /\ participants' \in [Rooms -> SUBSET Legs]
           /\ participants'[o] = participants[o] \ {l}
           /\ \A x \in Rooms \ {o} : participants'[x] = participants[x]
           /\ roomID' \in [Legs -> RoomIDs \cup {None}]
           /\ roomID'[l] = None \/ (roomID' = roomID /\ participants' = participants)
           /\ \A k \in Legs \ {l} : roomID'[k] = roomID[k]
           /\ legParts' \in [Rooms -> [Legs -> 0..MaxParts]]
           /\ mixLeg' \in [Rooms -> [Legs -> 0..MaxParts]]
           /\ \A x \in Rooms \ {o} : mixLeg'[x] = mixLeg[x]
           /\ lastPart' \in 0..MaxParts
           /\ UNCHANGED bridgeVars
<1>1. CASE l \in participants[o] /\ RemoveLegLocked(o, l)
  <2>1. 0 \in 0..MaxParts
    BY RoomManagerAssumption DEF RoomManagerAssumption
  <2>2. /\ participants' \in [Rooms -> SUBSET Legs]
        /\ participants'[o] = participants[o] \ {l}
        /\ \A x \in Rooms \ {o} : participants'[x] = participants[x]
    BY <1>1 DEF TypeOK, RemoveLegLocked
  <2>3. /\ roomID' \in [Legs -> RoomIDs \cup {None}]
        /\ roomID'[l] = None
        /\ \A k \in Legs \ {l} : roomID'[k] = roomID[k]
    BY <1>1 DEF TypeOK, RemoveLegLocked
  <2>4. legParts' \in [Rooms -> [Legs -> 0..MaxParts]]
    BY <1>1, <2>1 DEF TypeOK, RemoveLegLocked
  <2>5. /\ mixLeg' \in [Rooms -> [Legs -> 0..MaxParts]]
        /\ \A x \in Rooms \ {o} : mixLeg'[x] = mixLeg[x]
    BY <1>1, <2>1 DEF TypeOK, RemoveLegLocked
  <2>6. QED
    BY <1>1, <2>2, <2>3, <2>4, <2>5 DEF TypeOK, RemoveLegLocked, LeaveStep
<1>2. CASE l \notin participants[o] /\ UNCHANGED roomVars
  <2>1. participants[o] = participants[o] \ {l}
    BY <1>2
  <2>2. QED
    BY <1>2, <2>1 DEF TypeOK, LeaveStep, roomVars
<1>3. QED
  BY <1>1, <1>2 DEF LeaveStep, RoomRemoveLeg

LEMMA CloseFacts ==
    ASSUME TypeOK, NEW o \in Rooms, CloseStep(o)
    PROVE  /\ participants' \in [Rooms -> SUBSET Legs]
           /\ participants'[o] = {}
           /\ \A x \in Rooms \ {o} : participants'[x] = participants[x]
           /\ roomID' \in [Legs -> RoomIDs \cup {None}]
           /\ \A k \in Legs : roomID'[k] = IF k \in participants[o] THEN None
                                                                    ELSE roomID[k]
           /\ mixerRunning' \in [Rooms -> BOOLEAN]
           /\ ~ mixerRunning'[o]
           /\ \A x \in Rooms \ {o} : mixerRunning'[x] = mixerRunning[x]
           /\ UNCHANGED <<legParts, mixLeg, lastPart, bridgeVars>>
<1>1. mixerRunning' \in [Rooms -> BOOLEAN] /\ ~ mixerRunning'[o]
      /\ \A x \in Rooms \ {o} : mixerRunning'[x] = mixerRunning[x]
  <2>1. mixerRunning \in [Rooms -> BOOLEAN]
        /\ mixerRunning' = [mixerRunning EXCEPT ![o] = FALSE]
    BY DEF TypeOK, CloseStep, StopMixer
  <2>2. QED
    BY <2>1, Zenon
<1>2. QED
  BY <1>1 DEF TypeOK, CloseStep, ClearRoomIDs

LEMMA MediaFacts ==
    ASSUME TypeOK, NEW o \in Rooms, NEW l \in Legs, NEW part \in NewPart,
           MediaStep(o, l, part)
    PROVE  /\ legParts' \in [Rooms -> [Legs -> 0..MaxParts]]
           /\ mixLeg' \in [Rooms -> [Legs -> 0..MaxParts]]
           /\ \A x \in Rooms \ {o} : mixLeg'[x] = mixLeg[x]
           /\ lastPart' \in 0..MaxParts
           /\ UNCHANGED <<participants, roomID, bridgeVars>>
<1>1. part \in 0..MaxParts
  BY RoomManagerAssumption DEF RoomManagerAssumption, TypeOK, NewPart
<1>2. legParts' \in [Rooms -> [Legs -> 0..MaxParts]]
  <2>1. legParts \in [Rooms -> [Legs -> 0..MaxParts]]
    BY DEF TypeOK
  <2>2. CASE legParts' = [legParts EXCEPT ![o][l] = part]
    BY <1>1, <2>1, <2>2
  <2>3. CASE UNCHANGED legParts
    BY <2>1, <2>3
  <2>4. QED
    BY <2>2, <2>3 DEF MediaStep
<1>3. /\ mixLeg' \in [Rooms -> [Legs -> 0..MaxParts]]
      /\ \A x \in Rooms \ {o} : mixLeg'[x] = mixLeg[x]
  BY <1>1 DEF TypeOK, MediaStep
<1>4. QED
  BY <1>1, <1>2, <1>3 DEF TypeOK, MediaStep

LEMMA RefFacts ==
    ASSUME TypeOK, NEW o \in Rooms, NEW b \in BridgeIDs,
           NEW sends \in {"absent", "send"}, NEW refs \in Nat,
           RefStep(o, b, sends, refs)
    PROVE  /\ mixBridge' \in [Rooms -> [BridgeIDs -> {"absent", "send", "deaf"}]]
           /\ bridgeRefs' \in [Rooms -> Nat] /\ bridgeRefs'[o] = refs
           /\ \A x \in Rooms \ {o} : bridgeRefs'[x] = bridgeRefs[x]
           /\ UNCHANGED roomVars
<1>1. mixBridge' \in [Rooms -> [BridgeIDs -> {"absent", "send", "deaf"}]]
  BY DEF TypeOK, RefStep
<1>2. QED
  BY <1>1 DEF TypeOK, RefStep

RoomsTyped ==
    /\ participants \in [Rooms -> SUBSET Legs]
    /\ legParts \in [Rooms -> [Legs -> 0..MaxParts]]
    /\ mixLeg \in [Rooms -> [Legs -> 0..MaxParts]]
    /\ mixBridge \in [Rooms -> [BridgeIDs -> {"absent", "send", "deaf"}]]
    /\ bridgeRefs \in [Rooms -> Nat]
    /\ mixerRunning \in [Rooms -> BOOLEAN]
    /\ roomID \in [Legs -> RoomIDs \cup {None}]
    /\ up \subseteq Legs
    /\ lastPart \in 0..MaxParts

LEMMA RoomTypes ==
    ASSUME IInv, DataStep
    PROVE  RoomsTyped'
<1>1. TypeOK
  BY DEF IInv
<1>2. up' \subseteq Legs
  BY <1>1 DEF TypeOK, DataStep
<1>3. CASE /\ UNCHANGED <<roomVars, bridgeRefs, mixerRunning>>
           /\ mixBridge' \in [Rooms -> [BridgeIDs -> {"absent", "send", "deaf"}]]
  BY <1>1, <1>2, <1>3 DEF TypeOK, RoomsTyped, roomVars
<1>4. ASSUME NEW o \in Rooms, idOf[o] # None, NEW l \in Legs, NEW part \in NewPart,
             JoinStep(o, l, part)
      PROVE  RoomsTyped'
  <2>1. mixerRunning' \in [Rooms -> BOOLEAN]
    BY <1>1, <1>4, SyncFacts DEF JoinStep
  <2>2. QED
    BY <1>1, <1>2, <1>4, <2>1, JoinFacts DEF TypeOK, RoomsTyped, bridgeVars
<1>5. ASSUME NEW o \in Rooms, NEW l \in Legs, LeaveStep(o, l)
      PROVE  RoomsTyped'
  <2>1. mixerRunning' \in [Rooms -> BOOLEAN]
    BY <1>1, <1>5, SyncFacts DEF LeaveStep, RoomRemoveLeg
  <2>2. QED
    BY <1>1, <1>2, <1>5, <2>1, LeaveFacts DEF TypeOK, RoomsTyped, bridgeVars
<1>6. ASSUME NEW o \in Rooms, NEW l \in Legs, NEW part \in NewPart,
             MediaStep(o, l, part)
      PROVE  RoomsTyped'
  <2>1. mixerRunning' \in [Rooms -> BOOLEAN]
    BY <1>1, <1>6, SyncFacts DEF MediaStep, TypeOK
  <2>2. QED
    BY <1>1, <1>2, <1>6, <2>1, MediaFacts DEF TypeOK, RoomsTyped, bridgeVars
<1>7. ASSUME NEW o \in Rooms, NEW b \in BridgeIDs, NEW sends \in {"absent", "send"},
             NEW refs \in Nat, RefStep(o, b, sends, refs)
      PROVE  RoomsTyped'
  <2>1. mixerRunning' \in [Rooms -> BOOLEAN]
    BY <1>1, <1>7, SyncFacts DEF RefStep
  <2>2. QED
    BY <1>1, <1>2, <1>7, <2>1, RefFacts DEF TypeOK, RoomsTyped, roomVars
<1>8. ASSUME NEW o \in Rooms, CloseStep(o)
      PROVE  RoomsTyped'
  BY <1>1, <1>2, <1>8, CloseFacts DEF TypeOK, RoomsTyped, bridgeVars
<1>9. QED
  BY <1>3, <1>4, <1>5, <1>6, <1>7, <1>8 DEF DataStep, SectionStep

-----------------------------------------------------------------------------
(* The mixers.                                                             *)

InStep(o) == mixerRunning[o] <=> participants[o] # {} \/ bridgeRefs[o] > 0

BlankRoom(o) ==
    /\ participants[o] = {} /\ bridgeRefs[o] = 0 /\ ~ mixerRunning[o]
    /\ \A l \in Legs : mixLeg[o][l] = 0

Untouched(o) ==
    /\ participants'[o] = participants[o] /\ bridgeRefs'[o] = bridgeRefs[o]
    /\ mixerRunning'[o] = mixerRunning[o] /\ mixLeg'[o] = mixLeg[o]

(* A section leaves the mixer of its room in step, and touches no other    *)
(* room; Close, which stops the mixer regardless, only ever meets a room   *)
(* that is no longer registered.                                           *)
LEMMA SectionFacts ==
    ASSUME TypeOK, NEW o \in Rooms, idOf[o] # None, SectionStep(o)
    PROVE  /\ (\E i \in RoomIDs : rooms[i] = o) /\ InStep(o) => InStep(o)'
           /\ \A x \in Rooms \ {o} : Untouched(x)
<1>1. ASSUME NEW l \in Legs, NEW part \in NewPart, JoinStep(o, l, part)
      PROVE  InStep(o)' /\ \A x \in Rooms \ {o} : Untouched(x)
  <2>1. SyncMixer(o, participants[o] \cup {l}, bridgeRefs[o])
    BY <1>1 DEF JoinStep
  <2>2. /\ participants'[o] = participants[o] \cup {l}
        /\ \A x \in Rooms \ {o} :
              participants'[x] = participants[x] /\ mixLeg'[x] = mixLeg[x]
    BY <1>1, JoinFacts
  <2>3. bridgeRefs' = bridgeRefs
    BY <1>1 DEF JoinStep, bridgeVars
  <2>4. /\ mixerRunning'[o] <=> (participants[o] \cup {l} # {} \/ bridgeRefs[o] > 0)
        /\ \A x \in Rooms \ {o} : mixerRunning'[x] = mixerRunning[x]
    BY <2>1, SyncFacts
  <2>5. InStep(o)'
    BY <2>2, <2>3, <2>4 DEF InStep
  <2>6. \A x \in Rooms \ {o} : Untouched(x)
    BY <2>2, <2>3, <2>4 DEF Untouched
  <2>7. QED
    BY <2>5, <2>6
<1>2. ASSUME NEW l \in Legs, LeaveStep(o, l)
      PROVE  InStep(o)' /\ \A x \in Rooms \ {o} : Untouched(x)
  <2>1. SyncMixer(o, participants[o] \ {l}, bridgeRefs[o])
    BY <1>2 DEF LeaveStep, RoomRemoveLeg
  <2>2. /\ participants'[o] = participants[o] \ {l}
        /\ \A x \in Rooms \ {o} :
              participants'[x] = participants[x] /\ mixLeg'[x] = mixLeg[x]
    BY <1>2, LeaveFacts
  <2>3. bridgeRefs' = bridgeRefs
    BY <1>2 DEF LeaveStep, bridgeVars
  <2>4. /\ mixerRunning'[o] <=> (participants[o] \ {l} # {} \/ bridgeRefs[o] > 0)
        /\ \A x \in Rooms \ {o} : mixerRunning'[x] = mixerRunning[x]
    BY <2>1, SyncFacts
  <2>5. InStep(o)'
    BY <2>2, <2>3, <2>4 DEF InStep
  <2>6. \A x \in Rooms \ {o} : Untouched(x)
    BY <2>2, <2>3, <2>4 DEF Untouched
  <2>7. QED
    BY <2>5, <2>6
<1>3. ASSUME NEW l \in Legs, NEW part \in NewPart, MediaStep(o, l, part)
      PROVE  (InStep(o) => InStep(o)') /\ \A x \in Rooms \ {o} : Untouched(x)
  <2>1. CASE UNCHANGED mixerRunning
    BY <1>3, <2>1, MediaFacts DEF InStep, Untouched, bridgeVars
  <2>2. CASE SyncMixer(o, participants[o], bridgeRefs[o])
    BY <1>3, <2>2, MediaFacts, SyncFacts DEF InStep, Untouched, bridgeVars
  <2>3. QED
    BY <1>3, <2>1, <2>2 DEF MediaStep
<1>4. ASSUME NEW b \in BridgeIDs, NEW sends \in {"absent", "send"},
             NEW refs \in Nat, RefStep(o, b, sends, refs)
      PROVE  InStep(o)' /\ \A x \in Rooms \ {o} : Untouched(x)
  <2>1. SyncMixer(o, participants[o], refs)
    BY <1>4 DEF RefStep
  <2>2. /\ bridgeRefs'[o] = refs
        /\ \A x \in Rooms \ {o} : bridgeRefs'[x] = bridgeRefs[x]
    BY <1>4, RefFacts
  <2>3. participants' = participants /\ mixLeg' = mixLeg
    BY <1>4 DEF RefStep, roomVars
  <2>4. /\ mixerRunning'[o] <=> (participants[o] # {} \/ refs > 0)
        /\ \A x \in Rooms \ {o} : mixerRunning'[x] = mixerRunning[x]
    BY <2>1, SyncFacts
  <2>5. InStep(o)'
    BY <2>2, <2>3, <2>4 DEF InStep
  <2>6. \A x \in Rooms \ {o} : Untouched(x)
    BY <2>2, <2>3, <2>4 DEF Untouched
  <2>7. QED
    BY <2>5, <2>6
<1>5. ASSUME CloseStep(o)
      PROVE  \A x \in Rooms \ {o} : Untouched(x)
  BY <1>5, CloseFacts DEF Untouched, bridgeVars
<1>6. QED
  BY <1>1, <1>2, <1>3, <1>4, <1>5 DEF SectionStep

LEMMA RoomsStayInStep ==
    ASSUME IInv, DataStep, NEW x \in Rooms
    PROVE  /\ idOf[x] = None => BlankRoom(x)'
           /\ x \in Live /\ InStep(x) => InStep(x)'
<1>1. TypeOK
  BY DEF IInv
<1>2. idOf[x] = None => BlankRoom(x)
  BY DEF IInv, FreshRoomsBlank, BlankRoom
<1>3. Untouched(x) => (BlankRoom(x) => BlankRoom(x)') /\ (InStep(x) => InStep(x)')
  BY DEF Untouched, BlankRoom, InStep
<1>4. CASE UNCHANGED <<roomVars, bridgeRefs, mixerRunning>>
  BY <1>2, <1>3, <1>4 DEF Untouched, roomVars
<1>5. ASSUME NEW o \in Rooms, idOf[o] # None, SectionStep(o)
      PROVE  /\ idOf[x] = None => BlankRoom(x)'
             /\ x \in Live /\ InStep(x) => InStep(x)'
  <2>1. CASE x = o
    BY <1>1, <1>5, <2>1, SectionFacts DEF Live
  <2>2. CASE x # o
    BY <1>1, <1>2, <1>3, <1>5, <2>2, SectionFacts
  <2>3. QED
    BY <2>1, <2>2
<1>6. QED
  BY <1>4, <1>5 DEF DataStep

(* A room registered by a step was registered before, or was fresh.        *)
LEMMA NewlyLive ==
    ASSUME IInv, RegistryStep, NEW x \in Rooms
    PROVE  /\ x \in Live' => x \in Live \/ idOf[x] = None
           /\ idOf'[x] = None => idOf[x] = None
<1>1. TypeOK
  BY DEF IInv
<1>2. CASE UNCHANGED <<rooms, idOf>>
  BY <1>2 DEF Live
<1>3. ASSUME NEW o \in Rooms, NEW i \in RoomIDs, Allocate(o, i)
      PROVE  /\ x \in Live' => x \in Live \/ idOf[x] = None
             /\ idOf'[x] = None => idOf[x] = None
  <2>1. idOf[o] = None
    BY <1>3 DEF Allocate
  <2>2. QED
    BY <1>1, <1>3, <2>1, AllocateFacts DEF Live
<1>4. ASSUME NEW i \in RoomIDs, rooms' = [rooms EXCEPT ![i] = None], UNCHANGED idOf
      PROVE  /\ x \in Live' => x \in Live \/ idOf[x] = None
             /\ idOf'[x] = None => idOf[x] = None
  BY <1>1, <1>4 DEF Live, TypeOK
<1>5. QED
  BY <1>2, <1>3, <1>4 DEF RegistryStep

LEMMA MixersStayInStep ==
    ASSUME IInv, RegistryStep, DataStep
    PROVE  FreshRoomsBlank' /\ MixerFollowsRoom'
<1>1. TypeOK /\ \A o \in Live : InStep(o)
  BY DEF IInv, MixerFollowsRoom, InStep, ShouldRun
<1>2. \A x \in Rooms : BlankRoom(x)' => InStep(x)'
  BY DEF BlankRoom, InStep
<1>3. \A x \in Rooms : x \in Live' => InStep(x)'
  BY <1>1, <1>2, NewlyLive, RoomsStayInStep
<1>4. \A x \in Rooms : idOf'[x] = None => BlankRoom(x)'
  BY NewlyLive, RoomsStayInStep
<1>5. FreshRoomsBlank'
  BY <1>4 DEF FreshRoomsBlank, BlankRoom
<1>6. Live' \subseteq Rooms
  BY RegistryTypes DEF Live
<1>7. QED
  BY <1>3, <1>5, <1>6 DEF MixerFollowsRoom, InStep, ShouldRun

-----------------------------------------------------------------------------
(* The legs' room IDs.                                                     *)

Backed(l, o) == idOf[o] = roomID[l] /\ l \in participants[o]

LEMMA IDsAreKept ==
    ASSUME IInv, RegistryStep, NEW o \in Rooms, idOf[o] # None
    PROVE  idOf'[o] = idOf[o]
<1>1. TypeOK
  BY DEF IInv
<1>2. CASE UNCHANGED idOf
  BY <1>2
<1>3. ASSUME NEW x \in Rooms, NEW i \in RoomIDs, Allocate(x, i)
      PROVE  idOf'[o] = idOf[o]
  <2>1. x # o
    BY <1>3 DEF Allocate
  <2>2. QED
    BY <1>1, <1>3, <2>1, AllocateFacts
<1>4. QED
  BY <1>2, <1>3 DEF RegistryStep

LEMMA RoomIDsStayBacked ==
    ASSUME IInv, RegistryStep, DataStep
    PROVE  RoomIDIsBacked'
<1>1. TypeOK
  BY DEF IInv
<1>2. SUFFICES ASSUME NEW k \in Legs, roomID'[k] # None
               PROVE  \E x \in Rooms : /\ idOf'[x] = roomID'[k]
                                       /\ k \in participants'[x]
  BY DEF RoomIDIsBacked
<1>3. ASSUME roomID'[k] = roomID[k]
      PROVE  \E x \in Rooms : /\ idOf[x] # None /\ idOf[x] = roomID'[k]
                              /\ idOf'[x] = roomID'[k] /\ k \in participants[x]
  <2>1. PICK x \in Rooms : idOf[x] = roomID[k] /\ k \in participants[x]
    BY <1>2, <1>3 DEF IInv, RoomIDIsBacked
  <2>2. QED
    BY <1>2, <1>3, <2>1, IDsAreKept
<1>4. CASE UNCHANGED <<participants, roomID>>
  BY <1>3, <1>4
<1>5. ASSUME NEW o \in Rooms, idOf[o] # None, NEW l \in Legs, NEW part \in NewPart,
             JoinStep(o, l, part)
      PROVE  \E x \in Rooms : idOf'[x] = roomID'[k] /\ k \in participants'[x]
  <2>1. CASE k = l
    BY <1>1, <1>5, <2>1, JoinFacts, IDsAreKept
  <2>2. CASE k # l
    <3>1. roomID'[k] = roomID[k]
      BY <1>1, <1>5, <2>2, JoinFacts
    <3>2. PICK x \in Rooms : idOf'[x] = roomID'[k] /\ k \in participants[x]
      BY <1>3, <3>1
    <3>3. k \in participants'[x]
      BY <1>1, <1>5, <3>2, JoinFacts
    <3>4. QED
      BY <3>2, <3>3
  <2>3. QED
    BY <2>1, <2>2
<1>6. ASSUME NEW o \in Rooms, NEW l \in Legs, LeaveStep(o, l)
      PROVE  \E x \in Rooms : idOf'[x] = roomID'[k] /\ k \in participants'[x]
  <2>1. CASE roomID' = roomID /\ participants' = participants
    BY <1>3, <2>1
  <2>2. CASE roomID'[l] = None
    <3>1. k # l /\ roomID'[k] = roomID[k]
      BY <1>1, <1>2, <1>6, <2>2, LeaveFacts
    <3>2. PICK x \in Rooms : idOf'[x] = roomID'[k] /\ k \in participants[x]
      BY <1>3, <3>1
    <3>3. k \in participants'[x]
      BY <1>1, <1>6, <3>1, <3>2, LeaveFacts
    <3>4. QED
      BY <3>2, <3>3
  <2>3. QED
    BY <1>1, <1>6, <2>1, <2>2, LeaveFacts
<1>7. ASSUME NEW o \in Rooms, CloseStep(o)
      PROVE  \E x \in Rooms : idOf'[x] = roomID'[k] /\ k \in participants'[x]
  <2>1. k \notin participants[o] /\ roomID'[k] = roomID[k]
    BY <1>1, <1>2, <1>7, CloseFacts
  <2>2. PICK x \in Rooms : idOf'[x] = roomID'[k] /\ k \in participants[x]
    BY <1>3, <2>1
  <2>3. k \in participants'[x]
    BY <1>1, <1>7, <2>1, <2>2, CloseFacts
  <2>4. QED
    BY <2>2, <2>3
<1>8. ASSUME NEW o \in Rooms, SectionStep(o)
      PROVE  \/ UNCHANGED <<participants, roomID>>
             \/ \E l \in Legs, part \in NewPart : JoinStep(o, l, part)
             \/ \E l \in Legs : LeaveStep(o, l)
             \/ CloseStep(o)
  BY <1>8 DEF SectionStep, MediaStep, RefStep, roomVars
<1>9. QED
  BY <1>4, <1>5, <1>6, <1>7, <1>8 DEF DataStep, roomVars

-----------------------------------------------------------------------------
LEMMA InitIInv == ASSUME Init PROVE IInv
<1>1. 0 \in 0..MaxParts /\ 0 \in Nat
  BY RoomManagerAssumption DEF RoomManagerAssumption
<1>2. TypeOK
  BY <1>1, IdleTask DEF Init, TypeOK
<1>3. TasksOK
  BY RoomManagerAssumption DEF RoomManagerAssumption, Init, TasksOK, TaskOK, Holds,
     Idle, HasLeg, HasSrc, HasDst, HasID, HasBridge, Deleting
<1>4. RoomsUnderTheirID /\ FreshRoomsBlank /\ BridgesJoinLiveRooms /\ RoomIDIsBacked
  BY DEF Init, RoomsUnderTheirID, FreshRoomsBlank, BridgesJoinLiveRooms, RoomIDIsBacked
<1>5. MixerFollowsRoom
  BY DEF Init, MixerFollowsRoom, Live
<1>6. QED
  BY <1>2, <1>3, <1>4, <1>5 DEF IInv

LEMMA NextIInv == ASSUME IInv, [Next]_vars PROVE IInv'
<1>1. CASE Next
  <2>1. TaskStep /\ RegistryStep /\ DataStep
    BY <1>1, NextEffects
  <2>2. orderly' \in BOOLEAN
    BY <1>1 DEF Next, IInv, TypeOK
  <2>3. TypeOK'
    BY <2>1, <2>2, RegistryTypes, TasksStayOK, RoomTypes DEF RoomsTyped, TypeOK
  <2>4. QED
    BY <2>1, <2>3, TasksStayOK, RoomsStayUnderTheirID, BridgesStayJoined,
       MixersStayInStep, RoomIDsStayBacked DEF IInv
<1>2. CASE UNCHANGED vars
  BY <1>2 DEF vars, roomVars, bridgeVars, IInv, TypeOK, TasksOK, RoomsUnderTheirID,
     FreshRoomsBlank, BridgesJoinLiveRooms, Touches, MixerFollowsRoom, Live,
     RoomIDIsBacked
<1>3. QED
  BY <1>1, <1>2

(* The inductive invariant holds in every run of the room manager.         *)
THEOREM Invariant == Spec => []IInv
  BY InitIInv, NextIInv, PTL DEF Spec

(* Every variable keeps its type; a bridge reference count never goes      *)
(* negative (Room.detachBridge).                                           *)
THEOREM RoomManagerTypes == Spec => []TypeOK
<1>1. IInv => TypeOK
  BY DEF IInv
<1>2. QED
  BY <1>1, Invariant, PTL

(* A registered bridge joins two distinct registered rooms, and no other   *)
(* bridge joins the same two, whatever Create, Delete, CreateBridge and    *)
(* DeleteBridge do at once: their nil checks on a bridge's rooms never     *)
(* meet a nil but for the room being deleted.                              *)
THEOREM BridgesAlwaysJoinLiveRooms == Spec => []BridgesJoinLiveRooms
<1>1. IInv => BridgesJoinLiveRooms
  BY DEF IInv
<1>2. QED
  BY <1>1, Invariant, PTL

(* A registered room's mixer runs exactly while mixerShouldRun holds, for  *)
(* any interleaving of joins, moves, panics, bridges and deletes.          *)
THEOREM MixersFollowTheirRooms == Spec => []MixerFollowsRoom
<1>1. IInv => MixerFollowsRoom
  BY DEF IInv
<1>2. QED
  BY <1>1, Invariant, PTL

(* A leg's RoomID() always names a room that has the leg.                  *)
THEOREM RoomIDsAreBacked == Spec => []RoomIDIsBacked
<1>1. IInv => RoomIDIsBacked
  BY DEF IInv
<1>2. QED
  BY <1>1, Invariant, PTL


-----------------------------------------------------------------------------
(* Who is heard in a room.                                                 *)

PanicPCs == {"panicLeg", "panicRemove"}

(* Instances are numbered as they are made, and no room knows another's.   *)
PartsNumbered ==
    /\ \A o \in Rooms, l \in Legs : legParts[o][l] <= lastPart /\ mixLeg[o][l] <= lastPart
    /\ \A p \in Procs : task[p].part <= lastPart
PartsApart ==
    \A o, x \in Rooms, l \in Legs : o # x /\ legParts[o][l] # 0 =>
        legParts[o][l] \notin {legParts[x][l], mixLeg[x][l]}

(* The mixer has the instance the room believes in, if that has one.       *)
OneInstance ==
    \A o \in Rooms, l \in Legs : legParts[o][l] # 0 => mixLeg[o][l] \in {0, legParts[o][l]}

(* A panic's teardown finds the room the instance belonged to, if that is  *)
(* still registered.                                                       *)
PanicKnows(t) ==
    /\ t.pc \in PanicPCs => t.part # 0
    /\ \A o \in Rooms :
          /\ t.pc = "panicLeg" /\ legParts[o][t.leg] = t.part => idOf[o] = t.id
          /\ t.pc = "panicRemove" /\ legParts[o][t.leg] = t.part /\ o \in Live => o = t.src
PanicsKnow == \A p \in Procs : PanicKnows(task[p])

FreshParts == \A o \in Rooms : idOf[o] = None => \A l \in Legs : legParts[o][l] = 0

PathInv ==
    /\ PartsNumbered /\ PartsApart /\ OneInstance /\ FreshParts
    /\ PanicsKnow /\ AudioPathMatchesMembership

(* Steps that start, advance and finish no teardown of a panicked leg.     *)
PanicsKept ==
    \A p \in Procs : \/ task'[p] = task[p]
                     \/ /\ task[p].pc \notin PanicPCs /\ task'[p].pc \notin PanicPCs
                        /\ task'[p].part \in {0, task[p].part}

LEMMA GotoKeeps ==
    ASSUME TypeOK, NEW p \in Procs, NEW t, Goto(p, t), task[p].pc \notin PanicPCs,
           t.pc \notin PanicPCs, t.part \in {0, task[p].part}
    PROVE  PanicsKept
  BY DEF TypeOK, Goto, PanicsKept

LEMMA DoneKeeps ==
    ASSUME TypeOK, NEW p \in Procs, Done(p), task[p].pc \notin PanicPCs
    PROVE  PanicsKept
  BY GotoKeeps DEF Done, Idle, PanicPCs

(* What a step does to the instances a room and its mixer know.            *)
RebuildStep(o, l, part) ==
    /\ l \in participants[o]
    /\ legParts' = [legParts EXCEPT ![o][l] = part]
    /\ mixLeg' = [mixLeg EXCEPT ![o][l] = part]
    /\ lastPart' = (IF part = 0 THEN lastPart ELSE part)
    /\ UNCHANGED participants

PartStep(o) ==
    \/ \E l \in Legs, part \in NewPart : AddLegLocked(o, l, part) \/ RebuildStep(o, l, part)
    \/ \E l \in Legs : RemoveLegLocked(o, l)
    \/ /\ \A i \in RoomIDs : rooms[i] # o
       /\ participants' = [participants EXCEPT ![o] = {}]
       /\ UNCHANGED <<legParts, mixLeg, lastPart>>

SameParts == UNCHANGED <<participants, legParts, mixLeg, lastPart>>

PathStep ==
    \/ PanicsKept /\ SameParts
    \/ PanicsKept /\ UNCHANGED <<rooms, idOf>> /\ \E o \in Rooms : idOf[o] # None /\ PartStep(o)
    \/ \E p \in Procs : \/ \E o \in Rooms, l \in Legs : LegLoopPanic(p, o, l)
                        \/ PanicLegLookup(p) \/ PanicLegRemove(p)

LEMMA StartsKeepParts ==
    ASSUME TypeOK, NEW p \in Procs,
           \/ LegStart(p)
           \/ \E l \in Legs : LegEnds(p, l)
           \/ \E i \in RoomIDs : DeleteStart(p, i)
           \/ BridgeStart(p)
           \/ \E o \in Rooms, b \in BridgeIDs : BridgeLoopPanic(p, o, b)
    PROVE  PanicsKept /\ SameParts
<1>1. SameParts
  BY DEF LegStart, AddLegStart, RemoveLegStart, MoveLegStart, LegEnds, DeleteStart,
         BridgeStart, DeleteBridgeStart, SetDirectionStart, CreateBridgeStart,
         BridgeLoopPanic, roomVars, SameParts
<1>2. task[p].pc = "idle"
  BY DEF LegStart, AddLegStart, RemoveLegStart, MoveLegStart, LegEnds, DeleteStart,
         BridgeStart, DeleteBridgeStart, SetDirectionStart, CreateBridgeStart,
         BridgeLoopPanic, Running
<1>3. ASSUME NEW i \in RoomIDs, NEW l \in Legs, AddLegStart(p, i, l)
      PROVE  PanicsKept
  BY <1>2, <1>3 DEF AddLegStart, Goto, Idle, PanicsKept, PanicPCs, TypeOK
<1>4. ASSUME NEW i \in RoomIDs, NEW l \in Legs, RemoveLegStart(p, i, l)
      PROVE  PanicsKept
  BY <1>2, <1>4 DEF RemoveLegStart, Goto, Idle, PanicsKept, PanicPCs, TypeOK
<1>5. ASSUME NEW i \in RoomIDs, NEW j \in RoomIDs, NEW l \in Legs, MoveLegStart(p, i, j, l)
      PROVE  PanicsKept
  BY <1>2, <1>5 DEF MoveLegStart, Goto, Idle, PanicsKept, PanicPCs, TypeOK
<1>6. ASSUME NEW l \in Legs, LegEnds(p, l)
      PROVE  PanicsKept
  <2>1. PICK pc \in {"cleanup", "hangupFirst"} :
            Goto(p, [Idle EXCEPT !.pc = pc, !.leg = l])
    BY <1>6 DEF LegEnds
  <2>2. QED
    BY <1>2, <2>1 DEF Goto, Idle, PanicsKept, PanicPCs, TypeOK
<1>7. ASSUME NEW i \in RoomIDs, DeleteStart(p, i)
      PROVE  PanicsKept
  BY <1>2, <1>7 DEF DeleteStart, Goto, Idle, PanicsKept, PanicPCs, TypeOK
<1>8. ASSUME NEW b \in BridgeIDs, DeleteBridgeStart(p, b)
      PROVE  PanicsKept
  BY <1>2, <1>8 DEF DeleteBridgeStart, Unregister, Goto, Idle, PanicsKept, PanicPCs, TypeOK
<1>9. ASSUME NEW b \in BridgeIDs, NEW dir \in Dirs, SetDirectionStart(p, b, dir)
      PROVE  PanicsKept
  BY <1>2, <1>9 DEF SetDirectionStart, Goto, Idle, PanicsKept, PanicPCs, TypeOK
<1>10. ASSUME NEW b \in BridgeIDs, NEW i \in RoomIDs, NEW j \in RoomIDs, NEW dir \in Dirs,
             CreateBridgeStart(p, b, i, j, dir)
      PROVE  PanicsKept
  BY <1>2, <1>10 DEF CreateBridgeStart, Goto, Idle, PanicsKept, PanicPCs, TypeOK
<1>11. ASSUME NEW o \in Rooms, NEW b \in BridgeIDs, BridgeLoopPanic(p, o, b)
      PROVE  PanicsKept
  BY <1>2, <1>11 DEF BridgeLoopPanic, Goto, Idle, PanicsKept, PanicPCs, TypeOK
<1>12. QED
  BY <1>1, <1>3, <1>4, <1>5, <1>6, <1>7, <1>8, <1>9, <1>10, <1>11 DEF LegStart, BridgeStart

LEMMA BridgeStepsKeepParts ==
    ASSUME TypeOK, NEW p \in Procs, BridgeStep(p) \/ DeleteUnbridge(p) \/ DeleteHangup(p)
    PROVE  PanicsKept /\ SameParts
<1>1. SameParts
  BY DEF BridgeStep, AttachA, AttachB, DirectA, DirectB, DetachA, DetachB,
         PanicBridgeDelete, DeleteUnbridge, DeleteHangup, roomVars, SameParts
<1>2. task[p] \in TaskType /\ task[p].pc \notin PanicPCs
  BY DEF BridgeStep, AttachA, AttachB, DirectA, DirectB, DetachA, DetachB,
         PanicBridgeDelete, DeleteUnbridge, DeleteHangup, At, PanicPCs, TypeOK
<1>3. CASE AttachA(p) \/ AttachB(p) \/ DirectA(p) \/ DetachA(p) \/ DeleteHangup(p)
  <2>1. PICK t : Goto(p, t) /\ t.pc \notin PanicPCs /\ t.part = task[p].part
    BY <1>2, <1>3 DEF AttachA, AttachB, DirectA, DetachA, DeleteHangup, TaskType, PanicPCs
  <2>2. QED
    BY <1>1, <1>2, <2>1, GotoKeeps
<1>4. CASE DirectB(p) \/ DetachB(p)
  BY <1>1, <1>2, <1>4, DoneKeeps DEF DirectB, DetachB
<1>5. CASE PanicBridgeDelete(p)
  <2>1. CASE Done(p)
    BY <1>1, <1>2, <2>1, DoneKeeps
  <2>2. CASE Unregister(p, task[p].br)
    BY <1>1, <1>2, <2>2 DEF Unregister, Goto, Idle, PanicsKept, PanicPCs, TypeOK
  <2>3. QED
    BY <1>5, <2>1, <2>2 DEF PanicBridgeDelete
<1>6. CASE DeleteUnbridge(p)
  <2>1. CASE Goto(p, [task[p] EXCEPT !.pc = "deleteHangup"])
    BY <1>1, <1>2, <2>1 DEF Goto, PanicsKept, PanicPCs, TypeOK, TaskType
  <2>2. ASSUME NEW t \in task[p].torn, Goto(p, [task[p] EXCEPT !.torn = @ \ {t}])
        PROVE  PanicsKept
    BY <1>1, <1>2, <2>2 DEF Goto, PanicsKept, PanicPCs, TypeOK, TaskType
  <2>3. QED
    BY <1>1, <1>6, <2>1, <2>2 DEF DeleteUnbridge
<1>7. QED
  BY <1>3, <1>4, <1>5, <1>6 DEF BridgeStep


LEMMA LegStepsPath ==
    ASSUME IInv, NEW p \in Procs, LegStep(p)
    PROVE  PathStep
<1>1. /\ TypeOK /\ task[p] \in TaskType
      /\ task[p].pc \in HasLeg => task[p].leg \in Legs
      /\ task[p].pc \in HasSrc => task[p].src \in Rooms /\ idOf[task[p].src] # None
      /\ task[p].pc \in HasDst => task[p].dst \in Rooms /\ idOf[task[p].dst] # None
  BY Held DEF IInv
<1>2. CASE AddLegFinish(p)
  <2>1. PICK part \in NewPart : AddLegLocked(task[p].dst, task[p].leg, part)
    BY <1>2 DEF AddLegFinish
  <2>2. task[p].dst \in Rooms /\ task[p].leg \in Legs /\ idOf[task[p].dst] # None
    BY <1>1, <1>2 DEF AddLegFinish, At, HasLeg, HasDst
  <2>3. PanicsKept /\ UNCHANGED <<rooms, idOf>>
    BY <1>1, <1>2, DoneKeeps DEF AddLegFinish, At, PanicPCs
  <2>4. QED
    BY <2>1, <2>2, <2>3 DEF PathStep, PartStep
<1>3. CASE RemoveLegFinish(p)
  <2>1. task[p].src \in Rooms /\ task[p].leg \in Legs /\ idOf[task[p].src] # None
    BY <1>1, <1>3 DEF RemoveLegFinish, At, HasLeg, HasSrc
  <2>2. PanicsKept /\ UNCHANGED <<rooms, idOf>>
    BY <1>1, <1>3, DoneKeeps DEF RemoveLegFinish, At, PanicPCs
  <2>3. RemoveLegLocked(task[p].src, task[p].leg) \/ SameParts
    BY <1>3 DEF RemoveLegFinish, RoomRemoveLeg, SameParts, roomVars
  <2>4. QED
    BY <2>1, <2>2, <2>3 DEF PathStep, PartStep
<1>4. CASE MoveLegTarget(p)
  <2>1. SameParts /\ task[p].pc = "moveTarget"
    BY <1>4 DEF MoveLegTarget, SameParts, roomVars, At
  <2>2. PICK o : Goto(p, [task[p] EXCEPT !.pc = "moveDetach", !.dst = o, !.id = None])
    BY <1>4 DEF MoveLegTarget
  <2>3. PanicsKept
    BY <1>1, <2>1, <2>2 DEF Goto, PanicsKept, PanicPCs, TypeOK, TaskType
  <2>4. QED
    BY <2>1, <2>3 DEF PathStep
<1>5. CASE MoveLegDetach(p)
  <2>1. /\ task[p].src \in Rooms /\ task[p].leg \in Legs /\ idOf[task[p].src] # None
        /\ task[p].pc = "moveDetach"
    BY <1>1, <1>5 DEF MoveLegDetach, At, HasLeg, HasSrc
  <2>2. CASE Done(p)
    <3>1. PanicsKept
      BY <1>1, <2>1, <2>2, DoneKeeps DEF PanicPCs
    <3>2. RemoveLegLocked(task[p].src, task[p].leg) \/ SameParts
      BY <1>5 DEF MoveLegDetach, SameParts, roomVars
    <3>3. UNCHANGED <<rooms, idOf>>
      BY <1>5 DEF MoveLegDetach
    <3>4. QED
      BY <2>1, <3>1, <3>2, <3>3 DEF PathStep, PartStep
  <2>3. CASE Goto(p, [task[p] EXCEPT !.pc = "addLeg", !.src = None])
    <3>1. PanicsKept
      BY <1>1, <2>1, <2>3 DEF Goto, PanicsKept, PanicPCs, TypeOK, TaskType
    <3>2. RemoveLegLocked(task[p].src, task[p].leg) \/ SameParts
      BY <1>5 DEF MoveLegDetach, SameParts, roomVars
    <3>3. UNCHANGED <<rooms, idOf>>
      BY <1>5 DEF MoveLegDetach
    <3>4. QED
      BY <2>1, <3>1, <3>2, <3>3 DEF PathStep, PartStep
  <2>4. QED
    BY <1>5, <2>2, <2>3 DEF MoveLegDetach
<1>6. CASE HangupFirst(p)
  <2>1. SameParts /\ task[p].pc = "hangupFirst"
    BY <1>6 DEF HangupFirst, SameParts, roomVars, At
  <2>2. PanicsKept
    BY <1>1, <1>6, <2>1 DEF HangupFirst, Goto, PanicsKept, PanicPCs, TypeOK, TaskType
  <2>3. QED
    BY <2>1, <2>2 DEF PathStep
<1>7. CASE Cleanup(p)
  <2>1. SameParts /\ task[p].pc = "cleanup"
    BY <1>7 DEF Cleanup, SameParts, roomVars, At
  <2>2. Goto(p, [task[p] EXCEPT
                     !.pc = IF roomID[task[p].leg] = None THEN "hangup" ELSE "endLookup",
                     !.id = roomID[task[p].leg]])
    BY <1>7 DEF Cleanup
  <2>3. PanicsKept
    BY <1>1, <2>1, <2>2 DEF Goto, PanicsKept, PanicPCs, TypeOK, TaskType
  <2>4. QED
    BY <2>1, <2>3 DEF PathStep
<1>8. CASE CleanupLookup(p)
  <2>1. SameParts /\ task[p].pc = "endLookup"
    BY <1>8 DEF CleanupLookup, SameParts, roomVars, At
  <2>2. Goto(p, [task[p] EXCEPT
                     !.pc = IF rooms[task[p].id] = None THEN "hangup" ELSE "endRemove",
                     !.id = None, !.src = rooms[task[p].id]])
    BY <1>8 DEF CleanupLookup
  <2>3. PanicsKept
    BY <1>1, <2>1, <2>2 DEF Goto, PanicsKept, PanicPCs, TypeOK, TaskType
  <2>4. QED
    BY <2>1, <2>3 DEF PathStep
<1>9. CASE CleanupRemove(p)
  <2>1. /\ task[p].src \in Rooms /\ task[p].leg \in Legs /\ idOf[task[p].src] # None
        /\ task[p].pc = "endRemove"
    BY <1>1, <1>9 DEF CleanupRemove, At, HasLeg, HasSrc
  <2>2. PanicsKept
    BY <1>1, <1>9, <2>1 DEF CleanupRemove, Goto, PanicsKept, PanicPCs, TypeOK, TaskType
  <2>3. RemoveLegLocked(task[p].src, task[p].leg) \/ SameParts
    BY <1>9 DEF CleanupRemove, RoomRemoveLeg, SameParts, roomVars
  <2>4. UNCHANGED <<rooms, idOf>>
    BY <1>9 DEF CleanupRemove
  <2>5. QED
    BY <2>1, <2>2, <2>3, <2>4 DEF PathStep, PartStep
<1>10. CASE Hangup(p)
  <2>1. SameParts /\ PanicsKept
    BY <1>1, <1>10, DoneKeeps DEF Hangup, SameParts, roomVars, At, PanicPCs
  <2>2. QED
    BY <2>1 DEF PathStep
<1>11. CASE PanicLegLookup(p) \/ PanicLegRemove(p)
  BY <1>11 DEF PathStep
<1>12. QED
  BY <1>2, <1>3, <1>4, <1>5, <1>6, <1>7, <1>8, <1>9, <1>10, <1>11 DEF LegStep

LEMMA CloseAndRebuildPath ==
    ASSUME IInv,
           \/ \E p \in Procs : DeleteClose(p)
           \/ \E o \in Rooms, i \in RoomIDs : CreateRoom(o, i)
           \/ \E o \in Rooms, l \in Legs : RebuildLegMedia(o, l)
    PROVE  PathStep
<1>1. ASSUME NEW p \in Procs, DeleteClose(p)
      PROVE  PathStep
  <2>1. /\ task[p].src \in Rooms /\ idOf[task[p].src] # None
        /\ task[p].pc = "deleteClose"
    BY <1>1, Held DEF DeleteClose, At, HasSrc
  <2>2. \A i \in RoomIDs : rooms[i] # task[p].src
    BY <2>1 DEF IInv, TasksOK, Holds, Deleting
  <2>3. PanicsKept
    BY <1>1, <2>1, DoneKeeps DEF DeleteClose, PanicPCs, IInv
  <2>4. QED
    BY <1>1, <2>1, <2>2, <2>3 DEF DeleteClose, PathStep, PartStep
<1>2. ASSUME NEW o \in Rooms, NEW i \in RoomIDs, CreateRoom(o, i)
      PROVE  PathStep
  BY <1>2 DEF CreateRoom, PathStep, PanicsKept, SameParts, roomVars
<1>3. ASSUME NEW o \in Rooms, NEW l \in Legs, RebuildLegMedia(o, l)
      PROVE  PathStep
  <2>1. idOf[o] # None
    BY <1>3 DEF RebuildLegMedia, IInv, FreshRoomsBlank
  <2>2. PICK part \in NewPart : RebuildStep(o, l, part)
    BY <1>3 DEF RebuildLegMedia, RebuildStep
  <2>3. PanicsKept /\ UNCHANGED <<rooms, idOf>>
    BY <1>3 DEF RebuildLegMedia, PanicsKept
  <2>4. QED
    BY <2>1, <2>2, <2>3 DEF PathStep, PartStep
<1>4. QED
  BY <1>1, <1>2, <1>3

LEMMA NextPath == ASSUME IInv, Next PROVE PathStep
<1>1. ASSUME NEW p \in Procs,
             \/ LegStart(p)
             \/ \E l \in Legs : LegEnds(p, l)
             \/ \E i \in RoomIDs : DeleteStart(p, i)
             \/ BridgeStart(p)
             \/ \E o \in Rooms, b \in BridgeIDs : BridgeLoopPanic(p, o, b)
      PROVE  PathStep
  BY <1>1, StartsKeepParts DEF IInv, PathStep
<1>2. ASSUME NEW p \in Procs, BridgeStep(p) \/ DeleteUnbridge(p) \/ DeleteHangup(p)
      PROVE  PathStep
  BY <1>2, BridgeStepsKeepParts DEF IInv, PathStep
<1>3. ASSUME NEW p \in Procs, LegStep(p) PROVE PathStep
  BY <1>3, LegStepsPath
<1>4. ASSUME NEW p \in Procs, NEW o \in Rooms, NEW l \in Legs, LegLoopPanic(p, o, l)
      PROVE  PathStep
  BY <1>4 DEF PathStep
<1>5. QED
  BY <1>1, <1>2, <1>3, <1>4, CloseAndRebuildPath DEF Next, DeleteRoom, Panic


(* Only leg l of room o changes; an instance it gets is the newest one.    *)
Elsewhere(o, l) ==
    \A x \in Rooms, k \in Legs : x # o \/ k # l =>
        /\ legParts'[x][k] = legParts[x][k] /\ mixLeg'[x][k] = mixLeg[x][k]
        /\ k \in participants'[x] <=> k \in participants[x]

LegChange(o, l) ==
    /\ Elsewhere(o, l)
    /\ lastPart' \in Nat /\ lastPart <= lastPart'
    /\ legParts'[o][l] # 0 => legParts'[o][l] = lastPart' /\ lastPart < lastPart'
    /\ mixLeg'[o][l] \in {0, mixLeg[o][l], legParts'[o][l]}
    /\ IF l \in participants'[o] THEN legParts'[o][l] \in {0, mixLeg'[o][l]}
                                 ELSE mixLeg'[o][l] = 0

LEMMA AddIsLegChange ==
    ASSUME TypeOK, NEW o \in Rooms, NEW l \in Legs, NEW part \in NewPart,
           AddLegLocked(o, l, part)
    PROVE  LegChange(o, l)
<1>1. /\ legParts' = [legParts EXCEPT ![o][l] = part]
      /\ mixLeg' = [mixLeg EXCEPT ![o][l] = IF part = 0 THEN @ ELSE part]
      /\ participants' = [participants EXCEPT ![o] = @ \cup {l}]
      /\ lastPart' = (IF part = 0 THEN lastPart ELSE part)
      /\ part # 0 => part = lastPart + 1
      /\ lastPart \in Nat
  BY RoomManagerAssumption DEF RoomManagerAssumption, AddLegLocked, NewPart, TypeOK
<1>2. /\ legParts'[o][l] = part /\ l \in participants'[o]
      /\ mixLeg'[o][l] = (IF part = 0 THEN mixLeg[o][l] ELSE part)
  BY <1>1 DEF TypeOK
<1>3. Elsewhere(o, l)
  BY <1>1 DEF Elsewhere, TypeOK
<1>4. QED
  BY <1>1, <1>2, <1>3 DEF LegChange

LEMMA RebuildIsLegChange ==
    ASSUME TypeOK, NEW o \in Rooms, NEW l \in Legs, NEW part \in NewPart,
           RebuildStep(o, l, part)
    PROVE  LegChange(o, l)
<1>1. /\ legParts' = [legParts EXCEPT ![o][l] = part]
      /\ mixLeg' = [mixLeg EXCEPT ![o][l] = part]
      /\ participants' = participants /\ l \in participants[o]
      /\ lastPart' = (IF part = 0 THEN lastPart ELSE part)
      /\ part # 0 => part = lastPart + 1
      /\ lastPart \in Nat
  BY RoomManagerAssumption DEF RoomManagerAssumption, RebuildStep, NewPart, TypeOK
<1>2. legParts'[o][l] = part /\ mixLeg'[o][l] = part
  BY <1>1 DEF TypeOK
<1>3. Elsewhere(o, l)
  BY <1>1 DEF Elsewhere, TypeOK
<1>4. QED
  BY <1>1, <1>2, <1>3 DEF LegChange

LEMMA RemoveIsLegChange ==
    ASSUME TypeOK, NEW o \in Rooms, NEW l \in Legs, RemoveLegLocked(o, l)
    PROVE  LegChange(o, l) /\ l \notin participants'[o] /\ legParts'[o][l] = 0
<1>1. /\ legParts' = [legParts EXCEPT ![o][l] = 0]
      /\ mixLeg' = [mixLeg EXCEPT ![o][l] = 0]
      /\ participants' = [participants EXCEPT ![o] = @ \ {l}]
      /\ lastPart' = lastPart /\ lastPart \in Nat
  BY RoomManagerAssumption DEF RoomManagerAssumption, RemoveLegLocked, TypeOK
<1>2. legParts'[o][l] = 0 /\ mixLeg'[o][l] = 0 /\ l \notin participants'[o]
  BY <1>1 DEF TypeOK
<1>3. Elsewhere(o, l)
  BY <1>1 DEF Elsewhere, TypeOK
<1>4. QED
  BY <1>1, <1>2, <1>3 DEF LegChange

(* Numbers never come back, so what one room got stays its own.            *)
LEMMA ChangeKeepsParts ==
    ASSUME TypeOK, PathInv, NEW o \in Rooms, NEW l \in Legs, LegChange(o, l),
           idOf[o] # None, UNCHANGED idOf
    PROVE  /\ \A x \in Rooms, k \in Legs :
                 legParts'[x][k] <= lastPart' /\ mixLeg'[x][k] <= lastPart'
           /\ PartsApart' /\ FreshParts' /\ OneInstance'
<1>1. /\ lastPart \in Nat /\ lastPart' \in Nat
      /\ \A x \in Rooms, k \in Legs : /\ legParts[x][k] \in Nat /\ mixLeg[x][k] \in Nat
                                      /\ legParts[x][k] <= lastPart
                                      /\ mixLeg[x][k] <= lastPart
  BY RoomManagerAssumption
     DEF RoomManagerAssumption, TypeOK, PathInv, PartsNumbered, LegChange
<1>2. ASSUME NEW x \in Rooms, NEW k \in Legs
      PROVE  legParts'[x][k] <= lastPart' /\ mixLeg'[x][k] <= lastPart'
  <2>1. CASE x = o /\ k = l
    BY <1>1, <2>1 DEF LegChange
  <2>2. CASE x # o \/ k # l
    BY <1>1, <2>2 DEF LegChange, Elsewhere
  <2>3. QED
    BY <2>1, <2>2
<1>3. ASSUME NEW x \in Rooms, NEW y \in Rooms, NEW k \in Legs, x # y, legParts'[x][k] # 0
      PROVE  legParts'[x][k] \notin {legParts'[y][k], mixLeg'[y][k]}
  <2>1. CASE k # l \/ (x # o /\ y # o)
    BY <1>3, <2>1 DEF LegChange, Elsewhere, PathInv, PartsApart
  <2>2. CASE k = l /\ x = o
    <3>1. /\ legParts'[y][k] = legParts[y][k] /\ mixLeg'[y][k] = mixLeg[y][k]
          /\ lastPart < legParts'[x][k]
      BY <1>1, <1>3, <2>2 DEF LegChange, Elsewhere
    <3>2. QED
      BY <1>1, <3>1
  <2>3. CASE k = l /\ y = o
    <3>1. /\ legParts'[x][k] = legParts[x][k]
          /\ legParts'[y][k] # 0 => lastPart < legParts'[y][k]
          /\ mixLeg'[y][k] \in {0, mixLeg[y][k], legParts'[y][k]}
      BY <1>1, <1>3, <2>3 DEF LegChange, Elsewhere
    <3>2. legParts[x][k] # mixLeg[y][k] /\ legParts[x][k] <= lastPart
      BY <1>1, <1>3, <3>1 DEF PathInv, PartsApart
    <3>3. QED
      BY <1>1, <1>3, <3>1, <3>2
  <2>4. QED
    BY <2>1, <2>2, <2>3
<1>4. PartsApart'
  BY <1>3 DEF PartsApart
<1>5. FreshParts'
  BY DEF LegChange, Elsewhere, PathInv, FreshParts
<1>6. OneInstance'
  BY DEF LegChange, Elsewhere, PathInv, OneInstance
<1>7. QED
  BY <1>2, <1>4, <1>5, <1>6

(* A teardown whose goroutine does not move knows what it knew.            *)
LEMMA ChangeKeepsKnowing ==
    ASSUME IInv, PathInv, NEW o \in Rooms, NEW l \in Legs, LegChange(o, l),
           UNCHANGED <<rooms, idOf>>, NEW p \in Procs, task'[p] = task[p]
    PROVE  PanicKnows(task[p])'
<1>1. /\ task[p].part \in Nat /\ task[p].part <= lastPart /\ lastPart \in Nat
      /\ task[p].pc \in PanicPCs => task[p].leg \in Legs /\ task[p].part # 0
      /\ PanicKnows(task[p])
  BY RoomManagerAssumption, Held
     DEF RoomManagerAssumption, TaskType, IInv, TypeOK, PathInv, PartsNumbered, PanicsKnow,
         PanicKnows, PanicPCs, HasLeg
<1>2. ASSUME NEW x \in Rooms, task[p].pc \in PanicPCs,
             legParts'[x][task[p].leg] = task[p].part
      PROVE  legParts[x][task[p].leg] = task[p].part
  BY <1>1, <1>2 DEF LegChange, Elsewhere
<1>3. Live' = Live
  BY DEF Live
<1>4. QED
  BY <1>1, <1>2, <1>3 DEF PanicKnows, PanicPCs

(* A panic stays pending as long as its goroutine does not move.           *)
LEMMA PendingStays ==
    ASSUME NEW k, NEW n, PanicPending(k, n), NEW p \in Procs,
           \A q \in Procs \ {p} : task'[q] = task[q] \/ task[q].pc \notin PanicPCs
    PROVE  \/ PanicPending(k, n)'
           \/ task[p].pc \in PanicPCs /\ task[p].leg = k /\ task[p].part = n
  BY DEF PanicPending, PanicPCs

LEMMA KeptPending ==
    ASSUME PanicsKept, NEW k, NEW n, PanicPending(k, n)
    PROVE  PanicPending(k, n)'
  BY DEF PanicsKept, PanicPending, PanicPCs

Heard(o, l) ==
    IF l \in participants[o]
    THEN l \in up /\ legParts[o][l] \notin {0, mixLeg[o][l]} => PanicPending(l, legParts[o][l])
    ELSE mixLeg[o][l] = 0

LEMMA HeardEverywhere == AudioPathMatchesMembership <=> \A o \in Live, l \in Legs : Heard(o, l)
  BY DEF AudioPathMatchesMembership, Heard

LEMMA KeptStepsPath ==
    ASSUME IInv, PathInv, PanicsKept, up' \subseteq up, UNCHANGED <<rooms, idOf>>,
           NEW o \in Rooms, idOf[o] # None, PartStep(o)
    PROVE  PathInv'
<1>1. Live' = Live /\ TypeOK /\ Live \subseteq Rooms /\ lastPart \in Nat
  BY RoomManagerAssumption DEF RoomManagerAssumption, Live, IInv, TypeOK
<1>2. ASSUME NEW l \in Legs, LegChange(o, l)
      PROVE  PathInv'
  <2>1. PartsApart' /\ FreshParts' /\ OneInstance'
    BY <1>1, <1>2, ChangeKeepsParts
  <2>2. \A x \in Rooms, k \in Legs : legParts'[x][k] <= lastPart' /\ mixLeg'[x][k] <= lastPart'
    BY <1>1, <1>2, ChangeKeepsParts
  <2>3. ASSUME NEW p \in Procs
        PROVE  task'[p].part <= lastPart'
    <3>1. /\ task[p].part \in Nat /\ task[p].part <= lastPart
          /\ lastPart <= lastPart' /\ lastPart' \in Nat
      BY RoomManagerAssumption, <1>1, <1>2
         DEF RoomManagerAssumption, TypeOK, TaskType, PathInv, PartsNumbered, LegChange
    <3>2. task'[p].part \in {0, task[p].part}
      BY DEF PanicsKept
    <3>3. QED
      BY <1>1, <3>1, <3>2
  <2>4. PartsNumbered'
    BY <2>2, <2>3 DEF PartsNumbered
  <2>5. ASSUME NEW p \in Procs
        PROVE  PanicKnows(task[p])'
    <3>1. CASE task'[p] = task[p]
      BY <1>2, <3>1, ChangeKeepsKnowing
    <3>2. CASE task'[p].pc \notin PanicPCs
      BY <3>2 DEF PanicKnows, PanicPCs
    <3>3. QED
      BY <3>1, <3>2 DEF PanicsKept
  <2>6. ASSUME NEW x \in Live, NEW k \in Legs
        PROVE  Heard(x, k)'
    <3>1. CASE x = o /\ k = l
      BY <1>2, <3>1 DEF LegChange, Heard
    <3>2. CASE x # o \/ k # l
      <4>1. Heard(x, k)
        BY HeardEverywhere DEF PathInv
      <4>2. /\ legParts'[x][k] = legParts[x][k] /\ mixLeg'[x][k] = mixLeg[x][k]
            /\ k \in participants'[x] <=> k \in participants[x]
        BY <1>1, <1>2, <3>2 DEF LegChange, Elsewhere
      <4>3. PanicPending(k, legParts[x][k]) => PanicPending(k, legParts[x][k])'
        BY <4>2, KeptPending DEF PanicPending, PanicsKept, PanicPCs
      <4>4. QED
        BY <4>1, <4>2, <4>3 DEF Heard
    <3>3. QED
      BY <3>1, <3>2
  <2>7. AudioPathMatchesMembership'
    BY <1>1, <2>6 DEF AudioPathMatchesMembership, Heard
  <2>8. QED
    BY <2>1, <2>4, <2>5, <2>7 DEF PathInv, PanicsKnow
<1>3. CASE /\ \A i \in RoomIDs : rooms[i] # o
           /\ participants' = [participants EXCEPT ![o] = {}]
           /\ UNCHANGED <<legParts, mixLeg, lastPart>>
  <2>1. \A x \in Live : x # o /\ participants'[x] = participants[x]
    BY <1>1, <1>3 DEF Live, TypeOK
  <2>2. PartsApart' /\ FreshParts' /\ OneInstance'
    BY <1>3 DEF PathInv, PartsApart, FreshParts, OneInstance
  <2>3. \A p \in Procs : task[p].part \in Nat /\ task'[p].part \in {0, task[p].part}
    BY <1>1, RoomManagerAssumption
       DEF RoomManagerAssumption, PanicsKept, TypeOK, TaskType
  <2>4. PartsNumbered'
    BY <1>1, <1>3, <2>3 DEF PathInv, PartsNumbered
  <2>5. PanicsKnow'
    BY <1>1, <1>3 DEF PathInv, PanicsKnow, PanicKnows, PanicsKept, PanicPCs
  <2>6. ASSUME NEW x \in Live, NEW k \in Legs
        PROVE  Heard(x, k)'
    <3>1. Heard(x, k)
      BY HeardEverywhere DEF PathInv
    <3>2. PanicPending(k, legParts[x][k]) => PanicPending(k, legParts[x][k])'
      BY <1>3, KeptPending DEF PanicPending, PanicsKept, PanicPCs
    <3>3. QED
      BY <1>3, <2>1, <3>1, <3>2 DEF Heard
  <2>7. AudioPathMatchesMembership'
    BY <1>1, <2>6 DEF AudioPathMatchesMembership, Heard
  <2>8. QED
    BY <2>2, <2>4, <2>5, <2>7 DEF PathInv
<1>4. ASSUME NEW l \in Legs, NEW part \in NewPart,
             AddLegLocked(o, l, part) \/ RebuildStep(o, l, part)
      PROVE  PathInv'
  BY <1>1, <1>2, <1>4, AddIsLegChange, RebuildIsLegChange
<1>5. ASSUME NEW l \in Legs, RemoveLegLocked(o, l)
      PROVE  PathInv'
  BY <1>1, <1>2, <1>5, RemoveIsLegChange
<1>6. QED
  BY <1>3, <1>4, <1>5 DEF PartStep

(* A registration that leaves the instances alone: what is registered was  *)
(* so before, or is blank.                                                 *)
LEMMA RegistryKeepsPath ==
    ASSUME IInv, PathInv, PanicsKept, SameParts, RegistryStep, up' \subseteq up
    PROVE  PathInv'
<1>1. TypeOK /\ Live \subseteq Rooms /\ Live' \subseteq Rooms /\ lastPart \in Nat
  BY RegistryTypes, RoomManagerAssumption DEF RoomManagerAssumption, Live, IInv, TypeOK
<1>2. \A x \in Rooms : /\ x \in Live' => x \in Live \/ idOf[x] = None
                       /\ idOf'[x] = None => idOf[x] = None
                       /\ idOf[x] # None => idOf'[x] = idOf[x]
  BY NewlyLive, IDsAreKept
<1>3. PartsApart' /\ FreshParts' /\ OneInstance'
  BY <1>2 DEF PathInv, PartsApart, FreshParts, OneInstance, SameParts
<1>4. \A p \in Procs : task[p].part \in Nat /\ task'[p].part \in {0, task[p].part}
  BY <1>1, RoomManagerAssumption
     DEF RoomManagerAssumption, PanicsKept, TypeOK, TaskType
<1>5. PartsNumbered'
  BY <1>1, <1>4 DEF PathInv, PartsNumbered, SameParts
<1>6. ASSUME NEW p \in Procs
      PROVE  PanicKnows(task[p])'
  <2>1. CASE task'[p].pc \notin PanicPCs
    BY <2>1 DEF PanicKnows, PanicPCs
  <2>2. CASE task'[p] = task[p] /\ task[p].pc \in PanicPCs
    <3>1. PanicKnows(task[p]) /\ task[p].leg \in Legs
      BY <2>2, Held DEF PathInv, PanicsKnow, PanicPCs, HasLeg
    <3>2. ASSUME NEW x \in Rooms, legParts[x][task[p].leg] = task[p].part
          PROVE  idOf[x] # None
      BY <2>2, <3>1, <3>2 DEF PathInv, FreshParts, PanicKnows
    <3>3. QED
      BY <1>2, <2>2, <3>1, <3>2 DEF PanicKnows, SameParts
  <2>3. QED
    BY <2>1, <2>2 DEF PanicsKept
<1>7. ASSUME NEW x \in Rooms, x \in Live', NEW k \in Legs
      PROVE  Heard(x, k)'
  <2>1. CASE x \in Live
    <3>1. Heard(x, k)
      BY <2>1, HeardEverywhere DEF PathInv
    <3>2. PanicPending(k, legParts[x][k]) => PanicPending(k, legParts[x][k])'
      BY KeptPending DEF PanicPending, PanicsKept, PanicPCs, SameParts
    <3>3. QED
      BY <3>1, <3>2 DEF Heard, SameParts
  <2>2. CASE idOf[x] = None
    <3>1. participants[x] = {} /\ mixLeg[x][k] = 0
      BY <2>2 DEF IInv, FreshRoomsBlank
    <3>2. QED
      BY <3>1 DEF Heard, SameParts
  <2>3. QED
    BY <1>2, <1>7, <2>1, <2>2
<1>8. AudioPathMatchesMembership'
  BY <1>1, <1>7 DEF AudioPathMatchesMembership, Heard
<1>9. QED
  BY <1>3, <1>5, <1>6, <1>8 DEF PathInv, PanicsKnow

(* A dead instance leaves the mixer; whoever the room believes it carries  *)
(* now has its teardown to come.                                           *)
LEMMA LegLoopPanicPath ==
    ASSUME IInv, PathInv, NEW p \in Procs, NEW o \in Rooms, NEW l \in Legs,
           LegLoopPanic(p, o, l)
    PROVE  PathInv'
<1> DEFINE t == [Idle EXCEPT !.pc = "panicLeg", !.leg = l, !.id = idOf[o],
                             !.part = mixLeg[o][l]]
<1>1. /\ TypeOK /\ Live \subseteq Rooms
      /\ UNCHANGED <<rooms, idOf, participants, legParts, lastPart, up>> /\ Live' = Live
      /\ task[p].pc = "idle" /\ mixLeg[o][l] # 0
      /\ mixLeg' = [mixLeg EXCEPT ![o][l] = 0]
      /\ Goto(p, t)
  BY DEF LegLoopPanic, Running, Live, IInv, TypeOK
<1>2. /\ task'[p] = t /\ \A q \in Procs \ {p} : task'[q] = task[q]
      /\ t.pc = "panicLeg" /\ t.leg = l /\ t.id = idOf[o] /\ t.part = mixLeg[o][l]
  BY <1>1 DEF Goto, TypeOK, Idle
<1>3. /\ mixLeg'[o][l] = 0
      /\ \A x \in Rooms, k \in Legs : x # o \/ k # l => mixLeg'[x][k] = mixLeg[x][k]
  BY <1>1 DEF TypeOK
<1> HIDE DEF t
<1>4. PartsNumbered'
  <2>1. \A x \in Rooms, k \in Legs : mixLeg'[x][k] <= lastPart
    BY <1>1, <1>3 DEF PathInv, PartsNumbered, TypeOK
  <2>2. \A q \in Procs : task'[q].part <= lastPart
    BY <1>2 DEF PathInv, PartsNumbered
  <2>3. QED
    BY <1>1, <2>1, <2>2 DEF PathInv, PartsNumbered
<1>5. PartsApart' /\ FreshParts' /\ OneInstance'
  <2>1. ASSUME NEW x \in Rooms, NEW y \in Rooms, NEW k \in Legs, x # y, legParts[x][k] # 0
        PROVE  legParts[x][k] \notin {legParts[y][k], mixLeg'[y][k]}
    BY <1>3, <2>1 DEF PathInv, PartsApart
  <2>2. OneInstance'
    BY <1>1, <1>3 DEF PathInv, OneInstance
  <2>3. QED
    BY <1>1, <2>1, <2>2 DEF PathInv, PartsApart, FreshParts
<1>6. PanicKnows(task[p])'
  <2>1. ASSUME NEW x \in Rooms, legParts[x][l] = mixLeg[o][l]
        PROVE  x = o
    BY <1>1, <2>1 DEF PathInv, PartsApart
  <2>2. QED
    BY <1>1, <1>2, <2>1 DEF PanicKnows, PanicPCs
<1>7. PanicsKnow'
  BY <1>1, <1>2, <1>6 DEF PathInv, PanicsKnow, PanicKnows
<1>8. ASSUME NEW x \in Live, NEW k \in Legs
      PROVE  Heard(x, k)'
  <2>1. Heard(x, k)
    BY HeardEverywhere DEF PathInv
  <2>2. PanicPending(k, legParts[x][k]) => PanicPending(k, legParts[x][k])'
    BY <1>1, <1>2 DEF PanicPending
  <2>3. CASE x # o \/ k # l
    BY <1>1, <1>3, <2>1, <2>2, <2>3 DEF Heard
  <2>4. CASE x = o /\ k = l
    <3>1. \A n : n = mixLeg[o][l] => PanicPending(l, n)'
      BY <1>1, <1>2 DEF PanicPending
    <3>2. QED
      BY <1>1, <1>3, <2>1, <2>2, <2>4, <3>1 DEF Heard
  <2>5. QED
    BY <2>3, <2>4
<1>9. AudioPathMatchesMembership'
  BY <1>1, <1>8 DEF AudioPathMatchesMembership, Heard
<1>10. QED
  BY <1>4, <1>5, <1>7, <1>9 DEF PathInv

(* A teardown moves on only with the room its instance was in, or without  *)
(* a leg to end.                                                           *)
LEMMA PanicLegLookupPath ==
    ASSUME IInv, PathInv, NEW p \in Procs, PanicLegLookup(p)
    PROVE  PathInv'
<1> DEFINE o == rooms[task[p].id]
           t == task[p]
<1>1. /\ TypeOK /\ Live \subseteq Rooms
      /\ UNCHANGED <<rooms, idOf, participants, legParts, mixLeg, lastPart, up>>
      /\ Live' = Live
      /\ t \in TaskType /\ t.pc = "panicLeg" /\ t.leg \in Legs /\ t.id \in RoomIDs
      /\ PanicKnows(t)
  BY Held
     DEF PanicLegLookup, At, HasLeg, HasID, Live, IInv, TypeOK, roomVars, PathInv, PanicsKnow
<1>2. \A x \in Live : legParts[x][t.leg] = t.part => o = x
  BY <1>1 DEF PanicKnows, Live, IInv, RoomsUnderTheirID
<1>3. \A q \in Procs \ {p} : task'[q] = task[q]
  BY <1>1 DEF PanicLegLookup, Goto, Done, TypeOK
<1>4. PartsApart' /\ FreshParts' /\ OneInstance'
  BY <1>1 DEF PathInv, PartsApart, FreshParts, OneInstance
<1>5. lastPart \in Nat /\ 0 <= lastPart /\ t.part \in Nat /\ t.part <= lastPart
  BY <1>1, RoomManagerAssumption
     DEF RoomManagerAssumption, TypeOK, TaskType, PathInv, PartsNumbered
<1>6. CASE Goto(p, [t EXCEPT !.pc = "panicRemove", !.src = o, !.id = None])
  <2>1. /\ task'[p].pc = "panicRemove" /\ task'[p].src = o
        /\ task'[p].leg = t.leg /\ task'[p].part = t.part
    BY <1>1, <1>6 DEF Goto, TypeOK, TaskType
  <2>2. PartsNumbered'
    BY <1>1, <1>3, <1>5, <2>1 DEF PathInv, PartsNumbered
  <2>3. PanicKnows(task[p])'
    BY <1>1, <1>2, <2>1 DEF PanicKnows, PanicPCs
  <2>4. PanicsKnow'
    BY <1>1, <1>3, <2>3 DEF PathInv, PanicsKnow, PanicKnows
  <2>5. ASSUME NEW k, NEW n, PanicPending(k, n)
        PROVE  PanicPending(k, n)'
    BY <1>1, <1>3, <2>1, <2>5 DEF PanicPending
  <2>6. ASSUME NEW x \in Live, NEW k \in Legs
        PROVE  Heard(x, k)'
    <3>1. Heard(x, k) /\ UNCHANGED legParts[x][k]
      BY <1>1, HeardEverywhere DEF PathInv
    <3>2. PanicPending(k, legParts[x][k]) => PanicPending(k, legParts[x][k])'
      BY <2>5, <3>1 DEF PanicPending
    <3>3. QED
      BY <1>1, <3>1, <3>2 DEF Heard
  <2>7. AudioPathMatchesMembership'
    BY <1>1, <2>6 DEF AudioPathMatchesMembership, Heard
  <2>8. QED
    BY <1>4, <2>2, <2>4, <2>7 DEF PathInv
<1>7. CASE (o = None \/ t.leg \notin up) /\ Done(p)
  <2>1. task'[p].pc = "idle" /\ task'[p].part = 0
    BY <1>1, <1>7 DEF Done, Goto, Idle, TypeOK
  <2>2. PartsNumbered'
    BY <1>1, <1>3, <1>5, <2>1 DEF PathInv, PartsNumbered
  <2>3. PanicsKnow'
    BY <1>1, <1>3, <2>1 DEF PathInv, PanicsKnow, PanicKnows, PanicPCs
  <2>4. ASSUME NEW x \in Live, NEW k \in Legs
        PROVE  Heard(x, k)'
    <3>1. Heard(x, k) /\ UNCHANGED legParts[x][k] /\ x # None
      BY <1>1, HeardEverywhere DEF PathInv, Live
    <3>2. ASSUME k \in up, PanicPending(k, legParts[x][k])
          PROVE  PanicPending(k, legParts[x][k])'
      <4>1. ~ (t.leg = k /\ t.part = legParts[x][k])
        BY <1>2, <1>7, <3>1, <3>2
      <4>2. QED
        BY <1>3, <3>1, <3>2, <4>1 DEF PanicPending
    <3>3. QED
      BY <1>1, <3>1, <3>2 DEF Heard
  <2>5. AudioPathMatchesMembership'
    BY <1>1, <2>4 DEF AudioPathMatchesMembership, Heard
  <2>6. QED
    BY <1>4, <2>2, <2>3, <2>5 DEF PathInv
<1>8. QED
  BY <1>6, <1>7 DEF PanicLegLookup

(* The teardown ends: with the leg taken out, or with an instance that     *)
(* carries nobody any more.                                                *)
LEMMA PanicLegRemovePath ==
    ASSUME IInv, PathInv, NEW p \in Procs, PanicLegRemove(p)
    PROVE  PathInv'
<1> DEFINE t == task[p]
           o == t.src
           l == t.leg
<1>1. /\ TypeOK /\ Live \subseteq Rooms /\ Live' = Live
      /\ UNCHANGED <<rooms, idOf, up>>
      /\ t \in TaskType /\ t.pc = "panicRemove" /\ l \in Legs /\ o \in Rooms
      /\ idOf[o] # None /\ PanicKnows(t)
  BY Held
     DEF PanicLegRemove, At, HasLeg, HasSrc, Live, IInv, TypeOK, PathInv, PanicsKnow
<1>2. \A x \in Live : legParts[x][l] = t.part => o = x
  BY <1>1 DEF PanicKnows
<1>3. /\ \A q \in Procs \ {p} : task'[q] = task[q]
      /\ task'[p].pc \notin PanicPCs /\ task'[p].part = 0
  <2>1. CASE Done(p)
    BY <1>1, <2>1 DEF Goto, Done, Idle, TypeOK, PanicPCs
  <2>2. CASE Goto(p, [Idle EXCEPT !.pc = "hangupFirst", !.leg = l])
    BY <1>1, <2>2 DEF Goto, Idle, TypeOK, PanicPCs
  <2>3. QED
    BY <2>1, <2>2 DEF PanicLegRemove
<1>4. lastPart \in Nat /\ 0 <= lastPart
  BY <1>1, RoomManagerAssumption DEF RoomManagerAssumption, TypeOK
<1>5. ASSUME NEW x \in Live, NEW k \in Legs, ~ (x = o /\ k = l /\ legParts[o][l] = t.part),
             UNCHANGED legParts[x][k], PanicPending(k, legParts[x][k])
      PROVE  PanicPending(k, legParts[x][k])'
  <2>1. ~ (l = k /\ t.part = legParts[x][k])
    BY <1>2, <1>5
  <2>2. QED
    BY <1>3, <1>5, <2>1 DEF PanicPending
<1>6. CASE StillCarriedBy(o, l, t.part) /\ RemoveLegLocked(o, l)
  <2>1. LegChange(o, l) /\ l \notin participants'[o] /\ legParts'[o][l] = 0
    BY <1>1, <1>6, RemoveIsLegChange
  <2>2. /\ PartsApart' /\ FreshParts' /\ OneInstance'
        /\ \A x \in Rooms, k \in Legs : legParts'[x][k] <= lastPart' /\ mixLeg'[x][k] <= lastPart'
    BY <1>1, <2>1, ChangeKeepsParts
  <2>3. lastPart' = lastPart
    BY <1>6 DEF RemoveLegLocked
  <2>4. PartsNumbered'
    BY <1>3, <1>4, <2>2, <2>3 DEF PathInv, PartsNumbered
  <2>5. ASSUME NEW q \in Procs
        PROVE  PanicKnows(task[q])'
    <3>1. CASE q = p
      BY <1>3, <3>1 DEF PanicKnows, PanicPCs
    <3>2. CASE q # p
      BY <1>1, <1>3, <2>1, <3>2, ChangeKeepsKnowing
    <3>3. QED
      BY <3>1, <3>2
  <2>6. ASSUME NEW x \in Live, NEW k \in Legs
        PROVE  Heard(x, k)'
    <3>1. CASE x = o /\ k = l
      BY <2>1, <3>1 DEF LegChange, Heard
    <3>2. CASE x # o \/ k # l
      <4>1. /\ legParts'[x][k] = legParts[x][k] /\ mixLeg'[x][k] = mixLeg[x][k]
            /\ k \in participants'[x] <=> k \in participants[x]
        BY <1>1, <2>1, <3>2 DEF LegChange, Elsewhere
      <4>2. Heard(x, k)
        BY HeardEverywhere DEF PathInv
      <4>3. QED
        BY <1>1, <1>5, <3>2, <4>1, <4>2 DEF Heard
    <3>3. QED
      BY <3>1, <3>2
  <2>7. AudioPathMatchesMembership'
    BY <1>1, <2>6 DEF AudioPathMatchesMembership, Heard
  <2>8. QED
    BY <2>2, <2>4, <2>5, <2>7 DEF PathInv, PanicsKnow
<1>7. CASE ~ StillCarriedBy(o, l, t.part) /\ UNCHANGED roomVars
  <2>1. UNCHANGED <<participants, legParts, mixLeg, lastPart>>
    BY <1>7 DEF roomVars
  <2>2. PartsApart' /\ FreshParts' /\ OneInstance'
    BY <1>1, <2>1 DEF PathInv, PartsApart, FreshParts, OneInstance
  <2>3. PartsNumbered'
    BY <1>3, <1>4, <2>1 DEF PathInv, PartsNumbered
  <2>4. PanicsKnow'
    BY <1>1, <1>3, <2>1 DEF PathInv, PanicsKnow, PanicKnows, PanicPCs
  <2>5. ASSUME NEW x \in Live, NEW k \in Legs
        PROVE  Heard(x, k)'
    <3>1. Heard(x, k) /\ UNCHANGED legParts[x][k]
      BY <2>1, HeardEverywhere DEF PathInv
    <3>2. k \notin participants[x] \/ ~ (x = o /\ k = l /\ legParts[o][l] = t.part)
      BY <1>7 DEF StillCarriedBy
    <3>3. QED
      BY <1>1, <1>5, <2>1, <3>1, <3>2 DEF Heard
  <2>6. AudioPathMatchesMembership'
    BY <1>1, <2>5 DEF AudioPathMatchesMembership, Heard
  <2>7. QED
    BY <2>2, <2>3, <2>4, <2>6 DEF PathInv
<1>8. QED
  BY <1>6, <1>7 DEF PanicLegRemove

LEMMA InitPath == ASSUME Init PROVE PathInv
<1>1. \A o \in Rooms, l \in Legs : legParts[o][l] = 0 /\ mixLeg[o][l] = 0 /\ participants[o] = {}
  BY DEF Init
<1>2. \A p \in Procs : task[p].pc = "idle" /\ task[p].part = 0
  BY DEF Init, Idle
<1>3. lastPart = 0 /\ Live = {}
  BY DEF Init, Live
<1>4. QED
  BY <1>1, <1>2, <1>3
     DEF PathInv, PartsNumbered, PartsApart, OneInstance, FreshParts, PanicsKnow, PanicKnows,
         PanicPCs, AudioPathMatchesMembership

LEMMA NextPathInv == ASSUME IInv, PathInv, [Next]_vars PROVE PathInv'
<1>1. CASE Next
  <2>1. up' \subseteq up /\ RegistryStep
    BY <1>1, NextEffects DEF DataStep
  <2>2. QED
    BY <1>1, <2>1, NextPath, RegistryKeepsPath, KeptStepsPath, LegLoopPanicPath,
       PanicLegLookupPath, PanicLegRemovePath DEF PathStep
<1>2. CASE UNCHANGED vars
  BY <1>2 DEF vars, roomVars, bridgeVars, PathInv, PartsNumbered, PartsApart, OneInstance,
     FreshParts, PanicsKnow, PanicKnows, AudioPathMatchesMembership, PanicPending, Live
<1>3. QED
  BY <1>1, <1>2

(* The instances the rooms and their mixers know, in every interleaving    *)
(* (Room.legParts against the mixer's map).                                *)
THEOREM PathInvariant == Spec => [](IInv /\ PathInv)
<1>1. Init => IInv /\ PathInv
  BY InitIInv, InitPath
<1>2. IInv /\ PathInv /\ [Next]_vars => (IInv /\ PathInv)'
  BY NextIInv, NextPathInv
<1>3. QED
  BY <1>1, <1>2, PTL DEF Spec

(* In a registered room the instance a leg is believed to have is the one  *)
(* in the mixer, or its teardown is still to come; and nobody else is      *)
(* heard (addLegLocked, removeLegLocked, the panic hook of AddLeg), for    *)
(* any interleaving of joins, moves, deletes, media rebuilds and panics.   *)
THEOREM AudioFollowsMembership == Spec => []AudioPathMatchesMembership
<1>1. IInv /\ PathInv => AudioPathMatchesMembership
  BY DEF PathInv
<1>2. QED
  BY <1>1, PathInvariant, PTL

(* The teardown of a panicked leg never takes a leg whose audio is healthy:*)
(* the instance it is told of is the only one the mixer can have           *)
(* (Room.RemoveLegIfParticipant).                                          *)
THEOREM HealthyAudio == Spec => HealthyAudioSurvivesPanic
<1> DEFINE A == \A p \in Procs, o \in Rooms, l \in Legs :
                   PanicLegRemove(p) /\ l \in participants[o] /\ l \notin participants'[o]
                       => mixLeg[o][l] \in {0, task[p].part}
<1>1. IInv /\ PathInv => A
  <2>1. SUFFICES ASSUME IInv, PathInv, NEW p \in Procs, NEW o \in Rooms, NEW l \in Legs,
                        PanicLegRemove(p), l \in participants[o], l \notin participants'[o]
                 PROVE  mixLeg[o][l] \in {0, task[p].part}
    OBVIOUS
  <2>2. task[p].pc = "panicRemove" /\ task[p].part # 0
    BY <2>1 DEF PanicLegRemove, At, PathInv, PanicsKnow, PanicKnows, PanicPCs
  <2>3. o = task[p].src /\ l = task[p].leg /\ legParts[o][l] = task[p].part
    <3>1. /\ RemoveLegLocked(task[p].src, task[p].leg)
          /\ StillCarriedBy(task[p].src, task[p].leg, task[p].part)
      BY <2>1 DEF PanicLegRemove, roomVars
    <3>2. QED
      BY <2>1, <3>1 DEF RemoveLegLocked, StillCarriedBy, IInv, TypeOK
  <2>4. QED
    BY <2>1, <2>2, <2>3 DEF PathInv, OneInstance
<1>2. QED
  BY <1>1, PathInvariant, PTL DEF HealthyAudioSurvivesPanic

-----------------------------------------------------------------------------
(***************************************************************************)
(* What holds of the room manager where callers are orderly: they start    *)
(* nothing on a leg or a bridge, and delete no room, that an operation     *)
(* under way is about (Clear, RoomClear).  The invariant of the members    *)
(* and that of the bridges are each preserved on their own; both rest on   *)
(* the one that holds of callers of any kind.                              *)
(***************************************************************************)

(* The members: a leg on its way into a room is in none, a room an         *)
(* operation holds is registered or is being deleted by it, and a deleted  *)
(* room that nobody works on is closed.                                    *)

Adding == {"addLeg", "moveTarget", "moveDetach"}

HoldsLive(t) ==
    /\ t.pc \notin Deleting => t.src \in Live \cup {None}
    /\ t.dst \in Live \cup {None}
    /\ \A x \in t.torn : x.peer \in Live
HeldRoomsLive == \A p \in Procs : HoldsLive(task[p])

Closing(o) == \E p \in Procs : task[p].pc \in Deleting /\ task[p].src = o
Closed(o) == participants[o] = {} /\ ~ mixerRunning[o]
DeadAreClosed == \A o \in Rooms \ Live : Closing(o) \/ Closed(o)

OneAdder ==
    \A p, q \in Procs : /\ p # q
                        /\ task[p].pc \in Adding /\ task[q].pc \in Adding
                        => task[p].leg # task[q].leg

JoinersAreOutside ==
    \A p \in Procs : task[p].pc = "addLeg" =>
        \A o \in Live : task[p].leg \notin participants[o]

OneRoom ==
    \A l \in Legs : \A o, x \in Live :
        l \in participants[o] /\ l \in participants[x] => o = x

MemberInv ==
    HeldRoomsLive /\ DeadAreClosed /\ OneAdder /\ JoinersAreOutside /\ OneRoom

-----------------------------------------------------------------------------
(* The bridges: one operation at a time works on one, it knows the rooms   *)
(* the bridge is registered with, and what it has wired is wired.          *)

Wiring == {"attachA", "attachB", "directA", "directB"}
Unwiring == {"detachA", "detachB"}

FieldsAtRest ==
    \A p \in Procs : /\ task[p].pc # "unbridge" => task[p].torn = {}
                     /\ task[p].pc \notin HasBridge => task[p].br = None

OneOwner ==
    \A p, q \in Procs : p # q /\ task[p].br # None => task[q].br # task[p].br

TornAreGone ==
    \A p \in Procs : \A x \in task[p].torn :
        /\ bridges[x.br] = None
        /\ \A q \in Procs : task[q].br = x.br => task[q].pc = "panicBridge"
        /\ \A q \in Procs \ {p} : \A y \in task[q].torn : y.br # x.br

Says(sends) == IF sends THEN "send" ELSE "deaf"

WiresItsBridge(t) ==
    LET b == t.br  br == bridges[t.br] IN
    /\ t.pc \in Wiring => /\ br # None /\ t.dir = br.dir
                          /\ t.src = rooms[br.a] /\ t.dst = rooms[br.b]
    /\ t.pc \in Unwiring => br = None /\ t.src # t.dst
    /\ t.pc \in {"attachB", "directA", "directB"} => mixBridge[t.src][b] # "absent"
    /\ t.pc \in {"directA", "directB"} => mixBridge[t.dst][b] # "absent"
    /\ t.pc = "directB" => mixBridge[t.src][b] = Says(ASends(t.dir))
BridgesAreWired == \A p \in Procs : WiresItsBridge(task[p])

OwnersInv == FieldsAtRest /\ OneOwner /\ TornAreGone

BridgeInv == OwnersInv /\ BridgesAreWired /\ RefsMatchBridges /\ DirectionIsApplied


-----------------------------------------------------------------------------
(* What a step of p does to the members.  Only AddLegFinish adds one.      *)

MemberEffect(p) ==
    /\ \A q \in Procs \ {p} : task'[q] = task[q]
    /\ HeldRoomsLive'
    /\ task'[p].pc \in Adding =>
          \/ task[p].pc \in Adding /\ task'[p].leg = task[p].leg
          \/ \A q \in Procs : task[q].leg # task'[p].leg
    /\ \A o \in Rooms : task[p].pc \in Deleting /\ task[p].src = o =>
          \/ task'[p].pc \in Deleting /\ task'[p].src = o
          \/ Closed(o)'
    /\ \A o \in Live \ Live' : task'[p].pc \in Deleting /\ task'[p].src = o
    /\ task'[p].pc = "addLeg" => \A o \in Live : task'[p].leg \notin participants'[o]

Shrinks ==
    \A o \in Rooms : /\ participants'[o] \subseteq participants[o]
                     /\ o \notin Live /\ Closed(o) => Closed(o)'

LEMMA LiveRooms == ASSUME IInv PROVE Live \subseteq Rooms
  BY DEF IInv, TypeOK, Live

(* A room that becomes live is empty.                                      *)
LEMMA NewRoomsAreEmpty ==
    ASSUME IInv, RegistryStep, Shrinks, NEW o \in Live', NEW l \in participants'[o]
    PROVE  o \in Live /\ l \in participants[o]
<1>1. o \in Rooms
  BY RegistryTypes DEF Live
<1>2. o \in Live \/ participants[o] = {}
  BY <1>1, NewlyLive DEF IInv, FreshRoomsBlank
<1>3. QED
  BY <1>1, <1>2 DEF Shrinks

LEMMA MembersKept ==
    ASSUME IInv, MemberInv, RegistryStep, NEW p \in Procs, MemberEffect(p), Shrinks
    PROVE  MemberInv'
<1>1. ASSUME NEW o \in Rooms \ Live'
      PROVE  Closing(o)' \/ Closed(o)'
  <2>1. CASE o \in Live
    BY <1>1, <2>1 DEF MemberEffect, Closing
  <2>2. CASE o \notin Live /\ Closed(o)
    BY <1>1, <2>2 DEF Shrinks
  <2>3. CASE o \notin Live /\ Closing(o)
    <3>1. PICK q \in Procs : task[q].pc \in Deleting /\ task[q].src = o
      BY <2>3 DEF Closing
    <3>2. CASE q = p
      BY <3>1, <3>2 DEF MemberEffect, Closing
    <3>3. CASE q # p
      BY <3>1, <3>3 DEF MemberEffect, Closing
    <3>4. QED
      BY <3>2, <3>3
  <2>4. QED
    BY <1>1, <2>1, <2>2, <2>3 DEF MemberInv, DeadAreClosed
<1>2. OneAdder'
  <2>1. SUFFICES ASSUME NEW q \in Procs, NEW r \in Procs, q # r,
                        task'[q].pc \in Adding, task'[r].pc \in Adding
                 PROVE  task'[q].leg # task'[r].leg
    BY DEF OneAdder
  <2>2. CASE q # p /\ r # p
    BY <2>1, <2>2 DEF MemberEffect, MemberInv, OneAdder
  <2>3. CASE q = p
    BY <2>1, <2>3 DEF MemberEffect, MemberInv, OneAdder
  <2>4. CASE r = p
    BY <2>1, <2>4 DEF MemberEffect, MemberInv, OneAdder
  <2>5. QED
    BY <2>2, <2>3, <2>4
<1>3. JoinersAreOutside'
  <2>1. SUFFICES ASSUME NEW q \in Procs, task'[q].pc = "addLeg", NEW o \in Live',
                        task'[q].leg \in participants'[o]
                 PROVE  FALSE
    BY DEF JoinersAreOutside
  <2>2. o \in Live /\ task'[q].leg \in participants[o]
    BY <2>1, NewRoomsAreEmpty
  <2>3. CASE q = p
    BY <2>1, <2>2, <2>3 DEF MemberEffect
  <2>4. CASE q # p
    BY <2>1, <2>2, <2>4 DEF MemberEffect, MemberInv, JoinersAreOutside
  <2>5. QED
    BY <2>3, <2>4
<1>4. OneRoom'
  BY NewRoomsAreEmpty DEF MemberInv, OneRoom
<1>5. HeldRoomsLive'
  BY DEF MemberEffect
<1>6. QED
  BY <1>1, <1>2, <1>3, <1>4, <1>5 DEF MemberInv, DeadAreClosed

(* Steps of no goroutine's task.                                           *)
LEMMA MembersKeptIdle ==
    ASSUME IInv, MemberInv, RegistryStep, Shrinks, UNCHANGED task, Live \subseteq Live'
    PROVE  MemberInv'
<1>1. DeadAreClosed'
  BY DEF MemberInv, DeadAreClosed, Shrinks, Closing
<1>2. HeldRoomsLive' /\ OneAdder'
  BY DEF MemberInv, HeldRoomsLive, HoldsLive, OneAdder
<1>3. JoinersAreOutside' /\ OneRoom'
  BY NewRoomsAreEmpty DEF MemberInv, JoinersAreOutside, OneRoom
<1>4. QED
  BY <1>1, <1>2, <1>3 DEF MemberInv

(* What keeps a goroutine's next task within the invariant.               *)
Joins(p, t) ==
    /\ \/ t.pc \notin Adding
       \/ task[p].pc \in Adding /\ t.leg = task[p].leg
       \/ \A q \in Procs : task[q].leg # t.leg
    /\ t.pc = "addLeg" => \A o \in Live : t.leg \notin participants'[o]

LEMMA OwnStep ==
    ASSUME IInv, MemberInv, NEW p \in Procs, NEW t, Goto(p, t), HoldsLive(t),
           Live \subseteq Live', task[p].pc \notin Deleting, Joins(p, t)
    PROVE  MemberEffect(p)
<1>1. task'[p] = t /\ \A q \in Procs \ {p} : task'[q] = task[q]
  BY DEF IInv, TypeOK, Goto
<1>2. \A q \in Procs : HoldsLive(task[q])'
  BY <1>1 DEF MemberInv, HeldRoomsLive, HoldsLive
<1>3. QED
  BY <1>1, <1>2 DEF MemberEffect, HeldRoomsLive, Joins

LEMMA DoneIsOwnStep ==
    ASSUME IInv, MemberInv, NEW p \in Procs, Done(p), Live \subseteq Live',
           task[p].pc \notin Deleting
    PROVE  MemberEffect(p)
<1>1. HoldsLive(Idle) /\ Joins(p, Idle)
  BY DEF HoldsLive, Idle, Adding, Joins
<1>2. QED
  BY <1>1, OwnStep DEF Done

(* One registered room changes and gets no member.                         *)
LEMMA RoomShrinks ==
    ASSUME NEW o \in Live, participants'[o] \subseteq participants[o],
           \A x \in Rooms \ {o} : /\ participants'[x] = participants[x]
                                  /\ mixerRunning'[x] = mixerRunning[x]
    PROVE  Shrinks
  BY DEF Shrinks, Closed

LEMMA SameMembers ==
    ASSUME UNCHANGED <<participants, mixerRunning>>
    PROVE  Shrinks
  BY DEF Shrinks, Closed

-----------------------------------------------------------------------------
(* The starts.                                                             *)

LEMMA LegStartsKeep ==
    ASSUME IInv, MemberInv, orderly, NEW p \in Procs, LegStart(p)
    PROVE  MemberEffect(p) /\ Shrinks
<1>1. PICK i \in RoomIDs, l \in Legs :
          \/ AddLegStart(p, i, l)
          \/ RemoveLegStart(p, i, l)
          \/ \E j \in RoomIDs : MoveLegStart(p, i, j, l)
  BY DEF LegStart
<1>2. /\ UNCHANGED <<rooms, participants, mixerRunning>>
      /\ rooms[i] # None /\ task[p].pc = "idle" /\ Clear({l}, {})
  BY <1>1 DEF AddLegStart, RemoveLegStart, MoveLegStart, Running, roomVars
<1>3. Live' = Live /\ rooms[i] \in Live /\ Shrinks
  BY <1>2, SameMembers DEF Live
<1>4. \A q \in Procs : task[q].leg # l
  BY <1>2 DEF Clear
<1>5. task[p].pc \notin Deleting
  BY <1>2 DEF Deleting
<1>6. CASE AddLegStart(p, i, l)
  <2> DEFINE t == [Idle EXCEPT !.pc = "addLeg", !.leg = l, !.dst = rooms[i]]
  <2>1. Goto(p, t) /\ \A o \in Live : l \notin participants[o]
    BY <1>6 DEF AddLegStart
  <2>2. HoldsLive(t) /\ Joins(p, t)
    BY <1>2, <1>3, <1>4, <2>1 DEF HoldsLive, Joins, Idle, Adding
  <2>3. QED
    BY <1>3, <1>5, <2>1, <2>2, OwnStep
<1>7. CASE RemoveLegStart(p, i, l)
  <2> DEFINE t == [Idle EXCEPT !.pc = "removeLeg", !.leg = l, !.src = rooms[i]]
  <2>1. Goto(p, t)
    BY <1>7 DEF RemoveLegStart
  <2>2. HoldsLive(t) /\ Joins(p, t)
    BY <1>3, <1>4 DEF HoldsLive, Joins, Idle, Adding
  <2>3. QED
    BY <1>3, <1>5, <2>1, <2>2, OwnStep
<1>8. CASE \E j \in RoomIDs : MoveLegStart(p, i, j, l)
  <2>1. PICK j \in RoomIDs : MoveLegStart(p, i, j, l)
    BY <1>8
  <2> DEFINE t == [Idle EXCEPT !.pc = "moveTarget", !.leg = l, !.src = rooms[i], !.id = j]
  <2>2. Goto(p, t)
    BY <2>1 DEF MoveLegStart
  <2>3. HoldsLive(t) /\ Joins(p, t)
    BY <1>3, <1>4 DEF HoldsLive, Joins, Idle, Adding
  <2>4. QED
    BY <1>3, <1>5, <2>2, <2>3, OwnStep
<1>9. QED
  BY <1>1, <1>6, <1>7, <1>8

LEMMA LegEndsKeeps ==
    ASSUME IInv, MemberInv, NEW p \in Procs, NEW l \in Legs, LegEnds(p, l)
    PROVE  MemberEffect(p) /\ Shrinks
<1>1. PICK pc \in {"cleanup", "hangupFirst"} : Goto(p, [Idle EXCEPT !.pc = pc, !.leg = l])
  BY DEF LegEnds
<1>2. UNCHANGED <<rooms, participants, mixerRunning>> /\ task[p].pc \notin Deleting
  BY DEF LegEnds, Running, roomVars, Deleting
<1> DEFINE t == [Idle EXCEPT !.pc = pc, !.leg = l]
<1>3. HoldsLive(t) /\ Joins(p, t)
  BY DEF HoldsLive, Joins, Idle, Adding
<1>4. QED
  BY <1>1, <1>2, <1>3, OwnStep, SameMembers DEF Live

LEMMA PanicsKeep ==
    ASSUME IInv, MemberInv, NEW p \in Procs, Panic(p)
    PROVE  MemberEffect(p) /\ Shrinks
<1>1. UNCHANGED <<rooms, participants, mixerRunning>> /\ task[p].pc \notin Deleting
  BY DEF Panic, LegLoopPanic, BridgeLoopPanic, Running, roomVars, Deleting
<1>2. ASSUME NEW o \in Rooms, NEW l \in Legs, LegLoopPanic(p, o, l)
      PROVE  MemberEffect(p)
  <2> DEFINE t == [Idle EXCEPT !.pc = "panicLeg", !.leg = l, !.id = idOf[o],
                               !.part = mixLeg[o][l]]
  <2>1. Goto(p, t)
    BY <1>2 DEF LegLoopPanic
  <2>2. HoldsLive(t) /\ Joins(p, t)
    BY DEF HoldsLive, Joins, Idle, Adding
  <2>3. QED
    BY <1>1, <2>1, <2>2, OwnStep DEF Live
<1>3. ASSUME NEW o \in Rooms, NEW b \in BridgeIDs, BridgeLoopPanic(p, o, b)
      PROVE  MemberEffect(p)
  <2> DEFINE t == [Idle EXCEPT !.pc = "panicBridge", !.br = b]
  <2>1. Goto(p, t)
    BY <1>3 DEF BridgeLoopPanic
  <2>2. HoldsLive(t) /\ Joins(p, t)
    BY DEF HoldsLive, Joins, Idle, Adding
  <2>3. QED
    BY <1>1, <2>1, <2>2, OwnStep DEF Live
<1>4. QED
  BY <1>1, <1>2, <1>3, SameMembers DEF Panic


(* The rooms of a registered bridge are registered.                        *)
LEMMA JoinedLive ==
    ASSUME IInv, NEW b \in BridgeIDs, bridges[b] # None
    PROVE  rooms[bridges[b].a] \in Live /\ rooms[bridges[b].b] \in Live
  BY Joined DEF Live, Bridge

LEMMA BridgeStartsKeep ==
    ASSUME IInv, MemberInv, NEW p \in Procs, BridgeStart(p)
    PROVE  MemberEffect(p) /\ Shrinks
<1>1. PICK b \in BridgeIDs :
          \/ DeleteBridgeStart(p, b)
          \/ \E dir \in Dirs : \/ SetDirectionStart(p, b, dir)
                               \/ \E i, j \in RoomIDs : CreateBridgeStart(p, b, i, j, dir)
  BY DEF BridgeStart
<1>2. UNCHANGED <<rooms, participants, mixerRunning>> /\ task[p].pc \notin Deleting
  BY <1>1 DEF DeleteBridgeStart, SetDirectionStart, CreateBridgeStart, Running,
     roomVars, Deleting
<1>3. CASE DeleteBridgeStart(p, b)
  <2> DEFINE t == [Idle EXCEPT !.pc = "detachA", !.br = b,
                      !.src = rooms[bridges[b].a], !.dst = rooms[bridges[b].b]]
  <2>1. Goto(p, t) /\ bridges[b] # None
    BY <1>3 DEF DeleteBridgeStart, Unregister
  <2>2. HoldsLive(t) /\ Joins(p, t)
    BY <2>1, JoinedLive DEF HoldsLive, Joins, Idle, Adding
  <2>3. QED
    BY <1>2, <2>1, <2>2, OwnStep, SameMembers DEF Live
<1>4. ASSUME NEW dir \in Dirs, SetDirectionStart(p, b, dir)
      PROVE  MemberEffect(p) /\ Shrinks
  <2> DEFINE t == [Idle EXCEPT !.pc = "directA", !.br = b, !.dir = dir,
                      !.src = rooms[bridges[b].a], !.dst = rooms[bridges[b].b]]
  <2>1. Goto(p, t) /\ bridges[b] # None
    BY <1>4 DEF SetDirectionStart
  <2>2. HoldsLive(t) /\ Joins(p, t)
    BY <2>1, JoinedLive DEF HoldsLive, Joins, Idle, Adding
  <2>3. QED
    BY <1>2, <2>1, <2>2, OwnStep, SameMembers DEF Live
<1>5. ASSUME NEW dir \in Dirs, NEW i \in RoomIDs, NEW j \in RoomIDs,
             CreateBridgeStart(p, b, i, j, dir)
      PROVE  MemberEffect(p) /\ Shrinks
  <2> DEFINE t == [Idle EXCEPT !.pc = "attachA", !.br = b, !.dir = dir,
                      !.src = rooms[i], !.dst = rooms[j]]
  <2>1. Goto(p, t) /\ rooms[i] # None /\ rooms[j] # None
    BY <1>5 DEF CreateBridgeStart
  <2>2. HoldsLive(t) /\ Joins(p, t)
    BY <2>1 DEF HoldsLive, Joins, Idle, Adding, Live
  <2>3. QED
    BY <1>2, <2>1, <2>2, OwnStep, SameMembers DEF Live
<1>6. QED
  BY <1>1, <1>3, <1>4, <1>5

-----------------------------------------------------------------------------
(* The steps of a leg's operations.                                        *)

LEMMA HeldLive ==
    ASSUME IInv, MemberInv, NEW p \in Procs
    PROVE  /\ HoldsLive(task[p]) /\ task[p] \in TaskType
           /\ task[p].pc \in HasSrc \ Deleting => task[p].src \in Live
           /\ task[p].pc \in HasDst => task[p].dst \in Live
  BY DEF IInv, TypeOK, TasksOK, TaskOK, MemberInv, HeldRoomsLive, HoldsLive

(* A step that moves on without a room more, a member more or a room less. *)
LEMMA QuietLegStepsKeep ==
    ASSUME IInv, MemberInv, NEW p \in Procs,
           HangupFirst(p) \/ Cleanup(p) \/ CleanupLookup(p) \/ Hangup(p) \/ PanicLegLookup(p)
    PROVE  MemberEffect(p) /\ Shrinks
<1>1. UNCHANGED <<rooms, participants, mixerRunning>> /\ task[p].pc \notin Deleting
  BY DEF HangupFirst, Cleanup, CleanupLookup, Hangup, PanicLegLookup, At, roomVars, Deleting
<1>2. Shrinks /\ Live \subseteq Live'
  BY <1>1, SameMembers DEF Live
<1>3. CASE HangupFirst(p)
  <2> DEFINE t == [task[p] EXCEPT !.pc = "cleanup"]
  <2>1. HoldsLive(t) /\ Joins(p, t)
    BY <1>1, HeldLive DEF HoldsLive, Joins, Adding, TaskType
  <2>2. QED
    BY <1>1, <1>2, <1>3, <2>1, OwnStep DEF HangupFirst
<1>4. CASE Cleanup(p)
  <2> DEFINE t == [task[p] EXCEPT !.pc = IF roomID[task[p].leg] = None THEN "hangup"
                                         ELSE "endLookup",
                                  !.id = roomID[task[p].leg]]
  <2>1. HoldsLive(t) /\ Joins(p, t)
    BY <1>1, HeldLive DEF HoldsLive, Joins, Adding, TaskType
  <2>2. QED
    BY <1>1, <1>2, <1>4, <2>1, OwnStep DEF Cleanup
<1>5. CASE CleanupLookup(p)
  <2> DEFINE o == rooms[task[p].id]
             t == [task[p] EXCEPT !.pc = IF o = None THEN "hangup" ELSE "endRemove",
                                  !.id = None, !.src = o]
  <2>1. o \in Live \cup {None}
    BY <1>5, Held DEF CleanupLookup, At, HasID, Live
  <2>2. HoldsLive(t) /\ Joins(p, t)
    BY <1>1, <2>1, HeldLive DEF HoldsLive, Joins, Adding, TaskType
  <2>3. QED
    BY <1>1, <1>2, <1>5, <2>2, OwnStep DEF CleanupLookup
<1>6. CASE Hangup(p)
  BY <1>1, <1>2, <1>6, DoneIsOwnStep DEF Hangup
<1>7. CASE PanicLegLookup(p)
  <2> DEFINE o == rooms[task[p].id]
             t == [task[p] EXCEPT !.pc = "panicRemove", !.src = o, !.id = None]
  <2>1. o \in Live \cup {None}
    BY <1>7, Held DEF PanicLegLookup, At, HasID, Live
  <2>2. HoldsLive(t) /\ Joins(p, t)
    BY <1>1, <2>1, HeldLive DEF HoldsLive, Joins, Adding, TaskType
  <2>3. CASE Goto(p, t)
    BY <1>1, <1>2, <2>2, <2>3, OwnStep
  <2>4. CASE Done(p)
    BY <1>1, <1>2, <2>4, DoneIsOwnStep
  <2>5. QED
    BY <1>7, <2>3, <2>4 DEF PanicLegLookup
<1>8. QED
  BY <1>3, <1>4, <1>5, <1>6, <1>7


LEMMA LeaveShrinks ==
    ASSUME IInv, NEW o \in Live, NEW l \in Legs, LeaveStep(o, l)
    PROVE  /\ Shrinks
           /\ participants'[o] = participants[o] \ {l}
           /\ \A x \in Rooms \ {o} : participants'[x] = participants[x]
<1>1. o \in Rooms /\ TypeOK
  BY LiveRooms DEF IInv
<1>2. SyncMixer(o, participants[o] \ {l}, bridgeRefs[o])
  BY DEF LeaveStep, RoomRemoveLeg
<1>3. \A x \in Rooms \ {o} : mixerRunning'[x] = mixerRunning[x]
  BY <1>1, <1>2, SyncFacts
<1>4. QED
  BY <1>1, <1>3, LeaveFacts, RoomShrinks

LEMMA LeavingStepsKeep ==
    ASSUME IInv, MemberInv, NEW p \in Procs,
           RemoveLegFinish(p) \/ CleanupRemove(p) \/ PanicLegRemove(p)
    PROVE  MemberEffect(p) /\ Shrinks
<1>1. UNCHANGED rooms /\ task[p].pc \in {"removeLeg", "endRemove", "panicRemove"}
  BY DEF RemoveLegFinish, CleanupRemove, PanicLegRemove, At
<1>2. Live \subseteq Live' /\ task[p].src \in Live /\ task[p].leg \in Legs
      /\ task[p].pc \notin Deleting
  BY <1>1, Held, HeldLive DEF Live, HasSrc, HasLeg, Deleting
<1>3. LeaveStep(task[p].src, task[p].leg) \/ UNCHANGED <<participants, mixerRunning>>
  BY DEF RemoveLegFinish, CleanupRemove, PanicLegRemove, LeaveStep, RoomRemoveLeg,
     StillCarriedBy, roomVars
<1>4. Shrinks
  BY <1>2, <1>3, LeaveShrinks, SameMembers
<1>5. CASE RemoveLegFinish(p)
  BY <1>2, <1>4, <1>5, DoneIsOwnStep DEF RemoveLegFinish
<1>6. CASE CleanupRemove(p)
  <2> DEFINE t == [task[p] EXCEPT !.pc = "hangup", !.src = None]
  <2>1. HoldsLive(t) /\ Joins(p, t)
    BY <1>1, <1>2, HeldLive DEF HoldsLive, Joins, Adding, TaskType
  <2>2. QED
    BY <1>2, <1>4, <1>6, <2>1, OwnStep DEF CleanupRemove
<1>7. CASE PanicLegRemove(p)
  <2> DEFINE t == [Idle EXCEPT !.pc = "hangupFirst", !.leg = task[p].leg]
  <2>1. HoldsLive(t) /\ Joins(p, t)
    BY DEF HoldsLive, Joins, Idle, Adding
  <2>2. Goto(p, t) \/ Done(p)
    BY <1>7 DEF PanicLegRemove
  <2>3. QED
    BY <1>2, <1>4, <2>1, <2>2, OwnStep, DoneIsOwnStep
<1>8. QED
  BY <1>5, <1>6, <1>7

LEMMA MoveLegTargetKeeps ==
    ASSUME IInv, MemberInv, NEW p \in Procs, MoveLegTarget(p)
    PROVE  MemberEffect(p) /\ Shrinks
<1> DEFINE j == task[p].id
           t(o) == [task[p] EXCEPT !.pc = "moveDetach", !.dst = o, !.id = None]
<1>1. j \in RoomIDs /\ task[p].pc = "moveTarget" /\ task[p] \in TaskType
  BY Held DEF MoveLegTarget, At, HasID
<1>2. task[p].src \in Live /\ HoldsLive(task[p]) /\ task[p].pc \notin Deleting
  BY <1>1, HeldLive DEF HasSrc, Deleting
<1>3. PICK o \in Rooms :
          /\ Goto(p, t(o)) /\ Live \subseteq Live' /\ o \in Live'
  <2>1. CASE rooms[j] # None
    <3>1. UNCHANGED rooms /\ Goto(p, t(rooms[j]))
      BY <2>1 DEF MoveLegTarget
    <3>2. QED
      BY <1>1, <2>1, <3>1, LiveRooms DEF Live
  <2>2. CASE rooms[j] = None
    <3>1. PICK o \in Rooms : Allocate(o, j) /\ Goto(p, t(o))
      BY <2>2 DEF MoveLegTarget
    <3>2. rooms'[j] = o /\ o # None /\ \A i \in RoomIDs \ {j} : rooms'[i] = rooms[i]
      BY <1>1, <3>1, AllocateFacts DEF IInv
    <3>3. Live \subseteq Live' /\ o \in Live'
      BY <1>1, <2>2, <3>2 DEF Live
    <3>4. QED
      BY <3>1, <3>3
  <2>3. QED
    BY <2>1, <2>2
<1>4. /\ task'[p] = t(o) /\ \A q \in Procs \ {p} : task'[q] = task[q]
      /\ UNCHANGED participants
  BY <1>3 DEF IInv, TypeOK, Goto, MoveLegTarget, roomVars
<1>5. \A q \in Procs : HoldsLive(task[q])'
  <2>1. HoldsLive(task[p])'
    BY <1>1, <1>2, <1>3, <1>4 DEF HoldsLive, TaskType, Deleting
  <2>2. ASSUME NEW q \in Procs \ {p}
        PROVE  HoldsLive(task[q])'
    BY <1>3, <1>4 DEF HoldsLive, MemberInv, HeldRoomsLive
  <2>3. QED
    BY <2>1, <2>2
<1>6. task'[p].pc = "moveDetach" /\ task'[p].leg = task[p].leg
  BY <1>1, <1>4 DEF TaskType
<1>7. MemberEffect(p)
  BY <1>1, <1>2, <1>3, <1>4, <1>5, <1>6 DEF MemberEffect, HeldRoomsLive, Adding
<1>8. QED
  BY <1>7, SameMembers DEF MoveLegTarget, roomVars

LEMMA MoveLegDetachKeeps ==
    ASSUME IInv, MemberInv, NEW p \in Procs, MoveLegDetach(p)
    PROVE  MemberEffect(p) /\ Shrinks
<1> DEFINE o == task[p].src
           l == task[p].leg
           t == [task[p] EXCEPT !.pc = "addLeg", !.src = None]
<1>1. task[p].pc = "moveDetach" /\ UNCHANGED rooms /\ task[p] \in TaskType
  BY Held DEF MoveLegDetach, At
<1>2. o \in Live /\ l \in Legs /\ Live' = Live /\ task[p].pc \notin Deleting
  BY <1>1, Held, HeldLive DEF HasSrc, HasLeg, Live, Deleting
<1>3. CASE l \in participants[o]
  <2>1. LeaveStep(o, l) /\ Goto(p, t)
    BY <1>3 DEF MoveLegDetach, LeaveStep, RoomRemoveLeg
  <2>2. \A x \in Live : l \notin participants'[x]
    BY <1>2, <1>3, <2>1, LeaveShrinks, LiveRooms DEF MemberInv, OneRoom
  <2>3. t.leg = l /\ HoldsLive(t)
    BY <1>1, HeldLive DEF HoldsLive, TaskType
  <2>4. Joins(p, t)
    BY <1>1, <2>2, <2>3 DEF Joins, Adding
  <2>5. QED
    BY <1>2, <2>1, <2>3, <2>4, OwnStep, LeaveShrinks
<1>4. CASE l \notin participants[o]
  BY <1>2, <1>4, DoneIsOwnStep, SameMembers DEF MoveLegDetach, roomVars
<1>5. QED
  BY <1>3, <1>4


(* Only the leg that joins is a member more.  No room had it, and no other *)
(* goroutine is about to add it.                                           *)
LEMMA AddLegFinishKeeps ==
    ASSUME IInv, MemberInv, NEW p \in Procs, AddLegFinish(p)
    PROVE  MemberInv'
<1> DEFINE o == task[p].dst
           l == task[p].leg
<1>1. task[p].pc = "addLeg" /\ UNCHANGED <<rooms, bridges, idOf, bridgeVars>> /\ Done(p)
  BY DEF AddLegFinish, At
<1>2. o \in Live /\ o \in Rooms /\ idOf[o] # None /\ l \in Legs
  BY <1>1, Held, HeldLive DEF HasDst, HasLeg
<1>3. \E part \in NewPart : JoinStep(o, l, part)
  BY <1>1 DEF AddLegFinish, JoinStep
<1>4. /\ participants'[o] = participants[o] \cup {l}
      /\ \A x \in Rooms \ {o} : participants'[x] = participants[x]
  BY <1>2, <1>3, JoinFacts DEF IInv
<1>5. SyncMixer(o, participants[o] \cup {l}, bridgeRefs[o])
  BY DEF AddLegFinish
<1>6. \A x \in Rooms \ {o} : mixerRunning'[x] = mixerRunning[x]
  BY <1>2, <1>5, SyncFacts DEF IInv
<1>7. Live' = Live /\ Live \subseteq Rooms
  BY <1>1, LiveRooms DEF Live
<1>8. task'[p] = Idle /\ \A q \in Procs \ {p} : task'[q] = task[q]
  BY <1>1 DEF Done, Goto, IInv, TypeOK
<1>9. HeldRoomsLive'
  <2>1. HoldsLive(task[p])'
    BY <1>8 DEF HoldsLive, Idle
  <2>2. ASSUME NEW q \in Procs \ {p}
        PROVE  HoldsLive(task[q])'
    BY <1>7, <1>8 DEF HoldsLive, MemberInv, HeldRoomsLive
  <2>3. QED
    BY <2>1, <2>2 DEF HeldRoomsLive
<1>10. DeadAreClosed'
  <2>1. SUFFICES ASSUME NEW x \in Rooms \ Live
                 PROVE  Closing(x)' \/ Closed(x)'
    BY <1>7 DEF DeadAreClosed
  <2>2. CASE Closed(x)
    BY <1>2, <1>4, <1>6, <2>1, <2>2 DEF Closed
  <2>3. CASE Closing(x)
    BY <1>1, <1>8, <2>3 DEF Closing, Deleting
  <2>4. QED
    BY <2>1, <2>2, <2>3 DEF MemberInv, DeadAreClosed
<1>11. OneAdder'
  BY <1>8 DEF MemberInv, OneAdder, Adding, Idle
<1>12. JoinersAreOutside'
  <2>1. SUFFICES ASSUME NEW q \in Procs, task'[q].pc = "addLeg", NEW x \in Live,
                        task'[q].leg \in participants'[x]
                 PROVE  FALSE
    BY <1>7 DEF JoinersAreOutside
  <2>2. q # p /\ task'[q] = task[q]
    BY <1>8, <2>1 DEF Idle
  <2>3. task[q].leg # l
    BY <1>1, <2>1, <2>2 DEF MemberInv, OneAdder, Adding
  <2>4. task[q].leg \notin participants[x]
    BY <2>1, <2>2 DEF MemberInv, JoinersAreOutside
  <2>5. QED
    BY <1>4, <1>7, <2>1, <2>2, <2>3, <2>4
<1>13. OneRoom'
  <2>1. \A x \in Live : l \notin participants[x]
    BY <1>1 DEF MemberInv, JoinersAreOutside
  <2>2. \A k \in Legs, x \in Live : k \in participants'[x] <=>
            k \in participants[x] \/ (k = l /\ x = o)
    BY <1>2, <1>4, <1>7
  <2>3. QED
    BY <1>7, <2>1, <2>2 DEF MemberInv, OneRoom
<1>14. QED
  BY <1>9, <1>10, <1>11, <1>12, <1>13 DEF MemberInv

-----------------------------------------------------------------------------
(* The steps of the bridges' operations.                                   *)

LEMMA RefShrinks ==
    ASSUME IInv, NEW o \in Live, NEW refs, SyncMixer(o, participants[o], refs),
           UNCHANGED participants
    PROVE  Shrinks
<1>1. o \in Rooms /\ TypeOK
  BY LiveRooms DEF IInv
<1>2. \A x \in Rooms \ {o} : mixerRunning'[x] = mixerRunning[x]
  BY <1>1, SyncFacts
<1>3. QED
  BY <1>1, <1>2, RoomShrinks

LEMMA BridgeStepsKeep ==
    ASSUME IInv, MemberInv, NEW p \in Procs, BridgeStep(p)
    PROVE  MemberEffect(p) /\ Shrinks
<1>1. /\ UNCHANGED <<rooms, participants>>
      /\ task[p].pc \in HasBridge
  BY DEF BridgeStep, AttachA, AttachB, DirectA, DirectB, DetachA, DetachB,
     PanicBridgeDelete, At, roomVars, HasBridge
<1>2. Live \subseteq Live' /\ task[p].pc \notin Deleting \cup Adding
  BY <1>1 DEF Live, HasBridge, Deleting, Adding
<1>3. task[p].pc \in HasDst => task[p].src \in Live /\ task[p].dst \in Live
  BY <1>1, HeldLive DEF HasSrc, HasDst, HasBridge, Deleting
<1>4. ASSUME NEW pc, pc \notin Adding, Goto(p, [task[p] EXCEPT !.pc = pc])
      PROVE  MemberEffect(p)
  <2> DEFINE t == [task[p] EXCEPT !.pc = pc]
  <2>1. HoldsLive(t) /\ Joins(p, t)
    BY <1>2, <1>4, HeldLive DEF HoldsLive, Joins, Adding, TaskType
  <2>2. QED
    BY <1>2, <1>4, <2>1, OwnStep
<1>5. CASE AttachA(p)
  <2>1. Shrinks
    BY <1>1, <1>3, <1>5, RefShrinks DEF AttachA, AttachBridge, At, HasDst
  <2>2. QED
    BY <1>4, <1>5, <2>1 DEF AttachA, Adding
<1>6. CASE AttachB(p)
  <2>1. Shrinks
    BY <1>1, <1>3, <1>6, RefShrinks DEF AttachB, AttachBridge, At, HasDst
  <2>2. QED
    BY <1>4, <1>6, <2>1 DEF AttachB, Adding
<1>7. CASE DetachA(p)
  <2>1. Shrinks
    BY <1>1, <1>3, <1>7, RefShrinks DEF DetachA, DetachBridge, At, HasDst
  <2>2. QED
    BY <1>4, <1>7, <2>1 DEF DetachA, Adding
<1>8. CASE DetachB(p)
  <2>1. Shrinks
    BY <1>1, <1>3, <1>8, RefShrinks DEF DetachB, DetachBridge, At, HasDst
  <2>2. QED
    BY <1>2, <1>8, <2>1, DoneIsOwnStep DEF DetachB
<1>9. CASE DirectA(p)
  BY <1>4, <1>9, SameMembers DEF DirectA, Adding, roomVars
<1>10. CASE DirectB(p)
  BY <1>2, <1>10, DoneIsOwnStep, SameMembers DEF DirectB, roomVars
<1>11. CASE PanicBridgeDelete(p)
  <2> DEFINE b == task[p].br
             t == [Idle EXCEPT !.pc = "detachA", !.br = b,
                      !.src = rooms[bridges[b].a], !.dst = rooms[bridges[b].b]]
  <2>1. b \in BridgeIDs /\ Shrinks
    BY <1>1, <1>11, Held, SameMembers DEF PanicBridgeDelete, roomVars
  <2>2. CASE bridges[b] # None /\ Unregister(p, b)
    <3>1. Goto(p, t)
      BY <2>2 DEF Unregister
    <3>2. HoldsLive(t) /\ Joins(p, t)
      BY <2>1, <2>2, JoinedLive DEF HoldsLive, Joins, Idle, Adding
    <3>3. QED
      BY <1>2, <2>1, <3>1, <3>2, OwnStep
  <2>3. CASE Done(p)
    BY <1>2, <2>1, <2>3, DoneIsOwnStep
  <2>4. QED
    BY <1>11, <2>2, <2>3 DEF PanicBridgeDelete
<1>12. QED
  BY <1>5, <1>6, <1>7, <1>8, <1>9, <1>10, <1>11 DEF BridgeStep


-----------------------------------------------------------------------------
(* The deletion of a room.                                                 *)

LEMMA DeleteStartKeeps ==
    ASSUME IInv, MemberInv, orderly, NEW p \in Procs, NEW i \in RoomIDs, DeleteStart(p, i)
    PROVE  MemberEffect(p) /\ Shrinks
<1> DEFINE o == rooms[i]
           torn == {[br |-> b, peer |-> Peer(b, i)] :
                       b \in {c \in BridgeIDs : Touches(c, i)}}
           t == [Idle EXCEPT !.pc = "unbridge", !.src = o, !.torn = torn]
<1>1. /\ o # None /\ o \in Rooms /\ task[p].pc = "idle" /\ Goto(p, t)
      /\ UNCHANGED <<participants, mixerRunning>>
  BY Registered DEF DeleteStart, Running, roomVars
<1>2. rooms'[i] = None /\ \A j \in RoomIDs \ {i} : rooms'[j] = rooms[j]
  BY DEF DeleteStart, IInv, TypeOK
<1>3. Live' = Live \ {o}
  BY <1>1, <1>2, Registered DEF Live
<1>4. task'[p] = t /\ \A q \in Procs \ {p} : task'[q] = task[q]
  BY <1>1 DEF Goto, IInv, TypeOK
<1>5. t.pc = "unbridge" /\ t.src = o /\ t.dst = None /\ t.torn = torn
  BY DEF Idle
<1>6. \A x \in torn : x.peer \in Live'
  <2>1. SUFFICES ASSUME NEW b \in BridgeIDs, Touches(b, i)
                 PROVE  Peer(b, i) \in Live'
    OBVIOUS
  <2>2. bridges[b] # None /\ bridges[b] \in Bridge
    BY <2>1, Joined DEF Touches
  <2>3. /\ bridges[b].a # bridges[b].b
        /\ bridges[b].a \in RoomIDs /\ bridges[b].b \in RoomIDs
        /\ rooms[bridges[b].a] # None /\ rooms[bridges[b].b] # None
    BY <2>2 DEF IInv, BridgesJoinLiveRooms, Bridge
  <2>4. QED
    BY <1>2, <2>1, <2>2, <2>3 DEF Peer, Touches, Live
<1> HIDE DEF t, torn
<1>7. HeldRoomsLive'
  <2>1. HoldsLive(task[p])'
    BY <1>4, <1>5, <1>6 DEF HoldsLive, Deleting
  <2>2. ASSUME NEW q \in Procs \ {p}
        PROVE  HoldsLive(task[q])'
    <3>1. HoldsLive(task[q])
      BY DEF MemberInv, HeldRoomsLive
    <3>2. o # task[q].src /\ o # task[q].dst /\ \A x \in task[q].torn : o # x.peer
      BY DEF DeleteStart, RoomClear
    <3>3. QED
      BY <1>3, <1>4, <3>1, <3>2 DEF HoldsLive
  <2>3. QED
    BY <2>1, <2>2 DEF HeldRoomsLive
<1>8. MemberEffect(p)
  BY <1>1, <1>3, <1>4, <1>5, <1>7 DEF MemberEffect, Adding, Deleting
<1>9. QED
  BY <1>1, <1>8, SameMembers

LEMMA DeletingStepsKeep ==
    ASSUME IInv, MemberInv, NEW p \in Procs,
           DeleteUnbridge(p) \/ DeleteHangup(p) \/ DeleteClose(p)
    PROVE  MemberEffect(p) /\ Shrinks
<1> DEFINE o == task[p].src
<1>1. task[p].pc \in Deleting /\ UNCHANGED rooms /\ Live' = Live
  BY DEF DeleteUnbridge, DeleteHangup, DeleteClose, At, Deleting, Live
<1>2. o \in Rooms /\ task[p] \in TaskType /\ HoldsLive(task[p])
  BY <1>1, Held, HeldLive DEF HasSrc, Deleting
<1>3. \A q \in Procs \ {p} : task'[q] = task[q]
  BY DEF DeleteUnbridge, DeleteHangup, DeleteClose, Done, Goto, IInv, TypeOK
<1>4. /\ HoldsLive(task'[p]) /\ task'[p].pc \notin Adding
      /\ \/ task'[p].pc \in Deleting /\ task'[p].src = o
         \/ participants'[o] = {} /\ ~ mixerRunning'[o]
      => MemberEffect(p)
  <2>1. HAVE /\ HoldsLive(task'[p]) /\ task'[p].pc \notin Adding
             /\ \/ task'[p].pc \in Deleting /\ task'[p].src = o
                \/ participants'[o] = {} /\ ~ mixerRunning'[o]
  <2>2. HeldRoomsLive'
    BY <1>1, <1>3, <2>1 DEF MemberInv, HeldRoomsLive, HoldsLive
  <2>3. QED
    BY <1>1, <1>3, <2>1, <2>2 DEF MemberEffect, Closed, Adding
<1>5. CASE DeleteUnbridge(p)
  <2>1. UNCHANGED participants
    BY <1>5 DEF DeleteUnbridge, roomVars
  <2>2. ASSUME NEW x \in task[p].torn, DetachBridge(x.peer, x.br),
               Goto(p, [task[p] EXCEPT !.torn = @ \ {x}])
        PROVE  MemberEffect(p) /\ Shrinks
    <3>1. task'[p] = [task[p] EXCEPT !.torn = @ \ {x}]
      BY <2>2 DEF Goto, IInv, TypeOK
    <3>2. /\ task'[p].pc = task[p].pc /\ task'[p].src = o
          /\ task'[p].dst = task[p].dst /\ task'[p].torn \subseteq task[p].torn
      BY <1>2, <3>1 DEF TaskType
    <3>3. HoldsLive(task'[p]) /\ task'[p].pc \notin Adding
      BY <1>1, <1>2, <3>2 DEF HoldsLive, Adding, Deleting
    <3>4. MemberEffect(p)
      BY <1>1, <1>4, <3>2, <3>3
    <3>5. x.peer \in Live
      BY <1>2 DEF HoldsLive
    <3>6. QED
      BY <2>1, <2>2, <3>4, <3>5, RefShrinks DEF DetachBridge
  <2>3. ASSUME Goto(p, [task[p] EXCEPT !.pc = "deleteHangup"]), UNCHANGED mixerRunning
        PROVE  MemberEffect(p) /\ Shrinks
    <3>1. task'[p] = [task[p] EXCEPT !.pc = "deleteHangup"]
      BY <2>3 DEF Goto, IInv, TypeOK
    <3>2. task'[p].pc = "deleteHangup" /\ task'[p].src = o
      BY <1>2, <3>1 DEF TaskType
    <3>3. HoldsLive(task'[p])
      BY <1>1, <1>2, <3>1 DEF HoldsLive, Deleting, TaskType
    <3>4. MemberEffect(p)
      BY <1>4, <3>2, <3>3 DEF Adding, Deleting
    <3>5. QED
      BY <2>1, <2>3, <3>4, SameMembers
  <2>4. QED
    BY <1>5, <2>2, <2>3 DEF DeleteUnbridge
<1>6. CASE DeleteHangup(p)
  <2>1. task'[p] = [task[p] EXCEPT !.pc = "deleteClose"]
    BY <1>6 DEF DeleteHangup, Goto, IInv, TypeOK
  <2>2. task'[p].pc = "deleteClose" /\ task'[p].src = o
    BY <1>2, <2>1 DEF TaskType
  <2>3. HoldsLive(task'[p])
    BY <1>1, <1>2, <2>1 DEF HoldsLive, Deleting, TaskType
  <2>4. MemberEffect(p)
    BY <1>4, <2>2, <2>3 DEF Adding, Deleting
  <2>5. QED
    BY <1>6, <2>4, SameMembers DEF DeleteHangup, roomVars
<1>7. CASE DeleteClose(p)
  <2>1. CloseStep(o)
    BY <1>7 DEF DeleteClose, CloseStep
  <2>2. /\ participants'[o] = {} /\ ~ mixerRunning'[o]
        /\ \A x \in Rooms \ {o} : /\ participants'[x] = participants[x]
                                  /\ mixerRunning'[x] = mixerRunning[x]
    BY <1>2, <2>1, CloseFacts DEF IInv
  <2>3. task'[p] = Idle
    BY <1>7 DEF DeleteClose, Done, Goto, IInv, TypeOK
  <2>4. MemberEffect(p)
    BY <1>4, <2>2, <2>3 DEF HoldsLive, Idle, Adding
  <2>5. Shrinks
    BY <1>2, <2>2 DEF Shrinks, Closed
  <2>6. QED
    BY <2>4, <2>5
<1>8. QED
  BY <1>5, <1>6, <1>7

-----------------------------------------------------------------------------
(* A room comes, or a leg's media is rebuilt.                              *)

LEMMA CreateRoomKeeps ==
    ASSUME IInv, MemberInv, NEW o \in Rooms, NEW i \in RoomIDs, CreateRoom(o, i)
    PROVE  MemberInv'
<1>1. rooms'[i] = o /\ \A j \in RoomIDs \ {i} : rooms'[j] = rooms[j]
  BY AllocateFacts DEF CreateRoom, IInv
<1>2. Live \subseteq Live'
  BY <1>1 DEF CreateRoom, Live
<1>3. RegistryStep
  BY CreateRoomEffects
<1>4. QED
  BY <1>2, <1>3, MembersKeptIdle, SameMembers DEF CreateRoom, roomVars

LEMMA RebuildKeeps ==
    ASSUME IInv, MemberInv, NEW o \in Rooms, NEW l \in Legs, RebuildLegMedia(o, l)
    PROVE  MemberInv'
<1>1. l \in participants[o] /\ UNCHANGED <<rooms, participants, task>>
  BY DEF RebuildLegMedia
<1>2. \A x \in Rooms \ {o} : mixerRunning'[x] = mixerRunning[x]
  BY SyncFacts DEF RebuildLegMedia, IInv
<1>3. Shrinks
  BY <1>1, <1>2 DEF Shrinks, Closed
<1>4. RegistryStep
  BY RebuildLegMediaEffects
<1>5. QED
  BY <1>1, <1>3, <1>4, MembersKeptIdle DEF Live


-----------------------------------------------------------------------------
(* The invariant of the members, and what follows from it.                 *)

LEMMA InitMembers == ASSUME Init PROVE MemberInv
<1>1. Live = {}
  BY DEF Init, Live
<1>2. \A p \in Procs : task[p] = Idle
  BY DEF Init
<1>3. HeldRoomsLive
  BY <1>2 DEF HeldRoomsLive, HoldsLive, Idle
<1>4. DeadAreClosed
  BY DEF Init, DeadAreClosed, Closed
<1>5. OneAdder /\ JoinersAreOutside /\ OneRoom
  BY <1>1, <1>2 DEF OneAdder, JoinersAreOutside, OneRoom, Adding, Idle
<1>6. QED
  BY <1>3, <1>4, <1>5 DEF MemberInv

LEMMA NextMembers ==
    ASSUME IInv, MemberInv, orderly, [Next]_vars
    PROVE  MemberInv'
<1>1. CASE UNCHANGED vars
  BY <1>1 DEF vars, roomVars, MemberInv, HeldRoomsLive, HoldsLive, DeadAreClosed, Closing,
     Closed, OneAdder, JoinersAreOutside, OneRoom, Live
<1>2. CASE Next
  <2>1. RegistryStep
    BY <1>2, NextEffects
  <2>2. ASSUME NEW p \in Procs, MemberEffect(p), Shrinks
        PROVE  MemberInv'
    BY <2>1, <2>2, MembersKept
  <2>3. CASE \E o \in Rooms, i \in RoomIDs : CreateRoom(o, i)
    BY <2>3, CreateRoomKeeps
  <2>4. CASE \E o \in Rooms, l \in Legs : RebuildLegMedia(o, l)
    BY <2>4, RebuildKeeps
  <2>5. ASSUME NEW p \in Procs, LegStep(p)
        PROVE  MemberInv'
    BY <2>2, <2>5, QuietLegStepsKeep, LeavingStepsKeep, MoveLegTargetKeeps,
       MoveLegDetachKeeps, AddLegFinishKeeps DEF LegStep
  <2>6. ASSUME NEW p \in Procs, DeleteRoom(p)
        PROVE  MemberInv'
    BY <2>2, <2>6, DeleteStartKeeps, DeletingStepsKeep DEF DeleteRoom
  <2>7. QED
    BY <1>2, <2>2, <2>3, <2>4, <2>5, <2>6, LegStartsKeep, LegEndsKeeps,
       BridgeStartsKeep, BridgeStepsKeep, PanicsKeep DEF Next
<1>3. QED
  BY <1>1, <1>2

(* Where callers are orderly the members' invariant holds throughout.      *)
THEOREM MemberInvariant == Spec => [](IInv /\ (orderly => MemberInv))
<1>1. Init => IInv /\ (orderly => MemberInv)
  BY InitIInv, InitMembers
<1>2. IInv /\ (orderly => MemberInv) /\ [Next]_vars => (IInv /\ (orderly => MemberInv))'
  <2>1. SUFFICES ASSUME IInv, orderly => MemberInv, [Next]_vars
                 PROVE  IInv' /\ (orderly' => MemberInv')
    OBVIOUS
  <2>2. orderly' = orderly
    BY <2>1 DEF Next, vars
  <2>3. QED
    BY <2>1, <2>2, NextIInv, NextMembers
<1>3. QED
  BY <1>1, <1>2, PTL DEF Spec

LEMMA RoomsInOrder ==
    ASSUME IInv, MemberInv
    PROVE  OneRoomPerLeg /\ NoZombieMixer
<1>1. ASSUME NEW l \in Legs
      PROVE  Cardinality({o \in Live : l \in participants[o]}) <= 1
  <2> DEFINE S == {o \in Live : l \in participants[o]}
  <2>1. CASE S = {}
    BY <2>1, FS_EmptySet
  <2>2. ASSUME NEW o \in S
        PROVE  Cardinality(S) <= 1
    <3>1. S = {o}
      BY DEF MemberInv, OneRoom
    <3>2. QED
      BY <3>1, FS_Singleton
  <2>3. QED
    BY <2>1, <2>2
<1>2. ASSUME NEW o \in Rooms \ Live, \A p \in Procs : o \notin {task[p].src, task[p].dst}
      PROVE  participants[o] = {} /\ ~ mixerRunning[o]
  BY <1>2 DEF MemberInv, DeadAreClosed, Closing, Closed
<1>3. QED
  BY <1>1, <1>2 DEF OneRoomPerLeg, NoZombieMixer

(* However many callers there are, if none starts an operation on what      *)
(* another is working on, a leg is in at most one registered room, and a    *)
(* deleted room that nobody works on has no member and no running mixer     *)
(* (manager.go: MoveLeg, Delete; room.go: Close).                           *)
THEOREM RoomsStayInOrder == Spec => []OrderlyRooms
<1>1. IInv /\ (orderly => MemberInv) => OrderlyRooms
  BY RoomsInOrder DEF OrderlyRooms
<1>2. QED
  BY <1>1, MemberInvariant, PTL


-----------------------------------------------------------------------------
(* What a room's reference count counts, goroutine by goroutine.           *)

Attaches(t, o, b) ==
    /\ t.br = b
    /\ (t.pc = "attachA" /\ o \in {t.src, t.dst}) \/ (t.pc = "attachB" /\ o = t.dst)

Detaches(t, o, b) ==
    \/ /\ t.br = b
       /\ (t.pc = "detachA" /\ o \in {t.src, t.dst}) \/ (t.pc = "detachB" /\ o = t.dst)
    \/ [br |-> b, peer |-> o] \in t.torn

Counted(o, b) ==
    \/ Touches(b, idOf[o]) /\ \A p \in Procs : ~ Attaches(task[p], o, b)
    \/ \E p \in Procs : Detaches(task[p], o, b)

Counts(o) == {b \in BridgeIDs : Counted(o, b)}

CountsMatch == \A o \in Live : bridgeRefs[o] = Cardinality(Counts(o))

LEMMA RefsAreCounts == RefsMatchBridges <=> CountsMatch
<1>1. ASSUME NEW o, NEW b
      PROVE  /\ ToAttach(o, b) <=> \E p \in Procs : Attaches(task[p], o, b)
             /\ ToDetach(o, b) <=> \E p \in Procs : Detaches(task[p], o, b)
  <2>1. ToAttach(o, b) <=> \E p \in Procs : Attaches(task[p], o, b)
    BY DEF ToAttach, Attaches, At
  <2>2. ToDetach(o, b) <=> \E p \in Procs : Detaches(task[p], o, b)
    BY DEF ToDetach, Detaches, At
  <2>3. QED
    BY <2>1, <2>2
<1>2. ASSUME NEW o
      PROVE  Counts(o) = {b \in BridgeIDs : \/ Touches(b, idOf[o]) /\ ~ ToAttach(o, b)
                                            \/ ToDetach(o, b)}
  BY <1>1 DEF Counts, Counted
<1>3. QED
  BY <1>2 DEF RefsMatchBridges, CountsMatch

(* What one bridge does to the count of a room in a step.                  *)
Balanced(o, b) ==
    \/ (Counted(o, b)' <=> Counted(o, b)) /\ bridgeRefs'[o] = bridgeRefs[o]
    \/ ~ Counted(o, b) /\ Counted(o, b)' /\ bridgeRefs'[o] = bridgeRefs[o] + 1
    \/ Counted(o, b) /\ ~ Counted(o, b)' /\ bridgeRefs'[o] = Unref(o)

LEMMA BalancedCounts ==
    ASSUME NEW o, NEW b \in BridgeIDs, bridgeRefs[o] \in Nat,
           bridgeRefs[o] = Cardinality(Counts(o)), UNCHANGED o, Balanced(o, b),
           \A c \in BridgeIDs \ {b} : Counted(o, c)' <=> Counted(o, c)
    PROVE  bridgeRefs'[o] = Cardinality(Counts(o)')
<1>1. IsFiniteSet(Counts(o))
  BY FS_Subset, RoomManagerAssumption DEF RoomManagerAssumption, Counts
<1>2. CASE (Counted(o, b)' <=> Counted(o, b)) /\ bridgeRefs'[o] = bridgeRefs[o]
  <2>1. Counts(o)' = Counts(o)
    BY <1>2 DEF Counts
  <2>2. QED
    BY <1>2, <2>1
<1>3. CASE ~ Counted(o, b) /\ Counted(o, b)' /\ bridgeRefs'[o] = bridgeRefs[o] + 1
  <2>1. Counts(o)' = Counts(o) \cup {b} /\ b \notin Counts(o)
    BY <1>3 DEF Counts
  <2>2. QED
    BY <1>1, <1>3, <2>1, FS_AddElement
<1>4. CASE Counted(o, b) /\ ~ Counted(o, b)' /\ bridgeRefs'[o] = Unref(o)
  <2>1. Counts(o)' = Counts(o) \ {b} /\ b \in Counts(o)
    BY <1>4 DEF Counts
  <2>2. bridgeRefs[o] > 0
    BY <1>1, <2>1, FS_EmptySet
  <2>3. QED
    BY <1>1, <1>4, <2>1, <2>2, FS_RemoveElement DEF Unref
<1>5. QED
  BY <1>2, <1>3, <1>4 DEF Balanced


-----------------------------------------------------------------------------
(* A step on one bridge, by the goroutine that owns it.                    *)

OnBridge(p, b) ==
    /\ UNCHANGED <<rooms, idOf>>
    /\ \A q \in Procs \ {p} : task'[q] = task[q] /\ task[q].br # b
    /\ task[p].br \in {None, b} /\ task'[p].br \in {None, b}
    /\ task[p].torn = {} /\ task'[p].torn = {}
    /\ task'[p].pc \notin HasBridge => task'[p].br = None
    /\ \A c \in BridgeIDs \ {b} : /\ bridges'[c] = bridges[c]
                                  /\ \A o \in Rooms : mixBridge'[o][c] = mixBridge[o][c]
    /\ \A q \in Procs : \A x \in task[q].torn : x.br = b =>
          bridges'[b] = None /\ (task'[p].br = None \/ task'[p].pc = "panicBridge")

Applied(b) ==
    LET br == bridges[b] IN
    br # None => /\ mixBridge[rooms[br.a]][b] = Says(ASends(br.dir))
                 /\ mixBridge[rooms[br.b]][b] = Says(BSends(br.dir))

RestApplied == \A b \in BridgeIDs : (\A p \in Procs : task[p].br # b) => Applied(b)

LEMMA DirectionsApplied == DirectionIsApplied <=> RestApplied
  BY DEF DirectionIsApplied, RestApplied, Applied, Says

LEMMA OneBridge ==
    ASSUME IInv, MemberInv, BridgeInv, NEW p \in Procs, NEW b \in BridgeIDs, OnBridge(p, b),
           \A o \in Live : Balanced(o, b),
           WiresItsBridge(task[p])',
           task'[p].br # b => Applied(b)'
    PROVE  BridgeInv'
<1>1. /\ b # None /\ None \notin BridgeIDs /\ Live' = Live /\ Live \subseteq Rooms
      /\ \A q \in Procs : \A x \in task[q].torn : x.br \in BridgeIDs
  BY Held, RoomManagerAssumption, LiveRooms
     DEF RoomManagerAssumption, OnBridge, Live, TaskType
<1>2. FieldsAtRest' /\ OneOwner'
  BY DEF OnBridge, BridgeInv, OwnersInv, FieldsAtRest, OneOwner
<1>3. TornAreGone'
  <2>1. SUFFICES ASSUME NEW r \in Procs, NEW x \in task'[r].torn
                 PROVE  /\ bridges'[x.br] = None
                        /\ \A q \in Procs : task'[q].br = x.br => task'[q].pc = "panicBridge"
                        /\ \A q \in Procs \ {r} : \A y \in task'[q].torn : y.br # x.br
    BY DEF TornAreGone
  <2>2. r # p /\ x \in task[r].torn
    BY <2>1 DEF OnBridge
  <2>3. /\ bridges[x.br] = None
        /\ \A q \in Procs : task[q].br = x.br => task[q].pc = "panicBridge"
        /\ \A q \in Procs \ {r} : \A y \in task[q].torn : y.br # x.br
    BY <2>2 DEF BridgeInv, OwnersInv, TornAreGone
  <2>4. bridges'[x.br] = None
    BY <1>1, <2>2, <2>3 DEF OnBridge
  <2>5. ASSUME NEW q \in Procs, task'[q].br = x.br
        PROVE  task'[q].pc = "panicBridge"
    BY <1>1, <2>2, <2>3, <2>5 DEF OnBridge
  <2>6. \A q \in Procs \ {r} : \A y \in task'[q].torn : y.br # x.br
    BY <2>3 DEF OnBridge
  <2>7. QED
    BY <2>4, <2>5, <2>6
<1>4. BridgesAreWired'
  <2>1. ASSUME NEW q \in Procs \ {p}
        PROVE  WiresItsBridge(task[q])'
    <3>1. task'[q] = task[q] /\ task[q].br # b /\ WiresItsBridge(task[q])
      BY DEF OnBridge, BridgeInv, BridgesAreWired
    <3>2. CASE task[q].pc \in HasBridge
      <4>1. /\ task[q].br \in BridgeIDs \ {b}
            /\ task[q].src \in Rooms \/ task[q].pc = "panicBridge"
            /\ task[q].dst \in Rooms \/ task[q].pc = "panicBridge"
        BY <3>1, <3>2, Held DEF HasSrc, HasDst, HasBridge
      <4>2. bridges'[task[q].br] = bridges[task[q].br]
        BY <4>1 DEF OnBridge
      <4>3. \A o \in Rooms : mixBridge'[o][task[q].br] = mixBridge[o][task[q].br]
        BY <4>1 DEF OnBridge
      <4>4. QED
        BY <3>1, <4>1, <4>2, <4>3 DEF WiresItsBridge, Wiring, Unwiring, OnBridge
    <3>3. CASE task[q].pc \notin HasBridge
      BY <3>1, <3>3 DEF WiresItsBridge, HasBridge, Wiring, Unwiring
    <3>4. QED
      BY <3>2, <3>3
  <2>2. QED
    BY <2>1 DEF BridgesAreWired
<1>5. RefsMatchBridges'
  <2>1. ASSUME NEW o \in Live
        PROVE  bridgeRefs'[o] = Cardinality(Counts(o)')
    <3>1. bridgeRefs[o] \in Nat /\ bridgeRefs[o] = Cardinality(Counts(o))
      BY <1>1, RefsAreCounts DEF IInv, TypeOK, BridgeInv, CountsMatch
    <3>2. ASSUME NEW c \in BridgeIDs \ {b}
          PROVE  Counted(o, c)' <=> Counted(o, c)
      <4>1. ~ Attaches(task[p], o, c) /\ ~ Detaches(task[p], o, c)
        BY <1>1 DEF Attaches, Detaches, OnBridge
      <4>2. ~ Attaches(task'[p], o, c) /\ ~ Detaches(task'[p], o, c)
        BY <1>1 DEF Attaches, Detaches, OnBridge
      <4>3. Touches(c, idOf[o])' <=> Touches(c, idOf[o])
        BY DEF Touches, OnBridge
      <4>4. QED
        BY <4>1, <4>2, <4>3 DEF Counted, OnBridge
    <3>3. QED
      BY <3>1, <3>2, BalancedCounts
  <2>2. CountsMatch'
    BY <1>1, <2>1 DEF CountsMatch
  <2>3. QED
    BY <2>2, RefsAreCounts, PTL
<1>6. DirectionIsApplied'
  <2>1. ASSUME NEW c \in BridgeIDs \ {b}, \A q \in Procs : task'[q].br # c
        PROVE  Applied(c)'
    <3>1. \A q \in Procs : task[q].br # c
      BY <1>1, <2>1 DEF OnBridge
    <3>2. Applied(c)
      BY <3>1, DirectionsApplied DEF BridgeInv, RestApplied
    <3>3. bridges[c] # None => rooms[bridges[c].a] \in Rooms /\ rooms[bridges[c].b] \in Rooms
      BY <1>1, JoinedLive
    <3>4. QED
      BY <3>2, <3>3 DEF Applied, OnBridge
  <2>2. RestApplied'
    BY <2>1 DEF RestApplied, OnBridge
  <2>3. QED
    BY <2>2, DirectionsApplied, PTL
<1>7. QED
  BY <1>2, <1>3, <1>4, <1>5, <1>6 DEF BridgeInv, OwnersInv


-----------------------------------------------------------------------------
(* A step that works on no bridge; it may register a new room.             *)

NoBridge(t) == t.br = None /\ t.torn = {} /\ t.pc \notin HasBridge

Quiet ==
    /\ UNCHANGED <<bridges, mixBridge, bridgeRefs>>
    /\ \A q \in Procs : task'[q] = task[q] \/ (NoBridge(task[q]) /\ NoBridge(task'[q]))
    /\ \/ UNCHANGED <<rooms, idOf>>
       \/ \E o \in Rooms, i \in RoomIDs : rooms[i] = None /\ Allocate(o, i)

(* The registered rooms stay so under their ID; what is new was unused.    *)
LEMMA QuietRooms ==
    ASSUME IInv, Quiet
    PROVE  /\ \A i \in RoomIDs : rooms[i] # None => rooms'[i] = rooms[i]
           /\ \A o \in Live' \ Live : /\ o \in Rooms /\ idOf[o] = None
                                      /\ idOf'[o] \in RoomIDs /\ rooms[idOf'[o]] = None
           /\ \A o \in Live : idOf'[o] = idOf[o]
<1>1. CASE UNCHANGED <<rooms, idOf>>
  BY <1>1 DEF Live
<1>2. ASSUME NEW o \in Rooms, NEW i \in RoomIDs, rooms[i] = None, Allocate(o, i)
      PROVE  /\ \A j \in RoomIDs : rooms[j] # None => rooms'[j] = rooms[j]
             /\ Live' \ Live \subseteq {o} /\ idOf[o] = None /\ idOf'[o] = i
             /\ \A x \in Live : idOf'[x] = idOf[x]
  <2>1. /\ rooms'[i] = o /\ idOf'[o] = i
        /\ \A j \in RoomIDs \ {i} : rooms'[j] = rooms[j]
        /\ \A x \in Rooms \ {o} : idOf'[x] = idOf[x]
    BY <1>2, AllocateFacts DEF IInv
  <2>2. idOf[o] = None /\ o \notin Live
    BY <1>2, Registered DEF Allocate, Live
  <2>3. QED
    BY <1>2, <2>1, <2>2, LiveRooms DEF Live
<1>3. QED
  BY <1>1, <1>2 DEF Quiet

LEMMA QuietKeeps ==
    ASSUME IInv, MemberInv, BridgeInv, Quiet
    PROVE  BridgeInv'
<1>1. /\ None \notin BridgeIDs /\ Live \subseteq Rooms
      /\ \A q \in Procs : \A x \in task[q].torn : x.br \in BridgeIDs
  BY Held, RoomManagerAssumption, LiveRooms DEF RoomManagerAssumption, TaskType
<1>2. FieldsAtRest' /\ OneOwner'
  <2>1. FieldsAtRest'
    BY DEF Quiet, NoBridge, BridgeInv, OwnersInv, FieldsAtRest
  <2>2. OneOwner'
    BY DEF Quiet, NoBridge, BridgeInv, OwnersInv, OneOwner
  <2>3. QED
    BY <2>1, <2>2
<1>3. TornAreGone'
  <2>1. SUFFICES ASSUME NEW r \in Procs, NEW x \in task'[r].torn
                 PROVE  /\ bridges'[x.br] = None
                        /\ \A q \in Procs : task'[q].br = x.br => task'[q].pc = "panicBridge"
                        /\ \A q \in Procs \ {r} : \A y \in task'[q].torn : y.br # x.br
    BY DEF TornAreGone
  <2>2. task'[r] = task[r]
    BY <2>1 DEF Quiet, NoBridge
  <2>3. /\ bridges[x.br] = None /\ x.br \in BridgeIDs
        /\ \A q \in Procs : task[q].br = x.br => task[q].pc = "panicBridge"
        /\ \A q \in Procs \ {r} : \A y \in task[q].torn : y.br # x.br
    BY <1>1, <2>1, <2>2 DEF BridgeInv, OwnersInv, TornAreGone
  <2>4. QED
    BY <1>1, <2>3 DEF Quiet, NoBridge
<1>4. \A b \in BridgeIDs : bridges[b] # None =>
          /\ bridges[b].a \in RoomIDs /\ bridges[b].b \in RoomIDs
          /\ rooms[bridges[b].a] # None /\ rooms[bridges[b].b] # None
          /\ rooms'[bridges[b].a] = rooms[bridges[b].a]
          /\ rooms'[bridges[b].b] = rooms[bridges[b].b]
  BY Joined, QuietRooms DEF Bridge
<1>5. BridgesAreWired'
  <2>1. ASSUME NEW q \in Procs
        PROVE  WiresItsBridge(task[q])'
    <3>1. CASE task'[q] = task[q]
      <4>1. task[q].pc \in HasBridge => task[q].br \in BridgeIDs
        BY Held
      <4>2. WiresItsBridge(task[q])
        BY DEF BridgeInv, BridgesAreWired
      <4>3. QED
        BY <1>4, <3>1, <4>1, <4>2 DEF WiresItsBridge, Quiet, HasBridge, Wiring, Unwiring
    <3>2. CASE NoBridge(task'[q])
      BY <3>2 DEF NoBridge, WiresItsBridge, HasBridge, Wiring, Unwiring
    <3>3. QED
      BY <3>1, <3>2 DEF Quiet
  <2>2. QED
    BY <2>1 DEF BridgesAreWired
<1>6. RefsMatchBridges'
  <2>1. ASSUME NEW o \in Live, NEW b \in BridgeIDs
        PROVE  Counted(o, b)' <=> Counted(o, b)
    <3>1. idOf'[o] = idOf[o]
      BY QuietRooms
    <3>2. ASSUME NEW q \in Procs
          PROVE  /\ Attaches(task[q], o, b)' <=> Attaches(task[q], o, b)
                 /\ Detaches(task[q], o, b)' <=> Detaches(task[q], o, b)
      BY <1>1 DEF Quiet, NoBridge, Attaches, Detaches
    <3>3. QED
      BY <3>1, <3>2 DEF Counted, Touches, Quiet
  <2>2. ASSUME NEW o \in Live' \ Live, NEW b \in BridgeIDs
        PROVE  ~ Counted(o, b)'
    <3>1. o \in Rooms /\ idOf[o] = None /\ idOf'[o] \in RoomIDs /\ rooms[idOf'[o]] = None
      BY QuietRooms
    <3>2. ~ Touches(b, idOf[o])'
      BY <1>4, <3>1 DEF Touches, Quiet
    <3>3. ASSUME NEW q \in Procs
          PROVE  ~ Detaches(task[q], o, b)'
      <4>1. CASE task'[q] = task[q]
        <5>1. Holds(task[q], rooms, idOf)
          BY DEF IInv, TasksOK
        <5>2. o # task[q].src /\ o # task[q].dst /\ \A x \in task[q].torn : x.peer # o
          BY <3>1, <5>1, RoomManagerAssumption DEF Holds, RoomManagerAssumption
        <5>3. QED
          BY <4>1, <5>2 DEF Detaches
      <4>2. CASE NoBridge(task'[q])
        BY <1>1, <4>2 DEF NoBridge, Detaches
      <4>3. QED
        BY <4>1, <4>2 DEF Quiet
    <3>4. QED
      BY <3>2, <3>3 DEF Counted
  <2>3. ASSUME NEW o \in Live'
        PROVE  bridgeRefs'[o] = Cardinality(Counts(o)')
    <3>1. CASE o \in Live
      <4>1. Counts(o)' = Counts(o)
        BY <2>1, <3>1 DEF Counts
      <4>2. QED
        BY <3>1, <4>1, RefsAreCounts DEF BridgeInv, CountsMatch, Quiet
    <3>2. CASE o \notin Live
      <4>1. Counts(o)' = {}
        BY <2>2, <3>2 DEF Counts
      <4>2. bridgeRefs[o] = 0
        BY <3>2, QuietRooms DEF IInv, FreshRoomsBlank
      <4>3. QED
        BY <4>1, <4>2, FS_EmptySet DEF Quiet
    <3>3. QED
      BY <3>1, <3>2
  <2>4. CountsMatch'
    BY <2>3 DEF CountsMatch
  <2>5. QED
    BY <2>4, RefsAreCounts, PTL
<1>7. DirectionIsApplied'
  <2>1. ASSUME NEW b \in BridgeIDs, \A q \in Procs : task'[q].br # b
        PROVE  Applied(b)'
    <3>1. \A q \in Procs : task[q].br # b
      BY <1>1, <2>1 DEF Quiet, NoBridge
    <3>2. Applied(b)
      BY <3>1, DirectionsApplied DEF BridgeInv, RestApplied
    <3>3. QED
      BY <1>4, <3>2 DEF Applied, Quiet
  <2>2. RestApplied'
    BY <2>1 DEF RestApplied
  <2>3. QED
    BY <2>2, DirectionsApplied, PTL
<1>8. QED
  BY <1>2, <1>3, <1>5, <1>6, <1>7 DEF BridgeInv, OwnersInv


-----------------------------------------------------------------------------
(* Who has a hand in a bridge.                                             *)

LEMMA LiveID ==
    ASSUME IInv, NEW o \in Live
    PROVE  idOf[o] \in RoomIDs /\ rooms[idOf[o]] = o /\ o # None
  BY Registered DEF Live

LEMMA EndPoints ==
    ASSUME IInv, NEW b \in BridgeIDs, bridges[b] # None
    PROVE  /\ bridges[b] \in Bridge
           /\ bridges[b].a \in RoomIDs /\ bridges[b].b \in RoomIDs
           /\ rooms[bridges[b].a] \in Live /\ rooms[bridges[b].b] \in Live
           /\ rooms[bridges[b].a] # rooms[bridges[b].b]
           /\ \A o \in Live : Touches(b, idOf[o]) <=>
                  o \in {rooms[bridges[b].a], rooms[bridges[b].b]}
<1>1. /\ bridges[b] \in Bridge
      /\ bridges[b].a \in RoomIDs /\ bridges[b].b \in RoomIDs
      /\ rooms[bridges[b].a] \in Live /\ rooms[bridges[b].b] \in Live
      /\ bridges[b].a # bridges[b].b
  BY Joined, JoinedLive DEF Bridge, IInv, BridgesJoinLiveRooms
<1>2. rooms[bridges[b].a] # None /\ rooms[bridges[b].b] # None
  BY Joined
<1>3. rooms[bridges[b].a] # rooms[bridges[b].b]
  BY <1>1, <1>2, Registered
<1>4. idOf[rooms[bridges[b].a]] = bridges[b].a /\ idOf[rooms[bridges[b].b]] = bridges[b].b
  BY <1>1, <1>2, Registered
<1>5. \A o \in Live : Touches(b, idOf[o]) <=>
          o \in {rooms[bridges[b].a], rooms[bridges[b].b]}
  BY <1>4, LiveID DEF Touches
<1>6. QED
  BY <1>1, <1>3, <1>5

LEMMA Owner ==
    ASSUME IInv, BridgeInv, NEW p \in Procs, task[p].pc \in HasBridge
    PROVE  LET b == task[p].br IN
           /\ b \in BridgeIDs /\ b # None
           /\ \A q \in Procs \ {p} : task[q].br # b
           /\ task[p].torn = {}
           /\ bridges[b] # None \/ task[p].pc # "panicBridge" =>
                  \A q \in Procs : \A x \in task[q].torn : x.br # b
<1> DEFINE b == task[p].br
<1>1. b \in BridgeIDs /\ b # None
  BY Held, RoomManagerAssumption DEF RoomManagerAssumption
<1>2. \A q \in Procs \ {p} : task[q].br # b
  BY <1>1 DEF BridgeInv, OwnersInv, OneOwner
<1>3. task[p].torn = {}
  BY DEF BridgeInv, OwnersInv, FieldsAtRest, HasBridge
<1>4. bridges[b] # None \/ task[p].pc # "panicBridge" =>
          \A q \in Procs : \A x \in task[q].torn : x.br # b
  BY DEF BridgeInv, OwnersInv, TornAreGone
<1>5. QED
  BY <1>1, <1>2, <1>3, <1>4

LEMMA Starter ==
    ASSUME IInv, BridgeInv, orderly, NEW p \in Procs, ~ Running(p),
           NEW b \in BridgeIDs, Clear({}, {b})
    PROVE  /\ task[p].br = None /\ task[p].torn = {} /\ b # None
           /\ \A q \in Procs : task[q].br # b
           /\ bridges[b] # None => \A q \in Procs : \A x \in task[q].torn : x.br # b
  BY RoomManagerAssumption DEF RoomManagerAssumption, Running, Clear, BridgeInv, OwnersInv,
     FieldsAtRest, TornAreGone, HasBridge

(* What is counted is what the registry, the owner's task and rooms being  *)
(* deleted say.                                                            *)
TornOff(o, b) == \E q \in Procs : [br |-> b, peer |-> o] \in task[q].torn

LEMMA CountedByOwner ==
    ASSUME IInv, BridgeInv, NEW p \in Procs, NEW b \in BridgeIDs, OnBridge(p, b),
           NEW o \in Live
    PROVE  /\ Counted(o, b) <=> \/ Touches(b, idOf[o]) /\ ~ Attaches(task[p], o, b)
                                \/ Detaches(task[p], o, b)
                                \/ TornOff(o, b)
           /\ Counted(o, b)' <=> \/ Touches(b, idOf[o])' /\ ~ Attaches(task[p], o, b)'
                                 \/ Detaches(task[p], o, b)'
                                 \/ TornOff(o, b)
<1>1. \A q \in Procs \ {p} : ~ Attaches(task[q], o, b) /\ ~ Attaches(task'[q], o, b)
  BY DEF OnBridge, Attaches
<1>2. \A q \in Procs \ {p} :
          /\ Detaches(task[q], o, b) <=> [br |-> b, peer |-> o] \in task[q].torn
          /\ Detaches(task'[q], o, b) <=> [br |-> b, peer |-> o] \in task[q].torn
  BY DEF OnBridge, Detaches
<1>3. /\ [br |-> b, peer |-> o] \notin task[p].torn
      /\ [br |-> b, peer |-> o] \notin task'[p].torn
  BY DEF OnBridge
<1>4. QED
  BY <1>1, <1>2, <1>3 DEF Counted, TornOff


-----------------------------------------------------------------------------
(* CreateBridge, SetBridgeDirection.                                       *)

LEMMA CreateBridgeKeeps ==
    ASSUME IInv, MemberInv, BridgeInv, orderly, NEW p \in Procs, NEW b \in BridgeIDs,
           NEW i \in RoomIDs, NEW j \in RoomIDs, NEW dir \in Dirs,
           CreateBridgeStart(p, b, i, j, dir)
    PROVE  BridgeInv'
<1> DEFINE t == [Idle EXCEPT !.pc = "attachA", !.br = b, !.dir = dir,
                     !.src = rooms[i], !.dst = rooms[j]]
<1>1. /\ bridges[b] = None /\ i # j /\ rooms[i] # None /\ rooms[j] # None
      /\ UNCHANGED <<rooms, idOf, mixBridge, bridgeRefs>> /\ Goto(p, t)
      /\ task[p].pc = "idle"
  BY DEF CreateBridgeStart, bridgeVars, Running
<1>2. /\ task[p].br = None /\ task[p].torn = {} /\ b # None
      /\ \A q \in Procs : task[q].br # b /\ \A x \in task[q].torn : x.br # b
  BY Starter DEF CreateBridgeStart
<1>3. task'[p] = t /\ \A q \in Procs \ {p} : task'[q] = task[q]
  BY <1>1 DEF Goto, IInv, TypeOK
<1>4. /\ bridges'[b] = [a |-> i, b |-> j, dir |-> dir] /\ [a |-> i, b |-> j, dir |-> dir] # None
      /\ \A c \in BridgeIDs \ {b} : bridges'[c] = bridges[c]
  <2>1. /\ bridges'[b] = [a |-> i, b |-> j, dir |-> dir]
        /\ \A c \in BridgeIDs \ {b} : bridges'[c] = bridges[c]
    BY DEF CreateBridgeStart, IInv, TypeOK
  <2>2. [a |-> i, b |-> j, dir |-> dir] \in Bridge
    BY RoomManagerAssumption DEF RoomManagerAssumption, Bridge
  <2>3. QED
    BY <2>1, <2>2, RoomManagerAssumption DEF RoomManagerAssumption
<1>5. t.pc = "attachA" /\ t.br = b /\ t.dir = dir /\ t.src = rooms[i] /\ t.dst = rooms[j]
      /\ t.torn = {}
  BY DEF Idle
<1> HIDE DEF t
<1>6. OnBridge(p, b)
  BY <1>1, <1>2, <1>3, <1>4, <1>5 DEF OnBridge, HasBridge
<1>7. ASSUME NEW o \in Live
      PROVE  Balanced(o, b)
  <2>1. ~ Counted(o, b)
    BY <1>1, <1>2, <1>6, CountedByOwner DEF Touches, Detaches, TornOff
  <2>2. Touches(b, idOf[o])' => o \in {rooms[i], rooms[j]}
    BY <1>1, <1>4, LiveID DEF Touches
  <2>3. ~ Counted(o, b)'
    BY <1>2, <1>3, <1>5, <1>6, <2>2, CountedByOwner DEF Attaches, Detaches, TornOff
  <2>4. QED
    BY <1>1, <2>1, <2>3 DEF Balanced
<1>8. WiresItsBridge(task[p])'
  BY <1>1, <1>3, <1>4, <1>5 DEF WiresItsBridge, Wiring, Unwiring
<1>9. QED
  BY <1>3, <1>5, <1>6, <1>7, <1>8, OneBridge

LEMMA SetDirectionKeeps ==
    ASSUME IInv, MemberInv, BridgeInv, orderly, NEW p \in Procs, NEW b \in BridgeIDs,
           NEW dir \in Dirs, SetDirectionStart(p, b, dir)
    PROVE  BridgeInv'
<1> DEFINE t == [Idle EXCEPT !.pc = "directA", !.br = b, !.dir = dir,
                     !.src = rooms[bridges[b].a], !.dst = rooms[bridges[b].b]]
<1>1. /\ bridges[b] # None /\ Goto(p, t)
      /\ UNCHANGED <<rooms, idOf, mixBridge, bridgeRefs>> /\ task[p].pc = "idle"
  BY DEF SetDirectionStart, bridgeVars, Running
<1>2. /\ task[p].br = None /\ task[p].torn = {} /\ b # None
      /\ \A q \in Procs : task[q].br # b /\ \A x \in task[q].torn : x.br # b
  BY <1>1, Starter DEF SetDirectionStart
<1>3. task'[p] = t /\ \A q \in Procs \ {p} : task'[q] = task[q]
  BY <1>1 DEF Goto, IInv, TypeOK
<1>4. /\ bridges'[b].a = bridges[b].a /\ bridges'[b].b = bridges[b].b
      /\ bridges'[b].dir = dir
      /\ \A c \in BridgeIDs \ {b} : bridges'[c] = bridges[c]
  BY <1>1, EndPoints DEF SetDirectionStart, IInv, TypeOK, Bridge
<1>5. bridges'[b] # None
  <2>1. bridges'[b] = [bridges[b] EXCEPT !.dir = dir] /\ bridges[b] \in Bridge
    BY <1>1, EndPoints DEF SetDirectionStart, IInv, TypeOK
  <2>2. bridges'[b] \in Bridge
    BY <2>1, RoomManagerAssumption DEF RoomManagerAssumption, Bridge
  <2>3. QED
    BY <2>2, RoomManagerAssumption DEF RoomManagerAssumption
<1>6. t.pc = "directA" /\ t.br = b /\ t.dir = dir /\ t.torn = {}
      /\ t.src = rooms[bridges[b].a] /\ t.dst = rooms[bridges[b].b]
  BY DEF Idle
<1> HIDE DEF t
<1>7. OnBridge(p, b)
  BY <1>1, <1>2, <1>3, <1>4, <1>6 DEF OnBridge, HasBridge
<1>8. ASSUME NEW o \in Live
      PROVE  Balanced(o, b)
  <2>1. Touches(b, idOf[o])' <=> Touches(b, idOf[o])
    BY <1>1, <1>4, <1>5 DEF Touches
  <2>2. Counted(o, b)' <=> Counted(o, b)
    BY <1>1, <1>2, <1>3, <1>6, <1>7, <2>1, CountedByOwner DEF Attaches, Detaches
  <2>3. QED
    BY <1>1, <2>2 DEF Balanced
<1>9. WiresItsBridge(task[p])'
  <2>1. Applied(b)
    BY <1>2, DirectionsApplied DEF BridgeInv, RestApplied
  <2>2. mixBridge[t.src][b] # "absent" /\ mixBridge[t.dst][b] # "absent"
    BY <1>1, <1>6, <2>1 DEF Applied, Says
  <2>3. QED
    BY <1>1, <1>3, <1>4, <1>5, <1>6, <2>2 DEF WiresItsBridge, Wiring, Unwiring
<1>10. QED
  BY <1>3, <1>6, <1>7, <1>8, <1>9, OneBridge


-----------------------------------------------------------------------------
(* The attachment and the directions.                                      *)

(* A goroutine that wires a bridge has at hand the bridge's two rooms.     *)
LEMMA Wirer ==
    ASSUME IInv, BridgeInv, NEW p \in Procs, task[p].pc \in Wiring
    PROVE  LET b == task[p].br IN
           /\ b \in BridgeIDs /\ b # None /\ bridges[b] # None
           /\ task[p].dir = bridges[b].dir
           /\ task[p].src = rooms[bridges[b].a] /\ task[p].dst = rooms[bridges[b].b]
           /\ task[p].src # task[p].dst /\ task[p].src \in Live /\ task[p].dst \in Live
           /\ \A o \in Live : Touches(b, idOf[o]) <=> o \in {task[p].src, task[p].dst}
           /\ \A q \in Procs \ {p} : task[q].br # b
           /\ task[p].torn = {} /\ \A q \in Procs : \A x \in task[q].torn : x.br # b
<1>1. task[p].pc \in HasBridge /\ task[p].pc # "panicBridge"
  BY DEF Wiring, HasBridge
<1>2. task[p].br \in BridgeIDs /\ WiresItsBridge(task[p])
  BY <1>1, Held DEF BridgeInv, BridgesAreWired
<1>3. /\ bridges[task[p].br] # None /\ task[p].dir = bridges[task[p].br].dir
      /\ task[p].src = rooms[bridges[task[p].br].a]
      /\ task[p].dst = rooms[bridges[task[p].br].b]
  BY <1>2 DEF WiresItsBridge
<1>4. QED
  BY <1>1, <1>2, <1>3, Owner, EndPoints

(* The goroutine goes on, and only what its bridge has in the mixers is    *)
(* written.                                                                *)
OnIt(p, b) ==
    /\ UNCHANGED <<rooms, bridges, idOf>>
    /\ task'[p] = Idle \/ \E pc \in HasBridge : task'[p] = [task[p] EXCEPT !.pc = pc]
    /\ \A q \in Procs \ {p} : task'[q] = task[q]
    /\ \A c \in BridgeIDs \ {b} : \A o \in Rooms : mixBridge'[o][c] = mixBridge[o][c]

LEMMA WirerOnBridge ==
    ASSUME IInv, BridgeInv, NEW p \in Procs, NEW b \in BridgeIDs, task[p].br = b,
           task[p].pc \in Wiring, OnIt(p, b)
    PROVE  OnBridge(p, b)
<1>1. /\ b # None /\ task[p].torn = {} /\ task[p] \in TaskType
      /\ \A q \in Procs \ {p} : task[q].br # b
      /\ \A q \in Procs : \A x \in task[q].torn : x.br # b
  BY Wirer, Held
<1>2. task'[p].br \in {None, b} /\ task'[p].torn = {}
      /\ (task'[p].pc \notin HasBridge => task'[p].br = None)
  <2>1. CASE task'[p] = Idle
    BY <2>1 DEF Idle
  <2>2. ASSUME NEW pc \in HasBridge, task'[p] = [task[p] EXCEPT !.pc = pc]
        PROVE  task'[p].br = b /\ task'[p].torn = {} /\ task'[p].pc \in HasBridge
    BY <1>1, <2>2 DEF TaskType
  <2>3. QED
    BY <2>1, <2>2 DEF OnIt
<1>3. QED
  BY <1>1, <1>2 DEF OnIt, OnBridge

LEMMA AttachAKeeps ==
    ASSUME IInv, MemberInv, BridgeInv, NEW p \in Procs, NEW b \in BridgeIDs,
           task[p].br = b, AttachA(p)
    PROVE  BridgeInv'
<1> DEFINE src == task[p].src
           dst == task[p].dst
<1>1. task[p].pc = "attachA" /\ task[p].pc \in Wiring /\ task[p] \in TaskType
  BY Held DEF AttachA, At, Wiring
<1>2. /\ bridges[b] # None /\ task[p].dir = bridges[b].dir
      /\ src = rooms[bridges[b].a] /\ dst = rooms[bridges[b].b]
      /\ src # dst /\ src \in Rooms /\ dst \in Rooms
      /\ \A o \in Live : Touches(b, idOf[o]) <=> o \in {src, dst}
      /\ \A q \in Procs : \A x \in task[q].torn : x.br # b
  BY <1>1, Wirer, LiveRooms
<1>3. task'[p] = [task[p] EXCEPT !.pc = "attachB"]
  BY DEF AttachA, Goto, IInv, TypeOK
<1>4. /\ mixBridge'[src][b] = "send"
      /\ \A c \in BridgeIDs \ {b} : \A o \in Rooms : mixBridge'[o][c] = mixBridge[o][c]
      /\ bridgeRefs'[src] = bridgeRefs[src] + 1
      /\ \A o \in Rooms \ {src} : bridgeRefs'[o] = bridgeRefs[o]
  BY <1>2 DEF AttachA, AttachBridge, IInv, TypeOK
<1>5. OnBridge(p, b)
  BY <1>1, <1>3, <1>4, WirerOnBridge DEF OnIt, AttachA, Goto, HasBridge, IInv, TypeOK
<1>6. /\ task'[p].pc = "attachB" /\ task'[p].br = b /\ task'[p].dir = task[p].dir
      /\ task'[p].src = src /\ task'[p].dst = dst /\ task'[p].torn = {}
  BY <1>1, <1>3, <1>5 DEF TaskType, OnBridge
<1>7. UNCHANGED <<rooms, bridges, idOf>>
  BY DEF AttachA
<1>8. ASSUME NEW o \in Live
      PROVE  Balanced(o, b)
  <2>1. Touches(b, idOf[o])' <=> o \in {src, dst}
    BY <1>2, <1>7 DEF Touches
  <2>2. ~ Counted(o, b)
    BY <1>1, <1>2, <1>5, CountedByOwner DEF Attaches, Detaches, TornOff
  <2>3. Counted(o, b)' <=> o = src
    BY <1>2, <1>5, <1>6, <2>1, CountedByOwner DEF Attaches, Detaches, TornOff
  <2>4. QED
    BY <1>4, <2>2, <2>3, LiveRooms DEF Balanced
<1>9. WiresItsBridge(task[p])'
  BY <1>2, <1>4, <1>6, <1>7 DEF WiresItsBridge, Wiring, Unwiring
<1>10. QED
  BY <1>2, <1>5, <1>6, <1>8, <1>9, OneBridge

LEMMA AttachBKeeps ==
    ASSUME IInv, MemberInv, BridgeInv, NEW p \in Procs, NEW b \in BridgeIDs,
           task[p].br = b, AttachB(p)
    PROVE  BridgeInv'
<1> DEFINE src == task[p].src
           dst == task[p].dst
<1>1. task[p].pc = "attachB" /\ task[p].pc \in Wiring /\ task[p] \in TaskType
  BY Held DEF AttachB, At, Wiring
<1>2. /\ bridges[b] # None /\ task[p].dir = bridges[b].dir
      /\ src = rooms[bridges[b].a] /\ dst = rooms[bridges[b].b]
      /\ src # dst /\ src \in Rooms /\ dst \in Rooms
      /\ \A o \in Live : Touches(b, idOf[o]) <=> o \in {src, dst}
      /\ \A q \in Procs : \A x \in task[q].torn : x.br # b
  BY <1>1, Wirer, LiveRooms
<1>3. task'[p] = [task[p] EXCEPT !.pc = "directA"]
  BY DEF AttachB, Goto, IInv, TypeOK
<1>4. /\ mixBridge'[dst][b] = "send" /\ mixBridge'[src] = mixBridge[src]
      /\ \A c \in BridgeIDs \ {b} : \A o \in Rooms : mixBridge'[o][c] = mixBridge[o][c]
      /\ bridgeRefs'[dst] = bridgeRefs[dst] + 1
      /\ \A o \in Rooms \ {dst} : bridgeRefs'[o] = bridgeRefs[o]
  BY <1>2 DEF AttachB, AttachBridge, IInv, TypeOK
<1>5. OnBridge(p, b)
  BY <1>1, <1>3, <1>4, WirerOnBridge DEF OnIt, AttachB, Goto, HasBridge, IInv, TypeOK
<1>6. /\ task'[p].pc = "directA" /\ task'[p].br = b /\ task'[p].dir = task[p].dir
      /\ task'[p].src = src /\ task'[p].dst = dst /\ task'[p].torn = {}
  BY <1>1, <1>3, <1>5 DEF TaskType, OnBridge
<1>7. UNCHANGED <<rooms, bridges, idOf>>
  BY DEF AttachB
<1>8. ASSUME NEW o \in Live
      PROVE  Balanced(o, b)
  <2>1. Touches(b, idOf[o])' <=> o \in {src, dst}
    BY <1>2, <1>7 DEF Touches
  <2>2. Counted(o, b) <=> o = src
    BY <1>1, <1>2, <1>5, CountedByOwner DEF Attaches, Detaches, TornOff
  <2>3. Counted(o, b)' <=> o \in {src, dst}
    BY <1>2, <1>5, <1>6, <2>1, CountedByOwner DEF Attaches, Detaches, TornOff
  <2>4. QED
    BY <1>2, <1>4, <2>2, <2>3, LiveRooms DEF Balanced
<1>9. WiresItsBridge(task[p])'
  <2>1. mixBridge[src][b] # "absent"
    BY <1>1 DEF BridgeInv, BridgesAreWired, WiresItsBridge
  <2>2. QED
    BY <1>2, <1>4, <1>6, <1>7, <2>1 DEF WiresItsBridge, Wiring, Unwiring
<1>10. QED
  BY <1>2, <1>5, <1>6, <1>8, <1>9, OneBridge


LEMMA DirectAKeeps ==
    ASSUME IInv, MemberInv, BridgeInv, NEW p \in Procs, NEW b \in BridgeIDs,
           task[p].br = b, DirectA(p)
    PROVE  BridgeInv'
<1> DEFINE src == task[p].src
           dst == task[p].dst
<1>1. task[p].pc = "directA" /\ task[p].pc \in Wiring /\ task[p] \in TaskType
  BY Held DEF DirectA, At, Wiring
<1>2. /\ bridges[b] # None /\ task[p].dir = bridges[b].dir
      /\ src = rooms[bridges[b].a] /\ dst = rooms[bridges[b].b]
      /\ src # dst /\ src \in Rooms /\ dst \in Rooms
  BY <1>1, Wirer, LiveRooms
<1>3. task'[p] = [task[p] EXCEPT !.pc = "directB"]
  BY DEF DirectA, Goto, IInv, TypeOK
<1>4. mixBridge[src][b] # "absent" /\ mixBridge[dst][b] # "absent"
  BY <1>1 DEF BridgeInv, BridgesAreWired, WiresItsBridge
<1>5. /\ mixBridge'[src][b] = Says(ASends(task[p].dir)) /\ mixBridge'[dst] = mixBridge[dst]
      /\ \A c \in BridgeIDs \ {b} : \A o \in Rooms : mixBridge'[o][c] = mixBridge[o][c]
  BY <1>2, <1>4 DEF DirectA, SetSends, Says, IInv, TypeOK
<1>6. OnBridge(p, b)
  BY <1>1, <1>3, <1>5, WirerOnBridge DEF OnIt, DirectA, Goto, HasBridge, IInv, TypeOK
<1>7. /\ task'[p].pc = "directB" /\ task'[p].br = b /\ task'[p].dir = task[p].dir
      /\ task'[p].src = src /\ task'[p].dst = dst /\ task'[p].torn = {}
  BY <1>1, <1>3, <1>6 DEF TaskType, OnBridge
<1>8. UNCHANGED <<rooms, bridges, idOf, bridgeRefs>>
  BY DEF DirectA
<1>9. ASSUME NEW o \in Live
      PROVE  Balanced(o, b)
  <2>1. Touches(b, idOf[o])' <=> Touches(b, idOf[o])
    BY <1>8 DEF Touches
  <2>2. task[p].torn = {}
    BY <1>6 DEF OnBridge
  <2>3. Counted(o, b)' <=> Counted(o, b)
    BY <1>1, <1>6, <1>7, <2>1, <2>2, CountedByOwner DEF Attaches, Detaches
  <2>4. QED
    BY <1>8, <2>3 DEF Balanced
<1>10. WiresItsBridge(task[p])'
  BY <1>2, <1>4, <1>5, <1>7, <1>8 DEF WiresItsBridge, Wiring, Unwiring, Says
<1>11. QED
  BY <1>6, <1>7, <1>9, <1>10, OneBridge

LEMMA DirectBKeeps ==
    ASSUME IInv, MemberInv, BridgeInv, NEW p \in Procs, NEW b \in BridgeIDs,
           task[p].br = b, DirectB(p)
    PROVE  BridgeInv'
<1> DEFINE src == task[p].src
           dst == task[p].dst
<1>1. task[p].pc = "directB" /\ task[p].pc \in Wiring
  BY DEF DirectB, At, Wiring
<1>2. /\ bridges[b] # None /\ task[p].dir = bridges[b].dir
      /\ src = rooms[bridges[b].a] /\ dst = rooms[bridges[b].b]
      /\ src # dst /\ src \in Rooms /\ dst \in Rooms
  BY <1>1, Wirer, LiveRooms
<1>3. task'[p] = Idle
  BY DEF DirectB, Done, Goto, IInv, TypeOK
<1>4. /\ mixBridge[src][b] = Says(ASends(task[p].dir))
      /\ mixBridge[dst][b] # "absent"
  BY <1>1 DEF BridgeInv, BridgesAreWired, WiresItsBridge
<1>5. /\ mixBridge'[dst][b] = Says(BSends(task[p].dir)) /\ mixBridge'[src] = mixBridge[src]
      /\ \A c \in BridgeIDs \ {b} : \A o \in Rooms : mixBridge'[o][c] = mixBridge[o][c]
  BY <1>2, <1>4 DEF DirectB, SetSends, Says, IInv, TypeOK
<1>6. OnBridge(p, b)
  BY <1>1, <1>3, <1>5, WirerOnBridge DEF OnIt, DirectB, Done, Goto, IInv, TypeOK
<1>7. task'[p].pc = "idle" /\ task'[p].torn = {} /\ task'[p].br = None
  BY <1>3 DEF Idle
<1>8. UNCHANGED <<rooms, bridges, idOf, bridgeRefs>>
  BY DEF DirectB
<1>9. ASSUME NEW o \in Live
      PROVE  Balanced(o, b)
  <2>1. Touches(b, idOf[o])' <=> Touches(b, idOf[o])
    BY <1>8 DEF Touches
  <2>2. task[p].torn = {}
    BY <1>6 DEF OnBridge
  <2>3. Counted(o, b)' <=> Counted(o, b)
    BY <1>1, <1>6, <1>7, <2>1, <2>2, CountedByOwner DEF Attaches, Detaches
  <2>4. QED
    BY <1>8, <2>3 DEF Balanced
<1>10. WiresItsBridge(task[p])'
  BY <1>7 DEF WiresItsBridge, Wiring, Unwiring
<1>11. Applied(b)'
  BY <1>2, <1>4, <1>5, <1>8 DEF Applied
<1>12. QED
  BY <1>6, <1>9, <1>10, <1>11, OneBridge

-----------------------------------------------------------------------------
(* The detachment.                                                         *)

LEMMA UnregisterKeeps ==
    ASSUME IInv, MemberInv, BridgeInv, NEW p \in Procs, NEW b \in BridgeIDs,
           Unregister(p, b), bridges[b] # None,
           UNCHANGED <<rooms, idOf, mixBridge, bridgeRefs>>,
           task[p].br \in {None, b}, task[p].torn = {},
           task[p].pc \notin Wiring \cup Unwiring,
           \A q \in Procs \ {p} : task[q].br # b,
           \A q \in Procs : \A x \in task[q].torn : x.br # b
    PROVE  BridgeInv'
<1> DEFINE src == rooms[bridges[b].a]
           dst == rooms[bridges[b].b]
           t == [Idle EXCEPT !.pc = "detachA", !.br = b, !.src = src, !.dst = dst]
<1>1. task'[p] = t /\ \A q \in Procs \ {p} : task'[q] = task[q]
  BY DEF Unregister, Goto, IInv, TypeOK
<1>2. bridges'[b] = None /\ \A c \in BridgeIDs \ {b} : bridges'[c] = bridges[c]
  BY DEF Unregister, IInv, TypeOK
<1>3. t.pc = "detachA" /\ t.br = b /\ t.src = src /\ t.dst = dst /\ t.torn = {}
  BY DEF Idle
<1>4. src # dst /\ \A o \in Live : Touches(b, idOf[o]) <=> o \in {src, dst}
  BY EndPoints
<1> HIDE DEF t
<1>5. OnBridge(p, b)
  BY <1>1, <1>2, <1>3 DEF OnBridge, HasBridge
<1>6. ASSUME NEW o \in Live
      PROVE  Balanced(o, b)
  <2>1. ~ Attaches(task[p], o, b) /\ ~ Detaches(task[p], o, b) /\ ~ TornOff(o, b)
    BY DEF Attaches, Detaches, TornOff, Wiring, Unwiring
  <2>2. Counted(o, b) <=> o \in {src, dst}
    BY <1>4, <1>5, <2>1, CountedByOwner
  <2>3. ~ Touches(b, idOf[o])'
    BY <1>2 DEF Touches
  <2>4. Counted(o, b)' <=> o \in {src, dst}
    BY <1>1, <1>3, <1>5, <2>1, <2>3, CountedByOwner DEF Detaches
  <2>5. QED
    BY <2>2, <2>4 DEF Balanced
<1>7. WiresItsBridge(task[p])'
  BY <1>1, <1>2, <1>3, <1>4 DEF WiresItsBridge, Wiring, Unwiring
<1>8. QED
  BY <1>1, <1>3, <1>5, <1>6, <1>7, OneBridge


LEMMA DeleteBridgeKeeps ==
    ASSUME IInv, MemberInv, BridgeInv, orderly, NEW p \in Procs, NEW b \in BridgeIDs,
           DeleteBridgeStart(p, b)
    PROVE  BridgeInv'
<1>1. /\ bridges[b] # None /\ Unregister(p, b) /\ task[p].pc = "idle"
      /\ UNCHANGED <<rooms, idOf, mixBridge, bridgeRefs>>
  BY DEF DeleteBridgeStart, bridgeVars, Running
<1>2. /\ task[p].br = None /\ task[p].torn = {}
      /\ \A q \in Procs : task[q].br # b /\ \A x \in task[q].torn : x.br # b
  BY <1>1, Starter DEF DeleteBridgeStart
<1>3. QED
  BY <1>1, <1>2, UnregisterKeeps DEF Wiring, Unwiring

LEMMA PanicBridgeKeeps ==
    ASSUME IInv, MemberInv, BridgeInv, NEW p \in Procs, NEW b \in BridgeIDs,
           task[p].br = b, PanicBridgeDelete(p)
    PROVE  BridgeInv'
<1>1. /\ task[p].pc = "panicBridge" /\ task[p].pc \in HasBridge
      /\ UNCHANGED <<rooms, idOf, mixBridge, bridgeRefs>>
  BY DEF PanicBridgeDelete, At, bridgeVars, HasBridge
<1>2. /\ \A q \in Procs \ {p} : task[q].br # b
      /\ task[p].torn = {}
      /\ bridges[b] # None => \A q \in Procs : \A x \in task[q].torn : x.br # b
  BY <1>1, Owner
<1>3. CASE bridges[b] # None /\ Unregister(p, b)
  BY <1>1, <1>2, <1>3, UnregisterKeeps DEF Wiring, Unwiring
<1>4. CASE bridges[b] = None /\ Done(p) /\ UNCHANGED bridges
  <2>1. task'[p] = Idle /\ \A q \in Procs \ {p} : task'[q] = task[q]
    BY <1>4 DEF Done, Goto, IInv, TypeOK
  <2>2. task'[p].pc = "idle" /\ task'[p].br = None /\ task'[p].torn = {}
    BY <2>1 DEF Idle
  <2>3. OnBridge(p, b)
    BY <1>1, <1>2, <1>4, <2>1, <2>2 DEF OnBridge
  <2>4. ASSUME NEW o \in Live
        PROVE  Balanced(o, b)
    <3>1. ~ Touches(b, idOf[o])' /\ ~ Touches(b, idOf[o])
      BY <1>4 DEF Touches
    <3>2. Counted(o, b)' <=> Counted(o, b)
      BY <1>1, <1>2, <2>2, <2>3, <3>1, CountedByOwner DEF Detaches
    <3>3. QED
      BY <1>1, <3>2 DEF Balanced
  <2>5. WiresItsBridge(task[p])' /\ Applied(b)'
    BY <1>4, <2>2 DEF WiresItsBridge, Wiring, Unwiring, Applied
  <2>6. QED
    BY <2>3, <2>4, <2>5, OneBridge
<1>5. QED
  BY <1>3, <1>4 DEF PanicBridgeDelete

LEMMA BridgeLoopPanicKeeps ==
    ASSUME IInv, MemberInv, BridgeInv, orderly, NEW p \in Procs, NEW b \in BridgeIDs,
           NEW o \in Rooms, BridgeLoopPanic(p, o, b)
    PROVE  BridgeInv'
<1> DEFINE t == [Idle EXCEPT !.pc = "panicBridge", !.br = b]
<1>1. /\ UNCHANGED <<rooms, bridges, idOf, bridgeRefs>>
      /\ task'[p] = t /\ \A q \in Procs \ {p} : task'[q] = task[q]
      /\ \A c \in BridgeIDs \ {b} : \A x \in Rooms : mixBridge'[x][c] = mixBridge[x][c]
      /\ task[p].pc = "idle"
  BY DEF BridgeLoopPanic, Goto, IInv, TypeOK, Running
<1>2. t.pc = "panicBridge" /\ t.br = b /\ t.torn = {}
  BY DEF Idle
<1> HIDE DEF t
<1>3. /\ task[p].br = None /\ task[p].torn = {} /\ b # None
      /\ \A q \in Procs : task[q].br # b
  BY Starter DEF BridgeLoopPanic
<1>4. \A q \in Procs : \A x \in task[q].torn : x.br = b => bridges'[b] = None
  BY <1>1 DEF BridgeInv, OwnersInv, TornAreGone
<1>5. OnBridge(p, b)
  BY <1>1, <1>2, <1>3, <1>4 DEF OnBridge, HasBridge
<1>6. ASSUME NEW x \in Live
      PROVE  Balanced(x, b)
  <2>1. Touches(b, idOf[x])' <=> Touches(b, idOf[x])
    BY <1>1 DEF Touches
  <2>2. /\ ~ Attaches(task[p], x, b) /\ ~ Detaches(task[p], x, b)
        /\ ~ Attaches(task'[p], x, b) /\ ~ Detaches(task'[p], x, b)
    BY <1>1, <1>2, <1>3 DEF Attaches, Detaches
  <2>3. Counted(x, b)' <=> Counted(x, b)
    BY <1>5, <2>1, <2>2, CountedByOwner
  <2>4. QED
    BY <1>1, <2>3 DEF Balanced
<1>7. WiresItsBridge(task[p])'
  BY <1>1, <1>2 DEF WiresItsBridge, Wiring, Unwiring
<1>8. QED
  BY <1>1, <1>2, <1>5, <1>6, <1>7, OneBridge

LEMMA DetachAKeeps ==
    ASSUME IInv, MemberInv, BridgeInv, NEW p \in Procs, NEW b \in BridgeIDs,
           task[p].br = b, DetachA(p)
    PROVE  BridgeInv'
<1> DEFINE src == task[p].src
           dst == task[p].dst
<1>1. /\ task[p].pc = "detachA" /\ task[p].pc \in HasBridge /\ task[p] \in TaskType
      /\ src \in Rooms /\ dst \in Rooms
      /\ UNCHANGED <<rooms, bridges, idOf>>
  BY Held DEF DetachA, At, HasBridge, HasSrc, HasDst
<1>2. bridges[b] = None /\ src # dst
  BY <1>1 DEF BridgeInv, BridgesAreWired, WiresItsBridge, Unwiring
<1>3. /\ b # None /\ task[p].torn = {}
      /\ \A q \in Procs \ {p} : task[q].br # b
      /\ \A q \in Procs : \A x \in task[q].torn : x.br # b
  BY <1>1, Owner
<1>4. /\ task'[p] = [task[p] EXCEPT !.pc = "detachB"]
      /\ \A q \in Procs \ {p} : task'[q] = task[q]
  BY DEF DetachA, Goto, IInv, TypeOK
<1>5. /\ task'[p].pc = "detachB" /\ task'[p].br = b
      /\ task'[p].src = src /\ task'[p].dst = dst /\ task'[p].torn = {}
  BY <1>1, <1>3, <1>4 DEF TaskType
<1>6. /\ \A c \in BridgeIDs \ {b} : \A o \in Rooms : mixBridge'[o][c] = mixBridge[o][c]
      /\ bridgeRefs'[src] = Unref(src)
      /\ \A o \in Rooms \ {src} : bridgeRefs'[o] = bridgeRefs[o]
  BY <1>1 DEF DetachA, DetachBridge, IInv, TypeOK
<1>7. OnBridge(p, b)
  BY <1>1, <1>3, <1>4, <1>5, <1>6 DEF OnBridge, HasBridge
<1>8. ASSUME NEW o \in Live
      PROVE  Balanced(o, b)
  <2>1. ~ Touches(b, idOf[o]) /\ ~ Touches(b, idOf[o])' /\ ~ TornOff(o, b)
    BY <1>1, <1>2, <1>3 DEF Touches, TornOff
  <2>2. Counted(o, b) <=> o \in {src, dst}
    BY <1>1, <1>3, <1>7, <2>1, CountedByOwner DEF Detaches
  <2>3. Counted(o, b)' <=> o = dst
    BY <1>5, <1>7, <2>1, CountedByOwner DEF Detaches
  <2>4. QED
    BY <1>2, <1>6, <2>2, <2>3, LiveRooms DEF Balanced
<1>9. WiresItsBridge(task[p])'
  BY <1>1, <1>2, <1>5 DEF WiresItsBridge, Wiring, Unwiring
<1>10. QED
  BY <1>5, <1>7, <1>8, <1>9, OneBridge

LEMMA DetachBKeeps ==
    ASSUME IInv, MemberInv, BridgeInv, NEW p \in Procs, NEW b \in BridgeIDs,
           task[p].br = b, DetachB(p)
    PROVE  BridgeInv'
<1> DEFINE dst == task[p].dst
<1>1. /\ task[p].pc = "detachB" /\ task[p].pc \in HasBridge /\ dst \in Rooms
      /\ UNCHANGED <<rooms, bridges, idOf>>
  BY Held DEF DetachB, At, HasBridge, HasDst
<1>2. bridges[b] = None
  BY <1>1 DEF BridgeInv, BridgesAreWired, WiresItsBridge, Unwiring
<1>3. /\ b # None /\ task[p].torn = {}
      /\ \A q \in Procs \ {p} : task[q].br # b
      /\ \A q \in Procs : \A x \in task[q].torn : x.br # b
  BY <1>1, Owner
<1>4. task'[p] = Idle /\ \A q \in Procs \ {p} : task'[q] = task[q]
  BY DEF DetachB, Done, Goto, IInv, TypeOK
<1>5. task'[p].pc = "idle" /\ task'[p].br = None /\ task'[p].torn = {}
  BY <1>4 DEF Idle
<1>6. /\ \A c \in BridgeIDs \ {b} : \A o \in Rooms : mixBridge'[o][c] = mixBridge[o][c]
      /\ bridgeRefs'[dst] = Unref(dst)
      /\ \A o \in Rooms \ {dst} : bridgeRefs'[o] = bridgeRefs[o]
  BY <1>1 DEF DetachB, DetachBridge, IInv, TypeOK
<1>7. OnBridge(p, b)
  BY <1>1, <1>3, <1>4, <1>5, <1>6 DEF OnBridge
<1>8. ASSUME NEW o \in Live
      PROVE  Balanced(o, b)
  <2>1. ~ Touches(b, idOf[o]) /\ ~ Touches(b, idOf[o])' /\ ~ TornOff(o, b)
    BY <1>1, <1>2, <1>3 DEF Touches, TornOff
  <2>2. Counted(o, b) <=> o = dst
    BY <1>1, <1>3, <1>7, <2>1, CountedByOwner DEF Detaches
  <2>3. ~ Counted(o, b)'
    BY <1>5, <1>7, <2>1, CountedByOwner DEF Detaches
  <2>4. QED
    BY <1>6, <2>2, <2>3, LiveRooms DEF Balanced
<1>9. WiresItsBridge(task[p])' /\ Applied(b)'
  BY <1>1, <1>2, <1>5 DEF WiresItsBridge, Wiring, Unwiring, Applied
<1>10. QED
  BY <1>7, <1>8, <1>9, OneBridge


-----------------------------------------------------------------------------
(* The deletion of a room takes its bridges along.                         *)

LEMMA DeleteTakesBridges ==
    ASSUME IInv, MemberInv, BridgeInv, orderly, NEW p \in Procs, NEW i \in RoomIDs,
           DeleteStart(p, i)
    PROVE  BridgeInv'
<1> DEFINE torn == {[br |-> b, peer |-> Peer(b, i)] :
                       b \in {c \in BridgeIDs : Touches(c, i)}}
           t == [Idle EXCEPT !.pc = "unbridge", !.src = rooms[i], !.torn = torn]
<1>1. /\ rooms[i] # None /\ task[p].pc = "idle"
      /\ task'[p] = t /\ \A q \in Procs \ {p} : task'[q] = task[q]
      /\ UNCHANGED <<idOf, mixBridge, bridgeRefs>>
  BY DEF DeleteStart, Running, bridgeVars, Goto, IInv, TypeOK
<1>2. rooms'[i] = None /\ \A j \in RoomIDs \ {i} : rooms'[j] = rooms[j]
  BY DEF DeleteStart, IInv, TypeOK
<1>3. \A b \in BridgeIDs : bridges'[b] = IF Touches(b, i) THEN None ELSE bridges[b]
  BY DEF DeleteStart, WithoutBridgesOf
<1>4. t.pc = "unbridge" /\ t.br = None /\ t.torn = torn
  BY DEF Idle
<1>5. \A x \in torn : x.br \in BridgeIDs /\ Touches(x.br, i) /\ x.peer = Peer(x.br, i)
  OBVIOUS
<1>6. \A b \in BridgeIDs : Touches(b, i) => [br |-> b, peer |-> Peer(b, i)] \in torn
  OBVIOUS
<1> HIDE DEF t, torn
<1>7. /\ task[p].br = None /\ task[p].torn = {} /\ None \notin BridgeIDs
      /\ \A q \in Procs : \A b \in BridgeIDs : Touches(b, i) => task[q].br # b
      /\ \A q \in Procs : \A x \in task[q].torn : x.br \in BridgeIDs /\ bridges[x.br] = None
  BY <1>1, Held, RoomManagerAssumption
     DEF RoomManagerAssumption, DeleteStart, Clear, BridgeInv, OwnersInv, FieldsAtRest,
         TornAreGone, HasBridge, TaskType
<1>8. Live' = Live \ {rooms[i]} /\ rooms[i] \in Live
  BY <1>1, <1>2, Registered DEF Live
<1>9. FieldsAtRest' /\ OneOwner'
  <2>1. FieldsAtRest'
    BY <1>1, <1>4 DEF BridgeInv, OwnersInv, FieldsAtRest, HasBridge
  <2>2. OneOwner'
    BY <1>1, <1>4 DEF BridgeInv, OwnersInv, OneOwner
  <2>3. QED
    BY <2>1, <2>2
<1>10. TornAreGone'
  <2>1. SUFFICES ASSUME NEW r \in Procs, NEW x \in task'[r].torn
                 PROVE  /\ bridges'[x.br] = None
                        /\ \A q \in Procs : task'[q].br = x.br => task'[q].pc = "panicBridge"
                        /\ \A q \in Procs \ {r} : \A y \in task'[q].torn : y.br # x.br
    BY DEF TornAreGone
  <2>2. CASE r = p
    <3>1. x.br \in BridgeIDs /\ Touches(x.br, i) /\ bridges[x.br] # None
      BY <1>1, <1>4, <1>5, <2>1, <2>2 DEF Touches
    <3>2. \A q \in Procs : task'[q].br # x.br
      BY <1>1, <1>4, <1>7, <3>1
    <3>3. QED
      BY <1>1, <1>3, <1>7, <2>2, <3>1, <3>2
  <2>3. CASE r # p
    <3>1. /\ x \in task[r].torn /\ bridges[x.br] = None /\ x.br \in BridgeIDs
          /\ \A q \in Procs : task[q].br = x.br => task[q].pc = "panicBridge"
          /\ \A q \in Procs \ {r} : \A y \in task[q].torn : y.br # x.br
      BY <1>1, <1>7, <2>1, <2>3 DEF BridgeInv, OwnersInv, TornAreGone
    <3>2. \A y \in torn : y.br # x.br
      BY <1>5, <3>1 DEF Touches
    <3>3. QED
      BY <1>1, <1>3, <1>4, <1>7, <2>3, <3>1, <3>2
  <2>4. QED
    BY <2>2, <2>3
<1>11. \A b \in BridgeIDs : bridges[b] # None /\ ~ Touches(b, i) =>
           /\ rooms'[bridges[b].a] = rooms[bridges[b].a]
           /\ rooms'[bridges[b].b] = rooms[bridges[b].b]
  BY <1>2, EndPoints DEF Touches
<1>12. BridgesAreWired'
  <2>1. ASSUME NEW q \in Procs \ {p}
        PROVE  WiresItsBridge(task[q])'
    <3>1. task'[q] = task[q] /\ WiresItsBridge(task[q])
      BY <1>1 DEF BridgeInv, BridgesAreWired
    <3>2. CASE task[q].pc \in HasBridge
      <4>1. task[q].br \in BridgeIDs /\ ~ Touches(task[q].br, i)
        BY <1>7, <3>2, Held
      <4>2. bridges'[task[q].br] = bridges[task[q].br]
        BY <1>3, <4>1
      <4>3. QED
        BY <1>1, <1>11, <3>1, <4>1, <4>2 DEF WiresItsBridge, Wiring, Unwiring
    <3>3. CASE task[q].pc \notin HasBridge
      BY <3>1, <3>3 DEF WiresItsBridge, HasBridge, Wiring, Unwiring
    <3>4. QED
      BY <3>2, <3>3
  <2>2. WiresItsBridge(task[p])'
    BY <1>1, <1>4 DEF WiresItsBridge, Wiring, Unwiring
  <2>3. QED
    BY <2>1, <2>2 DEF BridgesAreWired
<1>13. RefsMatchBridges'
  <2>1. ASSUME NEW o \in Live', NEW b \in BridgeIDs
        PROVE  Counted(o, b)' <=> Counted(o, b)
    <3>1. o \in Live /\ o # rooms[i]
      BY <1>8
    <3>2. ~ Attaches(task[p], o, b) /\ ~ Detaches(task[p], o, b) /\ ~ Attaches(task'[p], o, b)
      BY <1>1, <1>4, <1>7 DEF Attaches, Detaches
    <3>3. CASE Touches(b, i)
      <4>1. \A q \in Procs : ~ Attaches(task[q], o, b) /\ ~ Detaches(task[q], o, b)
        BY <1>7, <3>3 DEF Attaches, Detaches, Touches
      <4>2. Touches(b, idOf[o]) <=> o = Peer(b, i)
        BY <1>1, <3>1, <3>3, EndPoints, LiveID, Registered DEF Touches, Peer
      <4>3. Detaches(task'[p], o, b) <=> o = Peer(b, i)
        BY <1>1, <1>4, <1>5, <1>6, <1>7, <3>3 DEF Detaches
      <4>4. ~ Touches(b, idOf[o])'
        BY <1>3, <3>3 DEF Touches
      <4>5. \A q \in Procs \ {p} : ~ Detaches(task'[q], o, b)
        BY <1>1, <4>1
      <4>6. QED
        BY <4>1, <4>2, <4>3, <4>4, <4>5 DEF Counted
    <3>4. CASE ~ Touches(b, i)
      <4>1. ~ Detaches(task'[p], o, b)
        BY <1>1, <1>4, <1>5, <1>7, <3>4 DEF Detaches
      <4>2. Touches(b, idOf[o])' <=> Touches(b, idOf[o])
        BY <1>1, <1>3, <3>4 DEF Touches
      <4>3. QED
        BY <1>1, <3>2, <4>1, <4>2 DEF Counted
    <3>5. QED
      BY <3>3, <3>4
  <2>2. ASSUME NEW o \in Live'
        PROVE  bridgeRefs'[o] = Cardinality(Counts(o)')
    <3>1. Counts(o)' = Counts(o)
      BY <2>1 DEF Counts
    <3>2. QED
      BY <1>1, <1>8, <3>1, RefsAreCounts DEF BridgeInv, CountsMatch
  <2>3. CountsMatch'
    BY <2>2 DEF CountsMatch
  <2>4. QED
    BY <2>3, RefsAreCounts, PTL
<1>14. DirectionIsApplied'
  <2>1. ASSUME NEW b \in BridgeIDs, \A q \in Procs : task'[q].br # b
        PROVE  Applied(b)'
    <3>1. \A q \in Procs : task[q].br # b
      BY <1>1, <1>7, <2>1
    <3>2. Applied(b)
      BY <3>1, DirectionsApplied DEF BridgeInv, RestApplied
    <3>3. QED
      BY <1>1, <1>3, <1>11, <3>2 DEF Applied
  <2>2. RestApplied'
    BY <2>1 DEF RestApplied
  <2>3. QED
    BY <2>2, DirectionsApplied, PTL
<1>15. QED
  BY <1>9, <1>10, <1>12, <1>13, <1>14 DEF BridgeInv, OwnersInv


LEMMA UnbridgeKeeps ==
    ASSUME IInv, MemberInv, BridgeInv, NEW p \in Procs, NEW x \in task[p].torn,
           At(p, "unbridge"), DetachBridge(x.peer, x.br),
           Goto(p, [task[p] EXCEPT !.torn = @ \ {x}]), UNCHANGED <<rooms, bridges, idOf>>
    PROVE  BridgeInv'
<1> DEFINE b == x.br
           peer == x.peer
<1>1. /\ task[p].pc = "unbridge" /\ task[p] \in TaskType /\ task[p].br = None
      /\ b \in BridgeIDs /\ peer \in Rooms /\ x = [br |-> b, peer |-> peer]
      /\ None \notin BridgeIDs
  BY Held, RoomManagerAssumption
     DEF RoomManagerAssumption, At, TaskType, BridgeInv, OwnersInv, FieldsAtRest, HasBridge
<1>2. /\ bridges[b] = None
      /\ \A q \in Procs : task[q].br = b => task[q].pc = "panicBridge"
      /\ \A q \in Procs \ {p} : \A y \in task[q].torn : y.br # b
  BY DEF BridgeInv, OwnersInv, TornAreGone
<1>3. /\ task'[p] = [task[p] EXCEPT !.torn = @ \ {x}]
      /\ \A q \in Procs \ {p} : task'[q] = task[q]
  BY DEF Goto, IInv, TypeOK
<1>4. /\ task'[p].pc = "unbridge" /\ task'[p].br = None /\ task'[p].torn = task[p].torn \ {x}
  BY <1>1, <1>3 DEF TaskType
<1>5. /\ \A c \in BridgeIDs \ {b} : \A o \in Rooms : mixBridge'[o][c] = mixBridge[o][c]
      /\ bridgeRefs'[peer] = Unref(peer)
      /\ \A o \in Rooms \ {peer} : bridgeRefs'[o] = bridgeRefs[o]
  BY <1>1 DEF DetachBridge, IInv, TypeOK
<1>6. FieldsAtRest' /\ OneOwner'
  <2>1. FieldsAtRest'
    BY <1>3, <1>4 DEF BridgeInv, OwnersInv, FieldsAtRest
  <2>2. OneOwner'
    BY <1>1, <1>3, <1>4 DEF BridgeInv, OwnersInv, OneOwner
  <2>3. QED
    BY <2>1, <2>2
<1>7. TornAreGone'
  <2>1. \A q \in Procs : /\ task'[q].torn \subseteq task[q].torn
                         /\ task'[q].br = task[q].br /\ task'[q].pc = task[q].pc
    BY <1>1, <1>3, <1>4
  <2>2. QED
    BY <2>1 DEF BridgeInv, OwnersInv, TornAreGone
<1>8. BridgesAreWired'
  <2>1. ASSUME NEW q \in Procs \ {p}
        PROVE  WiresItsBridge(task[q])'
    <3>1. task'[q] = task[q] /\ WiresItsBridge(task[q])
      BY <1>3 DEF BridgeInv, BridgesAreWired
    <3>2. CASE task[q].pc \in HasBridge \ {"panicBridge"}
      <4>1. /\ task[q].br \in BridgeIDs \ {b}
            /\ task[q].src \in Rooms /\ task[q].dst \in Rooms
        BY <1>2, <3>2, Held DEF HasSrc, HasDst, HasBridge
      <4>2. /\ mixBridge'[task[q].src][task[q].br] = mixBridge[task[q].src][task[q].br]
            /\ mixBridge'[task[q].dst][task[q].br] = mixBridge[task[q].dst][task[q].br]
        BY <1>5, <4>1
      <4>3. QED
        BY <3>1, <4>2 DEF WiresItsBridge, Wiring, Unwiring
    <3>3. CASE task[q].pc \notin HasBridge \ {"panicBridge"}
      BY <3>1, <3>3 DEF WiresItsBridge, HasBridge, Wiring, Unwiring
    <3>4. QED
      BY <3>2, <3>3
  <2>2. WiresItsBridge(task[p])'
    BY <1>4 DEF WiresItsBridge, Wiring, Unwiring
  <2>3. QED
    BY <2>1, <2>2 DEF BridgesAreWired
<1>9. RefsMatchBridges'
  <2>1. ASSUME NEW o \in Live, NEW c \in BridgeIDs, o # peer \/ c # b
        PROVE  Counted(o, c)' <=> Counted(o, c)
    <3>1. [br |-> c, peer |-> o] # x
      BY <1>1, <2>1
    <3>2. /\ Attaches(task'[p], o, c) <=> Attaches(task[p], o, c)
          /\ Detaches(task'[p], o, c) <=> Detaches(task[p], o, c)
      BY <1>1, <1>4, <3>1 DEF Attaches, Detaches
    <3>3. Touches(c, idOf[o])' <=> Touches(c, idOf[o])
      BY DEF Touches
    <3>4. QED
      BY <1>3, <3>2, <3>3 DEF Counted
  <2>2. ASSUME NEW o \in Live, o = peer
        PROVE  Counted(o, b)
    BY <1>1, <2>2 DEF Counted, Detaches
  <2>3. ASSUME NEW o \in Live, o = peer
        PROVE  ~ Counted(o, b)'
    <3>1. ~ Touches(b, idOf[o])'
      BY <1>2 DEF Touches
    <3>2. ~ Detaches(task'[p], o, b)
      BY <1>1, <1>4, <2>3 DEF Detaches
    <3>3. \A q \in Procs \ {p} : ~ Detaches(task'[q], o, b)
      BY <1>2, <1>3 DEF Detaches
    <3>4. QED
      BY <3>1, <3>2, <3>3 DEF Counted
  <2>4. ASSUME NEW o \in Live
        PROVE  bridgeRefs'[o] = Cardinality(Counts(o)')
    <3>1. o \in Rooms /\ bridgeRefs[o] \in Nat /\ bridgeRefs[o] = Cardinality(Counts(o))
      BY LiveRooms, RefsAreCounts DEF IInv, TypeOK, BridgeInv, CountsMatch
    <3>2. Balanced(o, b)
      <4>1. CASE o = peer
        BY <1>5, <2>2, <2>3, <4>1 DEF Balanced
      <4>2. CASE o # peer
        BY <1>5, <2>1, <3>1, <4>2, <1>1 DEF Balanced
      <4>3. QED
        BY <4>1, <4>2
    <3>3. \A c \in BridgeIDs \ {b} : Counted(o, c)' <=> Counted(o, c)
      BY <2>1
    <3>4. QED
      BY <1>1, <3>1, <3>2, <3>3, BalancedCounts
  <2>5. CountsMatch'
    BY <2>4 DEF CountsMatch, Live
  <2>6. QED
    BY <2>5, RefsAreCounts, PTL
<1>10. DirectionIsApplied'
  <2>1. ASSUME NEW c \in BridgeIDs, \A q \in Procs : task'[q].br # c
        PROVE  Applied(c)'
    <3>1. \A q \in Procs : task[q].br # c
      BY <1>1, <1>3, <1>4, <2>1
    <3>2. Applied(c)
      BY <3>1, DirectionsApplied DEF BridgeInv, RestApplied
    <3>3. bridges[c] # None => /\ c # b /\ rooms[bridges[c].a] \in Rooms
                               /\ rooms[bridges[c].b] \in Rooms
      BY <1>2, JoinedLive, LiveRooms
    <3>4. QED
      BY <1>5, <3>2, <3>3 DEF Applied
  <2>2. RestApplied'
    BY <2>1 DEF RestApplied
  <2>3. QED
    BY <2>2, DirectionsApplied, PTL
<1>11. QED
  BY <1>6, <1>7, <1>8, <1>9, <1>10 DEF BridgeInv, OwnersInv


-----------------------------------------------------------------------------
(* Everything else works on no bridge.                                     *)

LEMMA AtRest ==
    ASSUME BridgeInv, NEW p \in Procs, task[p].pc \notin HasBridge \cup {"unbridge"}
    PROVE  NoBridge(task[p])
  BY DEF BridgeInv, OwnersInv, FieldsAtRest, NoBridge

(* A task that goes on, starts or ends without a bridge.                   *)
LEMMA NoBridgeTasks ==
    ASSUME IInv, BridgeInv, NEW p \in Procs,
           task[p].pc \notin HasBridge \cup {"unbridge"},
           UNCHANGED <<bridges, mixBridge, bridgeRefs>>,
           UNCHANGED <<rooms, idOf>> \/
              \E o \in Rooms, i \in RoomIDs : rooms[i] = None /\ Allocate(o, i),
           NoBridge(task'[p]), \A q \in Procs \ {p} : task'[q] = task[q]
    PROVE  Quiet
  BY AtRest DEF Quiet

LEMMA LegStartsAreQuiet ==
    ASSUME IInv, BridgeInv, NEW p \in Procs,
           LegStart(p) \/ (\E l \in Legs : LegEnds(p, l))
              \/ (\E o \in Rooms, l \in Legs : LegLoopPanic(p, o, l))
    PROVE  Quiet
<1>1. /\ task[p].pc = "idle" /\ \A q \in Procs \ {p} : task'[q] = task[q]
      /\ UNCHANGED <<rooms, idOf, bridges, mixBridge, bridgeRefs>>
  BY DEF LegStart, AddLegStart, RemoveLegStart, MoveLegStart, LegEnds, LegLoopPanic,
     Running, bridgeVars, Goto, IInv, TypeOK
<1>2. NoBridge(task'[p])
  <2>1. ASSUME NEW i \in RoomIDs, NEW l \in Legs, AddLegStart(p, i, l)
        PROVE  NoBridge(task'[p])
    BY <2>1 DEF AddLegStart, Goto, Idle, IInv, TypeOK, NoBridge, HasBridge
  <2>2. ASSUME NEW i \in RoomIDs, NEW l \in Legs, RemoveLegStart(p, i, l)
        PROVE  NoBridge(task'[p])
    BY <2>2 DEF RemoveLegStart, Goto, Idle, IInv, TypeOK, NoBridge, HasBridge
  <2>3. ASSUME NEW i \in RoomIDs, NEW j \in RoomIDs, NEW l \in Legs, MoveLegStart(p, i, j, l)
        PROVE  NoBridge(task'[p])
    BY <2>3 DEF MoveLegStart, Goto, Idle, IInv, TypeOK, NoBridge, HasBridge
  <2>4. ASSUME NEW l \in Legs, LegEnds(p, l)
        PROVE  NoBridge(task'[p])
    <3>1. PICK pc \in {"cleanup", "hangupFirst"} :
              task'[p] = [Idle EXCEPT !.pc = pc, !.leg = l]
      BY <2>4 DEF LegEnds, Goto, IInv, TypeOK
    <3>2. QED
      BY <3>1 DEF Idle, NoBridge, HasBridge
  <2>5. ASSUME NEW o \in Rooms, NEW l \in Legs, LegLoopPanic(p, o, l)
        PROVE  NoBridge(task'[p])
    BY <2>5 DEF LegLoopPanic, Goto, Idle, IInv, TypeOK, NoBridge, HasBridge
  <2>6. QED
    BY <2>1, <2>2, <2>3, <2>4, <2>5 DEF LegStart
<1>3. QED
  BY <1>1, <1>2, NoBridgeTasks DEF HasBridge

(* A step of a leg's operation stays without a bridge.                     *)
LEMMA LegStepsAreQuiet ==
    ASSUME IInv, BridgeInv, NEW p \in Procs, LegStep(p)
    PROVE  Quiet
<1>1. task[p].pc \in HasLeg /\ task[p].pc \notin HasBridge \cup {"unbridge"}
  BY DEF LegStep, AddLegFinish, RemoveLegFinish, MoveLegTarget, MoveLegDetach, HangupFirst,
     Cleanup, CleanupLookup, CleanupRemove, Hangup, PanicLegLookup, PanicLegRemove, At,
     HasLeg, HasBridge
<1>2. \A q \in Procs \ {p} : task'[q] = task[q]
  BY DEF LegStep, AddLegFinish, RemoveLegFinish, MoveLegTarget, MoveLegDetach, HangupFirst,
     Cleanup, CleanupLookup, CleanupRemove, Hangup, PanicLegLookup, PanicLegRemove,
     Done, Goto, IInv, TypeOK
<1>3. /\ UNCHANGED <<bridges, mixBridge, bridgeRefs>>
      /\ UNCHANGED <<rooms, idOf>> \/
              \E o \in Rooms, i \in RoomIDs : rooms[i] = None /\ Allocate(o, i)
  <2>1. UNCHANGED <<bridges, mixBridge, bridgeRefs>>
    BY DEF LegStep, AddLegFinish, RemoveLegFinish, MoveLegTarget, MoveLegDetach, HangupFirst,
       Cleanup, CleanupLookup, CleanupRemove, Hangup, PanicLegLookup, PanicLegRemove, bridgeVars
  <2>2. CASE MoveLegTarget(p)
    <3>1. task[p].id \in RoomIDs
      BY <2>2, Held DEF MoveLegTarget, At, HasID
    <3>2. \/ UNCHANGED <<rooms, idOf>>
          \/ rooms[task[p].id] = None /\ \E o \in Rooms : Allocate(o, task[p].id)
      BY <2>2 DEF MoveLegTarget
    <3>3. QED
      BY <2>1, <3>1, <3>2
  <2>3. CASE ~ MoveLegTarget(p)
    <3>1. UNCHANGED <<rooms, idOf>>
      BY <2>3 DEF LegStep, AddLegFinish, RemoveLegFinish, MoveLegDetach, HangupFirst,
         Cleanup, CleanupLookup, CleanupRemove, Hangup, PanicLegLookup, PanicLegRemove
    <3>2. QED
      BY <2>1, <3>1
  <2>4. QED
    BY <2>1, <2>2, <2>3
<1>4. /\ task[p].br = None /\ task[p].torn = {} /\ task[p] \in TaskType
  BY <1>1, AtRest, Held DEF NoBridge
<1>5. ASSUME Done(p)
      PROVE  NoBridge(task'[p])
  BY <1>5 DEF Done, Goto, Idle, IInv, TypeOK, NoBridge, HasBridge
<1>6. NoBridge(task'[p])
  <2>1. CASE AddLegFinish(p) \/ RemoveLegFinish(p) \/ Hangup(p)
    BY <1>5, <2>1 DEF AddLegFinish, RemoveLegFinish, Hangup
  <2>2. CASE MoveLegTarget(p)
    <3>1. PICK o : Goto(p, [task[p] EXCEPT !.pc = "moveDetach", !.dst = o, !.id = None])
      BY <2>2 DEF MoveLegTarget
    <3>2. QED
      BY <1>4, <3>1 DEF Goto, IInv, TypeOK, TaskType, NoBridge, HasBridge
  <2>3. CASE MoveLegDetach(p)
    <3>1. Done(p) \/ Goto(p, [task[p] EXCEPT !.pc = "addLeg", !.src = None])
      BY <2>3 DEF MoveLegDetach
    <3>2. Done(p) \/ task'[p] = [task[p] EXCEPT !.pc = "addLeg", !.src = None]
      BY <3>1 DEF Goto, IInv, TypeOK
    <3>3. QED
      BY <1>4, <1>5, <3>2 DEF TaskType, Idle, NoBridge, HasBridge
  <2>4. CASE HangupFirst(p)
    BY <1>4, <2>4 DEF HangupFirst, Goto, IInv, TypeOK, TaskType, NoBridge, HasBridge
  <2>5. CASE Cleanup(p)
    BY <1>4, <2>5 DEF Cleanup, Goto, IInv, TypeOK, TaskType, NoBridge, HasBridge
  <2>6. CASE CleanupLookup(p)
    BY <1>4, <2>6 DEF CleanupLookup, Goto, IInv, TypeOK, TaskType, NoBridge, HasBridge
  <2>7. CASE CleanupRemove(p)
    BY <1>4, <2>7 DEF CleanupRemove, Goto, IInv, TypeOK, TaskType, NoBridge, HasBridge
  <2>8. CASE PanicLegLookup(p)
    <3>1. Done(p) \/ Goto(p, [task[p] EXCEPT !.pc = "panicRemove", !.src = rooms[task[p].id], !.id = None])
      BY <2>8 DEF PanicLegLookup
    <3>2. Done(p) \/ task'[p] = [task[p] EXCEPT !.pc = "panicRemove", !.src = rooms[task[p].id], !.id = None]
      BY <3>1 DEF Goto, IInv, TypeOK
    <3>3. QED
      BY <1>4, <1>5, <3>2 DEF TaskType, Idle, NoBridge, HasBridge
  <2>9. CASE PanicLegRemove(p)
    <3>1. Done(p) \/ Goto(p, [Idle EXCEPT !.pc = "hangupFirst", !.leg = task[p].leg])
      BY <2>9 DEF PanicLegRemove
    <3>2. Done(p) \/ task'[p] = [Idle EXCEPT !.pc = "hangupFirst", !.leg = task[p].leg]
      BY <3>1 DEF Goto, IInv, TypeOK
    <3>3. QED
      BY <1>4, <1>5, <3>2 DEF TaskType, Idle, NoBridge, HasBridge
  <2>10. QED
    BY <2>1, <2>2, <2>3, <2>4, <2>5, <2>6, <2>7, <2>8, <2>9 DEF LegStep
<1>7. QED
  BY <1>1, <1>2, <1>3, <1>6, NoBridgeTasks

LEMMA QuietSteps ==
    ASSUME IInv, BridgeInv, NEW p \in Procs,
           DeleteHangup(p) \/ DeleteClose(p)
    PROVE  Quiet
<1>1. /\ task[p].pc \notin HasBridge \cup {"unbridge"}
      /\ UNCHANGED <<rooms, idOf, bridges, mixBridge, bridgeRefs>>
      /\ \A q \in Procs \ {p} : task'[q] = task[q]
  BY DEF DeleteHangup, DeleteClose, At, HasBridge, bridgeVars, Done, Goto, IInv, TypeOK
<1>2. /\ task[p].br = None /\ task[p].torn = {} /\ task[p] \in TaskType
  BY <1>1, AtRest, Held DEF NoBridge
<1>3. task'[p] = [task[p] EXCEPT !.pc = "deleteClose"] \/ task'[p] = Idle
  BY DEF DeleteHangup, DeleteClose, Done, Goto, IInv, TypeOK
<1>4. NoBridge(task'[p])
  BY <1>2, <1>3 DEF TaskType, Idle, NoBridge, HasBridge
<1>5. QED
  BY <1>1, <1>4, NoBridgeTasks

(* A room whose bridges are all off is next rid of its legs.               *)
LEMMA UnbridgedIsQuiet ==
    ASSUME IInv, BridgeInv, NEW p \in Procs, At(p, "unbridge"), task[p].torn = {},
           Goto(p, [task[p] EXCEPT !.pc = "deleteHangup"]),
           UNCHANGED <<rooms, bridges, idOf, bridgeVars>>
    PROVE  Quiet
<1>1. task[p] \in TaskType /\ NoBridge(task[p])
  BY Held DEF BridgeInv, OwnersInv, FieldsAtRest, NoBridge, At, HasBridge
<1>2. /\ task'[p] = [task[p] EXCEPT !.pc = "deleteHangup"]
      /\ \A q \in Procs \ {p} : task'[q] = task[q]
  BY DEF Goto, IInv, TypeOK
<1>3. NoBridge(task'[p])
  BY <1>1, <1>2 DEF TaskType, NoBridge, HasBridge
<1>4. QED
  BY <1>1, <1>2, <1>3 DEF Quiet, bridgeVars

LEMMA IdleSteps ==
    ASSUME IInv, BridgeInv,
           \/ \E o \in Rooms, i \in RoomIDs : CreateRoom(o, i)
           \/ \E o \in Rooms, l \in Legs : RebuildLegMedia(o, l)
    PROVE  Quiet
<1>1. ASSUME NEW o \in Rooms, NEW i \in RoomIDs, CreateRoom(o, i)
      PROVE  Quiet
  BY <1>1 DEF CreateRoom, Quiet, bridgeVars
<1>2. ASSUME NEW o \in Rooms, NEW l \in Legs, RebuildLegMedia(o, l)
      PROVE  Quiet
  BY <1>2 DEF RebuildLegMedia, Quiet, bridgeVars
<1>3. QED
  BY <1>1, <1>2

-----------------------------------------------------------------------------
(* The invariant of the bridges, and what follows from it.                 *)

LEMMA InitBridges == ASSUME Init PROVE BridgeInv
<1>1. Live = {}
  BY DEF Init, Live
<1>2. \A p \in Procs : task[p].br = None /\ task[p].torn = {} /\ task[p].pc = "idle"
  BY DEF Init, Idle
<1>3. OwnersInv
  BY <1>2 DEF OwnersInv, FieldsAtRest, OneOwner, TornAreGone
<1>4. BridgesAreWired
  BY <1>2 DEF BridgesAreWired, WiresItsBridge, Wiring, Unwiring
<1>5. RefsMatchBridges
  BY <1>1 DEF RefsMatchBridges
<1>6. DirectionIsApplied
  BY DEF Init, DirectionIsApplied
<1>7. QED
  BY <1>3, <1>4, <1>5, <1>6 DEF BridgeInv

LEMMA NextBridges ==
    ASSUME IInv, MemberInv, BridgeInv, orderly, [Next]_vars
    PROVE  BridgeInv'
<1>1. CASE UNCHANGED vars
  <2>1. Quiet
    BY <1>1 DEF vars, bridgeVars, Quiet
  <2>2. QED
    BY <2>1, QuietKeeps
<1>2. CASE Next
  <2>1. ASSUME NEW p \in Procs, BridgeStart(p)
        PROVE  BridgeInv'
    BY <2>1, CreateBridgeKeeps, SetDirectionKeeps, DeleteBridgeKeeps DEF BridgeStart
  <2>2. ASSUME NEW p \in Procs, BridgeStep(p)
        PROVE  BridgeInv'
    <3>1. task[p].pc \in HasBridge
      BY <2>2 DEF BridgeStep, AttachA, AttachB, DirectA, DirectB, DetachA, DetachB,
         PanicBridgeDelete, At, HasBridge
    <3>2. task[p].br \in BridgeIDs
      BY <3>1, Held
    <3>3. QED
      BY <2>2, <3>2, AttachAKeeps, AttachBKeeps, DirectAKeeps, DirectBKeeps, DetachAKeeps,
         DetachBKeeps, PanicBridgeKeeps DEF BridgeStep
  <2>3. ASSUME NEW p \in Procs, DeleteRoom(p)
        PROVE  BridgeInv'
    <3>1. CASE \E i \in RoomIDs : DeleteStart(p, i)
      BY <3>1, DeleteTakesBridges
    <3>2. CASE DeleteUnbridge(p)
      <4>1. ASSUME NEW x \in task[p].torn, DetachBridge(x.peer, x.br),
                   Goto(p, [task[p] EXCEPT !.torn = @ \ {x}])
            PROVE  BridgeInv'
        BY <3>2, <4>1, UnbridgeKeeps DEF DeleteUnbridge
      <4>2. CASE /\ task[p].torn = {} /\ UNCHANGED bridgeVars
                 /\ Goto(p, [task[p] EXCEPT !.pc = "deleteHangup"])
        BY <3>2, <4>2, UnbridgedIsQuiet, QuietKeeps DEF DeleteUnbridge
      <4>3. QED
        BY <3>2, <4>1, <4>2 DEF DeleteUnbridge
    <3>3. CASE DeleteHangup(p) \/ DeleteClose(p)
      BY <3>3, QuietSteps, QuietKeeps
    <3>4. QED
      BY <2>3, <3>1, <3>2, <3>3 DEF DeleteRoom
  <2>4. ASSUME NEW p \in Procs, LegStart(p) \/ LegStep(p) \/ (\E l \in Legs : LegEnds(p, l))
        PROVE  BridgeInv'
    BY <2>4, LegStartsAreQuiet, LegStepsAreQuiet, QuietKeeps
  <2>5. ASSUME NEW p \in Procs, Panic(p)
        PROVE  BridgeInv'
    BY <2>5, LegStartsAreQuiet, QuietKeeps, BridgeLoopPanicKeeps DEF Panic
  <2>6. CASE \/ \E o \in Rooms, i \in RoomIDs : CreateRoom(o, i)
             \/ \E o \in Rooms, l \in Legs : RebuildLegMedia(o, l)
    BY <2>6, IdleSteps, QuietKeeps
  <2>7. QED
    BY <1>2, <2>1, <2>2, <2>3, <2>4, <2>5, <2>6 DEF Next
<1>3. QED
  BY <1>1, <1>2

(* Where callers are orderly the bridges' invariant holds throughout.      *)
THEOREM BridgeInvariant == Spec => [](IInv /\ (orderly => MemberInv /\ BridgeInv))
<1>1. Init => IInv /\ (orderly => MemberInv /\ BridgeInv)
  BY InitIInv, InitMembers, InitBridges
<1>2. IInv /\ (orderly => MemberInv /\ BridgeInv) /\ [Next]_vars
          => (IInv /\ (orderly => MemberInv /\ BridgeInv))'
  <2>1. SUFFICES ASSUME IInv, orderly => MemberInv /\ BridgeInv, [Next]_vars
                 PROVE  IInv' /\ (orderly' => MemberInv' /\ BridgeInv')
    OBVIOUS
  <2>2. orderly' = orderly
    BY <2>1 DEF Next, vars
  <2>3. QED
    BY <2>1, <2>2, NextIInv, NextMembers, NextBridges
<1>3. QED
  BY <1>1, <1>2, PTL DEF Spec

(* However many callers there are, if none starts an operation on what      *)
(* another is working on: every reference a registered room's mixer counts  *)
(* is a registered bridge wired to it or one about to be given back, and a  *)
(* bridge nobody works on sends in both mixers what its direction says      *)
(* (manager.go: CreateBridge, SetBridgeDirection, DeleteBridge, Delete;     *)
(* room.go: attachBridge, detachBridge).                                    *)
THEOREM BridgesStayInOrder == Spec => []OrderlyBridges
<1>1. IInv /\ (orderly => MemberInv /\ BridgeInv) => OrderlyBridges
  BY DEF BridgeInv, OrderlyBridges
<1>2. QED
  BY <1>1, BridgeInvariant, PTL
=============================================================================
