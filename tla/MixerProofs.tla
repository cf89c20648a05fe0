---------------------------- MODULE MixerProofs ----------------------------
(***************************************************************************)
(* The mixer and its room for any legs, sources, roles, matrices and any   *)
(* number of parts and channels: no part is torn down twice, no stop       *)
(* channel has two mix loops, every registered leg is served by the run    *)
(* that ticks, and an orphaned loop never takes away its successor.        *)
(***************************************************************************)
EXTENDS Mixer, TLAPS

(* What is registered is intact and knows its ID; what may still panic or be *)
(* handled after a panic has one.                                            *)
PartsMatch ==
    /\ \A i \in IDs : participants[i] # None =>
          part[participants[i]].id = i /\ part[participants[i]].done = 0
    /\ \A p \in Parts : part[p].loops > 0 => part[p].id \in IDs
    /\ \A p \in hooks : part[p].id \in Legs

(* The stop channel in use is closed exactly when the mixer is stopped, and  *)
(* has a mix loop exactly when the room thinks so.                           *)
RunsMatch ==
    /\ stopped <=> (stopCh \in closed)
    /\ mixerRunning => ~ stopped /\ mixLoops[stopCh] = 1
    /\ ~ mixerRunning /\ ~ stopped => mixLoops[stopCh] = 0

(* A registered leg is a participant of the room, of the run in use.         *)
LegsMatch ==
    /\ \A l \in Legs : participants[l] # None =>
          /\ l \in members
          /\ part[participants[l]].chan = stopCh
          /\ ~ stopped
    /\ Idle => mixerRunning = (members # {})
    /\ op.next \in {"add", "readMuted", "setMuted"} => op.leg \in members

IInv == TypeOK /\ PartsMatch /\ RunsMatch /\ LegsMatch

(* The invariant says what LegsAreServed asks for.                           *)
LEMMA ServedByInvariant == IInv => LegsAreServed
  BY MixerAssumption
     DEF IInv, TypeOK, PartsMatch, RunsMatch, LegsMatch, LegsAreServed, Idle, IDs

-----------------------------------------------------------------------------
(* What the mixer's calls do to a state of the invariant.                    *)

(* No part is registered under two IDs.                                      *)
LEMMA OneID ==
  ASSUME IInv, NEW i \in IDs, NEW j \in IDs,
         participants[i] = participants[j], participants[i] # None
  PROVE  i = j
  BY DEF IInv, PartsMatch

(* Whoever needs the mixer running finds it so: a channel nobody closed,     *)
(* and with no mix loop when it is a new one.                                *)
LEMMA RestartRuns ==
  ASSUME IInv, Restart
  PROVE  /\ stopCh' \in Chans /\ closed' \subseteq Chans /\ stopped' = FALSE
         /\ stopCh' \notin closed'
         /\ stopped => mixLoops[stopCh'] = 0
         /\ ~ stopped => stopCh' = stopCh
  BY DEF IInv, TypeOK, RunsMatch, Restart, Fresh

(* A teardown closes p.done for the first time, and touches one part only.   *)
LEMMA RemoveParticipantKeeps ==
  ASSUME IInv, NEW id \in IDs, RemoveParticipant(id)
  PROVE  /\ participants' \in [IDs -> Parts \cup {None}]
         /\ hears' \in [Legs -> SUBSET IDs] /\ muted' \in [Legs -> BOOLEAN]
         /\ part' \in [Parts -> Part]
         /\ participants'[id] = None
         /\ \A i \in IDs : participants'[i] # None =>
               /\ participants'[i] = participants[i]
               /\ part'[participants[i]] = part[participants[i]]
         /\ \A q \in Parts : /\ part'[q].id = part[q].id
                             /\ part'[q].loops = part[q].loops
<1>1. CASE participants[id] = None
  BY <1>1 DEF IInv, TypeOK, RemoveParticipant
<1>2. CASE participants[id] # None
  <2> DEFINE p == participants[id]
  <2>1. /\ participants' = [participants EXCEPT ![id] = None]
        /\ part' = [part EXCEPT ![p].done = @ + 1]
        /\ Reset(id)
    BY <1>2 DEF RemoveParticipant
  <2>2. p \in Parts /\ part[p] \in Part /\ part[p].done = 0
    BY <1>2 DEF IInv, TypeOK, PartsMatch
  <2>3. [part[p] EXCEPT !.done = @ + 1] \in Part
    BY <2>2 DEF Part
  <2>4. part' \in [Parts -> Part]
    BY <2>1, <2>2, <2>3 DEF IInv, TypeOK
  <2>5. /\ hears' \in [Legs -> SUBSET IDs] /\ muted' \in [Legs -> BOOLEAN]
    BY <2>1 DEF Reset, IInv, TypeOK, Everyone
  <2>6. /\ participants' \in [IDs -> Parts \cup {None}]
        /\ participants'[id] = None
        /\ \A i \in IDs \ {id} : participants'[i] = participants[i]
    BY <2>1 DEF IInv, TypeOK
  <2>7. \A i \in IDs : participants'[i] # None => part'[participants[i]] = part[participants[i]]
    <3> SUFFICES ASSUME NEW i \in IDs, participants'[i] # None
                 PROVE  part'[participants[i]] = part[participants[i]]
      OBVIOUS
    <3>1. i # id /\ participants[i] # None /\ participants[i] \in Parts
      BY <2>6, MixerAssumption DEF IInv, TypeOK
    <3>2. participants[i] # p
      BY <1>2, <3>1, OneID
    <3>3. QED  BY <2>1, <2>2, <3>1, <3>2 DEF IInv, TypeOK
  <2>8. \A q \in Parts : part'[q].id = part[q].id /\ part'[q].loops = part[q].loops
    BY <2>1, <2>2 DEF IInv, TypeOK, Part
  <2>9. QED  BY <2>4, <2>5, <2>6, <2>7, <2>8
<1>3. QED  BY <1>1, <1>2

(* What is registered after a teardown still matches its ID.                 *)
LEMMA RemoveParticipantMatches ==
  ASSUME IInv, NEW id \in IDs, RemoveParticipant(id), hooks' \subseteq hooks
  PROVE  PartsMatch'
<1>1. \A i \in IDs : participants'[i] # None =>
         part'[participants'[i]].id = i /\ part'[participants'[i]].done = 0
  <2> SUFFICES ASSUME NEW i \in IDs, participants'[i] # None
               PROVE  part'[participants'[i]].id = i /\ part'[participants'[i]].done = 0
    OBVIOUS
  <2>1. /\ participants'[i] = participants[i]
        /\ part'[participants[i]] = part[participants[i]]
    BY RemoveParticipantKeeps
  <2>2. QED  BY <2>1 DEF IInv, PartsMatch
<1>2. \A q \in Parts : part'[q].loops > 0 => part'[q].id \in IDs
  BY RemoveParticipantKeeps DEF IInv, PartsMatch
<1>3. \A q \in hooks' : part'[q].id \in Legs
  BY RemoveParticipantKeeps DEF IInv, TypeOK, PartsMatch
<1>4. QED  BY <1>1, <1>2, <1>3 DEF PartsMatch

(* A new part is the only thing a registration changes for the others.       *)
LEMMA AddParticipantKeeps ==
  ASSUME IInv, NEW id \in IDs, NEW p \in Parts, NEW n \in 0..2,
         AddParticipant(id, p, n)
  PROVE  /\ participants' = [participants EXCEPT ![id] = p]
         /\ participants' \in [IDs -> Parts \cup {None}]
         /\ hears' \in [Legs -> SUBSET IDs] /\ muted' \in [Legs -> BOOLEAN]
         /\ part' \in [Parts -> Part]
         /\ part'[p].id = id /\ part'[p].chan = stopCh' /\ part'[p].done = 0
         /\ \A i \in IDs \ {id} : participants[i] # None =>
               part'[participants[i]] = part[participants[i]]
         /\ \A q \in hooks : part'[q] = part[q]
         /\ \A q \in Parts \ {p} : part'[q].loops > 0 => part'[q] = part[q]
         /\ Restart
<1>1. /\ p \in Free /\ Restart
      /\ participants' = [participants EXCEPT ![id] = p]
      /\ part' = [q \in Parts |-> IF q = p THEN NewPart(id, stopCh', n)
                                  ELSE IF q \in Free THEN NoPart ELSE part[q]]
      /\ Reset(id)
  BY DEF AddParticipant
<1>2. NewPart(id, stopCh', n) \in Part /\ NoPart \in Part
  BY <1>1, RestartRuns DEF NewPart, NoPart, Part
<1>3. part' \in [Parts -> Part]
  BY <1>1, <1>2 DEF IInv, TypeOK
<1>4. hears' \in [Legs -> SUBSET IDs] /\ muted' \in [Legs -> BOOLEAN]
  BY <1>1 DEF Reset, IInv, TypeOK, Everyone
<1>5. participants' \in [IDs -> Parts \cup {None}]
  BY <1>1 DEF IInv, TypeOK
<1>6. \A i \in IDs : participants[i] # None =>
         participants[i] \in Parts \ {p} /\ participants[i] \notin Free
  BY <1>1 DEF Free, InUse, Referenced, Registered, IInv, TypeOK
<1>7. \A q \in hooks : q \in Parts \ {p} /\ q \notin Free
  BY <1>1 DEF Free, InUse, Referenced, IInv, TypeOK
<1>8. \A q \in Parts \ {p} : part'[q].loops > 0 => part'[q] = part[q]
  <2> SUFFICES ASSUME NEW q \in Parts \ {p}, q \in Free
               PROVE  part'[q].loops = 0
    BY <1>1
  <2>1. QED  BY <1>1 DEF NoPart, NewPart
<1>9. part'[p].id = id /\ part'[p].chan = stopCh' /\ part'[p].done = 0
  BY <1>1 DEF NewPart
<1>10. QED  BY <1>1, <1>3, <1>4, <1>5, <1>6, <1>7, <1>8, <1>9

(* And so it does after a registration.                                      *)
LEMMA AddParticipantMatches ==
  ASSUME IInv, NEW id \in IDs, NEW p \in Parts, NEW n \in 0..2,
         AddParticipant(id, p, n), UNCHANGED hooks
  PROVE  PartsMatch'
<1>1. part'[p].id = id /\ part'[p].done = 0
  BY AddParticipantKeeps
<1>2. \A i \in IDs : participants'[i] # None =>
         part'[participants'[i]].id = i /\ part'[participants'[i]].done = 0
  <2> SUFFICES ASSUME NEW i \in IDs, participants'[i] # None
               PROVE  part'[participants'[i]].id = i /\ part'[participants'[i]].done = 0
    OBVIOUS
  <2>1. CASE i = id
    BY <1>1, <2>1, AddParticipantKeeps DEF IInv, TypeOK
  <2>2. CASE i # id
    <3>1. participants'[i] = participants[i]
      BY <2>2, AddParticipantKeeps DEF IInv, TypeOK
    <3>2. part'[participants[i]] = part[participants[i]]
      BY <2>2, <3>1, AddParticipantKeeps
    <3>3. QED  BY <3>1, <3>2 DEF IInv, PartsMatch
  <2>3. QED  BY <2>1, <2>2
<1>3. \A q \in Parts : part'[q].loops > 0 => part'[q].id \in IDs
  <2> SUFFICES ASSUME NEW q \in Parts, part'[q].loops > 0 PROVE part'[q].id \in IDs
    OBVIOUS
  <2>1. q # p => part'[q] = part[q]
    BY AddParticipantKeeps
  <2>2. QED  BY <1>1, <2>1 DEF IInv, PartsMatch
<1>4. \A q \in hooks' : part'[q].id \in Legs
  BY AddParticipantKeeps DEF IInv, PartsMatch
<1>5. QED  BY <1>2, <1>3, <1>4 DEF PartsMatch

(* A new part belongs to the run in use, and so do the others it finds.      *)
LEMMA AddParticipantServes ==
  ASSUME IInv, NEW id \in IDs, NEW p \in Parts, NEW n \in 0..2,
         AddParticipant(id, p, n), NEW l \in Legs, participants'[l] # None
  PROVE  /\ part'[participants'[l]].chan = stopCh'
         /\ stopped' = FALSE
         /\ l # id => l \in members
<1>1. l \in IDs /\ Restart /\ stopped' = FALSE
  BY AddParticipantKeeps, RestartRuns DEF IDs
<1>2. CASE l = id
  <2>1. participants'[l] = p
    BY <1>1, <1>2, AddParticipantKeeps DEF IInv, TypeOK
  <2>2. QED  BY <1>1, <1>2, <2>1, AddParticipantKeeps
<1>3. CASE l # id
  <2>1. participants'[l] = participants[l]
    BY <1>1, <1>3, AddParticipantKeeps DEF IInv, TypeOK
  <2>2. part'[participants[l]] = part[participants[l]]
    BY <1>1, <1>3, <2>1, AddParticipantKeeps
  <2>3. ~ stopped /\ part[participants[l]].chan = stopCh /\ l \in members
    BY <2>1 DEF IInv, LegsMatch
  <2>4. QED  BY <1>1, <2>1, <2>2, <2>3, RestartRuns
<1>4. QED  BY <1>2, <1>3

-----------------------------------------------------------------------------
(* Every step preserves the invariant: the room operations first.            *)

LEMMA AddLegInv ==
  ASSUME IInv, NEW l \in Legs, NEW r \in Roles \cup {NoRole}, AddLeg(l, r)
  PROVE  IInv'
<1>1. TypeOK'
  BY MixerAssumption DEF IInv, TypeOK, AddLeg, mixerVars, apiVars
<1>2. PartsMatch' /\ RunsMatch' /\ LegsMatch'
  BY MixerAssumption DEF IInv, TypeOK, PartsMatch, RunsMatch, LegsMatch, Idle, NoOp, IDs, AddLeg, mixerVars, apiVars
<1>3. QED  BY <1>1, <1>2 DEF IInv

LEMMA RebuildInv ==
  ASSUME IInv, NEW l \in Legs, RebuildLegMedia(l)
  PROVE  IInv'
<1>1. l \in IDs /\ RemoveParticipant(l)
  BY DEF RebuildLegMedia, IDs
<1>2. TypeOK'
  BY <1>1, RemoveParticipantKeeps, MixerAssumption
     DEF RebuildLegMedia, IInv, TypeOK, roomVars, apiVars
<1>3. PartsMatch'
  BY <1>1, RemoveParticipantMatches DEF RebuildLegMedia
<1>4. RunsMatch'
  BY DEF RebuildLegMedia, IInv, RunsMatch
<1>5. LegsMatch'
  BY <1>1, RemoveParticipantKeeps, MixerAssumption
     DEF RebuildLegMedia, IInv, LegsMatch, Idle, NoOp, IDs
<1>6. QED  BY <1>2, <1>3, <1>4, <1>5 DEF IInv

LEMMA AddPartInv ==
  ASSUME IInv, AddPart
  PROVE  IInv'
<1>1. PICK p \in Parts : /\ AddParticipant(op.leg, p, 2)
                         /\ legParts' = [legParts EXCEPT ![op.leg] = p]
  BY DEF AddPart
<1>2. op.leg \in members /\ op.leg \in Legs /\ op.leg \in IDs /\ 2 \in 0..2
  BY DEF AddPart, IInv, TypeOK, LegsMatch, IDs
<1>3. Restart
  BY <1>1, <1>2, AddParticipantKeeps
<1>4. TypeOK'
  BY <1>1, <1>2, <1>3, AddParticipantKeeps, RestartRuns
     DEF AddPart, IInv, TypeOK, Then, apiVars
<1>5. PartsMatch'
  BY <1>1, <1>2, AddParticipantMatches DEF AddPart
<1>6. RunsMatch'
  BY <1>3, RestartRuns DEF AddPart, IInv, RunsMatch
<1>7. LegsMatch'
  <2>1. op'.next = "readMuted" /\ op'.leg = op.leg /\ op' # NoOp
    BY DEF AddPart, Then, NoOp, IInv, TypeOK
  <2>2. QED
    BY <1>1, <1>2, <2>1, AddParticipantServes DEF AddPart, LegsMatch, Idle
<1>8. QED  BY <1>4, <1>5, <1>6, <1>7 DEF IInv

LEMMA ReadMutedInv ==
  ASSUME IInv, ReadMuted
  PROVE  IInv'
<1>1. TypeOK'
  BY MixerAssumption DEF IInv, TypeOK, ReadMuted, Then, mixerVars, roomVars, apiVars
<1>2. PartsMatch' /\ RunsMatch' /\ LegsMatch'
  BY MixerAssumption DEF IInv, TypeOK, PartsMatch, RunsMatch, LegsMatch, Idle, NoOp, IDs, ReadMuted, Then, mixerVars, roomVars, apiVars
<1>3. QED  BY <1>1, <1>2 DEF IInv

LEMMA SetMutedInv ==
  ASSUME IInv, SetMuted
  PROVE  IInv'
<1>1. TypeOK'
  BY MixerAssumption DEF IInv, TypeOK, SetMuted, SetParticipantMuted, Then, roomVars, apiVars
<1>2. PartsMatch' /\ RunsMatch' /\ LegsMatch'
  BY MixerAssumption DEF IInv, TypeOK, PartsMatch, RunsMatch, LegsMatch, Idle, NoOp, IDs, SetMuted, SetParticipantMuted, Then, roomVars, apiVars
<1>3. QED  BY <1>1, <1>2 DEF IInv

LEMMA RemoveLegLockedInv ==
  ASSUME IInv, NEW l \in Legs, l \in members, Idle, RemoveLegLocked(l),
         hooks' \subseteq hooks,
         UNCHANGED <<stopCh, stopped, closed, mixLoops, routing, mixerRunning, apiVars>>
  PROVE  IInv'
<1>1. l \in IDs /\ RemoveParticipant(l)
  BY DEF RemoveLegLocked, IDs
<1>2. TypeOK'
  BY <1>1, RemoveParticipantKeeps, MixerAssumption
     DEF RemoveLegLocked, IInv, TypeOK, apiVars
<1>3. PartsMatch'
  BY <1>1, RemoveParticipantMatches
<1>4. RunsMatch'
  BY DEF IInv, RunsMatch
<1>5. LegsMatch'
  BY <1>1, RemoveParticipantKeeps, MixerAssumption
     DEF RemoveLegLocked, IInv, LegsMatch, Idle, NoOp, IDs
<1>6. QED  BY <1>2, <1>3, <1>4, <1>5 DEF IInv

LEMMA RemoveLegInv ==
  ASSUME IInv, NEW l \in Legs, RemoveLeg(l)
  PROVE  IInv'
  BY RemoveLegLockedInv DEF RemoveLeg

LEMMA RemoveLegIfParticipantInv ==
  ASSUME IInv, NEW p \in Parts, RemoveLegIfParticipant(p)
  PROVE  IInv'
<1> DEFINE l == part[p].id
<1>1. l \in Legs /\ hooks' \subseteq hooks
  BY DEF RemoveLegIfParticipant, IInv, PartsMatch
<1>2. CASE legParts[l] = p /\ l \in members
  <2>1. RemoveLegLocked(l)
    BY <1>2 DEF RemoveLegIfParticipant
  <2>2. QED  BY <1>1, <1>2, <2>1, RemoveLegLockedInv DEF RemoveLegIfParticipant
<1>3. CASE ~ (legParts[l] = p /\ l \in members)
  <2>1. UNCHANGED <<members, role, legParts, participants, hears, muted, part, op,
                    stopCh, stopped, closed, mixLoops, routing, mixerRunning, apiVars>>
    BY <1>3 DEF RemoveLegIfParticipant
  <2>2. QED
    BY <1>1, <2>1
       DEF IInv, TypeOK, PartsMatch, RunsMatch, LegsMatch, Idle, apiVars
<1>4. QED  BY <1>2, <1>3

LEMMA SetLegRoleInv ==
  ASSUME IInv, NEW l \in Legs, NEW r \in Roles \cup {NoRole}, SetLegRole(l, r)
  PROVE  IInv'
<1>1. TypeOK'
  BY MixerAssumption DEF IInv, TypeOK, SetLegRole, mixerVars, apiVars
<1>2. PartsMatch' /\ RunsMatch' /\ LegsMatch'
  BY MixerAssumption DEF IInv, TypeOK, PartsMatch, RunsMatch, LegsMatch, Idle, NoOp, IDs, SetLegRole, mixerVars, apiVars
<1>3. QED  BY <1>1, <1>2 DEF IInv

LEMMA SetRoutingMatrixInv ==
  ASSUME IInv, NEW m \in Matrices, SetRoutingMatrix(m)
  PROVE  IInv'
<1>1. TypeOK'
  BY MixerAssumption DEF IInv, TypeOK, SetRoutingMatrix, mixerVars, apiVars
<1>2. PartsMatch' /\ RunsMatch' /\ LegsMatch'
  BY MixerAssumption DEF IInv, TypeOK, PartsMatch, RunsMatch, LegsMatch, Idle, NoOp, IDs, SetRoutingMatrix, mixerVars, apiVars
<1>3. QED  BY <1>1, <1>2 DEF IInv

LEMMA RouteInv ==
  ASSUME IInv, Route
  PROVE  IInv'
<1>1. \A l \in Legs : Hears(l) \in SUBSET IDs
  BY DEF Hears, Everyone, IDs, IInv, TypeOK
<1>2. hears' = [l \in Legs |-> IF l \in members /\ participants[l] # None
                              THEN Hears(l) ELSE hears[l]]
  BY DEF Route, ApplyHearsBatch
<1>3. hears' \in [Legs -> SUBSET IDs]
  BY <1>1, <1>2 DEF IInv, TypeOK
<1>4. TypeOK'
  BY <1>3 DEF Route, ApplyHearsBatch, Then, IInv, TypeOK, roomVars, apiVars
<1>5. PartsMatch' /\ RunsMatch' /\ LegsMatch'
  BY DEF Route, ApplyHearsBatch, Then, IInv, TypeOK, PartsMatch, RunsMatch, LegsMatch, Idle,
         NoOp, roomVars
<1>6. QED  BY <1>4, <1>5 DEF IInv

LEMMA SyncInv ==
  ASSUME IInv, Sync
  PROVE  IInv'
<1>1. /\ op = [op EXCEPT !.next = "sync"] /\ op' = NoOp /\ mixerRunning' = (members # {})
      /\ UNCHANGED <<participants, hears, muted, part, hooks, members, legParts, role,
                     routing, ops, legMuted, call>>
  BY DEF Sync, Then, apiVars, IInv, TypeOK
<1>2. CASE ~ mixerRunning /\ members # {} /\ Start
  <2>1. Restart /\ mixLoops' = [mixLoops EXCEPT ![stopCh'] = @ + 1]
    BY <1>2 DEF Start
  <2>2. mixLoops[stopCh'] = 0 /\ stopCh' \in Chans
    BY <1>2, <2>1, RestartRuns DEF IInv, RunsMatch
  <2>3. mixLoops' \in [Chans -> {0, 1}] /\ mixLoops'[stopCh'] = 1
    BY <2>1, <2>2 DEF IInv, TypeOK
  <2>4. TypeOK'
    BY <1>1, <2>1, <2>3, RestartRuns DEF IInv, TypeOK, NoOp
  <2>5. RunsMatch'
    BY <1>1, <1>2, <2>1, <2>3, RestartRuns DEF RunsMatch
  <2>6. LegsMatch'
    BY <1>1, <2>1, RestartRuns DEF IInv, LegsMatch, NoOp
  <2>7. PartsMatch'
    BY <1>1 DEF IInv, PartsMatch
  <2>8. QED  BY <2>4, <2>5, <2>6, <2>7 DEF IInv
<1>3. CASE mixerRunning /\ members = {} /\ Stop
  <2>1. TypeOK'
    BY <1>1, <1>3 DEF Stop, IInv, TypeOK, NoOp
  <2>2. RunsMatch' /\ LegsMatch' /\ PartsMatch'
    BY <1>1, <1>3 DEF Stop, IInv, TypeOK, RunsMatch, LegsMatch, PartsMatch, NoOp
  <2>3. QED  BY <2>1, <2>2 DEF IInv
<1>4. CASE /\ mixerRunning = (members # {})
           /\ UNCHANGED <<stopCh, stopped, closed, mixLoops>>
  BY <1>1, <1>4 DEF IInv, TypeOK, RunsMatch, LegsMatch, PartsMatch, NoOp
<1>5. QED  BY <1>2, <1>3, <1>4 DEF Sync

(* The steps that do not take the lock of the room.                          *)

LEMMA MuteLegInv ==
  ASSUME IInv, NEW c \in Callers, NEW l \in Legs, NEW m \in BOOLEAN, MuteLeg(c, l, m)
  PROVE  IInv'
<1>1. TypeOK'
  BY MixerAssumption DEF IInv, TypeOK, MuteLeg, mixerVars, roomVars
<1>2. PartsMatch' /\ RunsMatch' /\ LegsMatch'
  BY MixerAssumption DEF IInv, TypeOK, PartsMatch, RunsMatch, LegsMatch, Idle, NoOp, IDs, MuteLeg, mixerVars, roomVars
<1>3. QED  BY <1>1, <1>2 DEF IInv

LEMMA MuteRoomInv ==
  ASSUME IInv, NEW c \in Callers, MuteRoom(c)
  PROVE  IInv'
<1>1. TypeOK'
  BY MixerAssumption DEF IInv, TypeOK, MuteRoom, NoCall, mixerVars, roomVars
<1>2. PartsMatch' /\ RunsMatch' /\ LegsMatch'
  BY MixerAssumption DEF IInv, TypeOK, PartsMatch, RunsMatch, LegsMatch, Idle, NoOp, IDs, MuteRoom, NoCall, mixerVars, roomVars
<1>3. QED  BY <1>1, <1>2 DEF IInv

LEMMA MutePartInv ==
  ASSUME IInv, NEW c \in Callers, MutePart(c)
  PROVE  IInv'
<1>1. TypeOK'
  BY MixerAssumption DEF IInv, TypeOK, MutePart, SetParticipantMuted, NoCall, roomVars
<1>2. PartsMatch' /\ RunsMatch' /\ LegsMatch'
  BY MixerAssumption DEF IInv, TypeOK, PartsMatch, RunsMatch, LegsMatch, Idle, NoOp, IDs, MutePart, SetParticipantMuted, NoCall, roomVars
<1>3. QED  BY <1>1, <1>2 DEF IInv

LEMMA AddSourceInv ==
  ASSUME IInv, NEW s \in Sources, AddSource(s)
  PROVE  IInv'
<1>1. PICK p \in Parts, n \in {1, 2} : AddParticipant(s, p, n)
  BY DEF AddSource
<1>2. s \in IDs /\ s \notin Legs /\ n \in 0..2
  BY MixerAssumption DEF IDs
<1>3. Restart
  BY <1>1, <1>2, AddParticipantKeeps
<1>4. TypeOK'
  BY <1>1, <1>2, <1>3, AddParticipantKeeps, RestartRuns
     DEF AddSource, IInv, TypeOK, roomVars, apiVars
<1>5. PartsMatch'
  BY <1>1, <1>2, AddParticipantMatches DEF AddSource
<1>6. RunsMatch'
  BY <1>3, RestartRuns DEF AddSource, IInv, RunsMatch, roomVars
<1>7. LegsMatch'
  BY <1>1, <1>2, AddParticipantServes DEF AddSource, IInv, LegsMatch, Idle, roomVars
<1>8. QED  BY <1>4, <1>5, <1>6, <1>7 DEF IInv

LEMMA RemoveSourceInv ==
  ASSUME IInv, NEW s \in Sources, RemoveSource(s)
  PROVE  IInv'
<1>1. s \in IDs /\ RemoveParticipant(s)
  BY DEF RemoveSource, IDs
<1>2. TypeOK'
  BY <1>1, RemoveParticipantKeeps DEF RemoveSource, IInv, TypeOK, roomVars, apiVars
<1>3. PartsMatch'
  BY <1>1, RemoveParticipantMatches DEF RemoveSource
<1>4. RunsMatch'
  BY DEF RemoveSource, IInv, RunsMatch, roomVars
<1>5. LegsMatch'
  BY <1>1, RemoveParticipantKeeps DEF RemoveSource, IInv, LegsMatch, Idle, IDs, roomVars
<1>6. QED  BY <1>2, <1>3, <1>4, <1>5 DEF IInv

LEMMA LoopEndsInv ==
  ASSUME IInv, NEW p \in Parts, LoopEnds(p)
  PROVE  IInv'
<1> DEFINE ended == IF part[p].loops = 1 /\ p \notin Referenced THEN NoPart
                    ELSE [part[p] EXCEPT !.loops = @ - 1]
<1>1. part' = [part EXCEPT ![p] = ended]
  BY DEF LoopEnds, IInv, TypeOK
<1>2. /\ UNCHANGED <<participants, hears, muted, stopCh, stopped, closed, mixLoops,
                     hooks, members, legParts, role, routing, mixerRunning, op,
                     ops, legMuted, call>>
  BY DEF LoopEnds, roomVars, apiVars
<1>3. part[p] \in Part /\ part[p].loops \in 1..2
  BY DEF LoopEnds, IInv, TypeOK, Part
<1>4. [part[p] EXCEPT !.loops = @ - 1] \in Part
  BY <1>3 DEF Part
<1>5. NoPart \in Part
  BY DEF NoPart, NewPart, Part
<1>6. part' \in [Parts -> Part]
  BY <1>1, <1>4, <1>5 DEF IInv, TypeOK
<1>7. /\ p \in Referenced => /\ part'[p].id = part[p].id /\ part'[p].done = part[p].done
                             /\ part'[p].chan = part[p].chan
      /\ part'[p].loops > 0 => part'[p].id = part[p].id
  BY <1>1, <1>3 DEF IInv, TypeOK, Part, NoPart, NewPart
<1>8. \A q \in Parts : q # p => part'[q] = part[q]
  BY <1>1 DEF IInv, TypeOK
<1>9. TypeOK'
  BY <1>2, <1>6 DEF IInv, TypeOK
<1>10. PartsMatch'
  BY <1>2, <1>3, <1>7, <1>8 DEF IInv, TypeOK, PartsMatch, Referenced, Registered
<1>11. RunsMatch' /\ LegsMatch'
  BY <1>2, <1>7, <1>8
     DEF IInv, TypeOK, RunsMatch, LegsMatch, Idle, Referenced, Registered, IDs
<1>12. QED  BY <1>9, <1>10, <1>11 DEF IInv

LEMMA RecoverInv ==
  ASSUME IInv, NEW p \in Parts, RecoverParticipant(p)
  PROVE  IInv'
<1> DEFINE id == part[p].id
           current == participants[id] = p
<1>1. part[p] \in Part /\ part[p].loops \in 1..2 /\ id \in IDs
  BY DEF RecoverParticipant, Recover, IInv, TypeOK, PartsMatch, Part
<1>2. part' = [part EXCEPT ![p].loops = @ - 1, ![p].done = IF current THEN @ + 1 ELSE @]
  BY <1>1 DEF RecoverParticipant, Recover
<1>3. UNCHANGED <<stopCh, stopped, closed, mixLoops, members, legParts, role, routing,
                  mixerRunning, op, ops, legMuted, call>>
  BY DEF RecoverParticipant, Recover, roomVars, apiVars
<1>4. current => part[p].done = 0 /\ p # None
  BY <1>1, MixerAssumption DEF IInv, PartsMatch
<1>5. part' \in [Parts -> Part]
  <2>1. CASE current
    <3>1. [part[p] EXCEPT !.loops = @ - 1, !.done = @ + 1] \in Part
      <4>1. /\ part[p].loops - 1 \in 0..2 /\ part[p].done + 1 = 1
            /\ part[p].id \in IDs \cup {None} /\ part[p].chan \in Chans \cup {None}
        BY <1>1, <1>4, <2>1 DEF Part
      <4>2. QED  BY <1>1, <4>1 DEF Part
    <3>2. part' = [part EXCEPT ![p] = [part[p] EXCEPT !.loops = @ - 1, !.done = @ + 1]]
      BY <1>2, <2>1 DEF IInv, TypeOK
    <3>3. QED  BY <3>1, <3>2 DEF IInv, TypeOK
  <2>2. CASE ~ current
    <3>1. [part[p] EXCEPT !.loops = @ - 1] \in Part
      BY <1>1 DEF Part
    <3>2. part' = [part EXCEPT ![p] = [part[p] EXCEPT !.loops = @ - 1, !.done = @]]
      BY <1>2, <2>2 DEF IInv, TypeOK
    <3>3. QED  BY <1>1, <3>1, <3>2 DEF IInv, TypeOK, Part
  <2>3. QED  BY <2>1, <2>2
<1>6. /\ \A q \in Parts : q # p => part'[q] = part[q]
      /\ part'[p].id = id /\ part'[p].chan = part[p].chan
  BY <1>1, <1>2 DEF IInv, TypeOK, Part
<1>7. /\ participants' \in [IDs -> Parts \cup {None}]
      /\ hears' \in [Legs -> SUBSET IDs] /\ muted' \in [Legs -> BOOLEAN]
      /\ hooks' \subseteq Parts
      /\ \A q \in hooks' : q \in hooks \/ (q = p /\ id \in Legs)
      /\ \A i \in IDs : participants'[i] # None =>
            participants'[i] = participants[i] /\ participants[i] # p
  <2>1. CASE current
    <3>1. /\ participants' = [participants EXCEPT ![id] = None]
          /\ Reset(id)
          /\ hooks' = IF id \in Legs THEN hooks \cup {p} ELSE hooks
      BY <1>1, <2>1 DEF RecoverParticipant, Recover
    <3>2. \A i \in IDs : i # id => participants[i] # p
      BY <1>1, <1>4, <2>1, OneID
    <3>3. hears' \in [Legs -> SUBSET IDs] /\ muted' \in [Legs -> BOOLEAN]
      BY <3>1 DEF Reset, IInv, TypeOK, Everyone
    <3>4. participants' \in [IDs -> Parts \cup {None}] /\ hooks' \subseteq Parts
      BY <3>1 DEF IInv, TypeOK
    <3>5. \A i \in IDs : participants'[i] # None =>
             participants'[i] = participants[i] /\ participants[i] # p
      BY <1>1, <3>1, <3>2 DEF IInv, TypeOK
    <3>6. QED  BY <3>1, <3>3, <3>4, <3>5
  <2>2. CASE ~ current
    <3>1. UNCHANGED <<participants, hears, muted, hooks>>
      BY <1>1, <2>2 DEF RecoverParticipant, Recover
    <3>2. \A i \in IDs : participants[i] # p
      BY <2>2, MixerAssumption DEF IInv, PartsMatch
    <3>3. /\ participants' \in [IDs -> Parts \cup {None}] /\ hooks' \subseteq Parts
          /\ hears' \in [Legs -> SUBSET IDs] /\ muted' \in [Legs -> BOOLEAN]
      BY <3>1 DEF IInv, TypeOK
    <3>4. QED  BY <3>1, <3>2, <3>3
  <2>3. QED  BY <2>1, <2>2
<1>8. TypeOK'
  BY <1>3, <1>5, <1>7 DEF IInv, TypeOK
<1>9. PartsMatch'
  BY <1>1, <1>6, <1>7 DEF IInv, TypeOK, PartsMatch
<1>10. RunsMatch'
  BY <1>3 DEF IInv, RunsMatch
<1>11. LegsMatch'
  BY <1>3, <1>6, <1>7 DEF IInv, TypeOK, LegsMatch, Idle, IDs
<1>12. QED  BY <1>8, <1>9, <1>10, <1>11 DEF IInv

LEMMA MixLoopEndsInv ==
  ASSUME IInv, NEW c \in Chans, MixLoopEnds(c)
  PROVE  IInv'
<1>1. TypeOK'
  BY MixerAssumption DEF IInv, TypeOK, MixLoopEnds, roomVars, apiVars
<1>2. PartsMatch' /\ RunsMatch' /\ LegsMatch'
  BY MixerAssumption DEF IInv, TypeOK, PartsMatch, RunsMatch, LegsMatch, Idle, NoOp, IDs, MixLoopEnds, roomVars, apiVars
<1>3. QED  BY <1>1, <1>2 DEF IInv

-----------------------------------------------------------------------------
(* The theorems.                                                             *)

(* A new room: no part, no loop, a stop channel nobody closed.               *)
LEMMA InitInv == Init => IInv
<1> SUFFICES ASSUME Init PROVE IInv
  OBVIOUS
<1>1. NoPart \in Part
  BY DEF NoPart, NewPart, Part
<1>2. TypeOK
  BY <1>1 DEF Init, TypeOK, NoOp, NoCall, NoRows, Everyone
<1>3. \A p \in Parts : part[p].loops = 0
  BY DEF Init, NoPart, NewPart
<1>4. PartsMatch
  BY <1>3 DEF Init, PartsMatch
<1>5. RunsMatch
  BY DEF Init, RunsMatch
<1>6. LegsMatch
  BY DEF Init, LegsMatch, NoOp, IDs
<1>7. QED  BY <1>2, <1>4, <1>5, <1>6 DEF IInv

(* A step that changes nothing.                                              *)
LEMMA StutterInv ==
  ASSUME IInv, UNCHANGED vars
  PROVE  IInv'
  BY DEF IInv, TypeOK, PartsMatch, RunsMatch, LegsMatch, Idle, vars, mixerVars, roomVars,
         apiVars

(* Every disjunct of Next preserves the invariant.                           *)
LEMMA NextInv == IInv /\ [Next]_vars => IInv'
<1> SUFFICES ASSUME IInv, [Next]_vars PROVE IInv'
  OBVIOUS
<1>1. ASSUME NEW l \in Legs, AddLeg(l, NoRole) PROVE IInv'
  BY <1>1, AddLegInv
<1>2. ASSUME NEW l \in Legs, NEW r \in Roles, AddLeg(l, r) PROVE IInv'
  BY <1>2, AddLegInv
<1>3. ASSUME NEW l \in Legs, NEW r \in Roles \cup {NoRole}, SetLegRole(l, r) PROVE IInv'
  BY <1>3, SetLegRoleInv
<1>4. ASSUME NEW l \in Legs, RebuildLegMedia(l) PROVE IInv'
  BY <1>4, RebuildInv
<1>5. ASSUME NEW l \in Legs, RemoveLeg(l) PROVE IInv'
  BY <1>5, RemoveLegInv
<1>6. ASSUME NEW l \in Legs, NEW c \in Callers, NEW m \in BOOLEAN, MuteLeg(c, l, m)
      PROVE  IInv'
  BY <1>6, MuteLegInv
<1>7. ASSUME NEW m \in Matrices, SetRoutingMatrix(m) PROVE IInv'
  BY <1>7, SetRoutingMatrixInv
<1>8. CASE AddPart \/ ReadMuted \/ SetMuted \/ Route \/ Sync
  BY <1>8, AddPartInv, ReadMutedInv, SetMutedInv, RouteInv, SyncInv
<1>9. ASSUME NEW c \in Callers, MuteRoom(c) \/ MutePart(c) PROVE IInv'
  BY <1>9, MuteRoomInv, MutePartInv
<1>10. ASSUME NEW s \in Sources, AddSource(s) \/ RemoveSource(s) PROVE IInv'
  BY <1>10, AddSourceInv, RemoveSourceInv
<1>11. ASSUME NEW p \in Parts, LoopEnds(p) \/ RemoveLegIfParticipant(p) PROVE IInv'
  BY <1>11, LoopEndsInv, RemoveLegIfParticipantInv
<1>12. ASSUME NEW p \in Parts, RecoverParticipant(p) PROVE IInv'
  BY <1>12, RecoverInv
<1>13. ASSUME NEW c \in Chans, MixLoopEnds(c) PROVE IInv'
  BY <1>13, MixLoopEndsInv
<1>14. CASE UNCHANGED vars
  BY <1>14, StutterInv
<1>15. QED
  BY <1>1, <1>2, <1>3, <1>4, <1>5, <1>6, <1>7, <1>8, <1>9, <1>10, <1>11, <1>12, <1>13,
     <1>14 DEF Next

(* The invariant the properties below follow from.                           *)
THEOREM Invariant == Spec => []IInv
  BY InitInv, NextInv, PTL DEF Spec

(* No participant's done channel is closed twice and no stop channel has two *)
(* mix loops (teardownParticipant, syncMixerLocked): with two closes the     *)
(* process would panic, with two loops every frame would be mixed twice.     *)
THEOREM NothingTwice == Spec => []TypeOK
<1>1. IInv => TypeOK
  BY DEF IInv
<1>2. QED  BY <1>1, Invariant, PTL

(* Whoever is registered is served by the run that ticks, also after the     *)
(* mixer was stopped and started again (AddParticipant's new stop channel).  *)
THEOREM Served == Spec => []LegsAreServed
  BY Invariant, ServedByInvariant, PTL

(* Who takes a leg's part away, step by step.                                *)
LEMMA NextLosesRightly == IInv /\ [Next]_vars => [LostRightly]_vars
<1> SUFFICES ASSUME IInv, Next,
                    NEW l \in Legs, participants[l] # None, participants'[l] = None
             PROVE  \/ op' # op
                    \/ part'[participants[l]].loops # part[participants[l]].loops
  BY DEF LostRightly
<1> DEFINE Right == \/ op' # op
                    \/ part'[participants[l]].loops # part[participants[l]].loops
<1>1. l \in IDs /\ participants[l] \in Parts
  BY DEF IInv, TypeOK, IDs
<1>2. ASSUME NEW k \in Legs, RebuildLegMedia(k) \/ RemoveLeg(k) PROVE Right
  BY <1>2 DEF RebuildLegMedia, RemoveLeg, RemoveLegLocked, Idle, NoOp
<1>3. ASSUME NEW p \in Parts, RemoveLegIfParticipant(p) PROVE Right
  BY <1>3 DEF RemoveLegIfParticipant, RemoveLegLocked, Idle, NoOp
<1>4. ASSUME NEW p \in Parts, RecoverParticipant(p) PROVE Right
  <2>1. /\ participants' = [participants EXCEPT ![part[p].id] = None]
        /\ participants[part[p].id] = p
        /\ part'[p].loops = part[p].loops - 1 /\ part[p].loops \in 1..2
    BY <1>1, <1>4 DEF RecoverParticipant, Recover, IInv, TypeOK, Part
  <2>2. participants[l] = p
    BY <1>1, <2>1 DEF IInv, TypeOK
  <2>3. QED  BY <2>1, <2>2
<1>5. CASE AddPart
  <2>1. PICK p \in Parts : participants' = [participants EXCEPT ![op.leg] = p]
    BY <1>5 DEF AddPart, AddParticipant
  <2>2. QED  BY <1>1, <2>1, MixerAssumption DEF IInv, TypeOK
<1>6. ASSUME NEW s \in Sources, AddSource(s) \/ RemoveSource(s) PROVE Right
  <2>1. s # l
    BY MixerAssumption
  <2>2. participants'[l] = participants[l]
    BY <1>1, <1>6, <2>1
       DEF AddSource, AddParticipant, RemoveSource, RemoveParticipant, IInv, TypeOK
  <2>3. QED  BY <2>2
<1>7. ASSUME UNCHANGED participants PROVE Right
  BY <1>7
<1>8. ASSUME NEW k \in Legs,
             \/ \E r \in Roles \cup {NoRole} : AddLeg(k, r) \/ SetLegRole(k, r)
             \/ \E c \in Callers, m \in BOOLEAN : MuteLeg(c, k, m)
      PROVE  Right
  BY <1>7, <1>8 DEF AddLeg, SetLegRole, MuteLeg, mixerVars
<1>9. ASSUME \/ \E m \in Matrices : SetRoutingMatrix(m)
             \/ ReadMuted \/ SetMuted \/ Route \/ Sync
             \/ \E c \in Callers : MuteRoom(c) \/ MutePart(c)
             \/ \E p \in Parts : LoopEnds(p)
             \/ \E c \in Chans : MixLoopEnds(c)
      PROVE  Right
  BY <1>7, <1>9
     DEF SetRoutingMatrix, ReadMuted, SetMuted, Route, Sync, MuteRoom, MutePart, LoopEnds,
         MixLoopEnds, SetParticipantMuted, ApplyHearsBatch, mixerVars
<1>10. QED
  BY <1>2, <1>3, <1>4, <1>5, <1>6, <1>8, <1>9 DEF Next

(* A loop that panics takes away its own part, never the part that replaced  *)
(* it under the same ID (removeParticipantIf).                               *)
THEOREM Successors == Spec => SuccessorSurvives
<1>1. Spec => [][LostRightly]_vars
  BY Invariant, NextLosesRightly, PTL DEF Spec
<1>2. QED  BY <1>1 DEF SuccessorSurvives


-----------------------------------------------------------------------------
(* What was asked for is what the mixer serves, with one mute handler at a   *)
(* time.                                                                     *)

OneHandler == \A c, d \in Callers : c = d

Busy(c) == call[c].next # "idle"

(* A mute handler that is under way wrote the leg's flag last.               *)
CallsMatch ==
    \A c \in Callers : Busy(c) =>
        call[c].leg \in Legs /\ legMuted[call[c].leg] = call[c].mute

(* A muted leg whose part is not muted is about to be: by the join that      *)
(* reads the flag, or by the handler that wrote it.                          *)
ToBeMuted(l) ==
    \/ op.leg = l /\ op.next \in {"readMuted", "setMuted"}
    \/ \E c \in Callers : Busy(c) /\ call[c].leg = l /\ call[c].mute
MutesMatch ==
    \A l \in Legs : legMuted[l] /\ participants[l] # None /\ ~ muted[l] => ToBeMuted(l)

(* Once a room operation has applied the routing, every whitelist is the     *)
(* one roles and matrix give.                                                *)
Routed == op.next \in {"none", "sync"}
RoutesMatch ==
    Routed => \A l \in Legs : participants[l] # None => hears[l] = Hears(l)

RInv == CallsMatch /\ MutesMatch /\ RoutesMatch

(* Between room operations and mute calls the invariant says that the mutes  *)
(* were applied.                                                             *)
LEMMA MutedByInvariant == IInv /\ MutesMatch => MutedStaysMuted
<1> SUFFICES ASSUME IInv, MutesMatch, Idle, \A c \in Callers : call[c] = NoCall,
                    NEW l \in Legs, legMuted[l], participants[l] # None
             PROVE  muted[l]
  BY DEF MutedStaysMuted
<1>1. ~ ToBeMuted(l)
  BY DEF ToBeMuted, Busy, Idle, NoOp, NoCall
<1>2. QED
  BY <1>1 DEF MutesMatch

(* A tick's whitelist of a member is what roles and matrix allow.            *)
LEMMA RoutedByInvariant == IInv /\ RoutesMatch => TicksAreRouted
<1> SUFFICES ASSUME IInv, RoutesMatch, Idle, NEW h \in Mixed
             PROVE  h[2] \in hears[h[1]] <=> Allowed(h[1], h[2])
  BY DEF TicksAreRouted, Audible
<1>1. /\ h[1] \in Legs /\ h[2] \in Legs /\ h[1] # h[2]
      /\ participants[h[1]] # None /\ participants[h[2]] # None
  BY DEF Mixed
<1>2. h[2] \in members /\ h[2] \in Everyone
  BY <1>1 DEF IInv, LegsMatch, Everyone, IDs
<1>3. hears[h[1]] = Hears(h[1])
  BY <1>1 DEF RoutesMatch, Routed, Idle, NoOp
<1>4. QED
  BY <1>1, <1>2, <1>3 DEF Hears, Matrixed, Allowed

LEMMA ServedRequests == IInv /\ RInv => TicksServeRequests
  BY MutedByInvariant, RoutedByInvariant DEF RInv, TicksServeRequests

(* Steps that leave what legs are asked and served alone, but for parts that *)
(* are taken away.                                                           *)
TakesAway ==
    \A l \in Legs : participants'[l] # None =>
        participants'[l] = participants[l] /\ muted'[l] = muted[l] /\ hears'[l] = hears[l]

LEMMA RemoveTakesAway ==
  ASSUME IInv, NEW id \in IDs, RemoveParticipant(id)
  PROVE  TakesAway
<1>1. CASE participants[id] = None
  BY <1>1 DEF RemoveParticipant, TakesAway
<1>2. CASE participants[id] # None
  <2>1. participants' = [participants EXCEPT ![id] = None] /\ Reset(id)
    BY <1>2 DEF RemoveParticipant
  <2>2. ASSUME NEW l \in Legs, participants'[l] # None
        PROVE  /\ l # id /\ participants'[l] = participants[l]
               /\ muted'[l] = muted[l] /\ hears'[l] = hears[l]
    BY <2>1, <2>2 DEF IInv, TypeOK, IDs, Reset
  <2>3. QED
    BY <2>2 DEF TakesAway
<1>3. QED
  BY <1>1, <1>2

(* An operation that only takes parts away leaves the mutes in order.        *)
LEMMA TakesAwayMutes ==
  ASSUME IInv, CallsMatch, MutesMatch, TakesAway, UNCHANGED <<legMuted, call>>,
         op' = op \/ Idle
  PROVE  CallsMatch' /\ MutesMatch'
<1>1. CallsMatch'
  BY DEF CallsMatch, Busy
<1>2. ASSUME NEW l \in Legs, legMuted'[l], participants'[l] # None, ~ muted'[l]
      PROVE  ToBeMuted(l)'
  <2>1. ToBeMuted(l)
    BY <1>2 DEF MutesMatch, TakesAway
  <2>2. QED
    BY <2>1 DEF ToBeMuted, Busy, Idle, NoOp
<1>3. MutesMatch'
  BY <1>2 DEF MutesMatch
<1>4. QED
  BY <1>1, <1>3

(* The roles, the matrix and the members say what a leg hears.               *)
LEMMA HearsStay ==
  ASSUME UNCHANGED <<members, role, routing>>, NEW l \in Legs
  PROVE  Hears(l)' = Hears(l)
  BY DEF Hears, Matrixed, Everyone

LEMMA TakesAwayRoutes ==
  ASSUME RoutesMatch, TakesAway, UNCHANGED <<members, role, routing, op>>
  PROVE  RoutesMatch'
  BY HearsStay DEF RoutesMatch, Routed, TakesAway

-----------------------------------------------------------------------------
(* The room operations.                                                      *)

LEMMA BeginsRInv ==
  ASSUME IInv, RInv, Idle, TakesAway, op'.next \in {"add", "route"},
         UNCHANGED <<legMuted, call>>
  PROVE  RInv'
<1>1. CallsMatch' /\ MutesMatch'
  BY TakesAwayMutes DEF RInv
<1>2. ~ Routed'
  BY DEF Routed
<1>3. QED
  BY <1>1, <1>2 DEF RInv, RoutesMatch

LEMMA OperationsRInv ==
  ASSUME IInv, RInv,
         \/ \E l \in Legs : \/ \E r \in Roles \cup {NoRole} : AddLeg(l, r) \/ SetLegRole(l, r)
                            \/ RebuildLegMedia(l) \/ RemoveLeg(l)
         \/ \E m \in Matrices : SetRoutingMatrix(m)
  PROVE  RInv'
<1>1. CASE \/ \E l \in Legs, r \in Roles \cup {NoRole} : AddLeg(l, r) \/ SetLegRole(l, r)
           \/ \E m \in Matrices : SetRoutingMatrix(m)
  <2>1. UNCHANGED <<participants, muted, hears, legMuted, call>> /\ Idle
    BY <1>1 DEF AddLeg, SetLegRole, SetRoutingMatrix, mixerVars, apiVars
  <2>2. TakesAway /\ op'.next \in {"add", "route"}
    BY <1>1, <2>1 DEF AddLeg, SetLegRole, SetRoutingMatrix, TakesAway
  <2>3. QED
    BY <2>1, <2>2, BeginsRInv
<1>2. ASSUME NEW l \in Legs, RebuildLegMedia(l) \/ RemoveLeg(l)
      PROVE  RInv'
  <2>1. Idle /\ UNCHANGED <<legMuted, call>> /\ op'.next \in {"add", "route"}
    BY <1>2 DEF RebuildLegMedia, RemoveLeg, RemoveLegLocked, apiVars
  <2>2. RemoveParticipant(l) /\ l \in IDs
    BY <1>2 DEF RebuildLegMedia, RemoveLeg, RemoveLegLocked, IDs
  <2>3. QED
    BY <2>1, <2>2, RemoveTakesAway, BeginsRInv
<1>3. QED
  BY <1>1, <1>2

LEMMA RemoveIfRInv ==
  ASSUME IInv, RInv, NEW p \in Parts, RemoveLegIfParticipant(p)
  PROVE  RInv'
<1> DEFINE l == part[p].id
<1>1. l \in Legs /\ l \in IDs
  BY DEF RemoveLegIfParticipant, IInv, PartsMatch, IDs
<1>2. Idle /\ UNCHANGED <<legMuted, call>>
  BY DEF RemoveLegIfParticipant, apiVars
<1>3. CASE legParts[l] = p /\ l \in members
  <2>1. RemoveLegLocked(l)
    BY <1>3 DEF RemoveLegIfParticipant
  <2>2. TakesAway /\ op'.next \in {"add", "route"}
    BY <1>1, <2>1, RemoveTakesAway DEF RemoveLegLocked
  <2>3. QED
    BY <1>2, <2>2, BeginsRInv
<1>4. CASE ~ (legParts[l] = p /\ l \in members)
  <2>1. UNCHANGED <<members, role, routing, op>> /\ TakesAway
    BY <1>4 DEF RemoveLegIfParticipant, TakesAway
  <2>2. CallsMatch' /\ MutesMatch' /\ RoutesMatch'
    BY <1>2, <2>1, TakesAwayMutes, TakesAwayRoutes DEF RInv
  <2>3. QED
    BY <2>2 DEF RInv
<1>5. QED
  BY <1>3, <1>4

(* A new part starts unmuted, and the join goes on to read the leg's flag.   *)
LEMMA AddPartRInv ==
  ASSUME IInv, RInv, AddPart
  PROVE  RInv'
<1>1. /\ op.leg \in Legs /\ op.leg \in IDs
      /\ op'.next = "readMuted" /\ op'.leg = op.leg
      /\ op.next = "add"
      /\ UNCHANGED <<legMuted, call>>
  BY DEF AddPart, Then, IInv, TypeOK, LegsMatch, IDs, apiVars
<1>2. PICK p \in Parts : AddParticipant(op.leg, p, 2)
  BY DEF AddPart
<1>3. ASSUME NEW l \in Legs, l # op.leg
      PROVE  participants'[l] = participants[l] /\ muted'[l] = muted[l]
  BY <1>1, <1>2, <1>3 DEF AddParticipant, Reset, IInv, TypeOK, IDs
<1>4. ASSUME NEW l \in Legs, legMuted'[l], participants'[l] # None, ~ muted'[l]
      PROVE  ToBeMuted(l)'
  <2>1. CASE l = op.leg
    BY <1>1, <2>1 DEF ToBeMuted
  <2>2. CASE l # op.leg
    <3>1. ToBeMuted(l)
      BY <1>1, <1>3, <1>4, <2>2 DEF RInv, MutesMatch
    <3>2. QED
      BY <1>1, <3>1 DEF ToBeMuted, Busy
  <2>3. QED
    BY <2>1, <2>2
<1>5. MutesMatch'
  BY <1>4 DEF MutesMatch
<1>6. CallsMatch' /\ ~ Routed'
  BY <1>1 DEF RInv, CallsMatch, Busy, Routed
<1>7. QED
  BY <1>5, <1>6 DEF RInv, RoutesMatch

LEMMA ReadMutedRInv ==
  ASSUME IInv, RInv, ReadMuted
  PROVE  RInv'
<1>1. /\ op.next = "readMuted" /\ op'.leg = op.leg
      /\ op'.next = (IF legMuted[op.leg] THEN "setMuted" ELSE "route")
      /\ UNCHANGED <<legMuted, call, participants, muted>>
  BY DEF ReadMuted, Then, IInv, TypeOK, mixerVars, apiVars
<1>2. CallsMatch' /\ ~ Routed'
  BY <1>1 DEF RInv, CallsMatch, Busy, Routed
<1>3. MutesMatch'
  BY <1>1 DEF RInv, MutesMatch, ToBeMuted, Busy
<1>4. QED
  BY <1>2, <1>3 DEF RInv, RoutesMatch

LEMMA SetMutedRInv ==
  ASSUME IInv, RInv, SetMuted
  PROVE  RInv'
<1>1. /\ op.leg \in Legs /\ op.next = "setMuted" /\ op'.next = "route"
      /\ UNCHANGED <<legMuted, call, participants>>
      /\ muted' = IF participants[op.leg] = None THEN muted
                  ELSE [muted EXCEPT ![op.leg] = TRUE]
  BY DEF SetMuted, SetParticipantMuted, Then, IInv, TypeOK, LegsMatch, apiVars
<1>2. CallsMatch' /\ ~ Routed'
  BY <1>1 DEF RInv, CallsMatch, Busy, Routed
<1>3. ASSUME NEW l \in Legs, legMuted'[l], participants'[l] # None, ~ muted'[l]
      PROVE  ToBeMuted(l)'
  <2>1. l # op.leg /\ ~ muted[l]
    BY <1>1, <1>3 DEF IInv, TypeOK
  <2>2. ToBeMuted(l)
    BY <1>1, <1>3, <2>1 DEF RInv, MutesMatch
  <2>3. QED
    BY <1>1, <2>1, <2>2 DEF ToBeMuted, Busy
<1>4. MutesMatch'
  BY <1>3 DEF MutesMatch
<1>5. QED
  BY <1>2, <1>4 DEF RInv, RoutesMatch

(* The batch gives every member its whitelist, and only members have parts.  *)
LEMMA RouteRInv ==
  ASSUME IInv, RInv, Route
  PROVE  RInv'
<1>1. /\ op.next = "route" /\ op'.next = "sync" /\ op'.leg = op.leg
      /\ UNCHANGED <<legMuted, call, participants, muted, members, role, routing>>
      /\ hears' = [l \in Legs |-> IF l \in members /\ participants[l] # None
                                  THEN Hears(l) ELSE hears[l]]
  BY DEF Route, ApplyHearsBatch, Then, IInv, TypeOK, roomVars, apiVars
<1>2. CallsMatch' /\ MutesMatch'
  BY <1>1 DEF RInv, CallsMatch, MutesMatch, ToBeMuted, Busy
<1>3. ASSUME NEW l \in Legs, participants'[l] # None
      PROVE  hears'[l] = Hears(l)'
  <2>1. l \in members
    BY <1>1, <1>3 DEF IInv, LegsMatch
  <2>2. QED
    BY <1>1, <1>3, <2>1, HearsStay
<1>4. QED
  BY <1>2, <1>3 DEF RInv, RoutesMatch

LEMMA SyncRInv ==
  ASSUME IInv, RInv, Sync
  PROVE  RInv'
<1>1. /\ op.next = "sync"
      /\ UNCHANGED <<legMuted, call, participants, muted, hears, members, role, routing>>
  BY DEF Sync, apiVars
<1>2. op'.next = "none"
  BY DEF Sync, Then, NoOp
<1>3. CallsMatch' /\ MutesMatch'
  BY <1>1, <1>2 DEF RInv, CallsMatch, MutesMatch, ToBeMuted, Busy
<1>4. RoutesMatch'
  BY <1>1, HearsStay DEF RInv, RoutesMatch, Routed
<1>5. QED
  BY <1>3, <1>4 DEF RInv


-----------------------------------------------------------------------------
(* The mute handlers and the loops.                                          *)

LEMMA MuteLegRInv ==
  ASSUME OneHandler, IInv, RInv,
         NEW c \in Callers, NEW l \in Legs, NEW m \in BOOLEAN, MuteLeg(c, l, m)
  PROVE  RInv'
<1>1. /\ ~ Busy(c)
      /\ legMuted' = [legMuted EXCEPT ![l] = m]
      /\ call' = [call EXCEPT ![c] = [next |-> "room", leg |-> l, mute |-> m]]
      /\ UNCHANGED <<participants, muted, hears, members, role, routing, op>>
  BY DEF MuteLeg, Busy, NoCall, mixerVars, roomVars
<1>2. /\ Callers = {c} /\ Busy(c)'
      /\ call'[c] = [next |-> "room", leg |-> l, mute |-> m]
      /\ \A k \in Legs : k # l => legMuted'[k] = legMuted[k]
      /\ legMuted'[l] = m
  BY <1>1 DEF OneHandler, Busy, IInv, TypeOK
<1>3. CallsMatch'
  BY <1>2 DEF CallsMatch
<1>4. ASSUME NEW k \in Legs, legMuted'[k], participants'[k] # None, ~ muted'[k]
      PROVE  ToBeMuted(k)'
  <2>1. CASE k = l
    BY <1>2, <1>4, <2>1 DEF ToBeMuted
  <2>2. CASE k # l
    <3>1. ToBeMuted(k)
      BY <1>1, <1>2, <1>4, <2>2 DEF RInv, MutesMatch
    <3>2. QED
      BY <1>1, <1>2, <3>1 DEF ToBeMuted
  <2>3. QED
    BY <2>1, <2>2
<1>5. MutesMatch'
  BY <1>4 DEF MutesMatch
<1>6. RoutesMatch'
  BY <1>1, HearsStay DEF RInv, RoutesMatch, Routed
<1>7. QED
  BY <1>3, <1>5, <1>6 DEF RInv

(* A handler finds the leg outside the room: then no part of it is mixed.    *)
LEMMA MuteRoomRInv ==
  ASSUME OneHandler, IInv, RInv, NEW c \in Callers, MuteRoom(c)
  PROVE  RInv'
<1>1. /\ call[c].next = "room" /\ Busy(c)
      /\ UNCHANGED <<participants, muted, hears, members, role, routing, op, legMuted>>
      /\ Callers = {c} /\ call[c].leg \in Legs /\ call[c].mute \in BOOLEAN
      /\ legMuted[call[c].leg] = call[c].mute
  BY DEF MuteRoom, Busy, mixerVars, roomVars, OneHandler, RInv, CallsMatch, IInv, TypeOK
<1>2. RoutesMatch'
  BY <1>1, HearsStay DEF RInv, RoutesMatch, Routed
<1>3. CASE call[c].leg \in members
  <2>1. /\ call'[c].next = "part" /\ Busy(c)' /\ call'[c].leg = call[c].leg
        /\ call'[c].mute = call[c].mute
    BY <1>1, <1>3 DEF MuteRoom, IInv, TypeOK, Busy
  <2>2. CallsMatch' /\ MutesMatch'
    BY <1>1, <2>1 DEF RInv, CallsMatch, MutesMatch, ToBeMuted
  <2>3. QED
    BY <1>2, <2>2 DEF RInv
<1>4. CASE call[c].leg \notin members
  <2>1. call'[c] = NoCall /\ ~ Busy(c)'
    BY <1>1, <1>4 DEF MuteRoom, IInv, TypeOK, Busy, NoCall
  <2>2. participants[call[c].leg] = None
    BY <1>1, <1>4 DEF IInv, LegsMatch
  <2>3. CallsMatch'
    BY <1>1, <2>1 DEF CallsMatch
  <2>4. ASSUME NEW l \in Legs, legMuted'[l], participants'[l] # None, ~ muted'[l]
        PROVE  ToBeMuted(l)'
    <3>1. l # call[c].leg /\ ToBeMuted(l)
      BY <1>1, <2>2, <2>4 DEF RInv, MutesMatch
    <3>2. op.leg = l /\ op.next \in {"readMuted", "setMuted"}
      BY <1>1, <3>1 DEF ToBeMuted
    <3>3. QED
      BY <1>1, <3>2 DEF ToBeMuted
  <2>5. QED
    BY <1>2, <2>3, <2>4 DEF RInv, MutesMatch
<1>5. QED
  BY <1>3, <1>4

LEMMA MutePartRInv ==
  ASSUME OneHandler, IInv, RInv, NEW c \in Callers, MutePart(c)
  PROVE  RInv'
<1> DEFINE k == call[c].leg
<1>1. /\ call[c].next = "part" /\ Busy(c)
      /\ UNCHANGED <<participants, hears, members, role, routing, op, legMuted>>
      /\ Callers = {c} /\ k \in Legs /\ call[c].mute \in BOOLEAN
      /\ legMuted[k] = call[c].mute
  BY DEF MutePart, SetParticipantMuted, Busy, roomVars, OneHandler, RInv, CallsMatch,
         IInv, TypeOK
<1>2. /\ muted' = IF participants[k] = None THEN muted
                  ELSE [muted EXCEPT ![k] = call[c].mute]
      /\ call' = [call EXCEPT ![c] = NoCall]
  BY <1>1 DEF MutePart, SetParticipantMuted, IDs
<1>3. RoutesMatch'
  BY <1>1, HearsStay DEF RInv, RoutesMatch, Routed
<1>4. ~ Busy(c)'
  BY <1>2 DEF Busy, NoCall, IInv, TypeOK
<1>5. CallsMatch'
  BY <1>1, <1>4 DEF CallsMatch
<1>6. ASSUME NEW l \in Legs, legMuted'[l], participants'[l] # None, ~ muted'[l]
      PROVE  ToBeMuted(l)'
  <2>1. l # k
    BY <1>1, <1>2, <1>6 DEF IInv, TypeOK
  <2>2. ~ muted[l]
    BY <1>2, <1>6, <2>1 DEF IInv, TypeOK
  <2>3. ToBeMuted(l)
    BY <1>1, <1>6, <2>2 DEF RInv, MutesMatch
  <2>4. op.leg = l /\ op.next \in {"readMuted", "setMuted"}
    BY <1>1, <2>1, <2>3 DEF ToBeMuted
  <2>5. QED
    BY <1>1, <2>4 DEF ToBeMuted
<1>7. QED
  BY <1>3, <1>5, <1>6 DEF RInv, MutesMatch

(* A source's ID is no leg's.                                                *)
LEMMA SourcesRInv ==
  ASSUME IInv, RInv, NEW s \in Sources, AddSource(s) \/ RemoveSource(s)
  PROVE  RInv'
<1>1. s \in IDs /\ s \notin Legs
  BY MixerAssumption DEF IDs
<1>2. UNCHANGED <<members, role, routing, op, legMuted, call>>
  BY DEF AddSource, RemoveSource, roomVars, apiVars
<1>3. TakesAway
  <2>1. CASE RemoveSource(s)
    BY <1>1, <2>1, RemoveTakesAway DEF RemoveSource
  <2>2. CASE AddSource(s)
    <3>1. PICK p \in Parts : /\ participants' = [participants EXCEPT ![s] = p]
                             /\ Reset(s)
      BY <2>2 DEF AddSource, AddParticipant
    <3>2. QED
      BY <1>1, <3>1 DEF TakesAway, Reset, IInv, TypeOK, IDs
  <2>3. QED
    BY <2>1, <2>2
<1>4. QED
  BY <1>2, <1>3, TakesAwayMutes, TakesAwayRoutes DEF RInv

LEMMA LoopsRInv ==
  ASSUME IInv, RInv,
         (\E p \in Parts : LoopEnds(p)) \/ (\E c \in Chans : MixLoopEnds(c))
  PROVE  RInv'
<1>1. UNCHANGED <<participants, muted, hears, members, role, routing, op, legMuted, call>>
  BY DEF LoopEnds, MixLoopEnds, roomVars, apiVars
<1>2. TakesAway
  BY <1>1 DEF TakesAway
<1>3. QED
  BY <1>1, <1>2, TakesAwayMutes, TakesAwayRoutes DEF RInv

(* A panic takes its own part away only.                                     *)
LEMMA RecoverRInv ==
  ASSUME IInv, RInv, NEW p \in Parts, RecoverParticipant(p)
  PROVE  RInv'
<1> DEFINE id == part[p].id
<1>1. /\ id \in IDs
      /\ UNCHANGED <<members, role, routing, op, legMuted, call>>
  BY DEF RecoverParticipant, Recover, IInv, PartsMatch, roomVars, apiVars
<1>2. TakesAway
  <2>1. CASE participants[id] = p
    <3>1. participants' = [participants EXCEPT ![id] = None] /\ Reset(id)
      BY <2>1 DEF RecoverParticipant, Recover
    <3>2. QED
      BY <1>1, <3>1 DEF TakesAway, Reset, IInv, TypeOK, IDs
  <2>2. CASE participants[id] # p
    <3>1. UNCHANGED <<participants, hears, muted>>
      BY <2>2 DEF RecoverParticipant, Recover
    <3>2. QED
      BY <3>1 DEF TakesAway
  <2>3. QED
    BY <2>1, <2>2
<1>3. QED
  BY <1>1, <1>2, TakesAwayMutes, TakesAwayRoutes DEF RInv

LEMMA InitRInv == Init => RInv
<1> SUFFICES ASSUME Init PROVE RInv
  OBVIOUS
<1>1. (\A c \in Callers : ~ Busy(c)) /\ (\A l \in Legs : participants[l] = None)
  BY DEF Init, Busy, NoCall, IDs
<1>2. QED
  BY <1>1 DEF RInv, CallsMatch, MutesMatch, RoutesMatch

LEMMA NextRInv ==
  ASSUME OneHandler, IInv, RInv, [Next]_vars
  PROVE  RInv'
<1>1. CASE \/ \E l \in Legs : \/ \E r \in Roles \cup {NoRole} : AddLeg(l, r) \/ SetLegRole(l, r)
                              \/ RebuildLegMedia(l) \/ RemoveLeg(l)
           \/ \E m \in Matrices : SetRoutingMatrix(m)
  BY <1>1, OperationsRInv
<1>2. CASE \E l \in Legs, c \in Callers, m \in BOOLEAN : MuteLeg(c, l, m)
  BY <1>2, MuteLegRInv
<1>3. CASE AddPart \/ ReadMuted \/ SetMuted \/ Route \/ Sync
  BY <1>3, AddPartRInv, ReadMutedRInv, SetMutedRInv, RouteRInv, SyncRInv
<1>4. CASE \E c \in Callers : MuteRoom(c) \/ MutePart(c)
  BY <1>4, MuteRoomRInv, MutePartRInv
<1>5. CASE \E s \in Sources : AddSource(s) \/ RemoveSource(s)
  BY <1>5, SourcesRInv
<1>6. CASE \/ \E p \in Parts : LoopEnds(p)
           \/ \E c \in Chans : MixLoopEnds(c)
  BY <1>6, LoopsRInv
<1>7. CASE \E p \in Parts : RemoveLegIfParticipant(p)
  BY <1>7, RemoveIfRInv
<1>8. CASE \E p \in Parts : RecoverParticipant(p)
  BY <1>8, RecoverRInv
<1>9. CASE UNCHANGED vars
  <2>1. UNCHANGED <<participants, muted, hears, members, role, routing, op, legMuted, call>>
    BY <1>9 DEF vars, mixerVars, roomVars, apiVars
  <2>2. TakesAway
    BY <2>1 DEF TakesAway
  <2>3. QED
    BY <2>1, <2>2, TakesAwayMutes, TakesAwayRoutes DEF RInv
<1>10. QED
  BY <1>1, <1>2, <1>3, <1>4, <1>5, <1>6, <1>7, <1>8, <1>9 DEF Next

(* Between room operations and mute calls a tick serves exactly the roles,   *)
(* the matrix and the mutes that were last asked for, however joins, media   *)
(* rebuilds, role changes, panics and the mute handler interleave            *)
(* (addLegLocked, applyRoutingLocked, doMuteLeg): whoever was asked for last *)
(* is read, or written to the part, last.  Two mute handlers at a time may   *)
(* apply their calls in the other order, so there is one at a time.          *)
THEOREM RequestsAreServed ==
    ASSUME OneHandler
    PROVE  Spec => []TicksServeRequests
<1>1. Init => IInv /\ RInv
  BY InitInv, InitRInv
<1>2. IInv /\ RInv /\ [Next]_vars => (IInv /\ RInv)'
  BY NextInv, NextRInv
<1>3. IInv /\ RInv => TicksServeRequests
  BY ServedRequests
<1>4. QED
  BY <1>1, <1>2, <1>3, PTL DEF Spec
=============================================================================
