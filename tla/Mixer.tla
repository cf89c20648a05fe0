------------------------------- MODULE Mixer -------------------------------
(***************************************************************************)
(* The mixer of one room (internal/mixer/mixer.go) and the room operations *)
(* that drive it (internal/room/room.go).                                  *)
(*                                                                         *)
(* Two locks are at work.  Room operations exclude each other by r.mu, but *)
(* every mixer call they make is a locked section of its own under m.mu,   *)
(* and the mix loop, the participants' read and write loops, the API's     *)
(* mute handlers and the room-wide sources only ever take m.mu.  So a step *)
(* here is one mixer call, and `op' is the room operation in progress.     *)
(*                                                                         *)
(* A part is one instance of Participant; an ID may be registered again    *)
(* while the loops of its earlier part still run.  Parts and stop channels *)
(* are reused once nothing refers to them, which bounds how many exist at  *)
(* a time and not how many are ever made.                                  *)
(***************************************************************************)
EXTENDS Naturals, FiniteSets

CONSTANTS
    Legs,       \* IDs of legs
    Sources,    \* IDs of room-wide sources: playback, WebSocket clients
    Roles,      \* routing roles, not counting NoRole
    Matrices,   \* routing matrices a room may be given
    Callers,    \* goroutines of the mute and unmute handlers
    Parts,      \* bound: participant instances at a time
    Chans,      \* bound: stop channels at a time
    Scenarios,  \* sets of operations considered together
    None

AllOps == {"add", "remove", "rebuild", "routing", "mute", "panic", "source"}
NoRole == ""
NoRows == [r \in {} |-> {}]
IDs == Legs \cup Sources
Everyone == IDs          \* a nil whitelist: also whoever registers later

ASSUME MixerAssumption ==
    /\ Legs \cap Sources = {}
    /\ NoRole \notin Roles
    /\ \A m \in Matrices : DOMAIN m \subseteq Roles
    /\ Scenarios \subseteq SUBSET AllOps
    /\ None \notin Parts \cup Chans \cup IDs

VARIABLES
    \* Mixer
    participants,   \* m.participants: ID -> part
    hears, muted,   \* Hears and Muted of the part registered for a leg
    part,           \* the parts: see Part below
    stopCh,         \* m.stopCh
    stopped,        \* m.stopped
    closed,         \* the stop channels that were closed
    mixLoops,       \* mix loops running on each stop channel
    hooks,          \* parts whose panic hook fired and was not handled yet
    \* Room
    members,        \* r.participants
    legParts,       \* r.legParts
    role,           \* the legs' roles
    routing,        \* r.routing
    mixerRunning,   \* r.mixerRunning
    op,             \* the operation that holds r.mu
    \* API
    ops,            \* the scenario
    legMuted,       \* l.muted
    call            \* the mute and unmute calls

mixerVars == <<participants, hears, muted, part, stopCh, stopped, closed, mixLoops, hooks>>
roomVars == <<members, legParts, role, routing, mixerRunning>>
apiVars == <<ops, legMuted, call>>
vars == <<mixerVars, roomVars, op, apiVars>>

(* Participant: the stop channel its loops were given, how often p.done was  *)
(* closed, and how many of its loops still run.                              *)
NewPart(id, c, n) == [id |-> id, chan |-> c, done |-> 0, loops |-> n]
NoPart == NewPart(None, None, 0)

(* The room operation that holds r.mu, and the mixer call it makes next.     *)
NoOp == [next |-> "none", leg |-> None]
NoCall == [next |-> "idle", leg |-> None, mute |-> FALSE]

Init ==
    /\ participants = [i \in IDs |-> None]
    /\ hears = [l \in Legs |-> Everyone] /\ muted = [l \in Legs |-> FALSE]
    /\ part = [p \in Parts |-> NoPart]
    /\ stopCh \in Chans
    /\ stopped = FALSE /\ closed = {}
    /\ mixLoops = [c \in Chans |-> 0]
    /\ hooks = {}
    /\ members = {}
    /\ legParts = [l \in Legs |-> None]
    /\ role = [l \in Legs |-> NoRole]
    /\ ops \in Scenarios
    /\ routing = NoRows
    /\ mixerRunning = FALSE
    /\ op = NoOp
    /\ legMuted = [l \in Legs |-> FALSE]
    /\ call = [c \in Callers |-> NoCall]

-----------------------------------------------------------------------------
(* The mixer's calls.                                                        *)

Registered == {participants[i] : i \in IDs} \ {None}
Referenced == Registered \cup hooks \cup {legParts[l] : l \in Legs}
InUse == Referenced \cup {p \in Parts : part[p].loops > 0}
Free == Parts \ InUse

Fresh == {c \in Chans : /\ c # stopCh /\ mixLoops[c] = 0
                        /\ \A p \in InUse \ {None} : part[p].chan # c}

MutNoRestart ==                \* mutant: the closed channel is handed out again
    UNCHANGED <<stopCh, closed, stopped>>

(* A stopped mixer gets a new stop channel from whoever needs it running.    *)
Restart ==
    IF stopped
    THEN /\ stopCh' \in Fresh
         /\ closed' = closed \ {stopCh'}
         /\ stopped' = FALSE
    ELSE UNCHANGED <<stopCh, closed, stopped>>

(* A new part hears everyone and is not muted.                               *)
Reset(id) ==
    /\ hears' = [l \in Legs |-> IF l = id THEN Everyone ELSE hears[l]]
    /\ muted' = [l \in Legs |-> IF l = id THEN FALSE ELSE muted[l]]

(* The map entry is overwritten: an earlier part's loops are not stopped.    *)
AddParticipant(id, p, loops) ==
    /\ p \in Free
    /\ Restart
    /\ participants' = [participants EXCEPT ![id] = p]
    /\ part' = [q \in Parts |-> IF q = p THEN NewPart(id, stopCh', loops)
                                ELSE IF q \in Free THEN NoPart ELSE part[q]]
    /\ Reset(id)

(* The map delete is the gate of the close of p.done.                        *)
RemoveParticipant(id) ==
    IF participants[id] = None THEN UNCHANGED <<participants, hears, muted, part>>
    ELSE /\ participants' = [participants EXCEPT ![id] = None]
         /\ part' = [part EXCEPT ![participants[id]].done = @ + 1]
         /\ Reset(id)

SetParticipantMuted(id, m) ==
    /\ muted' = IF participants[id] = None THEN muted ELSE [muted EXCEPT ![id] = m]
    /\ UNCHANGED <<participants, hears, part, stopCh, stopped, closed, mixLoops, hooks>>

ApplyHearsBatch(updates) ==
    /\ hears' = [l \in Legs |-> IF l \in DOMAIN updates /\ participants[l] # None
                                THEN updates[l] ELSE hears[l]]
    /\ UNCHANGED <<participants, muted, part, stopCh, stopped, closed, mixLoops, hooks>>

Start ==
    /\ Restart
    /\ mixLoops' = [mixLoops EXCEPT ![stopCh'] = @ + 1]

Stop ==
    /\ closed' = IF stopped THEN closed ELSE closed \cup {stopCh}
    /\ stopped' = TRUE
    /\ UNCHANGED <<stopCh, mixLoops>>

-----------------------------------------------------------------------------
(* Room operations: the first step takes r.mu, the last gives it back.       *)

Idle == op = NoOp
Then(next) == op' = IF next = "none" THEN NoOp ELSE [op EXCEPT !.next = next]

(* addLegLocked, also for a leg that is a participant already: the check of  *)
(* doAddLegToRoom is made before, outside the lock.                          *)
AddLeg(l, r) ==
    /\ Idle
    /\ members' = members \cup {l}
    /\ role' = [role EXCEPT ![l] = r]
    /\ op' = [next |-> "add", leg |-> l]
    /\ UNCHANGED <<mixerVars, legParts, routing, mixerRunning, apiVars>>

RebuildLegMedia(l) ==
    /\ Idle /\ l \in members
    /\ RemoveParticipant(l)
    /\ legParts' = [legParts EXCEPT ![l] = None]
    /\ op' = [next |-> "add", leg |-> l]
    /\ UNCHANGED <<stopCh, stopped, closed, mixLoops, hooks,
                   members, role, routing, mixerRunning, apiVars>>

AddPart ==
    /\ op.next = "add"
    /\ \E p \in Parts :
          /\ AddParticipant(op.leg, p, 2)
          /\ legParts' = [legParts EXCEPT ![op.leg] = p]
    /\ Then("readMuted")
    /\ UNCHANGED <<mixLoops, hooks, members, role, routing, mixerRunning, apiVars>>

MutReadMutedNever ==           \* mutant: a new part starts unmuted
    /\ op.next = "readMuted"
    /\ Then("route")
    /\ UNCHANGED <<mixerVars, roomVars, apiVars>>

ReadMuted ==
    /\ op.next = "readMuted"
    /\ Then(IF legMuted[op.leg] THEN "setMuted" ELSE "route")
    /\ UNCHANGED <<mixerVars, roomVars, apiVars>>

SetMuted ==
    /\ op.next = "setMuted"
    /\ SetParticipantMuted(op.leg, TRUE)
    /\ Then("route")
    /\ UNCHANGED <<roomVars, apiVars>>

(* The role a leg keeps is forgotten: the next join may give it any.         *)
RemoveLegLocked(l) ==
    /\ members' = members \ {l}
    /\ role' = [role EXCEPT ![l] = NoRole]
    /\ legParts' = [legParts EXCEPT ![l] = None]
    /\ RemoveParticipant(l)
    /\ op' = [next |-> "route", leg |-> l]

RemoveLeg(l) ==
    /\ Idle /\ l \in members
    /\ RemoveLegLocked(l)
    /\ UNCHANGED <<stopCh, stopped, closed, mixLoops, hooks,
                   routing, mixerRunning, apiVars>>

(* The hook's goroutine: only if the dead part still carries the leg.        *)
RemoveLegIfParticipant(p) ==
    LET l == part[p].id IN
    /\ Idle /\ p \in hooks
    /\ hooks' = hooks \ {p}
    /\ IF legParts[l] = p /\ l \in members
       THEN RemoveLegLocked(l)
       ELSE UNCHANGED <<members, role, legParts, participants, hears, muted, part, op>>
    /\ UNCHANGED <<stopCh, stopped, closed, mixLoops, routing, mixerRunning, apiVars>>

SetLegRole(l, r) ==
    /\ Idle /\ l \in members
    /\ role' = [role EXCEPT ![l] = r]
    /\ op' = [next |-> "route", leg |-> l]
    /\ UNCHANGED <<mixerVars, members, legParts, routing, mixerRunning, apiVars>>

SetRoutingMatrix(m) ==
    /\ Idle
    /\ routing' = m
    /\ op' = [next |-> "route", leg |-> None]
    /\ UNCHANGED <<mixerVars, members, legParts, role, mixerRunning, apiVars>>

(* applyRoutingLocked: every member's whitelist, in one batch.               *)
Matrixed(l) == role[l] # NoRole /\ role[l] \in DOMAIN routing
Hears(l) ==
    IF Matrixed(l)
    THEN {s \in members \ {l} : role[s] # NoRole /\ role[s] \in routing[role[l]]}
    ELSE Everyone

MutRouteMovedLegOnly ==        \* mutant: only the operation's leg is recomputed
    /\ op.next = "route"
    /\ ApplyHearsBatch([l \in members \cap {op.leg} |-> Hears(l)])
    /\ Then("sync")
    /\ UNCHANGED <<roomVars, apiVars>>

Route ==
    /\ op.next = "route"
    /\ ApplyHearsBatch([l \in members |-> Hears(l)])
    /\ Then("sync")
    /\ UNCHANGED <<roomVars, apiVars>>

(* syncMixerLocked; SetLegRole and SetRoutingMatrix leave it out, but then   *)
(* it has nothing to do.                                                     *)
MutSyncStartsAgain ==          \* mutant: r.mixerRunning is not looked at
    /\ op.next = "sync"
    /\ \/ members # {} /\ Start
       \/ members = {} /\ mixerRunning /\ Stop
       \/ members = {} /\ ~ mixerRunning
          /\ UNCHANGED <<stopCh, stopped, closed, mixLoops>>
    /\ mixerRunning' = (members # {})
    /\ Then("none")
    /\ UNCHANGED <<participants, hears, muted, part, hooks,
                   members, legParts, role, routing, apiVars>>

Sync ==
    /\ op.next = "sync"
    /\ \/ ~ mixerRunning /\ members # {} /\ Start
       \/ mixerRunning /\ members = {} /\ Stop
       \/ mixerRunning = (members # {})
          /\ UNCHANGED <<stopCh, stopped, closed, mixLoops>>
    /\ mixerRunning' = (members # {})
    /\ Then("none")
    /\ UNCHANGED <<participants, hears, muted, part, hooks,
                   members, legParts, role, routing, apiVars>>

-----------------------------------------------------------------------------
(* doMuteLeg and doUnmuteLeg: the leg's flag, then the room's participant.   *)

MuteLeg(c, l, mute) ==
    /\ call[c] = NoCall
    /\ legMuted' = [legMuted EXCEPT ![l] = mute]
    /\ call' = [call EXCEPT ![c] = [next |-> "room", leg |-> l, mute |-> mute]]
    /\ UNCHANGED <<mixerVars, roomVars, op, ops>>

MuteRoom(c) ==
    /\ call[c].next = "room"
    /\ call' = [call EXCEPT ![c] = IF @.leg \in members THEN [@ EXCEPT !.next = "part"]
                                   ELSE NoCall]
    /\ UNCHANGED <<mixerVars, roomVars, op, ops, legMuted>>

MutePart(c) ==
    /\ call[c].next = "part"
    /\ SetParticipantMuted(call[c].leg, call[c].mute)
    /\ call' = [call EXCEPT ![c] = NoCall]
    /\ UNCHANGED <<roomVars, op, ops, legMuted>>

(* Playback (nothing to write) and WebSocket clients: the room's lock is not *)
(* taken.  Their IDs are never used twice at a time.                         *)
AddSource(s) ==
    /\ participants[s] = None
    /\ \E p \in Parts, loops \in {1, 2} : AddParticipant(s, p, loops)
    /\ UNCHANGED <<mixLoops, hooks, roomVars, op, apiVars>>

RemoveSource(s) ==
    /\ participants[s] # None
    /\ RemoveParticipant(s)
    /\ UNCHANGED <<stopCh, stopped, closed, mixLoops, hooks, roomVars, op, apiVars>>

(* A read or write loop returns: it was told to, or its IO failed.           *)
LoopEnds(p) ==
    /\ part[p].loops > 0
    /\ part' = [part EXCEPT ![p] = IF @.loops = 1 /\ p \notin Referenced THEN NoPart
                                   ELSE [part[p] EXCEPT !.loops = @ - 1]]
    /\ UNCHANGED <<participants, hears, muted, stopCh, stopped, closed, mixLoops,
                   hooks, roomVars, op, apiVars>>

(* recoverParticipant.  Sources have no hook to run: closing their writer is *)
(* all their owner hears of it.                                              *)
Recover(p, current) ==
    LET id == part[p].id IN
    /\ part[p].loops > 0
    /\ part' = [part EXCEPT ![p].loops = @ - 1,
                            ![p].done = IF current THEN @ + 1 ELSE @]
    /\ IF current
       THEN /\ participants' = [participants EXCEPT ![id] = None]
            /\ Reset(id)
            /\ hooks' = IF id \in Legs THEN hooks \cup {p} ELSE hooks
       ELSE UNCHANGED <<participants, hears, muted, hooks>>
    /\ UNCHANGED <<stopCh, stopped, closed, mixLoops, roomVars, op, apiVars>>

MutRecoverParticipant(p) ==    \* mutant: whoever has the ID now is removed
    Recover(p, part[p].loops > 0 /\ participants[part[p].id] # None)

RecoverParticipant(p) ==
    Recover(p, part[p].loops > 0 /\ participants[part[p].id] = p)

(* mixTick copies participants and whitelists in one locked section and      *)
(* changes none of them: what a tick that starts now lets each leg hear.     *)
Mixed == {h \in Legs \X Legs : /\ h[1] # h[2]
                               /\ participants[h[1]] # None /\ participants[h[2]] # None}
Audible == {h \in Mixed : h[2] \in hears[h[1]]}

MixLoopEnds(c) ==
    /\ mixLoops[c] > 0 /\ c \in closed
    /\ mixLoops' = [mixLoops EXCEPT ![c] = @ - 1]
    /\ UNCHANGED <<participants, hears, muted, part, stopCh, stopped, closed, hooks,
                   roomVars, op, apiVars>>

Next ==
    \/ \E l \in Legs :
          \/ "add" \in ops /\ AddLeg(l, NoRole)
          \/ "routing" \in ops /\ \E r \in Roles : AddLeg(l, r)
          \/ "routing" \in ops /\ \E r \in Roles \cup {NoRole} : SetLegRole(l, r)
          \/ "rebuild" \in ops /\ RebuildLegMedia(l)
          \/ "remove" \in ops /\ RemoveLeg(l)
          \/ "mute" \in ops /\ \E c \in Callers, m \in BOOLEAN : MuteLeg(c, l, m)
    \/ "routing" \in ops /\ \E m \in Matrices : SetRoutingMatrix(m)
    \/ AddPart \/ ReadMuted \/ SetMuted \/ Route \/ Sync
    \/ \E c \in Callers : MuteRoom(c) \/ MutePart(c)
    \/ "source" \in ops /\ \E s \in Sources : AddSource(s) \/ RemoveSource(s)
    \/ \E p \in Parts : LoopEnds(p) \/ RemoveLegIfParticipant(p)
    \/ "panic" \in ops /\ \E p \in Parts : RecoverParticipant(p)
    \/ \E c \in Chans : MixLoopEnds(c)

Spec == Init /\ [][Next]_vars

-----------------------------------------------------------------------------
(* What must hold.                                                           *)

Part == [id : IDs \cup {None}, chan : Chans \cup {None}, done : {0, 1}, loops : 0..2]

(* p.done of one participant is closed once at most, a second close being a  *)
(* panic of the process, and one stop channel ends one mix loop at most      *)
(* (teardownParticipant, syncMixerLocked).                                   *)
TypeOK ==
    /\ participants \in [IDs -> Parts \cup {None}]
    /\ hears \in [Legs -> SUBSET IDs] /\ muted \in [Legs -> BOOLEAN]
    /\ part \in [Parts -> Part]
    /\ stopCh \in Chans /\ stopped \in BOOLEAN /\ closed \subseteq Chans
    /\ mixLoops \in [Chans -> {0, 1}]
    /\ hooks \subseteq Parts
    /\ members \subseteq Legs
    /\ legParts \in [Legs -> Parts \cup {None}]
    /\ role \in [Legs -> Roles \cup {NoRole}]
    /\ routing \in Matrices \cup {NoRows}
    /\ mixerRunning \in BOOLEAN
    /\ op \in [next : {"none", "add", "readMuted", "setMuted", "route", "sync"},
               leg : Legs \cup {None}]
    /\ ops \in Scenarios
    /\ legMuted \in [Legs -> BOOLEAN]
    /\ call \in [Callers -> [next : {"idle", "room", "part"}, leg : Legs \cup {None},
                             mute : BOOLEAN]]

(* Between room operations every registered leg has a part that nobody told  *)
(* to stop, spawned for the run the one live mix loop belongs to: a mixer    *)
(* that was stopped and started again serves whoever joined since            *)
(* (AddParticipant's and Start's reset of stopCh).                           *)
LegsAreServed ==
    Idle => \A l \in Legs : participants[l] # None =>
        /\ part[participants[l]].done = 0
        /\ part[participants[l]].chan = stopCh
        /\ stopCh \notin closed
        /\ mixLoops[stopCh] = 1

(* A leg that is muted and whose mute and room calls have returned is muted  *)
(* in the mix, however the calls were interleaved; the handler writes the    *)
(* leg's flag first, a join or rebuild reads it last (doMuteLeg,             *)
(* addLegLocked).  Not so with two mute handlers at a time.                  *)
MutedStaysMuted ==
    Idle /\ (\A c \in Callers : call[c] = NoCall) =>
        \A l \in Legs : legMuted[l] /\ participants[l] # None => muted[l]

(* A tick that starts between room operations lets every leg hear exactly    *)
(* whom the roles and the matrix let it hear (applyRoutingLocked; API.md,    *)
(* Audio routing matrix, Semantics).                                         *)
Allowed(l, s) ==
    \/ role[l] = NoRole \/ role[l] \notin DOMAIN routing
    \/ role[s] # NoRole /\ role[s] \in routing[role[l]]
TicksAreRouted == Idle => Audible = {h \in Mixed : Allowed(h[1], h[2])}

(* Between room operations a tick serves the roles, the matrix and the mutes *)
(* that were last asked for (room.go).                                       *)
TicksServeRequests == MutedStaysMuted /\ TicksAreRouted

(* A leg loses its part only to a room operation or because a loop of that   *)
(* very part panicked, never to an orphan of the same ID                     *)
(* (removeParticipantIf).                                                    *)
LostRightly ==
    \A l \in Legs : participants[l] # None /\ participants'[l] = None =>
        \/ op' # op
        \/ part'[participants[l]].loops # part[participants[l]].loops
SuccessorSurvives == [][LostRightly]_vars

(* Does not hold; API.md, "Atomicity (no bleed)", says that it does: the     *)
(* very first mixTick that sees the new leg already has the correct routing. *)
(* That tick may come as soon as the leg's part is registered.               *)
JoinDoesNotBleed ==
    op.next = "readMuted" /\ (\E c \in Chans : mixLoops[c] > 0) =>
        \A h \in Audible : op.leg \in {h[1], h[2]} => Allowed(h[1], h[2])
=============================================================================
