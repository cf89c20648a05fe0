---------------------------- MODULE SiprecSource ----------------------------
(***************************************************************************)
(* Outbound recording sessions (api/siprec_src.go): a room's participants, *)
(* or one call's two directions, forked to a recording server.  Each party *)
(* has one record tap; a pump carries what the tap takes, over a pipe, to  *)
(* the party's stream of the session's leg.                                *)
(***************************************************************************)
EXTENDS Naturals, FiniteSets

CONSTANTS
    Sessions,
    Parties,     \* participants of the room
    None,
    MaxMoves,    \* bound: joins and leaves of the parties
    Shared,      \* two sessions may record one room or call
    Overlap      \* a DELETE may come before the session is tracked

CallParties == {"in", "out"}

VARIABLES
    scope,       \* of a session: "room" or "leg"
    members,     \* participants of the room's mixer
    moves,
    tap,         \* of a party: the session its record tap feeds
    pc,          \* doStartRoomSIPREC, doStartLegSIPREC, then watchLegDialogEnd
    parties,     \* of a session: the parties selected
    todo,        \* those accepted and not attached yet
    attached,    \* those its pumps are for, and still in the mixer since
    pumps,       \* those a pump runs for
    registered,  \* legs in LegMgr
    tracked,     \* siprecSRCs
    hungup,      \* legs hung up
    dialog,      \* "none", "up", "over"
    deleter,     \* doDeleteLeg's goroutine
    started, ended   \* session_started and session_ended published

sessionVars == <<parties, todo, registered, tracked, hungup, dialog, deleter, started, ended>>
tapVars     == <<tap, attached, pumps>>
vars == <<scope, members, moves, pc, sessionVars, tapVars>>

Of(s) == IF scope[s] = "room" THEN Parties ELSE CallParties

Init ==
    /\ scope \in [Sessions -> {"room", "leg"}]
    /\ members \in SUBSET Parties /\ moves = 0
    /\ tap = [p \in Parties \cup CallParties |-> None]
    /\ pc = [s \in Sessions |-> "idle"] /\ parties = [s \in Sessions |-> {}]
    /\ todo = [s \in Sessions |-> {}] /\ attached = [s \in Sessions |-> {}]
    /\ pumps = [s \in Sessions |-> {}] /\ registered = {} /\ tracked = {} /\ hungup = {}
    /\ dialog = [s \in Sessions |-> "none"] /\ deleter = [s \in Sessions |-> "none"]
    /\ started = {} /\ ended = [s \in Sessions |-> 0]

At(s, from, to) == pc[s] = from /\ pc' = [pc EXCEPT ![s] = to]

-----------------------------------------------------------------------------
(* The room.  A tap is of the mixer's participant and goes with it. *)

Join(p) ==
    /\ p \notin members /\ moves < MaxMoves /\ moves' = moves + 1
    /\ members' = members \cup {p}
    /\ UNCHANGED <<scope, pc, sessionVars, tapVars>>

Leave(p) ==
    /\ p \in members /\ moves < MaxMoves /\ moves' = moves + 1
    /\ members' = members \ {p} /\ tap' = [tap EXCEPT ![p] = None]
    /\ attached' = [s \in Sessions |-> attached[s] \ {p}]
    /\ UNCHANGED <<scope, pc, pumps, sessionVars>>

-----------------------------------------------------------------------------
(* Starting. *)

Busy(s) == \E q \in Sessions \ {s} :
    scope[q] = scope[s] /\ pc[q] # "idle" /\ ~(pc[q] = "done" /\ deleter[q] \in {"none", "done"})

\* selectSRCParties: of the participants, those named; an unknown one is an
\* error, and so is nobody.
Select(s, sel) ==
    /\ At(s, "idle", "invite") /\ (Shared \/ ~Busy(s))
    /\ sel # {} /\ sel \subseteq (IF scope[s] = "room" THEN members ELSE CallParties)
    /\ scope[s] = "leg" => sel = CallParties
    /\ parties' = [parties EXCEPT ![s] = sel]
    /\ UNCHANGED <<scope, members, moves, tapVars, todo, registered, tracked, hungup, dialog,
                   deleter, started, ended>>

\* inviteSRS; the recording server may refuse streams.
Accepted(s, ok) ==
    /\ At(s, "invite", "attach") /\ ok \subseteq parties[s]
    /\ todo' = [todo EXCEPT ![s] = ok] /\ registered' = registered \cup {s}
    /\ dialog' = [dialog EXCEPT ![s] = "up"]
    /\ UNCHANGED <<scope, members, moves, tapVars, parties, tracked, hungup, deleter, started, ended>>

Rejected(s) ==
    /\ At(s, "invite", "done")
    /\ UNCHANGED <<scope, members, moves, tapVars, sessionVars>>

\* attachSRCPumps: a tap, if the party is still in the mixer, and a pump.
\* attachLegSRCPumps sets both taps once its pumps run.
Attach(s, p) ==
    /\ pc[s] = "attach" /\ p \in todo[s] /\ todo' = [todo EXCEPT ![s] = @ \ {p}]
    /\ pumps' = [pumps EXCEPT ![s] = @ \cup {p}]
    /\ IF p \in members
         THEN tap' = [tap EXCEPT ![p] = s] /\ attached' = [attached EXCEPT ![s] = @ \cup {p}]
         ELSE UNCHANGED <<tap, attached>>
    /\ UNCHANGED <<scope, members, moves, pc, parties, registered, tracked, hungup, dialog,
                   deleter, started, ended>>

Attached(s) ==
    /\ todo[s] = {} /\ At(s, "attach", "track")
    /\ IF scope[s] = "leg"
         THEN /\ tap' = [p \in DOMAIN tap |-> CASE p \notin CallParties -> tap[p]
                                               [] p \in pumps[s] -> s
                                               [] OTHER -> None]
              /\ attached' = [attached EXCEPT ![s] = pumps[s]]
         ELSE UNCHANGED <<tap, attached>>
    /\ UNCHANGED <<scope, members, moves, pumps, sessionVars>>

Track(s) ==
    /\ At(s, "track", "tell") /\ tracked' = tracked \cup {s}
    /\ UNCHANGED <<scope, members, moves, tapVars, parties, todo, registered, hungup, dialog,
                   deleter, started, ended>>

TellStarted(s) ==
    /\ At(s, "tell", "watch") /\ started' = started \cup {s}
    /\ UNCHANGED <<scope, members, moves, tapVars, parties, todo, registered, tracked, hungup,
                   dialog, deleter, ended>>

-----------------------------------------------------------------------------
(* Ending. *)

\* mutant: the pumps of what was refused a tap stay.
MutStopPumps(s) == pumps' = [pumps EXCEPT ![s] = @ \ attached[s]]

StopPumps(s) == pumps' = [pumps EXCEPT ![s] = {}]

\* cleanupSIPRECSRC: of the session's parties, whosever tap it is.
CleanUpSource(s) ==
    IF s \in tracked
      THEN /\ tracked' = tracked \ {s} /\ ended' = [ended EXCEPT ![s] = @ + 1]
           /\ tap' = [p \in DOMAIN tap |->
                         IF p \in pumps[s] \/ (p \in CallParties /\ pumps[s] \cap CallParties # {})
                           THEN None ELSE tap[p]]
           /\ StopPumps(s)
      ELSE UNCHANGED <<tracked, ended, tap, pumps>>

CleanUp(s) ==
    /\ hungup' = hungup \cup {s} /\ dialog' = [dialog EXCEPT ![s] = "over"]
    /\ registered' = registered \ {s} /\ CleanUpSource(s)

DeleteLeg(s) ==
    /\ s \in registered /\ deleter[s] = "none"
    /\ Overlap \/ pc[s] = "watch"
    /\ registered' = registered \ {s} /\ deleter' = [deleter EXCEPT ![s] = "clean"]
    /\ UNCHANGED <<scope, members, moves, pc, tapVars, parties, todo, tracked, hungup, dialog,
                   started, ended>>

DeleteCleansUp(s) ==
    /\ deleter[s] = "clean" /\ deleter' = [deleter EXCEPT ![s] = "done"] /\ CleanUp(s)
    /\ UNCHANGED <<scope, members, moves, pc, parties, todo, attached, started>>

\* The recording server says BYE.
PeerEnds(s) ==
    /\ dialog[s] = "up" /\ dialog' = [dialog EXCEPT ![s] = "over"]
    /\ UNCHANGED <<scope, members, moves, pc, tapVars, parties, todo, registered, tracked,
                   hungup, deleter, started, ended>>

DialogEnds(s) ==
    /\ dialog[s] = "over" /\ At(s, "watch", "done")
    /\ IF s \in hungup
         THEN UNCHANGED <<hungup, dialog, registered, tracked, ended, tap, pumps>>
         ELSE CleanUp(s)
    /\ UNCHANGED <<scope, members, moves, parties, todo, attached, deleter, started>>

-----------------------------------------------------------------------------
Starter(s) == \/ Rejected(s) \/ Attached(s) \/ Track(s) \/ TellStarted(s) \/ DialogEnds(s)
              \/ \E ok \in SUBSET Of(s) : Accepted(s, ok)
              \/ \E p \in Of(s) : Attach(s, p)

Next ==
    \/ \E p \in Parties : Join(p) \/ Leave(p)
    \/ \E s \in Sessions :
          \/ Starter(s) \/ DeleteLeg(s) \/ DeleteCleansUp(s) \/ PeerEnds(s)
          \/ \E sel \in SUBSET Of(s) : Select(s, sel)

Fairness == \A s \in Sessions : WF_vars(Starter(s)) /\ WF_vars(DeleteCleansUp(s))

Spec == Init /\ [][Next]_vars /\ Fairness

-----------------------------------------------------------------------------
(* Every variable keeps its type, and a session is reported ended once.      *)
TypeOK ==
    /\ members \subseteq Parties /\ moves \in 0 .. MaxMoves
    /\ tap \in [Parties \cup CallParties -> Sessions \cup {None}]
    /\ pc \in [Sessions -> {"idle", "invite", "attach", "track", "tell", "watch", "done"}]
    /\ \A s \in Sessions : parties[s] \cup todo[s] \cup attached[s] \cup pumps[s] \subseteq Of(s)
    /\ registered \cup tracked \cup hungup \cup started \subseteq Sessions
    /\ dialog \in [Sessions -> {"none", "up", "over"}]
    /\ deleter \in [Sessions -> {"none", "clean", "done"}]
    /\ ended \in [Sessions -> 0 .. 1]

(* A session that is up records each party it attached and that has not left *)
(* since: the party's tap is its own (siprec_src.go attachSRCPumps,          *)
(* cleanupSIPRECSRC).                                                        *)
SessionsRecord ==
    \A s \in tracked : s \notin hungup => \A p \in attached[s] : tap[p] = s

(* Nothing of a session that is over is left: neither a tap of a room or a   *)
(* call that goes on nor a pump, and who heard of its start hears its end.   *)
NothingRecordsOn ==
    \A s \in hungup \cap started : s \notin tracked =>
        /\ \A p \in DOMAIN tap : tap[p] # s
        /\ pumps[s] = {} /\ ended[s] = 1

Over(s) == deleter[s] # "none" \/ dialog[s] = "over"
Gone(s) == s \notin registered \cup tracked /\ s \in hungup

(* A session that was deleted, or that the server ended, goes.               *)
EndsAreFinal == []<>(\A s \in Sessions : Over(s) => Gone(s))
=============================================================================
