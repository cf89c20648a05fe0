----------------------------- MODULE CallsProofs -----------------------------
(***************************************************************************)
(* What holds of the components of a call for any number of invitations,   *)
(* REFERs, agents, utterances and timers, in every interleaving: each has  *)
(* an invariant of its own, and a step of the composite is a step of the   *)
(* component or leaves its variables alone.                                *)
(***************************************************************************)

EXTENDS MCCalls, FiniteSetTheorems, SequenceTheorems, WellFoundedInduction, TLAPS

-----------------------------------------------------------------------------
(* Transfers: a REFER's point says what it was answered and told; a transfer *)
(* that is under way is alone, and untold.                                   *)

ReferRecords == [pc : {"unsent", "sent", "parked", "accepting", "accepted", "dialling",
                       "connected", "notified", "over"},
                 accepted : BOOLEAN, timer : {"off", "armed", "fired"}]
ReplyRecords == [accept : 0..2, refuse : 0..2]
NotifyRecords == [pc : {"idle", "found", "told"}, of : Transfers \cup {None}, ok : BOOLEAN]
TransferPoints == {"unasked", "sent", "accepted", "refused", "over"}

Answered(r, a, d) == replies[r].accept = a /\ replies[r].refuse = d

\* A REFER that no answer was given to, one that was accepted and not settled, one that
\* the application may still complete.
ReferMatches(r) ==
    /\ refer[r].pc \in {"unsent", "sent", "parked"} =>
          Answered(r, 0, 0) /\ notified[r] = 0 /\ ~refer[r].accepted
    /\ refer[r].pc = "accepting" => Answered(r, 0, 0) /\ refer[r].accepted
    /\ refer[r].pc = "accepted" => Answered(r, 1, 0) /\ refer[r].accepted
    /\ refer[r].pc \in {"dialling", "connected"} =>
          Answered(r, 1, 0) /\ refer[r].accepted /\ notified[r] = 0
    /\ refer[r].pc \in {"notified", "over"} =>
          \/ (Answered(r, 1, 0) /\ refer[r].accepted)
          \/ (Answered(r, 0, 1) /\ ~refer[r].accepted /\ notified[r] = 0)
    /\ notified[r] <= 1
    /\ parked = r => /\ refer[r].pc \in {"parked", "accepting", "accepted"}
                     /\ notified[r] = 0

UnderWay == {"sent", "accepted", "refused"}
Untold(t) == t \notin told.completed /\ t \notin told.failed

\* A transfer under way has the route and is alone; so is a NOTIFY that is handled.
TransferMatches(t) ==
    /\ transfer[t] = "unasked" => Untold(t)
    /\ transfer[t] \in UnderWay =>
          /\ route = t /\ Untold(t) /\ notify.pc = "idle"
          /\ \A u \in Transfers \ {t} : transfer[u] \in {"unasked", "over"}
NotifyMatches ==
    /\ notify.pc = "found" =>
          /\ notify.of \in Transfers /\ Untold(notify.of) /\ transfer[notify.of] = "over"
    /\ notify.pc # "idle" => \A u \in Transfers : transfer[u] \in {"unasked", "over"}
    /\ \A t \in Transfers : ~(t \in told.completed /\ t \in told.failed)

TransferInv ==
    /\ Referral!TypeOK
    /\ \A r \in Refers : ReferMatches(r)
    /\ \A t \in Transfers : TransferMatches(t)
    /\ NotifyMatches

-----------------------------------------------------------------------------
(* Agents: what is registered has not ended, and what listens or speaks is   *)
(* registered, is about to be, or is being taken down.                       *)

Preparing(s) == agent[s].pc \in {"checked", "prepared"}
Registered(s) == attached[Kind[s]] = s
Leaving(s) == agent[s].torn = "popped"

AgentMatches(s) ==
    /\ \A k \in Listeners!HeldKinds : attached[k] = s => k = Kind[s]
    /\ Registered(s) => agent[s].pc \in {"spawned", "running", "returned"}
    /\ Preparing(s) => attached[Kind[s]] = None
    /\ participantTap = s => Kind[s] # "roomAgent"
    /\ s \in speaking \/ participantTap = s =>
          Registered(s) \/ Leaving(s) \/ agent[s].pc = "prepared"
    /\ agent[s].pc \in {"spawned", "running"} /\ ~agent[s].closed => Registered(s) \/ Leaving(s)
OneStarter == \A s, u \in Sessions : Preparing(s) /\ Preparing(u) => s = u

AgentInv ==
    /\ Listeners!TypeOK
    /\ \A s \in Sessions : AgentMatches(s)
    /\ OneStarter

-----------------------------------------------------------------------------
(* Utterances: where one is says in which table it is, and what of it was    *)
(* told and is owed.                                                         *)

UttMatches(u) ==
    /\ u \in staged => utt[u].pc = "staged"
    /\ Speech!Discardable(u) => utt[u].pc = "staged" /\ utt[u].kind = "staged"
    /\ u \in players => utt[u].pc \in {"waiting", "ready", "playing", "ended"}
    /\ utt[u].pc \in {"staged", "committing"} => utt[u].kind = "staged"
    /\ utt[u].kind = "staged" /\ utt[u].synth = "running" /\ utt[u].entry # "done" =>
          utt[u].pc \in {"staged", "committing", "waiting"}
    /\ "started" \in utt[u].told => utt[u].pc \in {"playing", "ended", "left", "over"}
\* An utterance ends once: nothing is owed before its end, and nothing after.
EndMatches(u) ==
    /\ utt[u].pc \in {"none", "staged", "ready", "playing"} => utt[u].ends = 0 /\ utt[u].owed = "none"
    /\ utt[u].pc \in {"committing", "waiting"} /\ utt[u].entry # "done" =>
          utt[u].ends = 0 /\ utt[u].owed = "none"
    /\ utt[u].entry = "done" =>
          utt[u].kind = "staged" /\ (utt[u].synth # "ok" \/ utt[u].pc = "over")
    /\ utt[u].entry = "done" /\ utt[u].pc \in {"committing", "waiting"} => utt[u].synth = "failed"
    /\ utt[u].pc \in {"ended", "left"} => utt[u].ends = 0 /\ utt[u].owed # "none"
    /\ utt[u].owed # "none" => utt[u].ends = 0
    /\ utt[u].ends \in 0..1
DiscardMatches(u) ==
    "discarded" \in utt[u].told \cup {utt[u].owed} =>
        /\ "started" \notin utt[u].told
        /\ utt[u].entry = "done"
        /\ utt[u].pc \in {"committing", "waiting", "over"}

SpeechInv ==
    /\ Speech!TypeOK /\ IsFiniteSet(staged) /\ utt = [u \in Utts |-> utt[u]]
    /\ \A u \in Utts : UttMatches(u) /\ EndMatches(u) /\ DiscardMatches(u)

-----------------------------------------------------------------------------
(* Invitations: whose a port is, and what a branch's point says of its peer. *)

CallRecords == [pc : {"idle", "allocate", "bind", "no socket", "collect", "answer", "returned"},
                fork : BOOLEAN, todo : Seq(Invitation!Slots), port : Invitation!Ports \cup {0},
                tries : Nat, cancelled : BOOLEAN, result : {"none", "error", "call"}]
SessionRecords == [port : Invitation!Ports \cup {0}, open : BOOLEAN]
BranchPoints == {"none", "send", "wait", "failed", "answered"}
PeerPoints == {"none", "ringing", "answered", "refused", "acked", "over"}

InviteTypes ==
    /\ used \subseteq Invitation!Ports /\ cursor \in Invitation!Ports
    /\ call \in [Calls -> CallRecords]
    /\ session \in [Calls -> [Invitation!Slots -> SessionRecords]]
    /\ branch \in [Calls -> [Branches -> BranchPoints]]
    /\ peer \in [Calls -> [Branches -> PeerPoints]]
    /\ winner \in [Calls -> Branches \cup {None}]
    /\ media \in [Calls -> SUBSET Invitation!Slots]
    /\ legOver \in [Calls -> BOOLEAN]

Binding(k) == call[k].pc = "bind"
PortsMatch ==
    /\ \A k \in Calls, s \in Invitation!Slots :
          session[k][s].open => session[k][s].port \in used
    /\ \A k, n \in Calls, s, t \in Invitation!Slots :
          session[k][s].open /\ session[n][t].open /\ session[k][s].port = session[n][t].port =>
              k = n /\ s = t
    /\ \A k \in Calls : Binding(k) => call[k].port \in used /\ call[k].todo # <<>>
    /\ \A k, n \in Calls : Binding(k) /\ Binding(n) /\ call[k].port = call[n].port => k = n
    /\ \A k, n \in Calls, s \in Invitation!Slots :
          Binding(k) /\ session[n][s].open => call[k].port # session[n][s].port

\* A branch that has not answered has no peer that has, but while it waits.
BranchMatches(k, b) ==
    /\ branch[k][b] \in {"none", "send"} => peer[k][b] = "none"
    /\ branch[k][b] = "wait" =>
          call[k].pc = "collect" /\ peer[k][b] \in {"ringing", "answered", "refused"}
    /\ branch[k][b] = "send" => call[k].pc = "collect"
    /\ branch[k][b] = "failed" => peer[k][b] \in {"none", "over"}
    /\ branch[k][b] = "answered" => b = winner[k]
    /\ b = winner[k] => branch[k][b] = "answered"
CallMatches(k) ==
    /\ call[k].pc \notin {"collect", "answer", "returned"} =>
          winner[k] = None /\ \A b \in Branches : branch[k][b] = "none"
    /\ call[k].pc = "collect" /\ winner[k] # None => peer[k][winner[k]] = "answered"
    /\ call[k].pc = "answer" => winner[k] # None /\ peer[k][winner[k]] = "acked"
    /\ call[k].pc = "returned" =>
          /\ winner[k] # None =>
                peer[k][winner[k]] = IF call[k].result = "call" THEN "acked" ELSE "over"
          /\ call[k].result = "call" => winner[k] # None
    /\ call[k].pc \in {"answer", "returned"} =>
          \A b \in Branches : branch[k][b] \in {"none", "failed", "answered"}
    /\ call[k].pc = "collect" => \A b \in Branches :
          b \notin Invitation!Targets(k) => branch[k][b] = "none"

InviteInv ==
    /\ InviteTypes /\ PortsMatch
    /\ \A k \in Calls : CallMatches(k) /\ \A b \in Branches : BranchMatches(k, b)

-----------------------------------------------------------------------------
(* Sessions: what an expiry that is armed knows of the last refresh, and     *)
(* what the hold timer knows of the hold.                                    *)

Known(t) == timer[t].left # Dialog!Off \/ slot = t \/ request.timer = t

ExpiriesMatch ==
    /\ refresher # "uac" => \A t \in Timers : timer[t].fn = "expire" => failed
    /\ refresher = "uac" =>
          /\ refreshing = {}
          /\ \A t, u \in Timers : Known(t) /\ Known(u) => t = u
          /\ \A t \in Timers : Known(t) => timer[t].fn = "expire"
          /\ \A t \in Timers : timer[t].left # Dialog!Off /\ ended = "no" =>
                timer[t].left + since = Dialog!Interval + Dialog!Grace
EndsMatch ==
    /\ ended = "session_expired" =>
          IF refresher = "uac" THEN since = Dialog!Interval + Dialog!Grace ELSE failed
    /\ hangup # "no" => ended # "no"
    /\ slot = NoTimer /\ refresher # "none" => ended # "no"
    /\ request.pc = "reset" /\ request.timer = NoTimer /\ refresher # "none" => ended # "no"
HoldsMatch ==
    hangup = "no" => /\ leg.state \in {"connected", "held"}
                     /\ (leg.state = "held") = leg.held
                     /\ leg.holdTimer = "armed" => leg.held
                     /\ leg.held => leg.holdTimer # "off"

SessionInv == Dialog!TypeOK /\ ExpiriesMatch /\ EndsMatch /\ HoldsMatch

\* But for its timer, a REFER is in nobody else's hands.
OthersUntouched(r) ==
    /\ refer' \in [Refers -> ReferRecords]
    /\ \A q \in Refers \ {r} :
          refer'[q].pc = refer[q].pc /\ refer'[q].accepted = refer[q].accepted
    /\ replies' \in [Refers -> ReplyRecords] /\ \A q \in Refers \ {r} : replies'[q] = replies[q]
    /\ notified' \in [Refers -> 0..2] /\ \A q \in Refers \ {r} : notified'[q] = notified[q]
    /\ dialled' \in [Refers -> {"none", "ringing", "connected", "ended"}]
    /\ parked' \in {parked, r, None}

\* What one REFER's step leaves of the others, and what it must do for its own.
LEMMA ReferStep ==
    ASSUME TransferInv, NEW r \in Refers, OthersUntouched(r), ReferMatches(r)',
           UNCHANGED <<autoDial, route, transfer, notify, told>>,
           legEnd' \in {"no", "other", "transfer_completed"}
    PROVE  TransferInv'
<1> USE CallsAssumption
<1>1. Referral!TypeOK'
  BY DEF OthersUntouched, TransferInv, Referral!TypeOK, ReferRecords, ReplyRecords
<1>2. \A q \in Refers : ReferMatches(q)'
  BY DEF OthersUntouched, TransferInv, ReferMatches, Answered
<1>3. (\A t \in Transfers : TransferMatches(t))' /\ NotifyMatches'
  BY DEF TransferInv, TransferMatches, NotifyMatches, Untold, UnderWay
<1> QED BY <1>1, <1>2, <1>3 DEF TransferInv

\* One final response more, to one REFER.
Responded(r, a, d) ==
    /\ replies' \in [Refers -> ReplyRecords]
    /\ \A q \in Refers \ {r} : replies'[q] = replies[q]
    /\ replies'[r].accept = a /\ replies'[r].refuse = d

LEMMA RespondOK ==
    ASSUME NEW r \in Refers, replies \in [Refers -> ReplyRecords], Answered(r, 0, 0)
    PROVE  /\ Referral!Respond(r, "accept") => Responded(r, 1, 0)
           /\ Referral!Respond(r, "refuse") => Responded(r, 0, 1)
<1>0. replies[r] = [accept |-> 0, refuse |-> 0]
  BY DEF ReplyRecords, Answered
<1>1. ASSUME Referral!Respond(r, "accept") PROVE Responded(r, 1, 0)
  <2>1. replies' = [replies EXCEPT ![r] = [accept |-> 1, refuse |-> 0]]
    <3>1. [replies[r] EXCEPT !["accept"] = replies[r]["accept"] + 1] = [accept |-> 1, refuse |-> 0]
      BY <1>0
    <3> QED BY <3>1, <1>1 DEF Referral!Respond
  <2> QED BY <2>1 DEF Responded, ReplyRecords
<1>2. ASSUME Referral!Respond(r, "refuse") PROVE Responded(r, 0, 1)
  <2>1. replies' = [replies EXCEPT ![r] = [accept |-> 0, refuse |-> 1]]
    <3>1. [replies[r] EXCEPT !["refuse"] = replies[r]["refuse"] + 1] = [accept |-> 0, refuse |-> 1]
      BY <1>0
    <3> QED BY <3>1, <1>2 DEF Referral!Respond
  <2> QED BY <2>1 DEF Responded, ReplyRecords
<1> QED BY <1>1, <1>2

\* A REFER comes to another point; a NOTIFY is sent for it.
Moved(r, p, a) ==
    /\ refer' \in [Refers -> ReferRecords]
    /\ \A q \in Refers \ {r} :
          refer'[q].pc = refer[q].pc /\ refer'[q].accepted = refer[q].accepted
    /\ refer'[r].pc = p /\ refer'[r].accepted = a
Told(r, n) ==
    /\ notified' \in [Refers -> 0..2] /\ \A q \in Refers \ {r} : notified'[q] = notified[q]
    /\ notified'[r] = n
Points == {"unsent", "sent", "parked", "accepting", "accepted", "dialling", "connected", "notified", "over"}

LEMMA MoveOK ==
    ASSUME NEW r \in Refers, refer \in [Refers -> ReferRecords], NEW p \in Points
    PROVE  /\ refer' = [refer EXCEPT ![r].pc = p] => Moved(r, p, refer[r].accepted)
           /\ \A a \in BOOLEAN, t \in {"off", "armed", "fired"} :
                refer' = [refer EXCEPT ![r] = [pc |-> p, accepted |-> a, timer |-> t]] =>
                    Moved(r, p, a)
BY DEF Moved, ReferRecords, Points

LEMMA NotifyOK ==
    ASSUME NEW r \in Refers, notified \in [Refers -> 0..2], notified[r] = 0,
           notified' = [notified EXCEPT ![r] = @ + 1]
    PROVE  Told(r, 1)
BY DEF Told

\* The types alone.
LEMMA TransferTypes ==
    ASSUME TransferInv
    PROVE  /\ refer \in [Refers -> ReferRecords] /\ replies \in [Refers -> ReplyRecords]
           /\ notified \in [Refers -> 0..2]
           /\ dialled \in [Refers -> {"none", "ringing", "connected", "ended"}]
           /\ autoDial \in BOOLEAN
BY DEF TransferInv, Referral!TypeOK, ReferRecords, ReplyRecords

EventRecords == [initiated : SUBSET Transfers, completed : SUBSET Transfers, failed : SUBSET Transfers]

LEMMA PublishOK ==
    ASSUME NEW t \in Transfers, told \in EventRecords
    PROVE  /\ Referral!Publish("initiated", t) =>
                 told' = [told EXCEPT !.initiated = told.initiated \cup {t}] /\ told' \in EventRecords
           /\ Referral!Publish("completed", t) =>
                 told' = [told EXCEPT !.completed = told.completed \cup {t}] /\ told' \in EventRecords
           /\ Referral!Publish("failed", t) =>
                 told' = [told EXCEPT !.failed = told.failed \cup {t}] /\ told' \in EventRecords
BY DEF Referral!Publish, EventRecords

LEMMA SendReferOK ==
    ASSUME TransferInv, NEW r \in Refers, Referral!SendRefer(r) PROVE TransferInv'
<1>1. OthersUntouched(r) /\ ReferMatches(r)'
  BY CallsAssumption, SMTT(30) DEF TransferInv, Referral!TypeOK, Referral!SendRefer, ReferMatches, Answered,
     OthersUntouched, ReferRecords, ReplyRecords, Referral!outVars
<1> QED BY <1>1, ReferStep DEF TransferInv, Referral!TypeOK, Referral!SendRefer, Referral!outVars

LEMMA HandleIncomingReferOK ==
    ASSUME TransferInv, NEW r \in Refers, Referral!HandleIncomingRefer(r) PROVE TransferInv'
<1>0. replies \in [Refers -> ReplyRecords] /\ Answered(r, 0, 0)
  BY DEF TransferInv, Referral!TypeOK, Referral!HandleIncomingRefer, ReferMatches, ReplyRecords
<1> USE TransferTypes, MoveOK, RespondOK, CallsAssumption
<1>1. OthersUntouched(r) /\ ReferMatches(r)'
  <2>1. CASE legEnd # "no"
    <3>1. Moved(r, "over", refer[r].accepted) /\ Responded(r, 0, 1) /\ UNCHANGED <<parked, notified, dialled>>
      BY <2>1, <1>0 DEF Referral!HandleIncomingRefer, Points
    <3> QED BY <3>1, <1>0 DEF TransferInv, Referral!HandleIncomingRefer, ReferMatches, Answered,
            OthersUntouched, Responded, Moved
  <2>2. CASE legEnd = "no" /\ autoDial
    <3>1. Moved(r, "dialling", TRUE) /\ Responded(r, 1, 0) /\ UNCHANGED <<parked, notified>>
      BY <2>2, <1>0 DEF Referral!HandleIncomingRefer, Points
    <3> QED BY <3>1, <1>0, <2>2, SMTT(30) DEF TransferInv, Referral!HandleIncomingRefer, ReferMatches, Answered,
            OthersUntouched, Responded, Moved
  <2>3. CASE legEnd = "no" /\ ~autoDial
    <3>1. Moved(r, "parked", FALSE) /\ parked' = r /\ UNCHANGED <<replies, notified, dialled>>
      BY <2>3, <1>0 DEF Referral!HandleIncomingRefer, Points
    <3> QED BY <3>1, <1>0 DEF TransferInv, Referral!HandleIncomingRefer, ReferMatches, Answered,
            OthersUntouched, Moved
  <2> QED BY <2>1, <2>2, <2>3
<1> HIDE MoveOK, RespondOK
<1> QED BY <1>1, ReferStep
        DEF TransferInv, Referral!TypeOK, Referral!HandleIncomingRefer, Referral!outVars

LEMMA AcceptTransferOK ==
    ASSUME TransferInv, Referral!AcceptTransfer PROVE TransferInv'
<1>1. PICK r \in Refers : Referral!AcceptTransfer!(r)
  BY DEF Referral!AcceptTransfer
<1>2. OthersUntouched(r) /\ ReferMatches(r)'
  BY <1>1, CallsAssumption DEF TransferInv, Referral!TypeOK, ReferMatches, Answered,
     OthersUntouched, ReferRecords, ReplyRecords, Referral!outVars, Referral!Stopped
<1> QED BY <1>1, <1>2, ReferStep DEF TransferInv, Referral!TypeOK, Referral!outVars

LEMMA AcceptedOK ==
    ASSUME TransferInv, NEW r \in Refers, Referral!Accepted(r) PROVE TransferInv'
<1>0. replies \in [Refers -> ReplyRecords] /\ Answered(r, 0, 0)
  BY DEF TransferInv, Referral!TypeOK, Referral!Accepted, ReferMatches, ReplyRecords
<1>1. OthersUntouched(r) /\ ReferMatches(r)'
  <2>1. Moved(r, "accepted", refer[r].accepted) /\ Responded(r, 1, 0)
        /\ UNCHANGED <<parked, notified, dialled>>
    BY <1>0, TransferTypes, MoveOK, RespondOK DEF Referral!Accepted, Points
  <2> QED BY <2>1, <1>0, TransferTypes DEF TransferInv, Referral!Accepted, ReferMatches, Answered,
          OthersUntouched, Responded, Moved
<1> QED BY <1>1, ReferStep DEF TransferInv, Referral!TypeOK, Referral!Accepted, Referral!outVars

LEMMA CompleteTransferOK ==
    ASSUME TransferInv, Referral!CompleteTransfer PROVE TransferInv'
<1>1. PICK r \in Refers : Referral!CompleteTransfer!(r)
  BY DEF Referral!CompleteTransfer
<1>2. OthersUntouched(r) /\ ReferMatches(r)'
  BY <1>1, CallsAssumption, SMTT(30) DEF TransferInv, Referral!TypeOK, ReferMatches, Answered,
     OthersUntouched, ReferRecords, ReplyRecords, Referral!outVars
<1> QED BY <1>1, <1>2, ReferStep DEF TransferInv, Referral!TypeOK, Referral!outVars

LEMMA DeclineTransferOK ==
    ASSUME TransferInv, Referral!DeclineTransfer PROVE TransferInv'
<1>1. PICK r \in Refers : Referral!DeclineTransfer!(r)
  BY DEF Referral!DeclineTransfer
<1>0. /\ replies \in [Refers -> ReplyRecords] /\ Answered(r, 0, 0)
      /\ refer \in [Refers -> ReferRecords] /\ notified \in [Refers -> 0..2] /\ notified[r] = 0
      /\ parked = r /\ parked' = None /\ ~refer[r].accepted
  BY <1>1 DEF TransferInv, Referral!TypeOK, Referral!TakeIfPending, ReferMatches, ReplyRecords,
              ReferRecords
<1>3. Responded(r, 0, 1)
  BY <1>0, <1>1, RespondOK
<1>4. Moved(r, "over", FALSE)
  <2>1. refer[r] \in ReferRecords /\ Referral!Stopped(r) \in {"off", "armed", "fired"}
    BY <1>0 DEF Referral!Stopped, ReferRecords
  <2>2. /\ [refer[r] EXCEPT !.pc = "over", !.timer = Referral!Stopped(r)] \in ReferRecords
        /\ [refer[r] EXCEPT !.pc = "over", !.timer = Referral!Stopped(r)].pc = "over"
        /\ ~[refer[r] EXCEPT !.pc = "over", !.timer = Referral!Stopped(r)].accepted
    BY <2>1, <1>0 DEF ReferRecords
  <2>3. refer' = [refer EXCEPT ![r] = [refer[r] EXCEPT !.pc = "over", !.timer = Referral!Stopped(r)]]
    BY <1>1
  <2>4. refer' \in [Refers -> ReferRecords] /\ refer'[r].pc = "over" /\ ~refer'[r].accepted
        /\ \A q \in Refers \ {r} : refer'[q] = refer[q]
    BY <2>2, <2>3, <1>0
  <2>5. refer'[r].accepted = FALSE
    BY <2>4 DEF ReferRecords
  <2> QED BY <2>4, <2>5 DEF Moved
<1>2. OthersUntouched(r) /\ ReferMatches(r)'
  <2>1. UNCHANGED <<notified, dialled>>
    BY <1>1
  <2> QED BY <2>1, <1>0, <1>3, <1>4, TransferTypes, CallsAssumption DEF OthersUntouched, Responded,
          ReferMatches, Answered, Moved
<1> QED BY <1>1, <1>2, ReferStep DEF TransferInv, Referral!TypeOK, Referral!outVars, Referral!TakeIfPending

LEMMA ConsultTimeoutOK ==
    ASSUME TransferInv, NEW r \in Refers, Referral!ConsultTimeout(r) PROVE TransferInv'
<1>1. OthersUntouched(r) /\ ReferMatches(r)'
  BY CallsAssumption, SMTT(30) DEF TransferInv, Referral!TypeOK, Referral!ConsultTimeout, ReferMatches,
     Answered, OthersUntouched, ReferRecords, ReplyRecords, Referral!outVars
<1> QED BY <1>1, ReferStep
        DEF TransferInv, Referral!TypeOK, Referral!ConsultTimeout, Referral!outVars

\* The goroutine of r's timer may decline another REFER than r.
LEMMA DeclineReferOnTimeoutOK ==
    ASSUME TransferInv, NEW r \in Refers, Referral!DeclineReferOnTimeout(r) PROVE TransferInv'
<1>1. CASE Referral!DeclineReferOnTimeout(r)!2!2
  <2>1. OthersUntouched(r) /\ ReferMatches(r)'
    <3>1. refer' = [refer EXCEPT ![r].timer = "off"]
          /\ UNCHANGED <<parked, replies, notified, dialled>>
      BY <1>1 DEF Referral!DeclineReferOnTimeout
    <3> QED BY <3>1, CallsAssumption DEF TransferInv, Referral!TypeOK,
       ReferMatches, Answered, OthersUntouched, ReferRecords, ReplyRecords
  <2> QED BY <2>1, <1>1, ReferStep
          DEF TransferInv, Referral!TypeOK, Referral!DeclineReferOnTimeout, Referral!outVars
<1>2. CASE Referral!DeclineReferOnTimeout(r)!2!1
  <2>1. PICK q \in Refers : Referral!DeclineReferOnTimeout(r)!2!1!(q)
    BY <1>2
  <2>3. /\ replies \in [Refers -> ReplyRecords] /\ Answered(q, 0, 0)
        /\ refer \in [Refers -> ReferRecords] /\ notified \in [Refers -> 0..2] /\ notified[q] = 0
        /\ parked = q /\ parked' = None /\ ~refer[q].accepted
    BY <2>1 DEF TransferInv, Referral!TypeOK, Referral!TakeIfPending, ReferMatches, ReplyRecords,
                ReferRecords
  <2>4. Responded(q, 0, 1)
    BY <2>1, <2>3, RespondOK
  <2>5. Referral!Stopped(q) \in {"off", "armed", "fired"}
    BY <2>3 DEF Referral!Stopped, ReferRecords
  <2>6. /\ refer' \in [Refers -> ReferRecords] /\ refer'[q].pc = "over" /\ ~refer'[q].accepted
        /\ \A p \in Refers \ {q} :
              refer'[p].pc = refer[p].pc /\ refer'[p].accepted = refer[p].accepted
    <3>1. refer' = [p \in Refers |->
                 [refer[p] EXCEPT !.pc = IF p = q THEN "over" ELSE refer[p].pc,
                                  !.timer = IF p = r THEN "off"
                                            ELSE IF p = q THEN Referral!Stopped(q) ELSE refer[p].timer]]
      BY <2>1
    <3>2. ASSUME NEW p \in Refers
          PROVE  /\ refer'[p] \in ReferRecords /\ refer'[p].accepted = refer[p].accepted
                 /\ refer'[p].pc = IF p = q THEN "over" ELSE refer[p].pc
      <4>1. refer[p] \in ReferRecords
        BY <2>3
      <4> QED BY <4>1, <3>1, <2>5 DEF ReferRecords
    <3> QED BY <3>1, <3>2, <2>3
  <2>7. UNCHANGED <<notified, dialled>>
    BY DEF Referral!DeclineReferOnTimeout
  <2>2. OthersUntouched(q) /\ ReferMatches(q)'
    BY <2>3, <2>4, <2>6, <2>7, CallsAssumption DEF OthersUntouched, Responded,
       ReferMatches, Answered, TransferInv, Referral!TypeOK
  <2> QED BY <2>1, <2>2, ReferStep DEF TransferInv, Referral!TypeOK,
          Referral!DeclineReferOnTimeout, Referral!outVars, Referral!TakeIfPending
<1> QED BY <1>1, <1>2 DEF Referral!DeclineReferOnTimeout

LEMMA DialledEndsOK ==
    ASSUME TransferInv, NEW r \in Refers, Referral!DialledEnds(r) PROVE TransferInv'
<1>1. OthersUntouched(r) /\ ReferMatches(r)'
  BY CallsAssumption DEF TransferInv, Referral!TypeOK, Referral!DialledEnds, ReferMatches,
     Answered, OthersUntouched, ReferRecords, ReplyRecords, Referral!outVars
<1> QED BY <1>1, ReferStep
        DEF TransferInv, Referral!TypeOK, Referral!DialledEnds, Referral!outVars, Referral!End

LEMMA OriginateFailsOK ==
    ASSUME TransferInv, NEW r \in Refers, Referral!OriginateFails(r) PROVE TransferInv'
<1>0. Answered(r, 1, 0) /\ refer[r].accepted /\ notified[r] = 0 /\ parked # r
  BY DEF TransferInv, Referral!OriginateFails, ReferMatches, Answered
<1>1. OthersUntouched(r) /\ ReferMatches(r)'
  <2>1. Moved(r, "over", refer[r].accepted) /\ Told(r, 1) /\ UNCHANGED <<parked, replies>>
    BY <1>0, TransferTypes, MoveOK, NotifyOK DEF Referral!OriginateFails, Points
  <2>2. dialled' \in [Refers -> {"none", "ringing", "connected", "ended"}]
    BY TransferTypes DEF Referral!OriginateFails
  <2> QED BY <2>1, <2>2, <1>0, TransferTypes DEF TransferInv, ReferMatches, Answered,
          OthersUntouched, Moved, Told
<1> QED BY <1>1, ReferStep
        DEF TransferInv, Referral!TypeOK, Referral!OriginateFails, Referral!outVars, Referral!End

LEMMA OriginateConnectsOK ==
    ASSUME TransferInv, NEW r \in Refers, Referral!OriginateConnects(r) PROVE TransferInv'
<1>0. Answered(r, 1, 0) /\ refer[r].accepted /\ notified[r] = 0 /\ parked # r
  BY DEF TransferInv, Referral!OriginateConnects, ReferMatches, Answered
<1>1. OthersUntouched(r) /\ ReferMatches(r)'
  <2>1. Moved(r, "connected", refer[r].accepted) /\ UNCHANGED <<parked, replies, notified>>
    BY <1>0, TransferTypes, MoveOK, NotifyOK DEF Referral!OriginateConnects, Points
  <2>2. dialled' \in [Refers -> {"none", "ringing", "connected", "ended"}]
    BY TransferTypes DEF Referral!OriginateConnects
  <2> QED BY <2>1, <2>2, <1>0, TransferTypes DEF TransferInv, ReferMatches, Answered,
          OthersUntouched, Moved, Told
<1> QED BY <1>1, ReferStep
        DEF TransferInv, Referral!TypeOK, Referral!OriginateConnects, Referral!outVars, Referral!End

LEMMA NotifyConnectedOK ==
    ASSUME TransferInv, NEW r \in Refers, Referral!NotifyConnected(r) PROVE TransferInv'
<1>0. Answered(r, 1, 0) /\ refer[r].accepted /\ notified[r] = 0 /\ parked # r
  BY DEF TransferInv, Referral!NotifyConnected, ReferMatches, Answered
<1>1. OthersUntouched(r) /\ ReferMatches(r)'
  <2>1. Moved(r, "notified", refer[r].accepted) /\ Told(r, 1) /\ UNCHANGED <<parked, replies>>
    BY <1>0, TransferTypes, MoveOK, NotifyOK DEF Referral!NotifyConnected, Points
  <2>2. dialled' \in [Refers -> {"none", "ringing", "connected", "ended"}]
    BY TransferTypes DEF Referral!NotifyConnected
  <2> QED BY <2>1, <2>2, <1>0, TransferTypes DEF TransferInv, ReferMatches, Answered,
          OthersUntouched, Moved, Told
<1> QED BY <1>1, ReferStep
        DEF TransferInv, Referral!TypeOK, Referral!NotifyConnected, Referral!outVars, Referral!End

LEMMA ReferrerEndsOK ==
    ASSUME TransferInv, NEW r \in Refers, Referral!ReferrerEnds(r) PROVE TransferInv'
<1>1. OthersUntouched(r) /\ ReferMatches(r)'
  BY CallsAssumption, SMTT(30) DEF TransferInv, Referral!TypeOK, Referral!ReferrerEnds, ReferMatches,
     Answered, OthersUntouched, ReferRecords, ReplyRecords, Referral!outVars
<1> QED BY <1>1, ReferStep
        DEF TransferInv, Referral!TypeOK, Referral!ReferrerEnds, Referral!outVars, Referral!End

\* What a step on a transfer leaves of the REFERs.
LEMMA TransferStep ==
    ASSUME TransferInv, UNCHANGED <<parked, refer, replies, notified>>, Referral!TypeOK',
           (\A t \in Transfers : TransferMatches(t))', NotifyMatches'
    PROVE  TransferInv'
BY DEF TransferInv, ReferMatches, Answered

LEMMA TransfersOK ==
    ASSUME TransferInv, NEW t \in Transfers,
           \/ Referral!TransferLeg(t) \/ Referral!AnswerRefer(t)
           \/ Referral!ReferFailed(t) \/ Referral!NotifyArrives(t)
    PROVE  TransferInv'
<1> USE CallsAssumption DEF TransferInv
<1>1. UNCHANGED <<parked, refer, replies, notified, dialled, autoDial, legEnd>>
  BY DEF Referral!TransferLeg, Referral!AnswerRefer, Referral!ReferFailed, Referral!NotifyArrives,
         Referral!inVars
<1>2. Referral!TypeOK'
  <2>1. told' \in EventRecords
    BY PublishOK DEF Referral!TypeOK, Referral!TransferLeg, Referral!AnswerRefer,
       Referral!ReferFailed, Referral!NotifyArrives, EventRecords
  <2>2. CASE Referral!TransferLeg(t) \/ Referral!ReferFailed(t)
    BY <1>1, <2>1, <2>2 DEF Referral!TypeOK, Referral!TransferLeg, Referral!ReferFailed, EventRecords
  <2>4. CASE Referral!AnswerRefer(t)
    <3>1. transfer' \in [Transfers -> TransferPoints]
      BY <2>4 DEF Referral!TypeOK, Referral!AnswerRefer, TransferPoints
    <3> QED BY <3>1, <1>1, <2>1, <2>4 DEF Referral!TypeOK, Referral!AnswerRefer, EventRecords,
            TransferPoints
  <2>3. CASE Referral!NotifyArrives(t)
    <3>1. notify' \in NotifyRecords
      BY <2>3 DEF Referral!TypeOK, Referral!NotifyArrives, NotifyRecords
    <3> QED BY <1>1, <2>1, <2>3, <3>1 DEF Referral!TypeOK, Referral!NotifyArrives, EventRecords,
            NotifyRecords
  <2> QED BY <2>2, <2>3, <2>4
<1>3. ASSUME NEW u \in Transfers PROVE TransferMatches(u)'
  <2>1. CASE Referral!TransferLeg(t)
    BY <2>1 DEF TransferMatches, NotifyMatches, UnderWay, Untold, Referral!TransferLeg,
         Referral!Publish, Referral!TypeOK
  <2>2. CASE Referral!AnswerRefer(t)
    BY <2>2 DEF TransferMatches, NotifyMatches, UnderWay, Untold, Referral!AnswerRefer,
         Referral!TypeOK
  <2>3. CASE Referral!ReferFailed(t)
    BY <2>3 DEF TransferMatches, NotifyMatches, UnderWay, Untold, Referral!ReferFailed,
         Referral!Publish, Referral!TypeOK
  <2>4. CASE Referral!NotifyArrives(t)
    BY <2>4 DEF TransferMatches, NotifyMatches, UnderWay, Untold, Referral!NotifyArrives,
         Referral!TypeOK
  <2> QED BY <2>1, <2>2, <2>3, <2>4
<1>4. NotifyMatches'
  <2>1. CASE Referral!TransferLeg(t)
    BY <2>1 DEF TransferMatches, NotifyMatches, UnderWay, Untold, Referral!TransferLeg,
         Referral!Publish, Referral!TypeOK
  <2>2. CASE Referral!AnswerRefer(t)
    BY <2>2 DEF TransferMatches, NotifyMatches, UnderWay, Untold, Referral!AnswerRefer,
         Referral!TypeOK
  <2>3. CASE Referral!ReferFailed(t)
    BY <2>3 DEF TransferMatches, NotifyMatches, UnderWay, Untold, Referral!ReferFailed,
         Referral!Publish, Referral!TypeOK
  <2>4. CASE Referral!NotifyArrives(t)
    BY <2>4 DEF TransferMatches, NotifyMatches, UnderWay, Untold, Referral!NotifyArrives,
         Referral!TypeOK
  <2> QED BY <2>1, <2>2, <2>3, <2>4
<1> QED BY <1>1, <1>2, <1>3, <1>4, TransferStep

LEMMA NotifiesOK ==
    ASSUME TransferInv, Referral!NotifyResolves \/ Referral!NotifyEnds \/ Referral!LegEnds
    PROVE  TransferInv'
<1> USE CallsAssumption DEF TransferInv, Referral!NotifyResolves, Referral!NotifyEnds,
        Referral!LegEnds, Referral!End, Referral!inVars, Referral!outVars
<1>1. UNCHANGED <<parked, refer, replies, notified, dialled, autoDial>>
  OBVIOUS
<1>2. Referral!TypeOK'
  <2>1. CASE Referral!NotifyResolves
    <3>1. told' \in EventRecords
      <4>0. notify.of \in Transfers /\ told \in EventRecords
        BY <2>1 DEF NotifyMatches, Referral!TypeOK, EventRecords
      <4>1. CASE notify.ok
        BY <4>0, <4>1, <2>1, PublishOK
      <4>2. CASE ~notify.ok
        BY <4>0, <4>2, <2>1, PublishOK
      <4> QED BY <4>1, <4>2
    <3> QED BY <1>1, <2>1, <3>1, SMTT(30) DEF Referral!TypeOK, EventRecords
  <2>2. CASE Referral!NotifyEnds
    <3>1. notify' \in NotifyRecords
      BY <2>2 DEF NotifyRecords
    <3> QED BY <3>1, <1>1, <2>2 DEF Referral!TypeOK, NotifyRecords
  <2>3. CASE Referral!LegEnds
    BY <1>1, <2>3 DEF Referral!TypeOK
  <2> QED BY <2>1, <2>2, <2>3
<1>3. \A u \in Transfers : TransferMatches(u)'
  BY SMTT(30) DEF TransferMatches, NotifyMatches, UnderWay, Untold, Referral!Publish, Referral!TypeOK
<1>4. NotifyMatches'
  BY SMTT(30) DEF TransferMatches, NotifyMatches, UnderWay, Untold, Referral!Publish, Referral!TypeOK
<1> QED BY <1>1, <1>2, <1>3, <1>4, TransferStep

LEMMA TransferInit == Referral!Init => TransferInv
BY CallsAssumption DEF Referral!Init, TransferInv, Referral!TypeOK, ReferMatches, Answered,
   TransferMatches, NotifyMatches, UnderWay, Untold

LEMMA TransferNext == TransferInv /\ Referral!Next => TransferInv'
BY SendReferOK, HandleIncomingReferOK, AcceptTransferOK, AcceptedOK, CompleteTransferOK,
   DeclineTransferOK, ConsultTimeoutOK, DeclineReferOnTimeoutOK, DialledEndsOK,
   OriginateFailsOK, OriginateConnectsOK, NotifyConnectedOK, ReferrerEndsOK, TransfersOK,
   NotifiesOK DEF Referral!Next

LEMMA TransferStutters == TransferInv /\ UNCHANGED transferVars => TransferInv'
BY DEF transferVars, TransferInv, Referral!TypeOK, ReferMatches, Answered, TransferMatches,
   NotifyMatches, UnderWay, Untold

LEMMA TransferSound == TransferInv => Referral!TypeOK /\ Referral!SettledOnce
BY CallsAssumption DEF TransferInv, Referral!TypeOK, Referral!SettledOnce, ReferMatches, Answered,
   NotifyMatches

AgentRecords == [pc : {"new", "checked", "prepared", "spawned", "running", "returned", "done"},
                 cancelled : BOOLEAN, closed : BOOLEAN, torn : {"no", "popped", "done"}]

\* What every step of an agent's needs of the types.
AgentTypes ==
    /\ agent \in [Sessions -> AgentRecords]
    /\ attached \in [Listeners!HeldKinds -> Sessions \cup {None}]
    /\ speaking \subseteq Sessions /\ participantTap \in Sessions \cup {None}
    /\ legInRoom \in BOOLEAN /\ cleanup \subseteq Listeners!HeldKinds

LEMMA KindsOK ==
    /\ Listeners!HeldKinds \subseteq {"agent", "roomAgent"}
    /\ \A s \in Sessions : Kind[s] \in Listeners!HeldKinds /\ Kind[s] \in {"agent", "roomAgent"}
    /\ "stt" \notin Listeners!HeldKinds
BY CallsAssumption DEF Listeners!HeldKinds

LEMMA AgentTyped == Listeners!TypeOK <=> AgentTypes
BY DEF Listeners!TypeOK, AgentTypes, AgentRecords

\* An agent comes to another point and its flags stay.
AgentGoes(s, p) ==
    /\ agent' \in [Sessions -> AgentRecords]
    /\ \A u \in Sessions \ {s} : agent'[u] = agent[u]
    /\ agent'[s].pc = p /\ agent'[s].closed = agent[s].closed
    /\ agent'[s].cancelled = agent[s].cancelled /\ agent'[s].torn = agent[s].torn

LEMMA GotoOK ==
    ASSUME NEW s \in Sessions, agent \in [Sessions -> AgentRecords],
           NEW p \in {"new", "checked", "prepared", "spawned", "running", "returned", "done"},
           Listeners!Goto(s, p)
    PROVE  AgentGoes(s, p)
BY DEF AgentGoes, AgentRecords, Listeners!Goto

\* An agent that is registered under a kind is taken off it.
AgentTorn(s) ==
    /\ agent' \in [Sessions -> AgentRecords]
    /\ \A u \in Sessions \ {s} : agent'[u] = agent[u]
    /\ agent'[s].pc = agent[s].pc /\ agent'[s].closed = agent[s].closed
    /\ agent'[s].cancelled = agent[s].cancelled /\ agent'[s].torn = "popped"

LEMMA TornOK ==
    ASSUME NEW s \in Sessions, agent \in [Sessions -> AgentRecords], agent' = Listeners!Torn(s)
    PROVE  AgentTorn(s)
BY DEF AgentTorn, AgentRecords, Listeners!Torn

LEMMA AgentFacts ==
    ASSUME AgentInv
    PROVE  /\ AgentTypes /\ OneStarter
           /\ \A s \in Sessions : AgentMatches(s)
BY AgentTyped DEF AgentInv

LEMMA AgentDone ==
    ASSUME AgentTypes', OneStarter', \A s \in Sessions : AgentMatches(s)'
    PROVE  AgentInv'
BY DEF AgentInv, Listeners!TypeOK, AgentTypes, AgentRecords

LEMMA CheckOK ==
    ASSUME AgentInv, NEW s \in Sessions, Listeners!Check(s) PROVE AgentInv'
<1> USE AgentFacts, KindsOK, CallsAssumption
<1>1. AgentGoes(s, "checked") /\ attached[Kind[s]] = None /\ agent[s].pc = "new"
      /\ UNCHANGED <<legInRoom, participantTap, speaking, cleanup, attached>>
      /\ \A u \in Sessions : ~Preparing(u)
  BY GotoOK DEF Listeners!Check, AgentTypes, Listeners!Quiet, Listeners!Calling, Preparing
<1>2. AgentTypes'
  BY <1>1 DEF AgentTypes, AgentGoes
<1>3. OneStarter'
  BY <1>1 DEF OneStarter, Preparing, AgentGoes
<1>4. ASSUME NEW u \in Sessions PROVE AgentMatches(u)'
  BY <1>1 DEF AgentMatches, Preparing, AgentGoes, Registered, Leaving
<1> QED BY <1>2, <1>3, <1>4, AgentDone

LEMMA PrepareOK ==
    ASSUME AgentInv, NEW s \in Sessions, Listeners!Prepare(s) PROVE AgentInv'
<1> USE AgentFacts, KindsOK, CallsAssumption
<1>1. AgentGoes(s, "prepared") /\ agent[s].pc = "checked"
      /\ UNCHANGED <<legInRoom, cleanup, attached>>
      /\ speaking' \subseteq speaking \cup {s} /\ participantTap' \in {s, participantTap}
      /\ (participantTap' = s => participantTap = s \/ Kind[s] # "roomAgent")
  BY GotoOK DEF Listeners!Prepare, AgentTypes
<1>2. AgentTypes'
  BY <1>1 DEF AgentTypes, AgentGoes
<1>3. OneStarter'
  BY <1>1 DEF OneStarter, Preparing, AgentGoes
<1>4. ASSUME NEW u \in Sessions PROVE AgentMatches(u)'
  BY <1>1 DEF AgentMatches, Preparing, AgentGoes, Registered, Leaving, AgentTypes
<1> QED BY <1>2, <1>3, <1>4, AgentDone

LEMMA RegisterOK ==
    ASSUME AgentInv, NEW s \in Sessions, Listeners!Register(s) PROVE AgentInv'
<1> USE AgentFacts, KindsOK, CallsAssumption
<1>1. AgentGoes(s, "spawned") /\ agent[s].pc = "prepared"
      /\ UNCHANGED <<legInRoom, cleanup, participantTap, speaking>>
      /\ attached[Kind[s]] = None /\ attached' = [attached EXCEPT ![Kind[s]] = s]
  BY GotoOK DEF Listeners!Register, AgentTypes, AgentMatches, Preparing
<1>2. AgentTypes'
  BY <1>1 DEF AgentTypes, AgentGoes
<1>3. OneStarter'
  BY <1>1 DEF OneStarter, Preparing, AgentGoes
<1>4. ASSUME NEW u \in Sessions PROVE AgentMatches(u)'
  <2>1. u # s => ~Preparing(u)
    BY <1>1 DEF OneStarter, Preparing
  <2> QED BY <1>1, <2>1 DEF AgentMatches, Preparing, AgentGoes, Registered, Leaving, AgentTypes
<1> QED BY <1>2, <1>3, <1>4, AgentDone

LEMMA BeginOK ==
    ASSUME AgentInv, NEW s \in Sessions, Listeners!Begin(s) \/ Listeners!Return(s) PROVE AgentInv'
<1> USE AgentFacts, KindsOK, CallsAssumption
<1>1. PICK p \in {"running", "returned"} :
         /\ AgentGoes(s, p)
         /\ agent[s].pc \in {"spawned", "running"}
         /\ UNCHANGED <<legInRoom, cleanup, participantTap, speaking, attached>>
  BY GotoOK DEF Listeners!Begin, Listeners!Return, AgentTypes
<1>2. AgentTypes'
  BY <1>1 DEF AgentTypes, AgentGoes
<1>3. OneStarter'
  BY <1>1 DEF OneStarter, Preparing, AgentGoes
<1>4. ASSUME NEW u \in Sessions PROVE AgentMatches(u)'
  BY <1>1 DEF AgentMatches, Preparing, AgentGoes, Registered, Leaving, AgentTypes
<1> QED BY <1>2, <1>3, <1>4, AgentDone

LEMMA ProviderEndsOK ==
    ASSUME AgentInv, NEW s \in Sessions, Listeners!ProviderEnds(s) PROVE AgentInv'
<1> USE AgentFacts, KindsOK, CallsAssumption
<1>1. /\ agent' \in [Sessions -> AgentRecords]
      /\ \A u \in Sessions : agent'[u].pc = agent[u].pc /\ agent'[u].closed = agent[u].closed
                             /\ agent'[u].torn = agent[u].torn
      /\ UNCHANGED <<legInRoom, cleanup, participantTap, speaking, attached>>
  <2> DEFINE gone == [agent[s] EXCEPT !.cancelled = TRUE]
  <2>1. agent[s] \in AgentRecords /\ agent \in [Sessions -> AgentRecords]
    BY DEF AgentTypes
  <2>2. gone \in AgentRecords /\ gone.pc = agent[s].pc /\ gone.closed = agent[s].closed
        /\ gone.torn = agent[s].torn
    BY <2>1 DEF AgentRecords
  <2>3. agent' = [agent EXCEPT ![s] = gone]
    BY DEF Listeners!ProviderEnds
  <2> HIDE DEF gone
  <2>4. agent' \in [Sessions -> AgentRecords]
    BY <2>1, <2>2, <2>3
  <2>5. ASSUME NEW u \in Sessions
        PROVE  agent'[u].pc = agent[u].pc /\ agent'[u].closed = agent[u].closed /\ agent'[u].torn = agent[u].torn
    <3>1. CASE u = s
      BY <2>1, <2>2, <2>3, <3>1
    <3>2. CASE u # s
      BY <2>1, <2>3, <3>2
    <3> QED BY <3>1, <3>2
  <2> QED BY <2>4, <2>5 DEF Listeners!ProviderEnds
<1>2. AgentTypes'
  BY <1>1 DEF AgentTypes
<1>3. OneStarter'
  BY <1>1 DEF OneStarter, Preparing
<1>4. ASSUME NEW u \in Sessions PROVE AgentMatches(u)'
  BY <1>1 DEF AgentMatches, Preparing, Registered, Leaving, AgentTypes
<1> QED BY <1>2, <1>3, <1>4, AgentDone

\* Whoever takes an agent off its map owes it its end.
LEMMA PopStep ==
    ASSUME AgentInv, NEW k \in Listeners!HeldKinds, attached[k] # None,
           attached' = [attached EXCEPT ![k] = None], AgentTorn(attached[k]),
           cleanup' \subseteq cleanup, UNCHANGED <<legInRoom, participantTap, speaking>>
    PROVE  AgentInv'
<1> USE AgentFacts, KindsOK, CallsAssumption
<1>0. attached[k] \in Sessions /\ k = Kind[attached[k]]
  BY DEF AgentTypes, AgentMatches
<1>2. AgentTypes'
  BY DEF AgentTypes, AgentTorn
<1>3. OneStarter'
  BY <1>0 DEF OneStarter, Preparing, AgentTorn
<1>4. ASSUME NEW u \in Sessions PROVE AgentMatches(u)'
  BY <1>0 DEF AgentMatches, Preparing, AgentTorn, Registered, Leaving, AgentTypes
<1> QED BY <1>2, <1>3, <1>4, AgentDone

LEMMA DetachOK ==
    ASSUME AgentInv, NEW k \in Listeners!HeldKinds, Listeners!Detach(k) \/ Listeners!CleanupLeg(k)
    PROVE  AgentInv'
<1> USE AgentFacts, KindsOK, CallsAssumption
<1>1. CASE attached[k] = None
  <2>1. UNCHANGED <<agent, attached, legInRoom, participantTap, speaking>> /\ cleanup' \subseteq cleanup
    BY <1>1 DEF Listeners!Detach, Listeners!CleanupLeg, Listeners!Pop
  <2>2. AgentTypes' /\ OneStarter'
    BY <2>1 DEF AgentTypes, OneStarter, Preparing
  <2>3. ASSUME NEW u \in Sessions PROVE AgentMatches(u)'
    BY <2>1 DEF AgentMatches, Preparing, Registered, Leaving
  <2> QED BY <2>2, <2>3, AgentDone
<1>2. CASE attached[k] # None
  <2>1. /\ attached' = [attached EXCEPT ![k] = None] /\ AgentTorn(attached[k])
        /\ cleanup' \subseteq cleanup /\ UNCHANGED <<legInRoom, participantTap, speaking>>
    BY <1>2, TornOK DEF Listeners!Detach, Listeners!CleanupLeg, Listeners!Pop, AgentTypes
  <2> QED BY <2>1, <1>2, PopStep
<1> QED BY <1>1, <1>2

LEMMA TearDownOK ==
    ASSUME AgentInv, NEW s \in Sessions, Listeners!TearDown(s) PROVE AgentInv'
<1> USE AgentFacts, KindsOK, CallsAssumption
<1>1. /\ agent' \in [Sessions -> AgentRecords]
      /\ \A u \in Sessions \ {s} : agent'[u] = agent[u]
      /\ agent'[s].pc = agent[s].pc /\ agent'[s].closed
      /\ agent[s].torn = "popped"
      /\ UNCHANGED <<legInRoom, cleanup, attached>>
      /\ speaking' = speaking \ {s}
      /\ Kind[s] # "roomAgent" => participantTap' = None
      /\ Kind[s] = "roomAgent" => participantTap' = participantTap
  <2>1. agent[s] \in AgentRecords
    BY DEF AgentTypes
  <2> DEFINE gone == [agent[s] EXCEPT !.torn = "done",
                 !.cancelled = agent[s].cancelled \/ agent[s].pc = "running" \/ Kind[s] = "roomAgent",
                 !.closed = Kind[s] # "stt"]
  <2>2. gone \in AgentRecords /\ gone.pc = agent[s].pc /\ gone.closed
    BY <2>1 DEF AgentRecords
  <2>5. agent' = [agent EXCEPT ![s] = gone]
    BY DEF Listeners!TearDown
  <2>0. agent \in [Sessions -> AgentRecords]
    BY DEF AgentTypes
  <2> HIDE DEF gone
  <2>3. agent' \in [Sessions -> AgentRecords]
    BY <2>0, <2>2, <2>5
  <2>4. /\ \A u \in Sessions \ {s} : agent'[u] = agent[u]
        /\ agent'[s].pc = agent[s].pc /\ agent'[s].closed
    BY <2>0, <2>2, <2>5
  <2> QED BY <2>3, <2>4 DEF Listeners!TearDown
<1>0. AgentTypes
  OBVIOUS
<1>2. AgentTypes'
  BY <1>1 DEF AgentTypes
<1>3. OneStarter'
  BY <1>1 DEF OneStarter, Preparing
<1>4. ASSUME NEW u \in Sessions PROVE AgentMatches(u)'
  BY <1>1 DEF AgentMatches, Preparing, Registered, Leaving, AgentTypes
<1> QED BY <1>2, <1>3, <1>4, AgentDone

LEMMA ExitOK ==
    ASSUME AgentInv, NEW s \in Sessions, Listeners!Exit(s) PROVE AgentInv'
<1> USE AgentFacts, KindsOK, CallsAssumption
<1> DEFINE other == attached[Kind[s]]
<1>0. Kind[s] # "stt" /\ other \in Sessions \cup {None}
  BY DEF AgentTypes
<1>1. /\ attached' = [attached EXCEPT ![Kind[s]] = None] /\ agent[s].pc = "returned"
      /\ UNCHANGED <<legInRoom, cleanup, speaking, participantTap>>
  BY <1>0 DEF Listeners!Exit
<1>2. /\ agent' \in [Sessions -> AgentRecords]
      /\ \A u \in Sessions : /\ agent'[u].pc = IF u = s THEN "done" ELSE agent[u].pc
                             /\ agent'[u].closed = agent[u].closed
                             /\ agent'[u].torn = IF u = other THEN "popped" ELSE agent[u].torn
  <2>1. CASE other = None
    <3>1. Listeners!Goto(s, "done")
      BY <2>1, <1>0 DEF Listeners!Exit, Listeners!Goto
    <3>2. AgentGoes(s, "done")
      BY <3>1, GotoOK DEF AgentTypes
    <3> QED BY <3>2, <2>1 DEF AgentGoes
  <2>2. CASE other # None
    <3> DEFINE back == [agent EXCEPT ![s].pc = "done"]
    <3>1. agent' = [back EXCEPT ![other].torn = "popped"]
      BY <2>2, <1>0 DEF Listeners!Exit
    <3>2. /\ back \in [Sessions -> AgentRecords]
          /\ \A u \in Sessions : /\ back[u].pc = IF u = s THEN "done" ELSE agent[u].pc
                                 /\ back[u].closed = agent[u].closed
                                 /\ back[u].torn = agent[u].torn
      BY SMTT(30) DEF AgentTypes, AgentRecords
    <3> HIDE DEF back
    <3>3. other \in Sessions
      BY <2>2, <1>0
    <3> HIDE DEF other
    <3> QED BY <3>1, <3>2, <3>3 DEF AgentRecords
  <2> QED BY <2>1, <2>2
<1>3. AgentTypes'
  BY <1>1, <1>2 DEF AgentTypes
<1>4. OneStarter'
  BY <1>1, <1>2 DEF OneStarter, Preparing
<1>5. ASSUME NEW u \in Sessions PROVE AgentMatches(u)'
  <2>1. \A k \in Listeners!HeldKinds : attached'[k] = IF k = Kind[s] THEN None ELSE attached[k]
    BY <1>1 DEF AgentTypes
  <2>2. AgentMatches(u) /\ AgentMatches(s)
    OBVIOUS
  <2>3. UNCHANGED <<speaking, participantTap>>
    BY <1>1
  <2> QED BY <1>1, <1>2, <2>1, <2>2, <2>3 DEF AgentMatches, Preparing, Registered, Leaving
<1> QED BY <1>3, <1>4, <1>5, AgentDone

LEMMA AgentLegEndsOK ==
    ASSUME AgentInv, Listeners!LegEnds PROVE AgentInv'
<1> USE AgentFacts, KindsOK, CallsAssumption
<1>1. /\ agent' \in [Sessions -> AgentRecords]
      /\ \A u \in Sessions : agent'[u].pc = agent[u].pc /\ agent'[u].closed = agent[u].closed
                             /\ agent'[u].torn = agent[u].torn
      /\ UNCHANGED <<speaking, attached>> /\ participantTap' = None
      /\ cleanup' \subseteq Listeners!HeldKinds /\ legInRoom' \in BOOLEAN
  <2>1. ASSUME NEW u \in Sessions
        PROVE  /\ agent'[u] \in AgentRecords
               /\ agent'[u].pc = agent[u].pc /\ agent'[u].closed = agent[u].closed
               /\ agent'[u].torn = agent[u].torn
    <3>1. agent[u] \in AgentRecords
      BY DEF AgentTypes
    <3>2. agent'[u] = [agent[u] EXCEPT !.cancelled = agent[u].cancelled
                         \/ (agent[u].pc = "running" /\ Kind[u] # "roomAgent")]
      BY DEF Listeners!LegEnds
    <3> QED BY <3>1, <3>2 DEF AgentRecords
  <2>2. agent' = [u \in Sessions |-> agent'[u]]
    BY DEF Listeners!LegEnds
  <2> QED BY <2>1, <2>2 DEF Listeners!LegEnds
<1>2. AgentTypes'
  BY <1>1 DEF AgentTypes
<1>3. OneStarter'
  BY <1>1 DEF OneStarter, Preparing
<1>4. ASSUME NEW u \in Sessions PROVE AgentMatches(u)'
  BY <1>1 DEF AgentMatches, Preparing, Registered, Leaving, AgentTypes
<1> QED BY <1>2, <1>3, <1>4, AgentDone

LEMMA AgentInit == Listeners!Init => AgentInv
<1> SUFFICES ASSUME Listeners!Init PROVE AgentInv
  OBVIOUS
<1> USE KindsOK, CallsAssumption DEF Listeners!Init
<1>1. Listeners!TypeOK
  BY DEF Listeners!TypeOK
<1>2. \A s \in Sessions : AgentMatches(s)
  BY DEF AgentMatches, Preparing, Registered, Leaving
<1>3. OneStarter
  BY DEF OneStarter, Preparing
<1> QED BY <1>1, <1>2, <1>3 DEF AgentInv

LEMMA AgentNext == AgentInv /\ Listeners!Next => AgentInv'
BY CheckOK, PrepareOK, RegisterOK, BeginOK, ProviderEndsOK, DetachOK, TearDownOK, ExitOK,
   AgentLegEndsOK DEF Listeners!Next

LEMMA AgentStutters == AgentInv /\ UNCHANGED agentVars => AgentInv'
BY DEF agentVars, AgentInv, Listeners!TypeOK, AgentMatches, OneStarter, Preparing, Registered, Leaving

LEMMA AgentSound == AgentInv => Listeners!TypeOK /\ Listeners!NothingIsOrphaned
<1> SUFFICES ASSUME AgentInv PROVE Listeners!NothingIsOrphaned
  BY DEF AgentInv
<1> QED BY KindsOK, AgentFacts DEF Listeners!NothingIsOrphaned, Listeners!AtRest, Listeners!Calling,
        AgentMatches, Preparing, Registered, Leaving, AgentTypes, AgentRecords

Telling == {"staged", "started", "stopped", "discarded", "error", "finished"}
UttRecord(u) ==
    [kind : {"none"} \cup Kinds[u], entry : {"none", "synthesizing", "ready", "committed", "done"},
     synth : {"none", "running", "ok", "failed", "settled"},
     pc : {"none", "staged", "committing", "waiting", "ready", "playing", "ended", "left", "over"},
     owed : {"none", "discarded", "error", "finished"}, cancelled : BOOLEAN,
     told : SUBSET Telling, ends : 0 .. 1]

\* What one utterance's step leaves of the tables.
Tables(u) ==
    /\ staged' \subseteq Utts /\ staged' \ {u} = staged \ {u}
    /\ players' \subseteq Utts /\ players' \ {u} = players \ {u}
    /\ source' \subseteq Utts
    /\ UNCHANGED <<heard, mixing>>

UttOK(u) == UttMatches(u) /\ EndMatches(u) /\ DiscardMatches(u)

\* The instance of Utterances counts as FiniteSets does.
LEMMA SameCount == \A S : Speech!Cardinality(S) = Cardinality(S)
BY Zenon DEF Speech!Cardinality, Cardinality

LEMMA StagedCounts ==
    ASSUME SpeechInv, NEW u \in Utts, staged' \subseteq Utts,
           \/ staged' \subseteq staged
           \/ staged' = staged \cup {u} /\ Cardinality(staged) < MaxPerLeg
    PROVE  IsFiniteSet(staged') /\ Cardinality(staged') <= MaxPerLeg
<1>1. IsFiniteSet(staged) /\ Cardinality(staged) <= MaxPerLeg /\ Cardinality(staged) \in Nat
      /\ MaxPerLeg \in Nat
  <2>1. IsFiniteSet(staged) /\ Cardinality(staged) <= MaxPerLeg
    BY SameCount DEF SpeechInv, Speech!TypeOK
  <2> QED BY <2>1, FS_CardinalityType, CallsAssumption
<1>2. CASE staged' \subseteq staged
  <2>1. IsFiniteSet(staged') /\ Cardinality(staged') <= Cardinality(staged)
    BY <1>1, <1>2, FS_Subset
  <2>2. Cardinality(staged') \in Nat
    BY <2>1, FS_CardinalityType
  <2> QED BY <1>1, <2>1, <2>2
<1>3. CASE staged' = staged \cup {u} /\ Cardinality(staged) < MaxPerLeg
  <2>1. IsFiniteSet(staged') /\ (Cardinality(staged') = Cardinality(staged) + 1
                                 \/ Cardinality(staged') = Cardinality(staged))
    BY <1>1, <1>3, FS_AddElement
  <2> QED BY <1>1, <1>3, <2>1
<1> QED BY <1>2, <1>3

LEMMA UttStep ==
    ASSUME SpeechInv, NEW u \in Utts, utt' = [utt EXCEPT ![u] = utt'[u]], utt'[u] \in UttRecord(u),
           Tables(u), UttOK(u)',
           \/ staged' \subseteq staged
           \/ staged' = staged \cup {u} /\ Cardinality(staged) < MaxPerLeg
    PROVE  SpeechInv'
<1>1. IsFiniteSet(staged') /\ Cardinality(staged') <= MaxPerLeg
  BY StagedCounts DEF Tables
<1>2. \A v \in Utts \ {u} : utt'[v] = utt[v]
  <2>1. utt = [v \in Utts |-> utt[v]]
    BY DEF SpeechInv
  <2> QED BY <2>1
<1>3. utt' = [v \in Utts |-> utt'[v]]
  BY DEF SpeechInv
<1>4. \A v \in Utts : utt'[v] \in UttRecord(v)
  BY <1>2 DEF SpeechInv, Speech!TypeOK, UttRecord, Speech!Utterance, Telling
<1>5. Speech!TypeOK'
  <2>1. \A v \in Utts : utt'[v] \in Speech!Utterance(v)
    BY <1>4 DEF UttRecord, Speech!Utterance, Telling
  <2>2. /\ staged' \subseteq Utts /\ players' \subseteq Utts /\ source' \subseteq Utts
        /\ heard' \in {"live", "over"} /\ mixing' \in BOOLEAN
    BY DEF Tables, SpeechInv, Speech!TypeOK
  <2> QED BY SameCount, <1>1, <2>1, <2>2 DEF Speech!TypeOK
<1>6. ASSUME NEW v \in Utts PROVE UttOK(v)'
  <2>1. CASE v = u
    BY <2>1
  <2>2. CASE v # u
    <3>1. utt'[v] = utt[v] /\ (v \in staged' <=> v \in staged) /\ (v \in players' <=> v \in players)
      BY <2>2, <1>2 DEF Tables
    <3>2. UttOK(v)
      BY DEF SpeechInv, UttOK
    <3> QED BY <3>1, <3>2 DEF UttOK, UttMatches, EndMatches, DiscardMatches, Speech!Discardable
  <2> QED BY <2>1, <2>2
<1> QED BY <1>1, <1>3, <1>5, <1>6 DEF SpeechInv, UttOK

\* An utterance's record, field by field.
Fields(u, k, e, s, p, o, t, n) ==
    /\ utt' = [utt EXCEPT ![u] = utt'[u]] /\ utt'[u] \in UttRecord(u)
    /\ utt'[u].kind = k /\ utt'[u].entry = e /\ utt'[u].synth = s /\ utt'[u].pc = p
    /\ utt'[u].owed = o /\ utt'[u].told = t /\ utt'[u].ends = n

LEMMA BecomeOK ==
    ASSUME SpeechInv, NEW u \in Utts, NEW r \in UttRecord(u), Speech!Become(u, r)
    PROVE  Fields(u, r.kind, r.entry, r.synth, r.pc, r.owed, r.told, r.ends)
<1>1. utt'[u] = r
  BY DEF Speech!Become, SpeechInv
<1> QED BY <1>1 DEF Fields, Speech!Become

LEMMA UttFacts ==
    ASSUME SpeechInv, NEW u \in Utts
    PROVE  /\ utt[u] \in UttRecord(u) /\ UttOK(u)
           /\ staged \subseteq Utts /\ players \subseteq Utts /\ source \subseteq Utts
BY DEF SpeechInv, UttOK, Speech!TypeOK, UttRecord, Speech!Utterance, Telling

LEMMA CommitOK ==
    ASSUME SpeechInv, NEW u \in Utts, Speech!Commit(u) PROVE SpeechInv'
<1> DEFINE rec == [utt[u] EXCEPT !.entry = "committed", !.pc = "committing"]
<1>1. utt[u] \in UttRecord(u) /\ UttOK(u) /\ u \in staged /\ staged' = staged \ {u} /\ players' = players
  BY UttFacts DEF Speech!Commit, UttOK, EndMatches, UttRecord, Telling
<1>2. rec \in UttRecord(u)
  BY <1>1 DEF UttRecord, Telling
<1>3. /\ rec.kind = utt[u].kind /\ rec.entry = "committed" /\ rec.synth = utt[u].synth /\ rec.pc = "committing"
      /\ rec.owed = utt[u].owed /\ rec.told = utt[u].told /\ rec.ends = utt[u].ends
  BY <1>1 DEF UttRecord, Telling
<1>4. Speech!Become(u, rec) /\ Tables(u) /\ staged' \subseteq staged
  BY <1>1, UttFacts DEF Speech!Commit, Tables
<1> HIDE DEF rec
<1>5. Fields(u, utt[u].kind, "committed", utt[u].synth, "committing", utt[u].owed, utt[u].told, utt[u].ends)
  BY <1>2, <1>3, <1>4, BecomeOK
<1>6. UttMatches(u)'
  BY <1>1, <1>4, <1>5 DEF Fields, UttOK, UttMatches, EndMatches, DiscardMatches, Speech!Discardable, Tables
<1>7. EndMatches(u)'
  BY <1>1, <1>5 DEF Fields, UttOK, UttMatches, EndMatches, DiscardMatches, Speech!Discardable
<1>8. DiscardMatches(u)'
  BY <1>1, <1>5 DEF Fields, UttOK, UttMatches, EndMatches, DiscardMatches, Speech!Discardable
<1> QED BY <1>4, <1>5, <1>6, <1>7, <1>8, UttStep DEF Fields, UttOK

LEMMA RegisterLegPlayerOK ==
    ASSUME SpeechInv, NEW u \in Utts, Speech!RegisterLegPlayer(u) PROVE SpeechInv'
<1> DEFINE rec == [utt[u] EXCEPT !.pc = "waiting"]
<1>1. utt[u] \in UttRecord(u) /\ UttOK(u) /\ utt[u].pc = "committing" /\ UNCHANGED staged
  BY UttFacts DEF Speech!RegisterLegPlayer, UttOK, EndMatches, UttRecord, Telling
<1>2. rec \in UttRecord(u)
  BY <1>1 DEF UttRecord, Telling
<1>3. /\ rec.kind = utt[u].kind /\ rec.entry = utt[u].entry /\ rec.synth = utt[u].synth /\ rec.pc = "waiting"
      /\ rec.owed = utt[u].owed /\ rec.told = utt[u].told /\ rec.ends = utt[u].ends
  BY <1>1 DEF UttRecord, Telling
<1>4. Speech!Become(u, rec) /\ Tables(u) /\ staged' \subseteq staged
  BY <1>1, UttFacts DEF Speech!RegisterLegPlayer, Tables
<1> HIDE DEF rec
<1>5. Fields(u, utt[u].kind, utt[u].entry, utt[u].synth, "waiting", utt[u].owed, utt[u].told, utt[u].ends)
  BY <1>2, <1>3, <1>4, BecomeOK
<1>6. UttMatches(u)'
  BY <1>1, <1>4, <1>5 DEF Fields, UttOK, UttMatches, EndMatches, DiscardMatches, Speech!Discardable, Tables
<1>7. EndMatches(u)'
  BY <1>1, <1>5 DEF Fields, UttOK, UttMatches, EndMatches, DiscardMatches, Speech!Discardable
<1>8. DiscardMatches(u)'
  BY <1>1, <1>5 DEF Fields, UttOK, UttMatches, EndMatches, DiscardMatches, Speech!Discardable
<1> QED BY <1>4, <1>5, <1>6, <1>7, <1>8, UttStep DEF Fields, UttOK

LEMMA DiscardStagedOK ==
    ASSUME SpeechInv, NEW u \in Utts, Speech!DiscardStaged(u) PROVE SpeechInv'
<1> DEFINE rec == [utt[u] EXCEPT !.entry = "done", !.pc = "over", !.owed = "discarded"]
<1>1. utt[u] \in UttRecord(u) /\ UttOK(u) /\ Speech!Discardable(u) /\ staged' = staged \ {u} /\ players' = players
  BY UttFacts DEF Speech!DiscardStaged, UttOK, EndMatches, UttRecord, Telling
<1>2. rec \in UttRecord(u)
  BY <1>1 DEF UttRecord, Telling
<1>3. /\ rec.kind = utt[u].kind /\ rec.entry = "done" /\ rec.synth = utt[u].synth /\ rec.pc = "over"
      /\ rec.owed = "discarded" /\ rec.told = utt[u].told /\ rec.ends = utt[u].ends
  BY <1>1 DEF UttRecord, Telling
<1>4. Speech!Become(u, rec) /\ Tables(u) /\ staged' \subseteq staged
  BY <1>1, UttFacts DEF Speech!DiscardStaged, Tables
<1> HIDE DEF rec
<1>5. Fields(u, utt[u].kind, "done", utt[u].synth, "over", "discarded", utt[u].told, utt[u].ends)
  BY <1>2, <1>3, <1>4, BecomeOK
<1>6. UttMatches(u)'
  BY <1>1, <1>4, <1>5 DEF Fields, UttOK, UttMatches, EndMatches, DiscardMatches, Speech!Discardable, Tables
<1>7. EndMatches(u)'
  BY <1>1, <1>5 DEF Fields, UttOK, UttMatches, EndMatches, DiscardMatches, Speech!Discardable
<1>8. DiscardMatches(u)'
  BY <1>1, <1>5 DEF Fields, UttOK, UttMatches, EndMatches, DiscardMatches, Speech!Discardable
<1> QED BY <1>4, <1>5, <1>6, <1>7, <1>8, UttStep DEF Fields, UttOK

LEMMA StopOK ==
    ASSUME SpeechInv, NEW u \in Utts, Speech!Stop(u) PROVE SpeechInv'
<1> DEFINE rec == [utt[u] EXCEPT !.cancelled = @ \/ utt[u].pc = "playing",
                                  !.told = @ \cup {"stopped"}]
<1>1. utt[u] \in UttRecord(u) /\ UttOK(u) /\ u \in players /\ players' = players \ {u} /\ UNCHANGED staged
  BY UttFacts DEF Speech!Stop, UttOK, EndMatches, UttRecord, Telling
<1>2. rec \in UttRecord(u)
  BY <1>1 DEF UttRecord, Telling
<1>3. /\ rec.kind = utt[u].kind /\ rec.entry = utt[u].entry /\ rec.synth = utt[u].synth /\ rec.pc = utt[u].pc
      /\ rec.owed = utt[u].owed /\ rec.told = utt[u].told \cup {"stopped"} /\ rec.ends = utt[u].ends
  BY <1>1 DEF UttRecord, Telling
<1>4. Speech!Become(u, rec) /\ Tables(u) /\ staged' \subseteq staged
  BY <1>1, UttFacts DEF Speech!Stop, Tables
<1> HIDE DEF rec
<1>5. Fields(u, utt[u].kind, utt[u].entry, utt[u].synth, utt[u].pc, utt[u].owed, utt[u].told \cup {"stopped"}, utt[u].ends)
  BY <1>2, <1>3, <1>4, BecomeOK
<1>6. UttMatches(u)'
  BY <1>1, <1>4, <1>5 DEF Fields, UttOK, UttMatches, EndMatches, DiscardMatches, Speech!Discardable, Tables
<1>7. EndMatches(u)'
  BY <1>1, <1>5 DEF Fields, UttOK, UttMatches, EndMatches, DiscardMatches, Speech!Discardable
<1>8. DiscardMatches(u)'
  BY <1>1, <1>5 DEF Fields, UttOK, UttMatches, EndMatches, DiscardMatches, Speech!Discardable
<1> QED BY <1>4, <1>5, <1>6, <1>7, <1>8, UttStep DEF Fields, UttOK

LEMMA EndedOK ==
    ASSUME NEW u \in Utts, NEW e \in UttRecord(u), NEW t \in SUBSET Telling, NEW n \in 0..1
    PROVE  [e EXCEPT !.told = t, !.owed = "none", !.ends = n] \in UttRecord(u)
BY DEF UttRecord

LEMMA EndedOverOK ==
    ASSUME NEW u \in Utts, NEW e \in UttRecord(u), NEW t \in SUBSET Telling, NEW n \in 0..1
    PROVE  [e EXCEPT !.told = t, !.owed = "none", !.ends = n, !.pc = "over"] \in UttRecord(u)
BY DEF UttRecord

LEMMA TellStagedOK ==
    ASSUME SpeechInv, NEW u \in Utts, Speech!TellStaged(u) PROVE SpeechInv'
<1> DEFINE rec == [utt[u] EXCEPT !.told = utt[u].told \cup {utt[u].owed}, !.owed = "none",
                                  !.ends = 1]
<1>1. utt[u] \in UttRecord(u) /\ UttOK(u) /\ Speech!Staged(u) /\ utt[u].owed # "none"
         /\ utt[u].ends = 0 /\ utt[u].pc \notin {"ended", "left"}
         /\ utt[u].told \cup {utt[u].owed} \in SUBSET Telling
         /\ utt[u].owed # "started" /\ utt[u].ends + 1 = 1 /\ UNCHANGED <<staged, players>>
  BY UttFacts DEF Speech!TellStaged, UttOK, EndMatches, UttRecord, Telling, Speech!Ended, Speech!Staged
<1>2. rec \in UttRecord(u)
  BY <1>1, 1 \in 0..1, EndedOK, EndedOverOK
<1>3. /\ rec.kind = utt[u].kind /\ rec.entry = utt[u].entry /\ rec.synth = utt[u].synth /\ rec.pc = utt[u].pc
      /\ rec.owed = "none" /\ rec.told = utt[u].told \cup {utt[u].owed} /\ rec.ends = 1
  BY <1>1 DEF UttRecord, Telling, Speech!Ended, Speech!Staged
<1>4. Speech!Become(u, rec) /\ Tables(u) /\ staged' \subseteq staged
  BY <1>1, UttFacts DEF Speech!TellStaged, Tables, Speech!Ended, Speech!Staged
<1> HIDE DEF rec
<1>5. Fields(u, utt[u].kind, utt[u].entry, utt[u].synth, utt[u].pc, "none", utt[u].told \cup {utt[u].owed}, 1)
  BY <1>2, <1>3, <1>4, BecomeOK
<1>6. UttMatches(u)'
  BY <1>1, <1>4, <1>5 DEF Fields, UttOK, UttMatches, EndMatches, DiscardMatches, Speech!Discardable, Tables, Speech!Ended, Speech!Staged
<1>7. EndMatches(u)'
  BY <1>1, <1>5 DEF Fields, UttOK, UttMatches, EndMatches, DiscardMatches, Speech!Discardable, Speech!Ended, Speech!Staged
<1>8. DiscardMatches(u)'
  BY <1>1, <1>5 DEF Fields, UttOK, UttMatches, EndMatches, DiscardMatches, Speech!Discardable, Speech!Ended, Speech!Staged
<1> QED BY <1>4, <1>5, <1>6, <1>7, <1>8, UttStep DEF Fields, UttOK

LEMMA AudioReadyOK ==
    ASSUME SpeechInv, NEW u \in Utts, Speech!AudioReady(u) PROVE SpeechInv'
<1> DEFINE rec == [utt[u] EXCEPT !.pc = "ready", !.synth = "ok"]
<1>1. utt[u] \in UttRecord(u) /\ UttOK(u) /\ utt[u].pc = "waiting" /\ Speech!Synthesized(u) /\ UNCHANGED <<staged, players>>
  BY UttFacts DEF Speech!AudioReady, UttOK, EndMatches, UttRecord, Telling, Speech!Synthesized, Speech!Staged
<1>2. rec \in UttRecord(u)
  BY <1>1 DEF UttRecord, Telling, Speech!Synthesized, Speech!Staged
<1>3. /\ rec.kind = utt[u].kind /\ rec.entry = utt[u].entry /\ rec.synth = "ok" /\ rec.pc = "ready"
      /\ rec.owed = utt[u].owed /\ rec.told = utt[u].told /\ rec.ends = utt[u].ends
  BY <1>1 DEF UttRecord, Telling, Speech!Synthesized, Speech!Staged
<1>4. Speech!Become(u, rec) /\ Tables(u) /\ staged' \subseteq staged
  BY <1>1, UttFacts DEF Speech!AudioReady, Tables, Speech!Synthesized, Speech!Staged
<1> HIDE DEF rec
<1>5. Fields(u, utt[u].kind, utt[u].entry, "ok", "ready", utt[u].owed, utt[u].told, utt[u].ends)
  BY <1>2, <1>3, <1>4, BecomeOK
<1>6. UttMatches(u)'
  BY <1>1, <1>4, <1>5 DEF Fields, UttOK, UttMatches, EndMatches, DiscardMatches, Speech!Discardable, Tables, Speech!Synthesized, Speech!Staged
<1>7. EndMatches(u)'
  BY <1>1, <1>5 DEF Fields, UttOK, UttMatches, EndMatches, DiscardMatches, Speech!Discardable, Speech!Synthesized, Speech!Staged
<1>8. DiscardMatches(u)'
  BY <1>1, <1>5 DEF Fields, UttOK, UttMatches, EndMatches, DiscardMatches, Speech!Discardable, Speech!Synthesized, Speech!Staged
<1> QED BY <1>4, <1>5, <1>6, <1>7, <1>8, UttStep DEF Fields, UttOK

LEMMA PlayOK ==
    ASSUME SpeechInv, NEW u \in Utts, Speech!Play(u) PROVE SpeechInv'
<1> DEFINE rec == [utt[u] EXCEPT !.pc = "playing"]
<1>1. utt[u] \in UttRecord(u) /\ UttOK(u) /\ utt[u].pc = "ready" /\ UNCHANGED <<staged, players>>
  BY UttFacts DEF Speech!Play, UttOK, EndMatches, UttRecord, Telling
<1>2. rec \in UttRecord(u)
  BY <1>1 DEF UttRecord, Telling
<1>3. /\ rec.kind = utt[u].kind /\ rec.entry = utt[u].entry /\ rec.synth = utt[u].synth /\ rec.pc = "playing"
      /\ rec.owed = utt[u].owed /\ rec.told = utt[u].told /\ rec.ends = utt[u].ends
  BY <1>1 DEF UttRecord, Telling
<1>4. Speech!Become(u, rec) /\ Tables(u) /\ staged' \subseteq staged
  BY <1>1, UttFacts DEF Speech!Play, Tables
<1> HIDE DEF rec
<1>5. Fields(u, utt[u].kind, utt[u].entry, utt[u].synth, "playing", utt[u].owed, utt[u].told, utt[u].ends)
  BY <1>2, <1>3, <1>4, BecomeOK
<1>6. UttMatches(u)'
  BY <1>1, <1>4, <1>5 DEF Fields, UttOK, UttMatches, EndMatches, DiscardMatches, Speech!Discardable, Tables
<1>7. EndMatches(u)'
  BY <1>1, <1>5 DEF Fields, UttOK, UttMatches, EndMatches, DiscardMatches, Speech!Discardable
<1>8. DiscardMatches(u)'
  BY <1>1, <1>5 DEF Fields, UttOK, UttMatches, EndMatches, DiscardMatches, Speech!Discardable
<1> QED BY <1>4, <1>5, <1>6, <1>7, <1>8, UttStep DEF Fields, UttOK

LEMMA StartedOK ==
    ASSUME SpeechInv, NEW u \in Utts, Speech!Started(u) PROVE SpeechInv'
<1> DEFINE rec == [utt[u] EXCEPT !.told = @ \cup {"started"}]
<1>1. utt[u] \in UttRecord(u) /\ UttOK(u) /\ utt[u].pc = "playing" /\ UNCHANGED <<staged, players>>
  BY UttFacts DEF Speech!Started, UttOK, EndMatches, UttRecord, Telling
<1>2. rec \in UttRecord(u)
  BY <1>1 DEF UttRecord, Telling
<1>3. /\ rec.kind = utt[u].kind /\ rec.entry = utt[u].entry /\ rec.synth = utt[u].synth /\ rec.pc = utt[u].pc
      /\ rec.owed = utt[u].owed /\ rec.told = utt[u].told \cup {"started"} /\ rec.ends = utt[u].ends
  BY <1>1 DEF UttRecord, Telling
<1>4. Speech!Become(u, rec) /\ Tables(u) /\ staged' \subseteq staged
  BY <1>1, UttFacts DEF Speech!Started, Tables
<1> HIDE DEF rec
<1>5. Fields(u, utt[u].kind, utt[u].entry, utt[u].synth, utt[u].pc, utt[u].owed, utt[u].told \cup {"started"}, utt[u].ends)
  BY <1>2, <1>3, <1>4, BecomeOK
<1>6. UttMatches(u)'
  BY <1>1, <1>4, <1>5 DEF Fields, UttOK, UttMatches, EndMatches, DiscardMatches, Speech!Discardable, Tables
<1>7. EndMatches(u)'
  BY <1>1, <1>5 DEF Fields, UttOK, UttMatches, EndMatches, DiscardMatches, Speech!Discardable
<1>8. DiscardMatches(u)'
  BY <1>1, <1>5 DEF Fields, UttOK, UttMatches, EndMatches, DiscardMatches, Speech!Discardable
<1> QED BY <1>4, <1>5, <1>6, <1>7, <1>8, UttStep DEF Fields, UttOK

LEMMA DeregisterOK ==
    ASSUME SpeechInv, NEW u \in Utts, Speech!Deregister(u) PROVE SpeechInv'
<1> DEFINE rec == [utt[u] EXCEPT !.pc = "left"]
<1>1. utt[u] \in UttRecord(u) /\ UttOK(u) /\ utt[u].pc = "ended" /\ players' = players \ {u} /\ UNCHANGED staged
  BY UttFacts DEF Speech!Deregister, UttOK, EndMatches, UttRecord, Telling
<1>2. rec \in UttRecord(u)
  BY <1>1 DEF UttRecord, Telling
<1>3. /\ rec.kind = utt[u].kind /\ rec.entry = utt[u].entry /\ rec.synth = utt[u].synth /\ rec.pc = "left"
      /\ rec.owed = utt[u].owed /\ rec.told = utt[u].told /\ rec.ends = utt[u].ends
  BY <1>1 DEF UttRecord, Telling
<1>4. Speech!Become(u, rec) /\ Tables(u) /\ staged' \subseteq staged
  BY <1>1, UttFacts DEF Speech!Deregister, Tables
<1> HIDE DEF rec
<1>5. Fields(u, utt[u].kind, utt[u].entry, utt[u].synth, "left", utt[u].owed, utt[u].told, utt[u].ends)
  BY <1>2, <1>3, <1>4, BecomeOK
<1>6. UttMatches(u)'
  BY <1>1, <1>4, <1>5 DEF Fields, UttOK, UttMatches, EndMatches, DiscardMatches, Speech!Discardable, Tables
<1>7. EndMatches(u)'
  BY <1>1, <1>5 DEF Fields, UttOK, UttMatches, EndMatches, DiscardMatches, Speech!Discardable
<1>8. DiscardMatches(u)'
  BY <1>1, <1>5 DEF Fields, UttOK, UttMatches, EndMatches, DiscardMatches, Speech!Discardable
<1> QED BY <1>4, <1>5, <1>6, <1>7, <1>8, UttStep DEF Fields, UttOK

LEMMA TellEndOK ==
    ASSUME SpeechInv, NEW u \in Utts, Speech!TellEnd(u) PROVE SpeechInv'
<1> DEFINE rec == [utt[u] EXCEPT !.told = utt[u].told \cup {utt[u].owed}, !.owed = "none",
                                  !.ends = 1, !.pc = "over"]
<1>1. utt[u] \in UttRecord(u) /\ UttOK(u) /\ utt[u].pc = "left" /\ utt[u].owed # "none" /\ utt[u].ends = 0
         /\ utt[u].told \cup {utt[u].owed} \in SUBSET Telling
         /\ utt[u].owed # "started" /\ utt[u].ends + 1 = 1 /\ UNCHANGED <<staged, players>>
  BY UttFacts DEF Speech!TellEnd, UttOK, EndMatches, UttRecord, Telling, Speech!Ended
<1>2. rec \in UttRecord(u)
  BY <1>1, 1 \in 0..1, EndedOK, EndedOverOK
<1>3. /\ rec.kind = utt[u].kind /\ rec.entry = utt[u].entry /\ rec.synth = utt[u].synth /\ rec.pc = "over"
      /\ rec.owed = "none" /\ rec.told = utt[u].told \cup {utt[u].owed} /\ rec.ends = 1
  BY <1>1 DEF UttRecord, Telling, Speech!Ended
<1>4. Speech!Become(u, rec) /\ Tables(u) /\ staged' \subseteq staged
  BY <1>1, UttFacts DEF Speech!TellEnd, Tables, Speech!Ended
<1> HIDE DEF rec
<1>5. Fields(u, utt[u].kind, utt[u].entry, utt[u].synth, "over", "none", utt[u].told \cup {utt[u].owed}, 1)
  BY <1>2, <1>3, <1>4, BecomeOK
<1>6. UttMatches(u)'
  BY <1>1, <1>4, <1>5 DEF Fields, UttOK, UttMatches, EndMatches, DiscardMatches, Speech!Discardable, Tables, Speech!Ended
<1>7. EndMatches(u)'
  BY <1>1, <1>5 DEF Fields, UttOK, UttMatches, EndMatches, DiscardMatches, Speech!Discardable, Speech!Ended
<1>8. DiscardMatches(u)'
  BY <1>1, <1>5 DEF Fields, UttOK, UttMatches, EndMatches, DiscardMatches, Speech!Discardable, Speech!Ended
<1> QED BY <1>4, <1>5, <1>6, <1>7, <1>8, UttStep DEF Fields, UttOK

LEMMA PlayEndsOK ==
    ASSUME SpeechInv, NEW u \in Utts, NEW how \in {"finished", "error", "stopped"},
           Speech!PlayEnds(u, how)
    PROVE  SpeechInv'
<1>0. PICK ev \in {"error", "finished"} : Speech!Become(u, [utt[u] EXCEPT !.pc = "ended", !.owed = ev])
  BY DEF Speech!PlayEnds
<1> DEFINE rec == [utt[u] EXCEPT !.pc = "ended", !.owed = ev]
<1>1. utt[u] \in UttRecord(u) /\ UttOK(u) /\ utt[u].pc = "playing" /\ UNCHANGED <<staged, players>>
  BY <1>0, UttFacts DEF Speech!PlayEnds, UttOK, EndMatches, UttRecord, Telling
<1>2. rec \in UttRecord(u)
  BY <1>0, <1>1 DEF UttRecord, Telling
<1>3. /\ rec.kind = utt[u].kind /\ rec.entry = utt[u].entry /\ rec.synth = utt[u].synth /\ rec.pc = "ended"
      /\ rec.owed = ev /\ rec.told = utt[u].told /\ rec.ends = utt[u].ends
  BY <1>0, <1>1 DEF UttRecord, Telling
<1>4. Speech!Become(u, rec) /\ Tables(u) /\ staged' \subseteq staged
  BY <1>0, <1>1, UttFacts DEF Speech!PlayEnds, Tables
<1> HIDE DEF rec
<1>5. Fields(u, utt[u].kind, utt[u].entry, utt[u].synth, "ended", ev, utt[u].told, utt[u].ends)
  BY <1>2, <1>3, <1>4, BecomeOK
<1>6. UttMatches(u)'
  BY <1>0, <1>1, <1>4, <1>5 DEF Fields, UttOK, UttMatches, EndMatches, DiscardMatches, Speech!Discardable, Tables
<1>7. EndMatches(u)'
  BY <1>0, <1>1, <1>5 DEF Fields, UttOK, UttMatches, EndMatches, DiscardMatches, Speech!Discardable
<1>8. DiscardMatches(u)'
  BY <1>0, <1>1, <1>5 DEF Fields, UttOK, UttMatches, EndMatches, DiscardMatches, Speech!Discardable
<1> QED BY <1>4, <1>5, <1>6, <1>7, <1>8, UttStep DEF Fields, UttOK

LEMMA NewOK ==
    ASSUME NEW u \in Utts
    PROVE  /\ Speech!New \in UttRecord(u)
           /\ Speech!New.owed = "none" /\ Speech!New.told = {} /\ Speech!New.ends = 0
           /\ Speech!New.entry = "none" /\ Speech!New.synth = "none"
BY DEF Speech!New, UttRecord

LEMMA PreflightOK ==
    ASSUME SpeechInv, NEW u \in Utts, Speech!Preflight(u) PROVE SpeechInv'
<1> DEFINE rec == [Speech!New EXCEPT !.kind = "staged", !.entry = "synthesizing", !.synth = "running",
                                    !.pc = "staged"]
<1>1. utt[u] \in UttRecord(u) /\ UttOK(u) /\ utt[u].pc = "none" /\ "staged" \in Kinds[u] /\ UNCHANGED players
  BY NewOK, SameCount, UttFacts DEF Speech!Preflight, UttOK, EndMatches, UttRecord, Telling, Speech!Asked
<1>2. rec \in UttRecord(u)
  BY NewOK, SameCount, <1>1 DEF UttRecord, Telling, Speech!Asked
<1>3. /\ rec.kind = "staged" /\ rec.entry = "synthesizing" /\ rec.synth = "running" /\ rec.pc = "staged"
      /\ rec.owed = "none" /\ rec.told = {} /\ rec.ends = 0
  BY NewOK, SameCount, <1>1 DEF UttRecord, Telling, Speech!Asked
<1>4. Speech!Become(u, rec) /\ Tables(u) /\ (staged' = staged \cup {u} /\ Cardinality(staged) < MaxPerLeg)
  BY NewOK, SameCount, <1>1, UttFacts DEF Speech!Preflight, Tables, Speech!Asked
<1> HIDE DEF rec
<1>5. Fields(u, "staged", "synthesizing", "running", "staged", "none", {}, 0)
  BY <1>2, <1>3, <1>4, BecomeOK
<1>6. UttMatches(u)'
  BY NewOK, SameCount, <1>1, <1>4, <1>5 DEF Fields, UttOK, UttMatches, EndMatches, DiscardMatches, Speech!Discardable, Tables, Speech!Asked
<1>7. EndMatches(u)'
  BY NewOK, SameCount, <1>1, <1>5 DEF Fields, UttOK, UttMatches, EndMatches, DiscardMatches, Speech!Discardable, Speech!Asked
<1>8. DiscardMatches(u)'
  BY NewOK, SameCount, <1>1, <1>5 DEF Fields, UttOK, UttMatches, EndMatches, DiscardMatches, Speech!Discardable, Speech!Asked
<1> QED BY <1>4, <1>5, <1>6, <1>7, <1>8, UttStep DEF Fields, UttOK

LEMMA AskOK ==
    ASSUME SpeechInv, NEW u \in Utts, NEW kind \in Kinds[u], Speech!Ask(u, kind) PROVE SpeechInv'
<1>1. CASE kind \in {"file", "roomFile"}
  <2> DEFINE rec == [[Speech!New EXCEPT !.kind = kind] EXCEPT !.pc = "ready"]
  <2>1. utt[u] \in UttRecord(u) /\ UttOK(u) /\ utt[u].pc = "none" /\ kind # "staged" /\ UNCHANGED staged
    BY <1>1, NewOK, UttFacts DEF Speech!Ask, UttOK, EndMatches, UttRecord, Telling, Speech!Asked
  <2>2. rec \in UttRecord(u)
    BY <1>1, NewOK, <2>1 DEF UttRecord, Telling, Speech!Asked
  <2>3. /\ rec.kind = kind /\ rec.entry = "none" /\ rec.synth = "none" /\ rec.pc = "ready"
        /\ rec.owed = "none" /\ rec.told = {} /\ rec.ends = 0
    BY <1>1, NewOK, <2>1 DEF UttRecord, Telling, Speech!Asked
  <2>4. Speech!Become(u, rec) /\ Tables(u) /\ staged' \subseteq staged
    BY <1>1, NewOK, <2>1, UttFacts DEF Speech!Ask, Tables, Speech!Asked
  <2> HIDE DEF rec
  <2>5. Fields(u, kind, "none", "none", "ready", "none", {}, 0)
    BY <2>2, <2>3, <2>4, BecomeOK
  <2>6. UttMatches(u)'
    BY <1>1, NewOK, <2>1, <2>4, <2>5 DEF Fields, UttOK, UttMatches, EndMatches, DiscardMatches, Speech!Discardable, Tables, Speech!Asked
  <2>7. EndMatches(u)'
    BY <1>1, NewOK, <2>1, <2>5 DEF Fields, UttOK, UttMatches, EndMatches, DiscardMatches, Speech!Discardable, Speech!Asked
  <2>8. DiscardMatches(u)'
    BY <1>1, NewOK, <2>1, <2>5 DEF Fields, UttOK, UttMatches, EndMatches, DiscardMatches, Speech!Discardable, Speech!Asked
  <2> QED BY <2>4, <2>5, <2>6, <2>7, <2>8, UttStep DEF Fields, UttOK
<1>2. CASE kind \notin {"file", "roomFile"}
  <2> DEFINE rec == [[Speech!New EXCEPT !.kind = kind] EXCEPT !.synth = "running", !.pc = "waiting"]
  <2>1. utt[u] \in UttRecord(u) /\ UttOK(u) /\ utt[u].pc = "none" /\ kind # "staged" /\ UNCHANGED staged
    BY <1>2, NewOK, UttFacts DEF Speech!Ask, UttOK, EndMatches, UttRecord, Telling, Speech!Asked
  <2>2. rec \in UttRecord(u)
    BY <1>2, NewOK, <2>1 DEF UttRecord, Telling, Speech!Asked
  <2>3. /\ rec.kind = kind /\ rec.entry = "none" /\ rec.synth = "running" /\ rec.pc = "waiting"
        /\ rec.owed = "none" /\ rec.told = {} /\ rec.ends = 0
    BY <1>2, NewOK, <2>1 DEF UttRecord, Telling, Speech!Asked
  <2>4. Speech!Become(u, rec) /\ Tables(u) /\ staged' \subseteq staged
    BY <1>2, NewOK, <2>1, UttFacts DEF Speech!Ask, Tables, Speech!Asked
  <2> HIDE DEF rec
  <2>5. Fields(u, kind, "none", "running", "waiting", "none", {}, 0)
    BY <2>2, <2>3, <2>4, BecomeOK
  <2>6. UttMatches(u)'
    BY <1>2, NewOK, <2>1, <2>4, <2>5 DEF Fields, UttOK, UttMatches, EndMatches, DiscardMatches, Speech!Discardable, Tables, Speech!Asked
  <2>7. EndMatches(u)'
    BY <1>2, NewOK, <2>1, <2>5 DEF Fields, UttOK, UttMatches, EndMatches, DiscardMatches, Speech!Discardable, Speech!Asked
  <2>8. DiscardMatches(u)'
    BY <1>2, NewOK, <2>1, <2>5 DEF Fields, UttOK, UttMatches, EndMatches, DiscardMatches, Speech!Discardable, Speech!Asked
  <2> QED BY <2>4, <2>5, <2>6, <2>7, <2>8, UttStep DEF Fields, UttOK
<1> QED BY <1>1, <1>2

LEMMA FailedRecord ==
    ASSUME NEW u, NEW r \in UttRecord(u), NEW ow \in {"discarded", "error"},
           NEW pn \in {"none", "staged", "committing", "waiting", "ready", "playing", "ended", "left", "over"}
    PROVE  [r EXCEPT !.synth = "failed", !.entry = "done", !.pc = pn, !.owed = ow] \in UttRecord(u)
BY DEF UttRecord

LEMMA StoreStagedOK ==
    ASSUME SpeechInv, NEW u \in Utts, NEW ok \in BOOLEAN, Speech!StoreStaged(u, ok) PROVE SpeechInv'
<1>1. CASE utt[u].entry = "done"
  <2> DEFINE rec == [utt[u] EXCEPT !.synth = "settled"]
  <2>1. utt[u] \in UttRecord(u) /\ UttOK(u) /\ utt[u].kind = "staged" /\ utt[u].synth = "running" /\ UNCHANGED players /\ UNCHANGED staged
    BY <1>1, UttFacts DEF Speech!StoreStaged, UttOK, EndMatches, UttRecord, Telling, Speech!Staged
  <2>2. rec \in UttRecord(u)
    BY <1>1, <2>1 DEF UttRecord, Telling, Speech!Staged
  <2>3. /\ rec.kind = utt[u].kind /\ rec.entry = utt[u].entry /\ rec.synth = "settled" /\ rec.pc = utt[u].pc
        /\ rec.owed = utt[u].owed /\ rec.told = utt[u].told /\ rec.ends = utt[u].ends
    BY <1>1, <2>1 DEF UttRecord, Telling, Speech!Staged
  <2>4. Speech!Become(u, rec) /\ Tables(u) /\ staged' \subseteq staged
    BY <1>1, <2>1, UttFacts DEF Speech!StoreStaged, Tables, Speech!Staged
  <2> HIDE DEF rec
  <2>5. Fields(u, utt[u].kind, utt[u].entry, "settled", utt[u].pc, utt[u].owed, utt[u].told, utt[u].ends)
    BY <2>2, <2>3, <2>4, BecomeOK
  <2>6. UttMatches(u)'
    BY <1>1, <2>1, <2>4, <2>5 DEF Fields, UttOK, UttMatches, EndMatches, DiscardMatches, Speech!Discardable, Tables, Speech!Staged
  <2>7. EndMatches(u)'
    BY <1>1, <2>1, <2>5 DEF Fields, UttOK, UttMatches, EndMatches, DiscardMatches, Speech!Discardable, Speech!Staged
  <2>8. DiscardMatches(u)'
    BY <1>1, <2>1, <2>5 DEF Fields, UttOK, UttMatches, EndMatches, DiscardMatches, Speech!Discardable, Speech!Staged
  <2> QED BY <2>4, <2>5, <2>6, <2>7, <2>8, UttStep DEF Fields, UttOK
<1>2. CASE utt[u].entry # "done" /\ ok
  <2>0. PICK en \in {"none", "synthesizing", "ready", "committed", "done"}, tl \in SUBSET Telling :
           /\ Speech!Become(u, [utt[u] EXCEPT !.synth = "ok", !.entry = en, !.told = tl])
           /\ en = utt[u].entry \/ (utt[u].entry = "synthesizing" /\ en = "ready")
           /\ tl = utt[u].told \/ tl = utt[u].told \cup {"staged"}
    BY <1>2, UttFacts DEF Speech!StoreStaged, UttRecord, Telling
  <2> DEFINE rec == [utt[u] EXCEPT !.synth = "ok", !.entry = en, !.told = tl]
  <2>1. utt[u] \in UttRecord(u) /\ UttOK(u) /\ utt[u].kind = "staged" /\ utt[u].synth = "running" /\ UNCHANGED players /\ UNCHANGED staged
    BY <1>2, <2>0, UttFacts DEF Speech!StoreStaged, UttOK, EndMatches, UttRecord, Telling, Speech!Staged
  <2>2. rec \in UttRecord(u)
    BY <1>2, <2>0, <2>1 DEF UttRecord, Telling, Speech!Staged
  <2>3. /\ rec.kind = utt[u].kind /\ rec.entry = en /\ rec.synth = "ok" /\ rec.pc = utt[u].pc
        /\ rec.owed = utt[u].owed /\ rec.told = tl /\ rec.ends = utt[u].ends
    BY <1>2, <2>0, <2>1 DEF UttRecord, Telling, Speech!Staged
  <2>4. Speech!Become(u, rec) /\ Tables(u) /\ staged' \subseteq staged
    BY <1>2, <2>0, <2>1, UttFacts DEF Speech!StoreStaged, Tables, Speech!Staged
  <2> HIDE DEF rec
  <2>5. Fields(u, utt[u].kind, en, "ok", utt[u].pc, utt[u].owed, tl, utt[u].ends)
    BY <2>2, <2>3, <2>4, BecomeOK
  <2>6. UttMatches(u)'
    BY <1>2, <2>0, <2>1, <2>4, <2>5 DEF Fields, UttOK, UttMatches, EndMatches, DiscardMatches, Speech!Discardable, Tables, Speech!Staged
  <2>7. EndMatches(u)'
    BY <1>2, <2>0, <2>1, <2>5 DEF Fields, UttOK, UttMatches, EndMatches, DiscardMatches, Speech!Discardable, Speech!Staged
  <2>8. DiscardMatches(u)'
    BY <1>2, <2>0, <2>1, <2>5 DEF Fields, UttOK, UttMatches, EndMatches, DiscardMatches, Speech!Discardable, Speech!Staged
  <2> QED BY <2>4, <2>5, <2>6, <2>7, <2>8, UttStep DEF Fields, UttOK
<1>3. CASE utt[u].entry # "done" /\ ~ok
  <2>0. PICK pn \in {"none", "staged", "committing", "waiting", "ready", "playing", "ended", "left", "over"},
             ow \in {"discarded", "error"} :
           /\ Speech!Become(u, [utt[u] EXCEPT !.synth = "failed", !.entry = "done", !.pc = pn, !.owed = ow])
           /\ pn = IF utt[u].pc = "staged" THEN "over" ELSE utt[u].pc
    <3> DEFINE point == IF utt[u].pc = "staged" THEN "over" ELSE utt[u].pc
               event == IF heard = "over" THEN "discarded" ELSE "error"
    <3>1. Speech!Become(u, [utt[u] EXCEPT !.synth = "failed", !.entry = "done", !.pc = point, !.owed = event])
      BY <1>3 DEF Speech!StoreStaged
    <3>2. /\ point \in {"none", "staged", "committing", "waiting", "ready", "playing", "ended", "left", "over"}
          /\ event \in {"discarded", "error"}
      BY UttFacts DEF UttRecord
    <3>3. point = IF utt[u].pc = "staged" THEN "over" ELSE utt[u].pc
      OBVIOUS
    <3> HIDE DEF point, event
    <3> QED BY <3>1, <3>2, <3>3
  <2> DEFINE rec == [utt[u] EXCEPT !.synth = "failed", !.entry = "done", !.pc = pn, !.owed = ow]
  <2>1. utt[u] \in UttRecord(u) /\ UttOK(u) /\ utt[u].kind = "staged" /\ utt[u].synth = "running" /\ UNCHANGED players /\ staged' = staged \ {u}
    BY <1>3, <2>0, UttFacts DEF Speech!StoreStaged, UttOK, EndMatches, UttRecord, Telling, Speech!Staged
  <2>2. rec \in UttRecord(u)
    BY <2>0, <2>1, FailedRecord
  <2>3. /\ rec.kind = utt[u].kind /\ rec.entry = "done" /\ rec.synth = "failed" /\ rec.pc = pn
        /\ rec.owed = ow /\ rec.told = utt[u].told /\ rec.ends = utt[u].ends
    BY <1>3, <2>0, <2>1 DEF UttRecord, Telling, Speech!Staged
  <2>4. Speech!Become(u, rec) /\ Tables(u) /\ staged' \subseteq staged
    BY <1>3, <2>0, <2>1, UttFacts DEF Speech!StoreStaged, Tables, Speech!Staged
  <2> HIDE DEF rec
  <2>5. Fields(u, utt[u].kind, "done", "failed", pn, ow, utt[u].told, utt[u].ends)
    BY <2>2, <2>3, <2>4, BecomeOK
  <2>6. UttMatches(u)'
    BY <1>3, <2>0, <2>1, <2>4, <2>5 DEF Fields, UttOK, UttMatches, EndMatches, DiscardMatches, Speech!Discardable, Tables, Speech!Staged
  <2>7. EndMatches(u)'
    BY <1>3, <2>0, <2>1, <2>5 DEF Fields, UttOK, UttMatches, EndMatches, DiscardMatches, Speech!Discardable, Speech!Staged
  <2>8. DiscardMatches(u)'
    BY <1>3, <2>0, <2>1, <2>5 DEF Fields, UttOK, UttMatches, EndMatches, DiscardMatches, Speech!Discardable, Speech!Staged
  <2> QED BY <2>4, <2>5, <2>6, <2>7, <2>8, UttStep DEF Fields, UttOK
<1> QED BY <1>1, <1>2, <1>3

LEMMA NoAudioOK ==
    ASSUME SpeechInv, NEW u \in Utts, Speech!NoAudio(u) PROVE SpeechInv'
<1>1. CASE utt[u].kind = "staged"
  <2> DEFINE rec == [utt[u] EXCEPT !.pc = "over"]
  <2>1. utt[u] \in UttRecord(u) /\ UttOK(u) /\ utt[u].pc = "waiting" /\ UNCHANGED staged /\ players' = players \ {u} /\ utt[u].synth = "failed"
    BY <1>1, UttFacts DEF Speech!NoAudio, UttOK, EndMatches, UttRecord, Telling, Speech!Staged, Speech!SynthesisFails
  <2>2. rec \in UttRecord(u)
    BY <1>1, <2>1 DEF UttRecord, Telling, Speech!Staged, Speech!SynthesisFails
  <2>3. /\ rec.kind = utt[u].kind /\ rec.entry = utt[u].entry /\ rec.synth = utt[u].synth /\ rec.pc = "over"
        /\ rec.owed = utt[u].owed /\ rec.told = utt[u].told /\ rec.ends = utt[u].ends
    BY <1>1, <2>1 DEF UttRecord, Telling, Speech!Staged, Speech!SynthesisFails
  <2>4. Speech!Become(u, rec) /\ Tables(u) /\ staged' \subseteq staged
    BY <1>1, <2>1, UttFacts DEF Speech!NoAudio, Tables, Speech!Staged, Speech!SynthesisFails
  <2> HIDE DEF rec
  <2>5. Fields(u, utt[u].kind, utt[u].entry, utt[u].synth, "over", utt[u].owed, utt[u].told, utt[u].ends)
    BY <2>2, <2>3, <2>4, BecomeOK
  <2>6. UttMatches(u)'
    BY <1>1, <2>1, <2>4, <2>5 DEF Fields, UttOK, UttMatches, EndMatches, DiscardMatches, Speech!Discardable, Tables, Speech!Staged, Speech!SynthesisFails
  <2>7. EndMatches(u)'
    BY <1>1, <2>1, <2>5 DEF Fields, UttOK, UttMatches, EndMatches, DiscardMatches, Speech!Discardable, Speech!Staged, Speech!SynthesisFails
  <2>8. DiscardMatches(u)'
    BY <1>1, <2>1, <2>5 DEF Fields, UttOK, UttMatches, EndMatches, DiscardMatches, Speech!Discardable, Speech!Staged, Speech!SynthesisFails
  <2> QED BY <2>4, <2>5, <2>6, <2>7, <2>8, UttStep DEF Fields, UttOK
<1>2. CASE utt[u].kind # "staged"
  <2> DEFINE rec == [utt[u] EXCEPT !.synth = "failed", !.pc = "left", !.owed = "error"]
  <2>1. utt[u] \in UttRecord(u) /\ UttOK(u) /\ utt[u].pc = "waiting" /\ UNCHANGED staged /\ players' = players \ {u}
    BY <1>2, UttFacts DEF Speech!NoAudio, UttOK, EndMatches, UttRecord, Telling, Speech!Staged, Speech!SynthesisFails
  <2>2. rec \in UttRecord(u)
    BY <1>2, <2>1 DEF UttRecord, Telling, Speech!Staged, Speech!SynthesisFails
  <2>3. /\ rec.kind = utt[u].kind /\ rec.entry = utt[u].entry /\ rec.synth = "failed" /\ rec.pc = "left"
        /\ rec.owed = "error" /\ rec.told = utt[u].told /\ rec.ends = utt[u].ends
    BY <1>2, <2>1 DEF UttRecord, Telling, Speech!Staged, Speech!SynthesisFails
  <2>4. Speech!Become(u, rec) /\ Tables(u) /\ staged' \subseteq staged
    BY <1>2, <2>1, UttFacts DEF Speech!NoAudio, Tables, Speech!Staged, Speech!SynthesisFails
  <2> HIDE DEF rec
  <2>5. Fields(u, utt[u].kind, utt[u].entry, "failed", "left", "error", utt[u].told, utt[u].ends)
    BY <2>2, <2>3, <2>4, BecomeOK
  <2>6. UttMatches(u)'
    BY <1>2, <2>1, <2>4, <2>5 DEF Fields, UttOK, UttMatches, EndMatches, DiscardMatches, Speech!Discardable, Tables, Speech!Staged, Speech!SynthesisFails
  <2>7. EndMatches(u)'
    BY <1>2, <2>1, <2>5 DEF Fields, UttOK, UttMatches, EndMatches, DiscardMatches, Speech!Discardable, Speech!Staged, Speech!SynthesisFails
  <2>8. DiscardMatches(u)'
    BY <1>2, <2>1, <2>5 DEF Fields, UttOK, UttMatches, EndMatches, DiscardMatches, Speech!Discardable, Speech!Staged, Speech!SynthesisFails
  <2> QED BY <2>4, <2>5, <2>6, <2>7, <2>8, UttStep DEF Fields, UttOK
<1> QED BY <1>1, <1>2

LEMMA SpeechEndsOK ==
    ASSUME SpeechInv, Speech!LegEnds \/ Speech!MixerStops PROVE SpeechInv'
<1>1. UNCHANGED <<staged, players, source, utt>> /\ heard' \in {"live", "over"} /\ mixing' \in BOOLEAN
  BY DEF SpeechInv, Speech!LegEnds, Speech!MixerStops, Speech!TypeOK
<1>2. Speech!TypeOK'
  BY <1>1 DEF SpeechInv, Speech!TypeOK, Speech!Utterance
<1>3. ASSUME NEW u \in Utts PROVE UttOK(u)'
  BY <1>1, UttFacts DEF UttOK, UttMatches, EndMatches, DiscardMatches, Speech!Discardable
<1> QED BY <1>1, <1>2, <1>3 DEF SpeechInv, UttOK

LEMMA SpeechInit == Speech!Init => SpeechInv
<1> SUFFICES ASSUME Speech!Init PROVE SpeechInv
  OBVIOUS
<1>1. IsFiniteSet(staged) /\ Speech!Cardinality(staged) <= MaxPerLeg
  BY FS_EmptySet, SameCount, CallsAssumption DEF Speech!Init
<1>2. ASSUME NEW u \in Utts PROVE utt[u] \in Speech!Utterance(u) /\ UttOK(u)
  <2>1. utt[u] = Speech!New /\ staged = {} /\ players = {}
    BY DEF Speech!Init
  <2>2. /\ Speech!New \in UttRecord(u) /\ Speech!New.kind = "none" /\ Speech!New.pc = "none"
        /\ Speech!New.owed = "none" /\ Speech!New.told = {} /\ Speech!New.ends = 0
        /\ Speech!New.entry = "none" /\ Speech!New.synth = "none"
    BY NewOK DEF Speech!New
  <2> QED BY <2>1, <2>2 DEF UttOK, UttMatches, EndMatches, DiscardMatches, Speech!Discardable,
          UttRecord, Speech!Utterance, Telling
<1>3. utt = [u \in Utts |-> utt[u]]
  BY DEF Speech!Init
<1> QED BY <1>1, <1>2, <1>3 DEF SpeechInv, UttOK, Speech!TypeOK, Speech!Init

LEMMA SpeechNext == SpeechInv /\ Speech!Next => SpeechInv'
<1> SUFFICES ASSUME SpeechInv, Speech!Next PROVE SpeechInv'
  OBVIOUS
<1>1. ASSUME NEW u \in Utts, Speech!Synthesis(u) PROVE SpeechInv'
  BY <1>1, StoreStagedOK, TellStagedOK DEF Speech!Synthesis
<1>2. ASSUME NEW u \in Utts, Speech!Player(u) PROVE SpeechInv'
  BY <1>2, RegisterLegPlayerOK, AudioReadyOK, NoAudioOK, PlayOK, StartedOK, DeregisterOK, TellEndOK,
     PlayEndsOK DEF Speech!Player
<1> QED BY <1>1, <1>2, PreflightOK, AskOK, CommitOK, DiscardStagedOK, StopOK, SpeechEndsOK DEF Speech!Next

LEMMA SpeechStutters == SpeechInv /\ UNCHANGED speechVars => SpeechInv'
BY DEF speechVars, SpeechInv, Speech!TypeOK, Speech!Utterance, UttMatches, EndMatches,
   DiscardMatches, Speech!Discardable

LEMMA SpeechSound == SpeechInv => Speech!TypeOK /\ Speech!DiscardedIsSilent
<1> SUFFICES ASSUME SpeechInv PROVE Speech!DiscardedIsSilent
  BY DEF SpeechInv
<1>1. \A u \in Utts : UttOK(u)
  BY UttFacts
<1>2. staged \subseteq Utts
  BY DEF SpeechInv, Speech!TypeOK
<1> QED BY <1>1, <1>2 DEF Speech!DiscardedIsSilent, UttOK, UttMatches, DiscardMatches

\* The numbers have least ones, as the order on them is well founded.
NatOrder == {ss \in Nat \X Nat : ss[1] < ss[2]}

LEMMA NatOrderWellFounded == IsWellFoundedOn(NatOrder, Nat)
BY NatLessThanWellFounded, Zenon DEF OpToRel, NatOrder

LEMMA LeastNumber ==
    ASSUME NEW S, S \subseteq Nat, S # {} PROVE \E m \in S : \A n \in S : m <= n
<1>1. PICK m \in S : \A n \in S : <<n, m>> \notin NatOrder
  BY NatOrderWellFounded, WFMin, Zenon
<1>2. \A n \in S : ~(n < m)
  BY <1>1 DEF NatOrder
<1>3. \A n \in S : m <= n
  BY <1>2
<1> QED BY <1>3

LEMMA SmallMod == ASSUME NEW M \in Nat, M > 0, NEW a \in Int, 0 <= a, a < M PROVE a % M = a
BY SMT
LEMMA OnceAroundMod == ASSUME NEW M \in Nat, M > 0, NEW a \in Int, 0 <= a, a < M PROVE (a + M) % M = a
BY SMT

\* The scan of the pool comes to every port, so it finds a free one while there is one.
LEMMA NextFreeIsFree ==
    ASSUME InviteInv, used # Invitation!Ports
    PROVE  Invitation!NextFree \in Invitation!Ports /\ Invitation!NextFree \notin used
<1> USE CallsAssumption
<1>0. cursor \in 1..MaxPort /\ used \subseteq 1..MaxPort /\ MaxPort \in Nat /\ MaxPort > 0
  BY DEF InviteInv, InviteTypes, Invitation!Ports
<1>1. PICK p \in 1..MaxPort : p \notin used
  BY <1>0 DEF Invitation!Ports
<1> DEFINE index == IF p >= cursor THEN p - cursor + 1 ELSE p - cursor + 1 + MaxPort
<1>2. index \in 1..MaxPort
  BY <1>0
<1>3. (cursor - 1 + index - 1) % MaxPort = p - 1
  <2>1. CASE p >= cursor
    <3>1. cursor - 1 + index - 1 = p - 1
      BY <2>1, <1>0
    <3>2. (p - 1) % MaxPort = p - 1
      BY <1>0, SmallMod
    <3> QED BY <3>1, <3>2
  <2>2. CASE ~(p >= cursor)
    <3>1. cursor - 1 + index - 1 = (p - 1) + MaxPort
      BY <2>2, <1>0
    <3>2. ((p - 1) + MaxPort) % MaxPort = p - 1
      BY <1>0, OnceAroundMod
    <3> QED BY <3>1, <3>2
  <2> QED BY <2>1, <2>2
<1>4. Invitation!Scan[index] = p
  <2>1. Invitation!Scan[index] = 1 + ((cursor - 1 + index - 1) % MaxPort)
    BY <1>2 DEF Invitation!Scan
  <2> HIDE DEF index
  <2> QED BY <2>1, <1>3, <1>0
<1> DEFINE free == {i \in 1..MaxPort : Invitation!Scan[i] \notin used}
<1>5. index \in free
  BY <1>1, <1>2, <1>4
<1> HIDE DEF index
<1>6. PICK m \in free : \A n \in free : m <= n
  <2>1. free \subseteq Nat /\ free # {}
    BY <1>0, <1>5
  <2> HIDE DEF free
  <2> QED BY <2>1, LeastNumber
<1>7. /\ m \in 1..MaxPort /\ Invitation!Scan[m] \notin used
      /\ \A j \in 1..(m - 1) : Invitation!Scan[j] \in used
  BY <1>0, <1>6
<1> DEFINE first == CHOOSE i \in 1..MaxPort :
               Invitation!Scan[i] \notin used /\ \A j \in 1..(i - 1) : Invitation!Scan[j] \in used
<1>8. first \in 1..MaxPort /\ Invitation!Scan[first] \notin used
  BY <1>7
<1>9. Invitation!NextFree = Invitation!Scan[first]
  BY DEF Invitation!NextFree
<1> HIDE DEF first
<1>10. Invitation!Scan[first] \in 1..MaxPort
  <2>1. Invitation!Scan[first] = 1 + ((cursor - 1 + first - 1) % MaxPort)
    BY <1>8 DEF Invitation!Scan
  <2>2. (cursor - 1 + first - 1) % MaxPort \in 0..(MaxPort - 1)
    BY <1>0, <1>8
  <2> QED BY <2>1, <2>2, <1>0
<1> QED BY <1>8, <1>9, <1>10 DEF Invitation!Ports

\* Everything of a call but the pool is its own.
CallTypes ==
    /\ call \in [Calls -> CallRecords]
    /\ branch \in [Calls -> [Branches -> BranchPoints]]
    /\ peer \in [Calls -> [Branches -> PeerPoints]]
    /\ winner \in [Calls -> Branches \cup {None}]
    /\ media \in [Calls -> SUBSET Invitation!Slots]
    /\ legOver \in [Calls -> BOOLEAN]
PoolTypes ==
    /\ used \subseteq Invitation!Ports /\ cursor \in Invitation!Ports
    /\ session \in [Calls -> [Invitation!Slots -> SessionRecords]]
CallOK(k) == CallMatches(k) /\ \A b \in Branches : BranchMatches(k, b)
OwnStep(k) ==
    \A n \in Calls \ {k} :
        /\ call'[n] = call[n] /\ branch'[n] = branch[n] /\ peer'[n] = peer[n] /\ winner'[n] = winner[n]

LEMMA InviteFacts ==
    ASSUME InviteInv
    PROVE  CallTypes /\ PoolTypes /\ PortsMatch /\ \A k \in Calls : CallOK(k)
BY DEF InviteInv, InviteTypes, CallTypes, PoolTypes, CallOK

LEMMA InviteStep ==
    ASSUME InviteInv, NEW k \in Calls, CallTypes', PoolTypes', PortsMatch', OwnStep(k), CallOK(k)'
    PROVE  InviteInv'
<1>1. ASSUME NEW n \in Calls PROVE CallOK(n)'
  <2>1. CASE n = k
    BY <2>1
  <2>2. CASE n # k
    <3>1. call'[n] = call[n] /\ branch'[n] = branch[n] /\ peer'[n] = peer[n] /\ winner'[n] = winner[n]
      BY <2>2 DEF OwnStep
    <3>2. CallMatches(n) /\ \A b \in Branches : BranchMatches(n, b)
      BY InviteFacts DEF CallOK
    <3>3. CallMatches(n)'
      BY <3>1, <3>2 DEF CallMatches, Invitation!Targets
    <3>4. \A b \in Branches : BranchMatches(n, b)'
      BY <3>1, <3>2 DEF BranchMatches
    <3> QED BY <3>3, <3>4 DEF CallOK
  <2> QED BY <2>1, <2>2
<1> QED BY <1>1 DEF InviteInv, InviteTypes, CallTypes, PoolTypes, CallOK

\* No call begins to bind, and those that bind have what they had.
NoNewBinding ==
    \A n \in Calls : call'[n].pc = "bind" =>
        call[n].pc = "bind" /\ call'[n].port = call[n].port /\ call'[n].todo = call[n].todo

LEMMA PortsStay ==
    ASSUME InviteInv, UNCHANGED <<used, cursor, session>>, NoNewBinding
    PROVE  PoolTypes' /\ PortsMatch'
BY InviteFacts DEF PoolTypes, PortsMatch, NoNewBinding, Binding

\* Closing sessions gives back the ports of those that were open, and nobody else's.
LEMMA CloseOK ==
    ASSUME InviteInv, NEW k \in Calls, NEW S \in SUBSET Invitation!Slots, Invitation!Close(k, S),
           NoNewBinding
    PROVE  PoolTypes' /\ PortsMatch'
<1>0. PoolTypes /\ PortsMatch
  BY InviteFacts
<1>1. /\ session' \in [Calls -> [Invitation!Slots -> SessionRecords]]
      /\ \A n \in Calls, s \in Invitation!Slots :
            /\ session'[n][s].port = session[n][s].port
            /\ session'[n][s].open => session[n][s].open /\ ~(n = k /\ s \in S)
  <2> DEFINE closed == [s \in Invitation!Slots |-> IF s \in S THEN [session[k][s] EXCEPT !.open = FALSE]
                                                   ELSE session[k][s]]
  <2>1. session' = [session EXCEPT ![k] = closed]
    BY DEF Invitation!Close
  <2>2. ASSUME NEW s \in Invitation!Slots
        PROVE  closed[s] \in SessionRecords /\ closed[s].port = session[k][s].port
               /\ (closed[s].open => session[k][s].open /\ s \notin S)
    <3>1. session[k][s] \in SessionRecords
      BY <1>0 DEF PoolTypes
    <3>2. closed[s] = IF s \in S THEN [session[k][s] EXCEPT !.open = FALSE] ELSE session[k][s]
      OBVIOUS
    <3> HIDE DEF closed
    <3> QED BY <3>1, <3>2 DEF SessionRecords
  <2>3. closed \in [Invitation!Slots -> SessionRecords]
    BY <2>2
  <2> HIDE DEF closed
  <2> QED BY <2>1, <2>2, <2>3, <1>0 DEF PoolTypes
<1>2. used' \subseteq used /\ cursor' = cursor
      /\ \A p \in used : p \notin used' => \E s \in S : session[k][s].open /\ session[k][s].port = p
  BY DEF Invitation!Close, Invitation!Released
<1>3. PoolTypes'
  BY <1>0, <1>1, <1>2 DEF PoolTypes
<1>4. ASSUME NEW n \in Calls, NEW s \in Invitation!Slots, session'[n][s].open
      PROVE  session'[n][s].port \in used'
  <2>1. session[n][s].open /\ session[n][s].port \in used /\ ~(n = k /\ s \in S)
    BY <1>0, <1>1, <1>4 DEF PortsMatch
  <2>2. \A t \in S : ~(session[k][t].open /\ session[k][t].port = session[n][s].port)
    BY <1>0, <2>1 DEF PortsMatch
  <2> QED BY <1>1, <1>2, <2>1, <2>2
<1>5. ASSUME NEW n \in Calls, call'[n].pc = "bind"
      PROVE  call'[n].port \in used' /\ call'[n].todo # <<>>
  <2>1. Binding(n) /\ call'[n].port = call[n].port /\ call'[n].todo = call[n].todo
    BY <1>5 DEF NoNewBinding, Binding
  <2>2. \A t \in S : ~(session[k][t].open /\ session[k][t].port = call[n].port)
    BY <1>0, <2>1 DEF PortsMatch
  <2> QED BY <1>0, <1>2, <2>1, <2>2 DEF PortsMatch
<1>6. \A m, n \in Calls : call'[m].pc = "bind" /\ call'[n].pc = "bind" /\ call'[m].port = call'[n].port => m = n
  BY <1>0 DEF PortsMatch, NoNewBinding, Binding
<1>7. \A m, n \in Calls, s \in Invitation!Slots :
         call'[m].pc = "bind" /\ session'[n][s].open => call'[m].port # session'[n][s].port
  BY <1>0, <1>1 DEF PortsMatch, NoNewBinding, Binding
<1>8. \A m, n \in Calls, s, t \in Invitation!Slots :
         session'[m][s].open /\ session'[n][t].open /\ session'[m][s].port = session'[n][t].port => m = n /\ s = t
  BY <1>0, <1>1 DEF PortsMatch
<1>9. PortsMatch'
  BY <1>4, <1>5, <1>6, <1>7, <1>8 DEF PortsMatch, Binding
<1> QED BY <1>3, <1>9

\* A call's record after a step.
CallGoes(k, pc) ==
    /\ call' \in [Calls -> CallRecords] /\ \A n \in Calls \ {k} : call'[n] = call[n]
    /\ call'[k].pc = pc /\ call'[k].fork = call[k].fork

LEMMA FailOK ==
    ASSUME InviteInv, NEW k \in Calls, Invitation!Fail(k)
    PROVE  CallGoes(k, "returned") /\ call'[k].result = "error" /\ NoNewBinding
<1>1. call \in [Calls -> CallRecords] /\ call[k] \in CallRecords
  BY InviteFacts DEF CallTypes
<1> DEFINE rec == [call[k] EXCEPT !.pc = "returned", !.result = "error"]
<1>2. rec \in CallRecords /\ rec.pc = "returned" /\ rec.result = "error" /\ rec.fork = call[k].fork
  BY <1>1 DEF CallRecords
<1>3. call' = [call EXCEPT ![k] = rec]
  BY DEF Invitation!Fail
<1> HIDE DEF rec
<1> QED BY <1>1, <1>2, <1>3 DEF CallGoes, NoNewBinding

LEMMA InviteOK ==
    ASSUME InviteInv, NEW k \in Calls, NEW fork \in BOOLEAN, NEW slots \in Offers[k],
           Invitation!Invite(k, fork, slots)
    PROVE  InviteInv'
<1>0. CallTypes /\ CallOK(k) /\ call[k] \in CallRecords /\ slots \in Seq(Invitation!Slots)
  BY InviteFacts, CallsAssumption DEF CallTypes, Invitation!Slots
<1>1. UNCHANGED <<used, cursor, session, branch, peer, winner, media, legOver>> /\ call[k].pc = "idle"
  BY DEF Invitation!Invite, Invitation!ports, Invitation!At
<1> DEFINE rec == [call[k] EXCEPT !.pc = "allocate", !.fork = fork, !.todo = slots]
<1>2. rec \in CallRecords /\ rec.pc = "allocate"
  BY <1>0 DEF CallRecords
<1>3. call' = [call EXCEPT ![k] = rec]
  BY DEF Invitation!Invite
<1> HIDE DEF rec
<1>4. NoNewBinding /\ OwnStep(k) /\ call' \in [Calls -> CallRecords] /\ call'[k].pc = "allocate"
  BY <1>0, <1>1, <1>2, <1>3 DEF CallTypes, NoNewBinding, OwnStep
<1>5. CallOK(k)'
  BY <1>0, <1>1, <1>4 DEF CallOK, CallMatches, BranchMatches
<1> QED BY <1>0, <1>1, <1>4, <1>5, PortsStay, InviteStep DEF CallTypes

LEMMA AllocateOK ==
    ASSUME InviteInv, NEW k \in Calls, Invitation!Allocate(k) PROVE InviteInv'
<1>0. CallTypes /\ PoolTypes /\ PortsMatch /\ CallOK(k) /\ call[k] \in CallRecords
  BY InviteFacts DEF CallTypes
<1> DEFINE p == Invitation!NextFree
<1>1. p \in Invitation!Ports /\ p \notin used
  BY NextFreeIsFree DEF Invitation!Allocate
<1>2. /\ UNCHANGED <<session, branch, peer, winner, media, legOver>> /\ call[k].pc = "allocate"
      /\ call[k].todo # <<>> /\ used' = used \cup {p} /\ cursor' = Invitation!After(p)
  BY DEF Invitation!Allocate, Invitation!At
<1> DEFINE rec == [call[k] EXCEPT !.pc = "bind", !.port = p]
<1>3. call' = [call EXCEPT ![k] = rec]
  BY DEF Invitation!Allocate
<1> HIDE DEF p
<1>4. rec \in CallRecords /\ rec.pc = "bind" /\ rec.port = p /\ rec.todo = call[k].todo
  BY <1>0, <1>1 DEF CallRecords
<1> HIDE DEF rec
<1>5. /\ OwnStep(k) /\ call' \in [Calls -> CallRecords]
      /\ call'[k].pc = "bind" /\ call'[k].port = p /\ call'[k].todo # <<>>
  BY <1>0, <1>2, <1>3, <1>4 DEF CallTypes, OwnStep
<1>6. CallOK(k)'
  BY <1>0, <1>2, <1>5 DEF CallOK, CallMatches, BranchMatches
<1>7. PoolTypes'
  <2>1. Invitation!After(p) \in Invitation!Ports
    BY <1>1, CallsAssumption DEF Invitation!After, Invitation!Ports
  <2> QED BY <1>0, <1>1, <1>2, <2>1 DEF PoolTypes
<1>8. PortsMatch'
  <2>1. \A n \in Calls, s \in Invitation!Slots : session[n][s].open => session[n][s].port # p
    BY <1>0, <1>1 DEF PortsMatch
  <2>2. \A n \in Calls \ {k} : Binding(n) => call[n].port # p
    BY <1>0, <1>1 DEF PortsMatch
  <2>3. \A n \in Calls \ {k} : call'[n] = call[n]
    BY <1>5 DEF OwnStep
  <2> QED BY <1>0, <1>2, <1>5, <2>1, <2>2, <2>3 DEF PortsMatch, Binding
<1> QED BY <1>0, <1>2, <1>5, <1>6, <1>7, <1>8, InviteStep DEF CallTypes

LEMMA BindOK ==
    ASSUME InviteInv, NEW k \in Calls, Invitation!Bind(k) PROVE InviteInv'
<1>0. CallTypes /\ PoolTypes /\ PortsMatch /\ CallOK(k) /\ call[k] \in CallRecords
  BY InviteFacts DEF CallTypes
<1>1. /\ UNCHANGED <<used, cursor, branch, peer, winner, media, legOver>> /\ Binding(k)
  BY DEF Invitation!Bind, Invitation!At, Invitation!ports, Binding
<1>2. call[k].todo \in Seq(Invitation!Slots) /\ call[k].todo # <<>> /\ call[k].port \in Invitation!Ports
      /\ call[k].port \in used
  BY <1>0, <1>1 DEF PortsMatch, CallRecords, PoolTypes
<1> DEFINE h == Head(call[k].todo)
<1>3. h \in Invitation!Slots /\ Tail(call[k].todo) \in Seq(Invitation!Slots)
  BY <1>2, HeadTailProperties
<1> DEFINE rec == [call[k] EXCEPT !.pc = "allocate", !.todo = Tail(call[k].todo), !.tries = 0]
           mine == [port |-> call[k].port, open |-> TRUE]
           row == [session[k] EXCEPT ![h] = mine]
<1>4. call' = [call EXCEPT ![k] = rec] /\ session' = [session EXCEPT ![k] = row]
  BY DEF Invitation!Bind
<1>5. rec \in CallRecords /\ rec.pc = "allocate"
  BY <1>0, <1>3 DEF CallRecords
<1>6. mine \in SessionRecords /\ mine.port = call[k].port /\ mine.open
  BY <1>2 DEF SessionRecords
<1> HIDE DEF rec, mine, h
<1>7. row \in [Invitation!Slots -> SessionRecords] /\ \A s \in Invitation!Slots :
          row[s] = IF s = h THEN mine ELSE session[k][s]
  BY <1>0, <1>3, <1>6 DEF PoolTypes
<1> HIDE DEF row
<1>8. /\ OwnStep(k) /\ call' \in [Calls -> CallRecords] /\ call'[k].pc = "allocate"
  BY <1>0, <1>1, <1>4, <1>5 DEF CallTypes, OwnStep
<1>9. /\ session' \in [Calls -> [Invitation!Slots -> SessionRecords]]
      /\ \A n \in Calls, s \in Invitation!Slots :
            session'[n][s] = IF n = k /\ s = h THEN mine ELSE session[n][s]
  BY <1>0, <1>4, <1>7 DEF PoolTypes
<1>10. CallOK(k)'
  BY <1>0, <1>1, <1>8 DEF CallOK, CallMatches, BranchMatches, Binding
<1>11. PoolTypes'
  BY <1>0, <1>1, <1>9 DEF PoolTypes
<1>12. PortsMatch'
  <2>1. \A n \in Calls, s \in Invitation!Slots : session[n][s].open => session[n][s].port # call[k].port
    BY <1>0, <1>1 DEF PortsMatch
  <2>2. \A n \in Calls \ {k} : Binding(n) => call[n].port # call[k].port
    BY <1>0, <1>1 DEF PortsMatch
  <2>3. \A n \in Calls : call'[n].pc = "bind" => n # k /\ call'[n] = call[n]
    BY <1>8 DEF OwnStep
  <2>4. \A n \in Calls, s \in Invitation!Slots : session'[n][s].open => session'[n][s].port \in used'
    BY <1>0, <1>1, <1>2, <1>6, <1>9 DEF PortsMatch
  <2>5. \A m, n \in Calls, s, t \in Invitation!Slots :
         session'[m][s].open /\ session'[n][t].open /\ session'[m][s].port = session'[n][t].port => m = n /\ s = t
    BY <1>0, <1>6, <1>9, <2>1 DEF PortsMatch
  <2>6. \A m, n \in Calls, s \in Invitation!Slots :
         call'[m].pc = "bind" /\ session'[n][s].open => call'[m].port # session'[n][s].port
    BY <1>0, <1>6, <1>9, <2>2, <2>3 DEF PortsMatch, Binding
  <2>7. \A n \in Calls : call'[n].pc = "bind" => call'[n].port \in used' /\ call'[n].todo # <<>>
    BY <1>0, <1>1, <2>3 DEF PortsMatch, Binding
  <2>8. \A m, n \in Calls : call'[m].pc = "bind" /\ call'[n].pc = "bind" /\ call'[m].port = call'[n].port => m = n
    BY <1>0, <2>3 DEF PortsMatch, Binding
  <2> QED BY <2>4, <2>5, <2>6, <2>7, <2>8 DEF PortsMatch, Binding
<1> QED BY <1>0, <1>1, <1>8, <1>10, <1>11, <1>12, InviteStep DEF CallTypes

LEMMA OneMore == ASSUME NEW n \in Nat PROVE n + 1 \in Nat
OBVIOUS

LEMMA BindFailsOK ==
    ASSUME InviteInv, NEW k \in Calls, Invitation!BindFails(k) PROVE InviteInv'
<1>0. CallTypes /\ PoolTypes /\ PortsMatch /\ CallOK(k) /\ call[k] \in CallRecords
  BY InviteFacts DEF CallTypes
<1>1. /\ UNCHANGED <<cursor, session, branch, peer, winner, media, legOver>> /\ Binding(k)
      /\ used' = used \ {call[k].port}
  BY DEF Invitation!BindFails, Invitation!At, Binding
<1>2. PICK pc \in {"allocate", "no socket"} :
         call' = [call EXCEPT ![k] = [call[k] EXCEPT !.pc = pc, !.tries = call[k].tries + 1]]
  BY DEF Invitation!BindFails
<1> DEFINE rec == [call[k] EXCEPT !.pc = pc, !.tries = call[k].tries + 1]
<1>3. rec \in CallRecords /\ rec.pc = pc
  <2>1. call[k].tries + 1 \in Nat
    <3>1. \A c \in CallRecords : c.tries \in Nat
      BY DEF CallRecords
    <3> QED BY <1>0, <3>1, OneMore
  <2>2. \A n \in Nat : [call[k] EXCEPT !.pc = pc, !.tries = n] \in CallRecords
                       /\ [call[k] EXCEPT !.pc = pc, !.tries = n].pc = pc
    BY <1>0 DEF CallRecords
  <2> QED BY <2>1, <2>2
<1>4. call' = [call EXCEPT ![k] = rec]
  BY <1>2
<1> HIDE DEF rec
<1>5. OwnStep(k) /\ call' \in [Calls -> CallRecords] /\ call'[k].pc = pc
  BY <1>0, <1>1, <1>3, <1>4 DEF CallTypes, OwnStep
<1>6. CallOK(k)'
  BY <1>0, <1>1, <1>5 DEF CallOK, CallMatches, BranchMatches, Binding
<1>7. PoolTypes'
  BY <1>0, <1>1 DEF PoolTypes
<1>8. PortsMatch'
  <2>1. \A n \in Calls, s \in Invitation!Slots : session[n][s].open => session[n][s].port # call[k].port
    BY <1>0, <1>1 DEF PortsMatch
  <2>2. \A n \in Calls \ {k} : Binding(n) => call[n].port # call[k].port
    BY <1>0, <1>1 DEF PortsMatch
  <2>3. \A n \in Calls : call'[n].pc = "bind" => n # k /\ call'[n] = call[n]
    BY <1>5 DEF OwnStep
  <2>4. \A n \in Calls, s \in Invitation!Slots : session'[n][s].open => session'[n][s].port \in used'
    BY <1>0, <1>1, <2>1 DEF PortsMatch
  <2>5. \A n \in Calls : call'[n].pc = "bind" => call'[n].port \in used' /\ call'[n].todo # <<>>
    BY <1>0, <1>1, <2>2, <2>3 DEF PortsMatch, Binding
  <2>6. \A m, n \in Calls : call'[m].pc = "bind" /\ call'[n].pc = "bind" /\ call'[m].port = call'[n].port => m = n
    BY <1>0, <2>3 DEF PortsMatch, Binding
  <2>0. session' = session
    BY <1>1
  <2>7. \A m, n \in Calls, s \in Invitation!Slots :
         call'[m].pc = "bind" /\ session'[n][s].open => call'[m].port # session'[n][s].port
    <3>1. ASSUME NEW m \in Calls, NEW n \in Calls, NEW s \in Invitation!Slots, call'[m].pc = "bind",
                 session'[n][s].open
          PROVE  call'[m].port # session'[n][s].port
      <4>1. call'[m] = call[m] /\ session'[n][s] = session[n][s]
        BY <2>0, <2>3, <3>1
      <4>2. call[m].pc = "bind" /\ session[n][s].open
        BY <3>1, <4>1
      <4>3. call[m].port # session[n][s].port
        BY <1>0, <4>2 DEF PortsMatch, Binding
      <4> QED BY <4>1, <4>3
    <3> QED BY <3>1
  <2>8. \A m, n \in Calls, s, t \in Invitation!Slots :
         session'[m][s].open /\ session'[n][t].open /\ session'[m][s].port = session'[n][t].port => m = n /\ s = t
    <3>1. ASSUME NEW m \in Calls, NEW n \in Calls, NEW s \in Invitation!Slots, NEW t \in Invitation!Slots,
                 session'[m][s].open, session'[n][t].open, session'[m][s].port = session'[n][t].port
          PROVE  m = n /\ s = t
      <4>1. session'[m][s] = session[m][s] /\ session'[n][t] = session[n][t]
        BY <2>0
      <4>2. session[m][s].open /\ session[n][t].open /\ session[m][s].port = session[n][t].port
        BY <3>1, <4>1
      <4> QED BY <1>0, <4>2 DEF PortsMatch
    <3> QED BY <3>1
  <2> QED BY <2>4, <2>5, <2>6, <2>7, <2>8 DEF PortsMatch, Binding
<1> QED BY <1>0, <1>1, <1>5, <1>6, <1>7, <1>8, InviteStep DEF CallTypes

LEMMA NoSocketOK ==
    ASSUME InviteInv, NEW k \in Calls, Invitation!NoSocket(k) PROVE InviteInv'
<1>0. CallTypes /\ CallOK(k)
  BY InviteFacts
<1>1. /\ UNCHANGED <<branch, peer, winner, media, legOver>> /\ call[k].pc \in {"no socket", "allocate"}
      /\ Invitation!Close(k, Invitation!Slots) /\ Invitation!Fail(k)
  BY DEF Invitation!NoSocket, Invitation!At
<1>2. CallGoes(k, "returned") /\ call'[k].result = "error" /\ NoNewBinding
  BY <1>1, FailOK
<1>3. PoolTypes' /\ PortsMatch'
  BY <1>1, <1>2, CloseOK
<1>4. CallOK(k)'
  BY <1>0, <1>1, <1>2 DEF CallOK, CallMatches, BranchMatches, CallGoes
<1> QED BY <1>0, <1>1, <1>2, <1>3, <1>4, InviteStep DEF CallTypes, CallGoes, OwnStep

LEMMA SpawnOK ==
    ASSUME InviteInv, NEW k \in Calls, Invitation!Spawn(k) PROVE InviteInv'
<1>0. CallTypes /\ CallOK(k) /\ call[k] \in CallRecords
  BY InviteFacts DEF CallTypes
<1>1. /\ UNCHANGED <<used, cursor, session, peer, winner, media, legOver>> /\ call[k].pc = "allocate"
      /\ call' = [call EXCEPT ![k].pc = "collect"]
      /\ branch' = [branch EXCEPT ![k] =
                     [b \in Branches |-> IF b \in Invitation!Targets(k) THEN "send" ELSE "none"]]
  BY DEF Invitation!Spawn, Invitation!At, Invitation!ports
<1>2. CallGoes(k, "collect")
  BY <1>0, <1>1 DEF CallTypes, CallGoes, CallRecords
<1>3. /\ branch' \in [Calls -> [Branches -> BranchPoints]]
      /\ \A b \in Branches : branch'[k][b] = IF b \in Invitation!Targets(k) THEN "send" ELSE "none"
  BY <1>0, <1>1 DEF CallTypes, BranchPoints
<1>4. OwnStep(k) /\ NoNewBinding
  BY <1>0, <1>1, <1>2 DEF CallTypes, OwnStep, CallGoes, NoNewBinding
<1>5. winner'[k] = None /\ \A b \in Branches : peer'[k][b] = "none"
  BY <1>0, <1>1 DEF CallOK, CallMatches, BranchMatches
<1>6. \A b \in Branches : BranchMatches(k, b)'
  BY <1>2, <1>3, <1>5, CallsAssumption DEF CallGoes, BranchMatches
<1>7. CallMatches(k)'
  BY <1>2, <1>3, <1>5 DEF CallGoes, CallMatches, Invitation!Targets
<1> QED BY <1>0, <1>1, <1>2, <1>3, <1>4, <1>6, <1>7, PortsStay, InviteStep DEF CallTypes, CallOK, CallGoes

LEMMA CancelOK ==
    ASSUME InviteInv, NEW k \in Calls, Invitation!Cancel(k) PROVE InviteInv'
<1>0. CallTypes /\ CallOK(k) /\ call[k] \in CallRecords
  BY InviteFacts DEF CallTypes
<1>1. UNCHANGED <<used, cursor, session, branch, peer, winner, media, legOver>> /\ call[k].pc = "collect"
  BY DEF Invitation!Cancel, Invitation!At, Invitation!ports
<1>2. CallGoes(k, "collect") /\ call'[k].result = call[k].result
  <2> DEFINE rec == [call[k] EXCEPT !.cancelled = TRUE]
  <2>1. rec \in CallRecords /\ rec.pc = call[k].pc /\ rec.fork = call[k].fork /\ rec.result = call[k].result
    BY <1>0 DEF CallRecords
  <2>2. call' = [call EXCEPT ![k] = rec]
    BY DEF Invitation!Cancel
  <2> HIDE DEF rec
  <2> QED BY <1>0, <1>1, <2>1, <2>2 DEF CallTypes, CallGoes
<1>3. OwnStep(k) /\ NoNewBinding
  BY <1>0, <1>1, <1>2 DEF CallTypes, OwnStep, CallGoes, NoNewBinding
<1>4. CallOK(k)'
  BY <1>0, <1>1, <1>2 DEF CallOK, CallMatches, BranchMatches, CallGoes, Invitation!Targets
<1> QED BY <1>0, <1>1, <1>2, <1>3, <1>4, PortsStay, InviteStep DEF CallTypes, CallGoes

\* A branch's step: its own point and its peer's.
BranchGoes(k, b, pc, st) ==
    /\ branch' \in [Calls -> [Branches -> BranchPoints]]
    /\ peer' \in [Calls -> [Branches -> PeerPoints]]
    /\ \A n \in Calls \ {k} : branch'[n] = branch[n] /\ peer'[n] = peer[n]
    /\ \A c \in Branches \ {b} : branch'[k][c] = branch[k][c] /\ peer'[k][c] = peer[k][c]
    /\ branch'[k][b] = pc /\ peer'[k][b] = st

LEMMA BecomesOK ==
    ASSUME InviteInv, NEW k \in Calls, NEW b \in Branches, NEW pc \in BranchPoints, NEW st \in PeerPoints,
           Invitation!Becomes(k, b, pc) \/ (UNCHANGED branch /\ pc = branch[k][b]),
           Invitation!Peer(k, b, st) \/ (UNCHANGED peer /\ st = peer[k][b])
    PROVE  BranchGoes(k, b, pc, st)
<1>0. CallTypes
  BY InviteFacts
<1>1. /\ branch' \in [Calls -> [Branches -> BranchPoints]] /\ branch'[k][b] = pc
      /\ \A n \in Calls \ {k} : branch'[n] = branch[n]
      /\ \A c \in Branches \ {b} : branch'[k][c] = branch[k][c]
  <2>1. CASE UNCHANGED branch /\ pc = branch[k][b]
    BY <1>0, <2>1 DEF CallTypes
  <2>2. CASE Invitation!Becomes(k, b, pc)
    <3> DEFINE row == [branch[k] EXCEPT ![b] = pc]
    <3>1. branch' = [branch EXCEPT ![k] = row]
      BY <2>2 DEF Invitation!Becomes
    <3>2. /\ row \in [Branches -> BranchPoints] /\ row[b] = pc
          /\ \A c \in Branches \ {b} : row[c] = branch[k][c]
      BY <1>0 DEF CallTypes
    <3> HIDE DEF row
    <3> QED BY <1>0, <3>1, <3>2 DEF CallTypes
  <2> QED BY <2>1, <2>2
<1>2. /\ peer' \in [Calls -> [Branches -> PeerPoints]] /\ peer'[k][b] = st
      /\ \A n \in Calls \ {k} : peer'[n] = peer[n]
      /\ \A c \in Branches \ {b} : peer'[k][c] = peer[k][c]
  <2>1. CASE UNCHANGED peer /\ st = peer[k][b]
    BY <1>0, <2>1 DEF CallTypes
  <2>2. CASE Invitation!Peer(k, b, st)
    <3> DEFINE row == [peer[k] EXCEPT ![b] = st]
    <3>1. peer' = [peer EXCEPT ![k] = row]
      BY <2>2 DEF Invitation!Peer
    <3>2. /\ row \in [Branches -> PeerPoints] /\ row[b] = st
          /\ \A c \in Branches \ {b} : row[c] = peer[k][c]
      BY <1>0 DEF CallTypes
    <3> HIDE DEF row
    <3> QED BY <1>0, <3>1, <3>2 DEF CallTypes
  <2> QED BY <2>1, <2>2
<1> QED BY <1>1, <1>2 DEF BranchGoes

\* A step of a branch that neither wins nor had won.
LEMMA BranchStep ==
    ASSUME InviteInv, NEW k \in Calls, NEW b \in Branches, NEW pc \in BranchPoints, NEW st \in PeerPoints,
           BranchGoes(k, b, pc, st), b # winner[k], branch[k][b] \in {"send", "wait"},
           \/ pc = "wait" /\ st \in {"ringing", "answered", "refused"}
           \/ pc = "failed" /\ st \in {"none", "over"},
           UNCHANGED <<used, cursor, session, call, winner, media, legOver>>
    PROVE  InviteInv'
<1>0. CallTypes /\ CallOK(k)
  BY InviteFacts
<1>1. OwnStep(k) /\ NoNewBinding
  BY DEF OwnStep, BranchGoes, NoNewBinding
<1>2. call[k].pc = "collect"
  BY <1>0 DEF CallOK, BranchMatches
<1>3. CallMatches(k)'
  <2>1. winner[k] # None => winner[k] \in Branches \ {b}
    BY <1>0 DEF CallTypes
  <2>2. b \notin Invitation!Targets(k) => branch[k][b] = "none"
    BY <1>0, <1>2 DEF CallOK, CallMatches
  <2> QED BY <1>0, <1>2, <2>1, <2>2 DEF CallOK, CallMatches, BranchGoes, Invitation!Targets
<1>4. \A c \in Branches : BranchMatches(k, c)'
  BY <1>0, <1>2 DEF CallOK, BranchMatches, BranchGoes
<1>5. CallTypes'
  BY <1>0 DEF CallTypes, BranchGoes
<1> QED BY <1>1, <1>3, <1>4, <1>5, PortsStay, InviteStep DEF CallOK

LEMMA BranchesOK ==
    ASSUME InviteInv, NEW k \in Calls, NEW b \in Branches,
           \/ Invitation!WriteInvite(k, b) \/ Invitation!BranchFails(k, b) \/ Invitation!BranchLoses(k, b)
           \/ Invitation!PeerResponds(k, b)
    PROVE  InviteInv'
<1>0. CallTypes /\ CallOK(k) /\ CallMatches(k) /\ BranchMatches(k, b)
  BY InviteFacts DEF CallOK
<1>1. CASE Invitation!WriteInvite(k, b)
  <2>1. PICK pc \in {"wait", "failed"}, st \in {"ringing", "none"} :
           BranchGoes(k, b, pc, st) /\ (pc = "wait" <=> st = "ringing")
    <3>1. CASE Invitation!Becomes(k, b, "wait") /\ Invitation!Peer(k, b, "ringing")
      BY <3>1, BecomesOK DEF BranchPoints, PeerPoints
    <3>2. CASE Invitation!Becomes(k, b, "failed") /\ UNCHANGED peer
      <4>1. peer[k][b] = "none"
        BY <1>0, <1>1 DEF Invitation!WriteInvite, BranchMatches
      <4> QED BY <3>2, <4>1, BecomesOK DEF BranchPoints, PeerPoints
    <3> QED BY <1>1, <3>1, <3>2 DEF Invitation!WriteInvite
  <2>2. branch[k][b] = "send" /\ b # winner[k]
    BY <1>0, <1>1 DEF Invitation!WriteInvite, BranchMatches
  <2> QED BY <1>1, <2>1, <2>2, BranchStep DEF Invitation!WriteInvite, Invitation!ports, BranchPoints, PeerPoints
<1>2. CASE Invitation!BranchFails(k, b) \/ Invitation!BranchLoses(k, b)
  <2>1. BranchGoes(k, b, "failed", "over")
    BY <1>2, BecomesOK DEF BranchPoints, PeerPoints, Invitation!BranchFails, Invitation!BranchLoses
  <2>2. branch[k][b] = "wait" /\ b # winner[k]
    BY <1>0, <1>2 DEF Invitation!BranchFails, Invitation!BranchLoses, BranchMatches
  <2> QED BY <1>2, <2>1, <2>2, BranchStep
          DEF Invitation!BranchFails, Invitation!BranchLoses, Invitation!ports, BranchPoints, PeerPoints
<1>3. CASE Invitation!PeerResponds(k, b)
  <2>1. branch[k][b] = "wait" /\ b # winner[k]
    <3>1. branch[k][b] \in BranchPoints /\ peer[k][b] = "ringing"
      BY <1>0, <1>3 DEF CallTypes, Invitation!PeerResponds
    <3>2. b # winner[k]
      <4>1. SUFFICES ASSUME b = winner[k] PROVE FALSE
        OBVIOUS
      <4>2. winner[k] # None
        BY <4>1, CallsAssumption
      <4>3. call[k].pc \in {"collect", "answer", "returned"}
        BY <4>2, <1>0 DEF CallMatches
      <4>4. peer[k][winner[k]] = "ringing"
        BY <4>1, <3>1
      <4> QED BY <1>0, <4>2, <4>3, <4>4 DEF CallMatches
    <3> QED BY <1>0, <3>1, <3>2 DEF BranchMatches, BranchPoints
  <2>2. PICK st \in {"answered", "refused"} : Invitation!Peer(k, b, st)
    BY <1>3 DEF Invitation!PeerResponds
  <2>3. BranchGoes(k, b, "wait", st)
    BY <1>3, <2>1, <2>2, BecomesOK DEF BranchPoints, PeerPoints, Invitation!PeerResponds
  <2> QED BY <1>3, <2>1, <2>2, <2>3, BranchStep
          DEF Invitation!PeerResponds, Invitation!ports, BranchPoints, PeerPoints
<1> QED BY <1>1, <1>2, <1>3

LEMMA EarlyMediaOK ==
    ASSUME InviteInv, NEW k \in Calls, NEW b \in Branches, Invitation!EarlyMedia(k, b) PROVE InviteInv'
<1>0. CallTypes /\ CallOK(k)
  BY InviteFacts
<1>1. UNCHANGED <<used, cursor, session, call, branch, peer, winner, legOver>>
      /\ media' \in [Calls -> SUBSET Invitation!Slots]
  BY <1>0 DEF Invitation!EarlyMedia, Invitation!ports, CallTypes, Invitation!Slots
<1>2. OwnStep(k) /\ NoNewBinding
  BY <1>1 DEF OwnStep, NoNewBinding
<1>3. CallOK(k)'
  BY <1>0, <1>1 DEF CallOK, CallMatches, BranchMatches, Invitation!Targets
<1> QED BY <1>0, <1>1, <1>2, <1>3, PortsStay, InviteStep DEF CallTypes

LEMMA BranchWinsOK ==
    ASSUME InviteInv, NEW k \in Calls, NEW b \in Branches, Invitation!BranchWins(k, b) PROVE InviteInv'
<1>0. CallTypes /\ CallOK(k)
  BY InviteFacts
<1>1. /\ UNCHANGED <<used, cursor, session, call, peer, media, legOver>>
      /\ branch[k][b] = "wait" /\ peer[k][b] = "answered" /\ winner[k] = None
      /\ winner' = [winner EXCEPT ![k] = b] /\ Invitation!Becomes(k, b, "answered")
  BY DEF Invitation!BranchWins, Invitation!ports
<1>2. BranchGoes(k, b, "answered", "answered")
  BY <1>1, BecomesOK DEF BranchPoints, PeerPoints
<1>3. winner' \in [Calls -> Branches \cup {None}] /\ winner'[k] = b
      /\ \A n \in Calls \ {k} : winner'[n] = winner[n]
  BY <1>0, <1>1 DEF CallTypes
<1>4. OwnStep(k) /\ NoNewBinding
  BY <1>1, <1>2, <1>3 DEF OwnStep, NoNewBinding, BranchGoes
<1>5. call[k].pc = "collect" /\ b # None
  BY <1>0, <1>1, CallsAssumption DEF CallOK, BranchMatches
<1>6. CallMatches(k)'
  <2>1. b \notin Invitation!Targets(k) => branch[k][b] = "none"
    BY <1>0, <1>5 DEF CallOK, CallMatches
  <2> QED BY <1>0, <1>1, <1>2, <1>3, <1>5, <2>1 DEF CallOK, CallMatches, BranchGoes, Invitation!Targets
<1>7. \A c \in Branches : BranchMatches(k, c)'
  BY <1>0, <1>1, <1>2, <1>3, <1>5, CallsAssumption DEF CallOK, BranchMatches, BranchGoes
<1> QED BY <1>0, <1>1, <1>2, <1>3, <1>4, <1>6, <1>7, PortsStay, InviteStep DEF CallTypes, CallOK, BranchGoes

\* What ends an invitation: every branch has reported, the sessions go or are the leg's.
LEMMA ReportedOK ==
    ASSUME InviteInv, NEW k \in Calls, Invitation!Collected(k)
    PROVE  /\ call[k].pc = "collect"
           /\ \A b \in Branches : branch[k][b] \in {"none", "failed", "answered"}
BY InviteFacts DEF Invitation!Collected, Invitation!At, CallOK, CallMatches

LEMMA AllFailedOK ==
    ASSUME InviteInv, NEW k \in Calls, Invitation!AllFailed(k) PROVE InviteInv'
<1>0. CallTypes /\ CallOK(k)
  BY InviteFacts
<1>1. /\ UNCHANGED <<branch, peer, winner, media, legOver>> /\ winner[k] = None
      /\ Invitation!Close(k, Invitation!Owned(k)) /\ Invitation!Fail(k) /\ Invitation!Collected(k)
  BY DEF Invitation!AllFailed
<1>2. CallGoes(k, "returned") /\ call'[k].result = "error" /\ NoNewBinding
  BY <1>1, FailOK
<1>3. PoolTypes' /\ PortsMatch'
  BY <1>1, <1>2, CloseOK DEF Invitation!Owned, Invitation!Slots
<1>4. CallOK(k)'
  BY <1>0, <1>1, <1>2, ReportedOK DEF CallOK, CallMatches, BranchMatches, CallGoes
<1> QED BY <1>0, <1>1, <1>2, <1>3, <1>4, InviteStep DEF CallTypes, CallGoes, OwnStep

\* The winner's peer moves on with the call.
LEMMA WinnerStep ==
    ASSUME InviteInv, NEW k \in Calls, NEW st \in {"acked", "over"}, NEW pc \in {"answer", "returned"},
           Invitation!Peer(k, winner[k], st), winner[k] # None, CallGoes(k, pc),
           call[k].pc \in {"collect", "answer"},
           \A b \in Branches : branch[k][b] \in {"none", "failed", "answered"},
           pc = "answer" => st = "acked",
           pc = "returned" => st = IF call'[k].result = "call" THEN "acked" ELSE "over",
           UNCHANGED <<branch, winner, media, legOver>>, PoolTypes', PortsMatch'
    PROVE  InviteInv'
<1>0. CallTypes /\ CallOK(k) /\ winner[k] \in Branches
  BY InviteFacts DEF CallTypes
<1>1. BranchGoes(k, winner[k], branch[k][winner[k]], st)
  BY <1>0, BecomesOK DEF CallTypes, BranchPoints, PeerPoints
<1>2. CallTypes' /\ OwnStep(k)
  BY <1>0, <1>1 DEF CallTypes, CallGoes, BranchGoes, OwnStep
<1>3. CallMatches(k)'
  BY <1>0, <1>1 DEF CallMatches, CallGoes, BranchGoes
<1>4. \A b \in Branches : BranchMatches(k, b)'
  BY <1>0, <1>1 DEF CallOK, BranchMatches, BranchGoes
<1> QED BY <1>2, <1>3, <1>4, InviteStep DEF CallOK

LEMMA AckOK ==
    ASSUME InviteInv, NEW k \in Calls, Invitation!Ack(k) PROVE InviteInv'
<1>1. CallGoes(k, "answer") /\ NoNewBinding
  <2> DEFINE rec == [call[k] EXCEPT !.pc = "answer"]
  <2>0. CallTypes /\ call[k] \in CallRecords
    BY InviteFacts DEF CallTypes
  <2>1. rec \in CallRecords /\ rec.pc = "answer" /\ rec.fork = call[k].fork /\ rec.result = call[k].result
    BY <2>0 DEF CallRecords
  <2>2. call' = [call EXCEPT ![k] = rec]
    BY DEF Invitation!Ack
  <2> HIDE DEF rec
  <2> QED BY <2>0, <2>1, <2>2 DEF CallTypes, CallGoes, NoNewBinding
<1>2. PoolTypes' /\ PortsMatch'
  BY <1>1, PortsStay DEF Invitation!Ack, Invitation!ports
<1> QED BY <1>1, <1>2, ReportedOK, WinnerStep DEF Invitation!Ack

LEMMA AckFailsOK ==
    ASSUME InviteInv, NEW k \in Calls, Invitation!AckFails(k) \/ Invitation!AnswerUnusable(k) PROVE InviteInv'
<1>0. CallTypes /\ CallOK(k)
  BY InviteFacts
<1>1. /\ UNCHANGED <<branch, winner, media, legOver>> /\ Invitation!Peer(k, winner[k], "over")
      /\ Invitation!Close(k, Invitation!Owned(k)) /\ Invitation!Fail(k)
  BY DEF Invitation!AckFails, Invitation!AnswerUnusable
<1>2. CallGoes(k, "returned") /\ call'[k].result = "error" /\ NoNewBinding
  BY <1>1, FailOK
<1>3. PoolTypes' /\ PortsMatch'
  BY <1>1, <1>2, CloseOK DEF Invitation!Owned, Invitation!Slots
<1>4. /\ winner[k] # None /\ call[k].pc \in {"collect", "answer"}
      /\ \A b \in Branches : branch[k][b] \in {"none", "failed", "answered"}
  BY <1>0, ReportedOK DEF Invitation!AckFails, Invitation!AnswerUnusable, Invitation!At, CallOK, CallMatches
<1> QED BY <1>1, <1>2, <1>3, <1>4, WinnerStep

LEMMA ReturnOK ==
    ASSUME InviteInv, NEW k \in Calls, Invitation!Return(k) PROVE InviteInv'
<1>0. CallTypes /\ CallOK(k) /\ call[k] \in CallRecords
  BY InviteFacts DEF CallTypes
<1>1. PICK gone \in SUBSET {"text"} :
        /\ Invitation!Close(k, gone) /\ media' = [media EXCEPT ![k] = Invitation!Slots \ gone]
  BY DEF Invitation!Return
<1>2. UNCHANGED <<branch, peer, winner, legOver>> /\ call[k].pc = "answer"
  BY DEF Invitation!Return, Invitation!At
<1> DEFINE rec == [call[k] EXCEPT !.pc = "returned", !.result = "call"]
<1>3. rec \in CallRecords /\ rec.pc = "returned" /\ rec.result = "call" /\ rec.fork = call[k].fork
  BY <1>0 DEF CallRecords
<1>4. call' = [call EXCEPT ![k] = rec]
  BY DEF Invitation!Return
<1> HIDE DEF rec
<1>5. CallGoes(k, "returned") /\ call'[k].result = "call" /\ NoNewBinding
  BY <1>0, <1>3, <1>4 DEF CallTypes, CallGoes, NoNewBinding
<1>6. PoolTypes' /\ PortsMatch'
  BY <1>1, <1>5, CloseOK DEF Invitation!Slots
<1>7. CallOK(k)'
  BY <1>0, <1>2, <1>5 DEF CallOK, CallMatches, BranchMatches, CallGoes
<1>8. media' \in [Calls -> SUBSET Invitation!Slots]
  BY <1>0, <1>1 DEF CallTypes
<1> QED BY <1>0, <1>2, <1>5, <1>6, <1>7, <1>8, InviteStep DEF CallTypes, CallGoes, OwnStep

LEMMA LegClosesOK ==
    ASSUME InviteInv, NEW k \in Calls, Invitation!LegCloses(k) PROVE InviteInv'
<1>0. CallTypes /\ CallOK(k)
  BY InviteFacts
<1>1. UNCHANGED <<call, branch, peer, winner, media>> /\ Invitation!Close(k, media[k])
      /\ legOver' \in [Calls -> BOOLEAN] /\ media[k] \in SUBSET Invitation!Slots
  BY <1>0 DEF Invitation!LegCloses, CallTypes
<1>2. NoNewBinding /\ OwnStep(k)
  BY <1>1 DEF NoNewBinding, OwnStep
<1>3. PoolTypes' /\ PortsMatch'
  BY <1>1, <1>2, CloseOK
<1>4. CallOK(k)'
  BY <1>0, <1>1 DEF CallOK, CallMatches, BranchMatches, Invitation!Targets
<1> QED BY <1>0, <1>1, <1>2, <1>3, <1>4, InviteStep DEF CallTypes

LEMMA InviteInit == Invitation!Init => InviteInv
<1> SUFFICES ASSUME Invitation!Init PROVE InviteInv
  OBVIOUS
<1>1. Invitation!NoCall \in CallRecords /\ Invitation!NoCall.pc = "idle"
      /\ Invitation!NoSession \in SessionRecords /\ ~Invitation!NoSession.open
  BY DEF Invitation!NoCall, Invitation!NoSession, CallRecords, SessionRecords
<1>2. \A k \in Calls : call[k] = Invitation!NoCall /\ winner[k] = None
         /\ (\A s \in Invitation!Slots : session[k][s] = Invitation!NoSession)
         /\ (\A b \in Branches : branch[k][b] = "none" /\ peer[k][b] = "none")
  BY DEF Invitation!Init
<1>3. InviteTypes
  <2>1. used \subseteq Invitation!Ports /\ cursor \in Invitation!Ports
    BY CallsAssumption DEF Invitation!Init, Invitation!Ports
  <2>2. call \in [Calls -> CallRecords] /\ session \in [Calls -> [Invitation!Slots -> SessionRecords]]
    BY <1>1 DEF Invitation!Init
  <2>3. branch \in [Calls -> [Branches -> BranchPoints]] /\ peer \in [Calls -> [Branches -> PeerPoints]]
    BY DEF Invitation!Init, BranchPoints, PeerPoints
  <2>4. winner \in [Calls -> Branches \cup {None}] /\ media \in [Calls -> SUBSET Invitation!Slots]
        /\ legOver \in [Calls -> BOOLEAN]
    BY DEF Invitation!Init
  <2> QED BY <2>1, <2>2, <2>3, <2>4 DEF InviteTypes
<1>4. PortsMatch
  BY <1>1, <1>2 DEF PortsMatch, Binding
<1>5. ASSUME NEW k \in Calls PROVE CallMatches(k) /\ \A b \in Branches : BranchMatches(k, b)
  BY <1>1, <1>2, CallsAssumption DEF CallMatches, BranchMatches
<1> QED BY <1>3, <1>4, <1>5 DEF InviteInv

LEMMA InviteNext == InviteInv /\ Invitation!Next => InviteInv'
<1> SUFFICES ASSUME InviteInv, Invitation!Next PROVE InviteInv'
  OBVIOUS
<1>1. PICK k \in Calls :
        \/ \E fork \in BOOLEAN, slots \in Offers[k] : Invitation!Invite(k, fork, slots)
        \/ Invitation!Caller(k) \/ Invitation!Cancel(k) \/ Invitation!LegCloses(k)
        \/ \E b \in Branches :
              Invitation!Branch(k, b) \/ Invitation!EarlyMedia(k, b) \/ Invitation!PeerResponds(k, b)
  BY DEF Invitation!Next
<1>2. CASE Invitation!Caller(k)
  BY <1>2, AllocateOK, BindOK, BindFailsOK, NoSocketOK, SpawnOK, AllFailedOK, AckOK, AckFailsOK, ReturnOK
     DEF Invitation!Caller
<1>3. ASSUME NEW b \in Branches, Invitation!Branch(k, b) PROVE InviteInv'
  BY <1>3, BranchesOK, BranchWinsOK DEF Invitation!Branch
<1> QED BY <1>1, <1>2, <1>3, InviteOK, CancelOK, LegClosesOK, EarlyMediaOK, BranchesOK

LEMMA InviteStutters == InviteInv /\ UNCHANGED inviteVars => InviteInv'
BY DEF inviteVars, InviteInv, InviteTypes, PortsMatch, Binding, CallMatches, BranchMatches, Invitation!Targets

LEMMA InviteSound ==
    InviteInv => Invitation!TypeOK /\ Invitation!PortsAreExclusive /\ Invitation!OneBranchIsKept
<1> SUFFICES ASSUME InviteInv
             PROVE  Invitation!TypeOK /\ Invitation!PortsAreExclusive /\ Invitation!OneBranchIsKept
  OBVIOUS
<1>1. Invitation!TypeOK
  <2>0. CallTypes /\ PoolTypes
    BY InviteFacts
  <2>1. ASSUME NEW k \in Calls
        PROVE  /\ call[k].pc \in {"idle", "allocate", "bind", "no socket", "collect", "answer",
                                  "returned"}
               /\ call[k].result \in {"none", "error", "call"}
    <3>1. call[k] \in CallRecords
      BY <2>0 DEF CallTypes
    <3> QED BY <3>1 DEF CallRecords
  <2>2. ASSUME NEW k \in Calls, NEW s \in Invitation!Slots
        PROVE  session[k][s].port \in Invitation!Ports \cup {0}
    <3>1. session[k][s] \in SessionRecords
      BY <2>0 DEF PoolTypes
    <3> QED BY <3>1 DEF SessionRecords
  <2>3. \A k \in Calls : winner[k] \in Branches \cup {None} /\ media[k] \subseteq Invitation!Slots
    BY <2>0 DEF CallTypes
  <2>4. \A k \in Calls, b \in Branches : branch[k][b] \in BranchPoints /\ peer[k][b] \in PeerPoints
    BY <2>0 DEF CallTypes
  <2> QED BY <2>0, <2>1, <2>2, <2>3, <2>4 DEF PoolTypes, BranchPoints, PeerPoints, Invitation!TypeOK
<1>2. Invitation!PortsAreExclusive
  BY DEF InviteInv, PortsMatch, Binding, Invitation!PortsAreExclusive, Invitation!Open, Invitation!At
<1>3. ASSUME NEW k \in Calls, call[k].pc = "returned"
      PROVE  {b \in Branches : peer[k][b] \in {"answered", "acked"}} =
                 IF call[k].result = "call" THEN {winner[k]} ELSE {}
  <2>1. CallTypes /\ CallMatches(k) /\ \A b \in Branches : BranchMatches(k, b)
    BY InviteFacts DEF CallOK
  <2>2. \A b \in Branches : b # winner[k] => peer[k][b] \in {"none", "over"}
    BY <2>1, <1>3 DEF CallMatches, BranchMatches
  <2>3. CASE call[k].result = "call"
    BY <1>3, <2>1, <2>2, <2>3 DEF CallMatches, CallTypes
  <2>4. CASE call[k].result # "call"
    <3>1. ASSUME NEW b \in Branches, b = winner[k] PROVE peer[k][b] = "over"
      BY <1>3, <2>1, <2>4, <3>1, CallsAssumption DEF CallMatches
    <3> QED BY <2>2, <2>4, <3>1
  <2> QED BY <2>3, <2>4
<1>4. Invitation!OneBranchIsKept
  BY <1>3 DEF Invitation!OneBranchIsKept, Invitation!At
<1> QED BY <1>1, <1>2, <1>4

LEMMA Quarters == Dialog!Interval = 4 /\ Dialog!Grace = 1 /\ Dialog!Off = -1 /\ 4 \div 2 = 2 /\ 4 \div 4 = 1
BY DEF Dialog!Interval, Dialog!Grace, Dialog!Off

TimerRecords == [fn : {"refresh", "expire"}, left : -1 .. 5]
LegRecords == [state : {"connected", "held", "hung_up"}, held : BOOLEAN,
               holdTimer : {"off", "armed", "fired"}]
RequestRecords == [pc : {"idle", "reset", "offer"}, timer : Timers \cup {NoTimer},
                   direction : {"none", "sendonly", "sendrecv"}]

SessionTypes ==
    /\ refresher \in {"uas", "uac", "none"} /\ leg \in LegRecords
    /\ slot \in Timers \cup {NoTimer} /\ timer \in [Timers -> TimerRecords]
    /\ refreshing \subseteq Timers /\ request \in RequestRecords
    /\ requests \in 0 .. MaxRequests /\ control \in {"none", "hold", "unhold"}
    /\ hangup \in {"no", "state", "done"} /\ peerUp \in BOOLEAN /\ failed \in BOOLEAN
    /\ since \in 0 .. 5 /\ ended \in {"no", "session_expired", "rtp_timeout", "other"}

LEMMA SessionTyped == Dialog!TypeOK <=> SessionTypes
<1>1. Dialog!Off .. Dialog!Interval + Dialog!Grace = -1 .. 5 /\ 0 .. Dialog!Interval + Dialog!Grace = 0 .. 5
  BY Quarters
<1> QED BY <1>1 DEF Dialog!TypeOK, SessionTypes, TimerRecords, LegRecords, RequestRecords,
        Dialog!Directions

\* The invariant with the quarters worked out.
Counts5 ==
    /\ refresher # "uac" => \A t \in Timers : timer[t].fn = "expire" => failed
    /\ refresher = "uac" =>
          /\ refreshing = {}
          /\ \A t, u \in Timers : Known(t) /\ Known(u) => t = u
          /\ \A t \in Timers : Known(t) => timer[t].fn = "expire"
          /\ \A t \in Timers : timer[t].left # -1 /\ ended = "no" => timer[t].left + since = 5
Ends5 ==
    /\ ended = "session_expired" => IF refresher = "uac" THEN since = 5 ELSE failed
    /\ hangup # "no" => ended # "no"
    /\ slot = NoTimer /\ refresher # "none" => ended # "no"
    /\ request.pc = "reset" /\ request.timer = NoTimer /\ refresher # "none" => ended # "no"

LEMMA SessionFacts == SessionInv => SessionTypes /\ Counts5 /\ Ends5 /\ HoldsMatch
BY SessionTyped, Quarters DEF SessionInv, ExpiriesMatch, EndsMatch, Counts5, Ends5

LEMMA SessionDone == SessionTypes' /\ Counts5' /\ Ends5' /\ HoldsMatch' => SessionInv'
<1>1. SessionTypes' => Dialog!TypeOK'
  <2>1. Dialog!Off .. Dialog!Interval + Dialog!Grace = -1 .. 5 /\ 0 .. Dialog!Interval + Dialog!Grace = 0 .. 5
    BY Quarters
  <2> QED BY <2>1 DEF Dialog!TypeOK, SessionTypes, TimerRecords, LegRecords, RequestRecords,
          Dialog!Directions
<1>2. Counts5' => ExpiriesMatch'
  BY DEF Counts5, ExpiriesMatch, Dialog!Interval, Dialog!Grace, Dialog!Off
<1>3. Ends5' => EndsMatch'
  BY DEF Ends5, EndsMatch, Dialog!Interval, Dialog!Grace, Dialog!Off
<1> QED BY <1>1, <1>2, <1>3 DEF SessionInv

\* What knows a timer, for the counts.
LEMMA KnownDef == \A t : Known(t) <=> timer[t].left # -1 \/ slot = t \/ request.timer = t
BY DEF Known, Dialog!Off
LEMMA KnownNext == \A t : Known(t)' <=> timer'[t].left # -1 \/ slot' = t \/ request'.timer = t
BY DEF Known, Dialog!Off

\* A step on the leg alone: SetHeld keeps the hold timer in time with the hold.
LEMMA SetHeldOK ==
    ASSUME SessionInv, NEW held \in BOOLEAN, Dialog!SetHeld(held), UNCHANGED hangup
    PROVE  leg' \in LegRecords /\ HoldsMatch'
<1>1. leg \in LegRecords /\ HoldsMatch
  BY SessionFacts DEF SessionTypes
<1>2. CASE leg.held = held
  BY <1>1, <1>2 DEF Dialog!SetHeld, HoldsMatch
<1>3. CASE leg.held # held
  <2>1. leg' = [state |-> IF held THEN "held" ELSE "connected", held |-> held,
                holdTimer |-> IF held THEN "armed" ELSE IF leg.holdTimer = "fired" THEN "fired" ELSE "off"]
    BY <1>3 DEF Dialog!SetHeld
  <2>2. CASE held
    <3>1. leg' = [state |-> "held", held |-> held, holdTimer |-> "armed"]
      BY <2>1, <2>2
    <3> QED BY <3>1, <2>2 DEF HoldsMatch, LegRecords
  <2>3. CASE ~held
    <3>1. PICK h \in {"off", "fired"} : leg' = [state |-> "connected", held |-> held, holdTimer |-> h]
      BY <2>1, <2>3
    <3> QED BY <3>1, <2>3 DEF HoldsMatch, LegRecords
  <2> QED BY <2>2, <2>3
<1> QED BY <1>2, <1>3

\* What a step leaves of the counts when it touches no timer.
LEMMA CountsStay ==
    ASSUME SessionInv, UNCHANGED <<refresher, slot, timer, refreshing, since, failed, ended>>,
           \/ UNCHANGED request
           \/ request'.pc # "reset" /\ request'.timer = NoTimer
           \/ request'.timer = slot
    PROVE  Counts5' /\ ((hangup' # "no" => hangup # "no") => Ends5')
<1>1. Counts5 /\ Ends5
  BY SessionFacts
<1>2. ASSUME NEW t \in Timers, Known(t)' PROVE Known(t)
  BY <1>2, KnownDef, KnownNext, CallsAssumption
<1>3. Counts5'
  BY <1>1, <1>2 DEF Counts5
<1>4. (hangup' # "no" => hangup # "no") => Ends5'
  BY <1>1 DEF Ends5
<1> QED BY <1>3, <1>4

LEMMA HoldsOK ==
    ASSUME SessionInv,
           Dialog!Hold \/ Dialog!Unhold \/ Dialog!HoldAnswered \/ Dialog!HoldTimerFires \/ Dialog!HandleRemoteHold
    PROVE  SessionInv'
<1>1. UNCHANGED <<refresher, slot, timer, refreshing, since, failed, ended, hangup, peerUp, requests>>
      /\ control' \in {"none", "hold", "unhold"}
      /\ (UNCHANGED request \/ request' = Dialog!IdleRequest)
  BY SessionFacts DEF SessionTypes, Dialog!Hold, Dialog!Unhold, Dialog!HoldAnswered, Dialog!HoldTimerFires,
     Dialog!HandleRemoteHold, Dialog!sessionVars, Dialog!endVars, Dialog!peerVars
<1>2. Counts5' /\ Ends5'
  BY <1>1, CountsStay DEF Dialog!IdleRequest
<1>3. leg' \in LegRecords /\ HoldsMatch'
  <2>1. CASE UNCHANGED leg
    BY <2>1, <1>1, SessionFacts DEF SessionTypes, HoldsMatch
  <2>2. CASE Dialog!HoldTimerFires
    BY <2>2, <1>1, SessionFacts DEF SessionTypes, HoldsMatch, LegRecords, Dialog!HoldTimerFires
  <2>3. CASE Dialog!HoldAnswered
    BY <2>3, <2>1, <1>1, SetHeldOK DEF Dialog!HoldAnswered
  <2>4. CASE Dialog!HandleRemoteHold
    BY <2>4, <2>1, <1>1, SetHeldOK DEF Dialog!HandleRemoteHold
  <2>5. CASE Dialog!Hold \/ Dialog!Unhold
    BY <2>5, <2>1 DEF Dialog!Hold, Dialog!Unhold
  <2> QED BY <2>2, <2>3, <2>4, <2>5
<1>4. SessionTypes'
  BY <1>1, <1>3, SessionFacts DEF SessionTypes, RequestRecords, Dialog!IdleRequest
<1> QED BY <1>2, <1>3, <1>4, SessionDone

LEMMA HoldTimeoutOK ==
    ASSUME SessionInv, Dialog!HoldTimeout PROVE SessionInv'
<1>0. SessionTypes /\ Counts5 /\ Ends5 /\ HoldsMatch
  BY SessionFacts
<1>1. /\ UNCHANGED <<refresher, slot, timer, refreshing, since, failed, request, requests, peerUp, control>>
      /\ leg' \in LegRecords /\ hangup' \in {"state", "done"}
      /\ ended' \in {"no", "session_expired", "rtp_timeout", "other"}
      /\ ended' = IF ended = "no" THEN "rtp_timeout" ELSE ended
  BY <1>0 DEF SessionTypes, Ends5, HoldsMatch, Dialog!HoldTimeout, Dialog!sessionVars, Dialog!endVars,
     Dialog!peerVars, LegRecords
<1>2. Counts5'
  BY <1>0, <1>1, KnownDef, KnownNext DEF Counts5
<1>3. Ends5' /\ HoldsMatch'
  BY <1>0, <1>1 DEF Ends5, HoldsMatch
<1>4. SessionTypes'
  BY <1>0, <1>1 DEF SessionTypes
<1> QED BY <1>2, <1>3, <1>4, SessionDone

LEMMA PeerOK ==
    ASSUME SessionInv, Dialog!PeerRequest \/ Dialog!PeerLost PROVE SessionInv'
<1>0. SessionTypes /\ Counts5 /\ Ends5 /\ HoldsMatch
  BY SessionFacts
<1>1. /\ UNCHANGED <<refresher, slot, timer, refreshing, since, failed, ended, hangup, leg, control>>
      /\ peerUp' \in BOOLEAN
  BY <1>0 DEF SessionTypes, Dialog!PeerRequest, Dialog!PeerLost, Dialog!sessionVars, Dialog!endVars, Dialog!legVars
<1>2. (UNCHANGED request \/ request'.timer = slot) /\ request' \in RequestRecords /\ requests' \in 0 .. MaxRequests
  <2>1. MaxRequests \in Nat
    BY CallsAssumption
  <2> QED BY <1>0, <2>1 DEF SessionTypes, Dialog!PeerRequest, Dialog!PeerLost, RequestRecords, Dialog!Directions
<1>3. Counts5' /\ Ends5'
  BY <1>1, <1>2, CountsStay
<1>4. SessionTypes' /\ HoldsMatch'
  BY <1>0, <1>1, <1>2 DEF SessionTypes, HoldsMatch
<1> QED BY <1>3, <1>4, SessionDone

LEMMA HangupOK ==
    ASSUME SessionInv, Dialog!Hangup PROVE SessionInv'
<1>0. SessionTypes /\ Counts5 /\ Ends5 /\ HoldsMatch
  BY SessionFacts
<1>1. /\ UNCHANGED <<refresher, slot, timer, refreshing, since, failed, request, requests, peerUp, control>>
      /\ leg' \in LegRecords /\ hangup' = "state" /\ ended' = "other"
  BY <1>0 DEF SessionTypes, Dialog!Hangup, Dialog!sessionVars, Dialog!peerVars, LegRecords
<1>2. Counts5'
  BY <1>0, <1>1, KnownDef, KnownNext DEF Counts5
<1>3. Ends5' /\ HoldsMatch'
  BY <1>0, <1>1 DEF Ends5, HoldsMatch
<1>4. SessionTypes'
  BY <1>0, <1>1 DEF SessionTypes
<1> QED BY <1>2, <1>3, <1>4, SessionDone

LEMMA StopTimersOK ==
    ASSUME SessionInv, Dialog!StopTimers PROVE SessionInv'
<1>0. SessionTypes /\ Counts5 /\ Ends5 /\ HoldsMatch
  BY SessionFacts
<1>1. /\ UNCHANGED <<refresher, refreshing, since, failed, request, requests, peerUp, control, ended>>
      /\ slot' = NoTimer /\ hangup = "state" /\ hangup' = "done"
  BY DEF Dialog!StopTimers, Dialog!peerVars
<1>2. leg' \in LegRecords
  <2>1. leg' = [leg EXCEPT !.holdTimer = IF leg.holdTimer = "armed" THEN "off" ELSE leg.holdTimer]
    BY DEF Dialog!StopTimers
  <2> QED BY <2>1, <1>0 DEF SessionTypes, LegRecords
<1>3. /\ timer' \in [Timers -> TimerRecords]
      /\ \A t \in Timers : timer'[t].fn = timer[t].fn /\ timer'[t].left \in {-1, timer[t].left}
  BY <1>0 DEF Dialog!StopTimers, SessionTypes, TimerRecords, Dialog!Off
<1>4. Counts5'
  <2>1. ASSUME NEW t \in Timers, Known(t)' PROVE Known(t)
    BY <2>1, <1>1, <1>3, KnownDef, KnownNext, CallsAssumption
  <2> QED BY <1>0, <1>1, <1>3, <2>1 DEF Counts5
<1>5. Ends5' /\ HoldsMatch'
  BY <1>0, <1>1 DEF Ends5, HoldsMatch
<1>6. SessionTypes'
  BY <1>0, <1>1, <1>2, <1>3 DEF SessionTypes
<1> QED BY <1>4, <1>5, <1>6, SessionDone

\* The callback of a timer that fires: it is nobody's but what refers to it.
LEMMA FiredOK ==
    ASSUME SessionInv, NEW t \in Timers, Dialog!Fired(t)
    PROVE  /\ timer' \in [Timers -> TimerRecords] /\ timer[t].left = 0
           /\ \A u \in Timers : timer'[u].fn = timer[u].fn
                                /\ timer'[u].left = IF u = t THEN -1 ELSE timer[u].left
BY SessionFacts DEF SessionTypes, TimerRecords, Dialog!Fired, Dialog!Off

LEMMA SessionRefreshOK ==
    ASSUME SessionInv, NEW t \in Timers, Dialog!SessionRefresh(t) PROVE SessionInv'
<1>0. SessionTypes /\ Counts5 /\ Ends5 /\ HoldsMatch
  BY SessionFacts
<1>1. /\ UNCHANGED <<refresher, slot, since, failed, request, requests, peerUp, control, ended, leg, hangup>>
      /\ refreshing' \subseteq refreshing \cup {t} /\ timer[t].fn = "refresh" /\ Dialog!Fired(t)
  BY DEF Dialog!SessionRefresh
<1>2. refresher # "uac"
  BY <1>0, <1>1, FiredOK, KnownDef DEF Counts5
<1>3. Counts5' /\ Ends5' /\ HoldsMatch'
  BY <1>0, <1>1, <1>2, FiredOK DEF Counts5, Ends5, HoldsMatch
<1>4. SessionTypes'
  BY <1>0, <1>1, FiredOK DEF SessionTypes
<1> QED BY <1>3, <1>4, SessionDone

LEMMA SessionExpiredOK ==
    ASSUME SessionInv, NEW t \in Timers, Dialog!SessionExpired(t) PROVE SessionInv'
<1>0. SessionTypes /\ Counts5 /\ Ends5 /\ HoldsMatch
  BY SessionFacts
<1>1. /\ UNCHANGED <<refresher, slot, refreshing, since, failed, request, requests, peerUp, control>>
      /\ timer[t].fn = "expire" /\ Dialog!Fired(t)
  BY DEF Dialog!SessionExpired, Dialog!peerVars
<1>2. /\ leg' \in LegRecords /\ hangup' \in {"no", "state", "done"}
      /\ ended' \in {"no", "session_expired", "rtp_timeout", "other"}
      /\ ended' \in {ended, "session_expired"} /\ (ended # "no" => ended' = ended)
      /\ (hangup' = "no" => UNCHANGED <<leg, hangup>>) /\ (hangup' # "no" => ended' # "no")
  <2>1. CASE leg.state = "hung_up"
    BY <2>1, <1>0 DEF Dialog!SessionExpired, Dialog!EndFor, Dialog!endVars, SessionTypes, Ends5
  <2>2. CASE leg.state # "hung_up"
    BY <2>2, <1>0 DEF Dialog!SessionExpired, Dialog!EndFor, SessionTypes, LegRecords, Ends5
  <2> QED BY <2>1, <2>2
<1>3. Counts5'
  <2>1. ASSUME NEW u \in Timers, Known(u)' PROVE Known(u)
    BY <2>1, <1>1, FiredOK, KnownDef, KnownNext
  <2> QED BY <2>1, <1>0, <1>1, <1>2, FiredOK DEF Counts5
<1>4. ended = "no" => IF refresher = "uac" THEN since = 5 ELSE failed
  <2>1. CASE refresher = "uac"
    <3>1. ended = "no" => 0 + since = 5
      BY <2>1, <1>0, <1>1, FiredOK DEF Counts5
    <3> QED BY <3>1, <2>1, <1>0 DEF SessionTypes
  <2>2. CASE refresher # "uac"
    BY <2>2, <1>0, <1>1 DEF Counts5
  <2> QED BY <2>1, <2>2
<1>5. Ends5' /\ HoldsMatch'
  BY <1>0, <1>1, <1>2, <1>4 DEF Ends5, HoldsMatch
<1>6. SessionTypes'
  BY <1>0, <1>1, <1>2, FiredOK DEF SessionTypes
<1> QED BY <1>3, <1>5, <1>6, SessionDone

LEMMA RefreshedOK ==
    ASSUME SessionInv, NEW t \in Timers, Dialog!Refreshed(t) PROVE SessionInv'
<1>0. SessionTypes /\ Counts5 /\ Ends5 /\ HoldsMatch
  BY SessionFacts
<1>1. UNCHANGED <<refresher, leg, control, hangup, ended, request, requests, peerUp>>
      /\ refreshing' \subseteq refreshing /\ refreshing # {}
  BY DEF Dialog!Refreshed, Dialog!legVars, Dialog!endVars, Dialog!peerVars
<1>2. refresher # "uac"
  BY <1>0, <1>1 DEF Counts5
<1>3. PICK fn \in {"refresh", "expire"}, left \in -1 .. 5 :
         /\ Dialog!AfterFunc(fn, left) /\ (fn = "expire" => failed')
         /\ since' \in {0, since} /\ failed' \in BOOLEAN /\ (failed => failed')
  <2>1. CASE Dialog!Refreshed(t)!2!1
    <3>1. Dialog!AfterFunc("refresh", 2)
      BY <2>1, Quarters
    <3>2. since' \in {0, since} /\ UNCHANGED failed
      BY <2>1 DEF Dialog!Since
    <3> QED BY <3>1, <3>2, <1>0 DEF SessionTypes
  <2>2. CASE Dialog!Refreshed(t)!2!2
    <3>1. Dialog!AfterFunc("expire", 1)
      BY <2>2, Quarters
    <3>2. UNCHANGED since /\ failed'
      BY <2>2
    <3>3. failed' \in BOOLEAN
      BY <2>2
    <3> QED BY <3>1, <3>2, <3>3
  <2> QED BY <2>1, <2>2 DEF Dialog!Refreshed
<1>4. PICK n \in Timers : timer' = [timer EXCEPT ![n] = [fn |-> fn, left |-> left]] /\ slot' = n
  BY <1>3 DEF Dialog!AfterFunc
<1>5. timer' \in [Timers -> TimerRecords] /\ \A u \in Timers : timer'[u].fn \in {timer[u].fn, fn}
  BY <1>4, <1>0 DEF SessionTypes, TimerRecords
<1>6. since' \in 0 .. 5 /\ failed' \in BOOLEAN /\ (failed => failed')
  BY <1>0, <1>3 DEF SessionTypes
<1>7. Counts5'
  BY <1>0, <1>1, <1>2, <1>3, <1>5, <1>6 DEF Counts5
<1>8. Ends5' /\ HoldsMatch'
  BY <1>0, <1>1, <1>2, <1>4, <1>6, CallsAssumption DEF Ends5, HoldsMatch
<1>9. SessionTypes'
  BY <1>0, <1>1, <1>4, <1>5, <1>6 DEF SessionTypes
<1> QED BY <1>7, <1>8, <1>9, SessionDone

LEMMA ResetSessionTimerOK ==
    ASSUME SessionInv, Dialog!ResetSessionTimer PROVE SessionInv'
<1>0. SessionTypes /\ Counts5 /\ Ends5 /\ HoldsMatch
  BY SessionFacts
<1>1. /\ UNCHANGED <<refresher, slot, refreshing, failed, leg, control, hangup, ended, requests, peerUp>>
      /\ request.pc = "reset" /\ request' = [request EXCEPT !.pc = "offer", !.timer = NoTimer]
  BY DEF Dialog!ResetSessionTimer, Dialog!legVars, Dialog!endVars
<1>2. since' = IF ended = "no" THEN 0 ELSE since
  BY DEF Dialog!ResetSessionTimer, Dialog!Since
<1>3. request' \in RequestRecords /\ request'.pc = "offer" /\ request'.timer = NoTimer
  BY <1>0, <1>1 DEF SessionTypes, RequestRecords
<1>4. PICK left \in {2, 5} :
        /\ Dialog!Armed(refresher).left = left /\ (refresher = "uac" => left = 5)
  BY <1>0, Quarters DEF Dialog!Armed, SessionTypes
<1>5. /\ timer' \in [Timers -> TimerRecords]
      /\ \A u \in Timers :
            timer'[u].fn = timer[u].fn /\ timer'[u].left = IF u = request.timer THEN left ELSE timer[u].left
  <2>1. CASE request.timer = NoTimer
    BY <2>1, <1>0, CallsAssumption DEF Dialog!ResetSessionTimer, SessionTypes
  <2>2. CASE request.timer # NoTimer
    <3>1. request.timer \in Timers
      BY <2>2, <1>0 DEF SessionTypes, RequestRecords
    <3>2. timer' = [timer EXCEPT ![request.timer].left = left]
      BY <2>2, <1>4 DEF Dialog!ResetSessionTimer
    <3> QED BY <3>1, <3>2, <1>0 DEF SessionTypes, TimerRecords
  <2> QED BY <2>1, <2>2
<1>6. Counts5'
  <2>1. ASSUME NEW u \in Timers, Known(u)' PROVE Known(u)
    BY <2>1, <1>1, <1>3, <1>5, KnownDef, KnownNext, CallsAssumption
  <2>2. ASSUME refresher = "uac", NEW u \in Timers, timer'[u].left # -1, ended = "no"
        PROVE  timer'[u].left + since' = 5
    <3>1. request.timer \in Timers
      BY <1>0, <1>1, <2>2 DEF SessionTypes, RequestRecords, Ends5
    <3>2. Known(u) /\ Known(request.timer)
      BY <3>1, <2>1, <2>2, KnownDef, KnownNext
    <3>3. u = request.timer
      BY <3>1, <3>2, <2>2, <1>0 DEF Counts5
    <3> QED BY <3>3, <1>2, <1>4, <1>5, <2>2
  <2> QED BY <1>0, <1>1, <1>5, <2>1, <2>2 DEF Counts5
<1>7. Ends5' /\ HoldsMatch'
  BY <1>0, <1>1, <1>2, <1>3 DEF Ends5, HoldsMatch
<1>8. SessionTypes'
  BY <1>0, <1>1, <1>2, <1>3, <1>5 DEF SessionTypes
<1> QED BY <1>6, <1>7, <1>8, SessionDone

LEMMA TickOK ==
    ASSUME SessionInv, Dialog!Tick PROVE SessionInv'
<1>0. SessionTypes /\ Counts5 /\ Ends5 /\ HoldsMatch
  BY SessionFacts
<1>1. /\ UNCHANGED <<refresher, leg, slot, refreshing, request, requests, control, hangup, peerUp, failed, ended>>
      /\ since' = IF ended = "no" THEN (IF since < 5 THEN since + 1 ELSE since) ELSE since
  BY Quarters DEF Dialog!Tick, Dialog!Since
<1>2. \A t \in Timers :
        /\ timer'[t] \in TimerRecords /\ timer'[t].fn = timer[t].fn
        /\ timer'[t].left = (IF timer[t].left # -1 THEN timer[t].left - 1 ELSE -1)
        /\ timer[t].left # 0 /\ timer[t].left \in -1 .. 5
  <2>1. ASSUME NEW t \in Timers
        PROVE  /\ timer'[t] \in TimerRecords /\ timer'[t].fn = timer[t].fn
               /\ timer'[t].left = (IF timer[t].left # -1 THEN timer[t].left - 1 ELSE -1)
               /\ timer[t].left # 0 /\ timer[t].left \in -1 .. 5
    <3>1. timer'[t] = IF timer[t].left # -1 THEN [timer[t] EXCEPT !.left = timer[t].left - 1] ELSE timer[t]
      BY DEF Dialog!Tick, Dialog!Pending, Dialog!Off
    <3>2. timer[t] \in TimerRecords /\ timer[t].left # 0
      BY <1>0 DEF Dialog!Tick, SessionTypes
    <3> QED BY <3>1, <3>2 DEF TimerRecords
  <2> QED BY <2>1
<1>3. timer' \in [Timers -> TimerRecords]
  <2>1. timer' = [t \in Timers |-> timer'[t]]
    BY DEF Dialog!Tick
  <2> QED BY <2>1, <1>2
<1>4. ASSUME NEW t \in Timers PROVE timer'[t].left # -1 => timer[t].left # -1
  BY <1>2
<1>5. Counts5'
  <2>1. ASSUME NEW u \in Timers, Known(u)' PROVE Known(u)
    BY <2>1, <1>1, <1>4, KnownDef, KnownNext
  <2>2. ASSUME refresher = "uac", NEW u \in Timers, timer'[u].left # -1, ended = "no"
        PROVE  timer'[u].left + since' = 5
    BY <2>2, <1>0, <1>1, <1>2 DEF Counts5, SessionTypes
  <2> QED BY <1>0, <1>1, <1>2, <2>1, <2>2 DEF Counts5
<1>6. Ends5' /\ HoldsMatch'
  BY <1>0, <1>1 DEF Ends5, HoldsMatch
<1>7. SessionTypes'
  BY <1>0, <1>1, <1>3 DEF SessionTypes
<1> QED BY <1>5, <1>6, <1>7, SessionDone

LEMMA SessionInit == Dialog!Init => SessionInv
<1> SUFFICES ASSUME Dialog!Init PROVE SessionInv
  OBVIOUS
<1>1. Dialog!Armed(refresher) \in TimerRecords /\ Dialog!Unused \in TimerRecords
      /\ Dialog!Unused.fn = "refresh" /\ Dialog!Unused.left = -1
      /\ (refresher = "uac" => Dialog!Armed(refresher).fn = "expire" /\ Dialog!Armed(refresher).left = 5)
      /\ (refresher # "uac" => Dialog!Armed(refresher).fn = "expire" \/ Dialog!Armed(refresher).fn = "refresh")
      /\ (refresher = "uas" => Dialog!Armed(refresher).fn = "refresh")
  BY Quarters DEF Dialog!Armed, Dialog!Unused, TimerRecords
<1>2. \A t \in Timers : timer[t] = IF t = slot THEN Dialog!Armed(refresher) ELSE Dialog!Unused
  BY DEF Dialog!Init
<1>3. SessionTypes
  <2>1. timer \in [Timers -> TimerRecords]
    BY <1>1 DEF Dialog!Init
  <2>2. request \in RequestRecords /\ leg \in LegRecords
    BY DEF Dialog!Init, Dialog!IdleRequest, RequestRecords, LegRecords
  <2>3. requests \in 0 .. MaxRequests
    BY CallsAssumption DEF Dialog!Init
  <2>4. /\ refresher \in {"uas", "uac", "none"} /\ slot \in Timers \cup {NoTimer}
        /\ refreshing = {} /\ control = "none" /\ hangup = "no" /\ peerUp = TRUE
        /\ since = 0 /\ failed = FALSE /\ ended = "no"
    BY DEF Dialog!Init
  <2>5. since \in 0 .. 5
    BY <2>4
  <2> QED BY <2>1, <2>2, <2>3, <2>4, <2>5 DEF SessionTypes
<1>4. request.timer = NoTimer /\ request.pc = "idle"
  BY DEF Dialog!Init, Dialog!IdleRequest
<1>5. Counts5
  <2>1. ASSUME NEW t \in Timers, Known(t) PROVE t = slot
    BY <2>1, <1>1, <1>2, <1>4, KnownDef, CallsAssumption
  <2> QED BY <2>1, <1>1, <1>2, CallsAssumption DEF Counts5, Dialog!Init
<1>6. Ends5 /\ HoldsMatch
  BY <1>4, CallsAssumption DEF Ends5, HoldsMatch, Dialog!Init
<1> QED BY <1>3, <1>5, <1>6, SessionTyped, Quarters DEF SessionInv, Counts5, Ends5, ExpiriesMatch, EndsMatch

LEMMA SessionNext == SessionInv /\ Dialog!Next => SessionInv'
BY TickOK, SessionRefreshOK, RefreshedOK, SessionExpiredOK, HoldsOK, HoldTimeoutOK, PeerOK,
   ResetSessionTimerOK, HangupOK, StopTimersOK DEF Dialog!Next

LEMMA SessionStutters == SessionInv /\ UNCHANGED sessionVars => SessionInv'
BY DEF sessionVars, SessionInv, Dialog!TypeOK, ExpiriesMatch, EndsMatch, HoldsMatch, Known

LEMMA SessionSound == SessionInv => Dialog!TypeOK /\ Dialog!TimersAreDue
BY DEF SessionInv, EndsMatch, HoldsMatch, Dialog!TimersAreDue

-----------------------------------------------------------------------------
(* The jitter buffer: every number that is compared is within half a turn of *)
(* the others, so that the circular order is the order of sending.           *)

FrameMatches(f) ==
    /\ f \in Jitter!Frame /\ f.seq = f.n % Modulus
    /\ f.n \in due .. sent /\ (at = Jitter!NoCursor => f.n > due)
FlightMatches(n) ==
    n \in 1 .. sent /\ sent - n <= Window /\ (at = Jitter!NoCursor => n > due)
CursorMatches ==
    /\ due \in 0 .. sent + 1 /\ sent - due <= MaxLead /\ played \in 0 .. sent
    /\ due = sent + 1 => played = sent
    /\ at # Jitter!NoCursor => at = due % Modulus /\ played < due
    /\ at = Jitter!NoCursor => played <= due /\ due <= sent
Sorted(q) == \A i, j \in DOMAIN q : i < j => q[i].n < q[j].n

JitterInv ==
    /\ sent \in 0 .. MaxSent /\ base = 0 /\ refused = FALSE /\ warming \in BOOLEAN
    /\ CursorMatches
    /\ \A n \in flight : FlightMatches(n)
    /\ frames \in Seq(Jitter!Frame) /\ Len(frames) <= JitterFrames
    /\ \A i \in DOMAIN frames : FrameMatches(frames[i])
    /\ Sorted(frames)

LEMMA Turn ==
    ASSUME NEW M \in Nat, M > 0, NEW a \in Int
    PROVE  a % M \in 0 .. (M - 1) /\ a \div M \in Int /\ a = ((a \div M) * M) + (a % M)
BY SMT
LEMMA Remainder ==
    ASSUME NEW M \in Nat, M > 0, NEW a \in Int, NEW q \in Int, NEW r \in 0 .. (M - 1), a = (q * M) + r
    PROVE  a % M = r
BY SMT

\* The numbers of two packets that are less than a turn apart.
LEMMA Apart ==
    ASSUME NEW M \in Nat, M > 0, NEW a \in Int, NEW b \in Int, b - a < M, a - b < M
    PROVE  ((b % M) - (a % M)) % M = IF a <= b THEN b - a ELSE (b - a) + M
<1> DEFINE qa == a \div M  ra == a % M  qb == b \div M  rb == b % M
<1>1. /\ qa \in Int /\ ra \in 0 .. (M - 1) /\ a = (qa * M) + ra
      /\ qb \in Int /\ rb \in 0 .. (M - 1) /\ b = (qb * M) + rb
  BY Turn
<1> HIDE DEF qa, ra, qb, rb
<1>2. CASE a <= b
  <2>1. rb - ra = ((qa - qb) * M) + (b - a)
    BY <1>1, SMT
  <2>2. (rb - ra) % M = b - a
    <3>1. rb - ra \in Int /\ qa - qb \in Int /\ b - a \in 0 .. (M - 1)
      BY <1>1, <1>2
    <3> QED BY <2>1, <3>1, Remainder
  <2> QED BY <1>2, <2>2 DEF ra, rb
<1>3. CASE ~(a <= b)
  <2>1. rb - ra = ((qa - qb - 1) * M) + ((b - a) + M)
    BY <1>1, SMT
  <2>2. (rb - ra) % M = (b - a) + M
    <3>1. rb - ra \in Int /\ qa - qb - 1 \in Int /\ (b - a) + M \in 0 .. (M - 1)
      BY <1>1, <1>3
    <3> QED BY <2>1, <3>1, Remainder
  <2> QED BY <1>3, <2>2 DEF ra, rb
<1> QED BY <1>2, <1>3

LEMMA Behind ==
    ASSUME NEW a \in Int, NEW b \in Int, b - a <= MaxLead, a - b <= Window + 1
    PROVE  /\ Jitter!SeqLess(a % Modulus, b % Modulus) <=> a < b
           /\ a % Modulus = b % Modulus <=> a = b
<1>1. /\ Modulus \in Nat /\ MaxLead \in Nat /\ Window \in Nat /\ Modulus > 0
      /\ 2 * (MaxLead + Window + 1) <= Modulus
  BY JitterAssumption
<1>2. Modulus \div 2 \in Int /\ 2 * (Modulus \div 2) <= Modulus /\ Modulus <= (2 * (Modulus \div 2)) + 1
  BY <1>1
<1> DEFINE d == ((b % Modulus) - (a % Modulus)) % Modulus
<1>3. d = IF a <= b THEN b - a ELSE (b - a) + Modulus
  <2>1. b - a < Modulus /\ a - b < Modulus
    BY <1>1
  <2> QED BY <1>1, <2>1, Apart
<1>4. a % Modulus = b % Modulus <=> a = b
  <2>1. a % Modulus \in Int
    BY <1>1, Turn
  <2>2. a % Modulus = b % Modulus => d = 0
    <3>1. \A x \in Int : (x - x) % Modulus = 0
      BY <1>1
    <3> QED BY <2>1, <3>1
  <2> HIDE DEF d
  <2> QED BY <1>1, <1>3, <2>2
<1>5. Jitter!SeqLess(a % Modulus, b % Modulus) <=> a # b /\ d < Modulus \div 2
  BY <1>4 DEF Jitter!SeqLess
<1> HIDE DEF d
<1>6. a # b /\ d < Modulus \div 2 <=> a < b
  BY <1>1, <1>2, <1>3
<1> QED BY <1>4, <1>5, <1>6

LEMMA JitterConstants ==
    /\ Modulus \in Nat /\ MaxLead \in Nat /\ Window \in Nat /\ MaxSent \in Nat /\ Modulus > 0
    /\ JitterFrames \in Nat /\ JitterFrames >= 1 /\ MaxLead < Modulus /\ Window + 1 < Modulus
BY JitterAssumption

LEMMA JitterFacts ==
    ASSUME JitterInv
    PROVE  /\ sent \in Nat /\ due \in Int /\ due >= 0 /\ due <= sent + 1 /\ sent - due <= MaxLead
           /\ played \in Int /\ 0 <= played /\ played <= sent
           /\ frames \in Seq(Jitter!Frame) /\ Len(frames) \in Nat
           /\ \A i \in DOMAIN frames :
                 /\ frames[i].n \in Int /\ due <= frames[i].n /\ frames[i].n <= sent
                 /\ frames[i].seq = frames[i].n % Modulus
           /\ \A n \in flight : n \in Int /\ 1 <= n /\ n <= sent /\ sent - n <= Window
<1>1. sent \in Nat
  BY JitterConstants DEF JitterInv
<1>2. frames \in Seq(Jitter!Frame) /\ Len(frames) \in Nat
  BY LenProperties DEF JitterInv
<1>3. ASSUME NEW i \in DOMAIN frames
      PROVE  /\ frames[i].n \in Int /\ due <= frames[i].n /\ frames[i].n <= sent
             /\ frames[i].seq = frames[i].n % Modulus
  BY <1>1 DEF JitterInv, CursorMatches, FrameMatches
<1>4. \A n \in flight : n \in Int /\ 1 <= n /\ n <= sent /\ sent - n <= Window
  BY <1>1 DEF JitterInv, FlightMatches
<1>5. due \in Int /\ due >= 0 /\ due <= sent + 1 /\ sent - due <= MaxLead
      /\ played \in Int /\ 0 <= played /\ played <= sent
  BY <1>1 DEF JitterInv, CursorMatches
<1> QED BY <1>1, <1>2, <1>3, <1>4, <1>5

\* A packet on its way and a queued frame, the cursor and a packet, the cursor and a frame.
LEMMA FrameOrder ==
    ASSUME JitterInv, NEW n \in flight, n >= due, NEW i \in DOMAIN frames
    PROVE  /\ Jitter!SeqLess(frames[i].seq, n % Modulus) <=> frames[i].n < n
           /\ frames[i].seq = n % Modulus <=> frames[i].n = n
<1> DEFINE m == frames[i].n
<1>1. m \in Int /\ n \in Int /\ n - m <= MaxLead /\ m - n <= Window + 1 /\ frames[i].seq = m % Modulus
  BY JitterFacts, JitterConstants, SMTT(30)
<1> HIDE DEF m
<1> QED BY <1>1, Behind DEF m

LEMMA CursorOrder ==
    ASSUME JitterInv, NEW n \in flight, at # Jitter!NoCursor
    PROVE  Jitter!Stale(n % Modulus) <=> n < due
<1>1. n \in Int /\ due \in Int /\ n - due <= MaxLead /\ due - n <= Window + 1 /\ at = due % Modulus
  <2>1. at = due % Modulus
    BY DEF JitterInv, CursorMatches
  <2> QED BY <2>1, JitterFacts, JitterConstants, SMTT(30)
<1>2. /\ Jitter!SeqLess(due % Modulus, n % Modulus) <=> due < n
      /\ due % Modulus = n % Modulus <=> due = n
  BY <1>1, Behind
<1>3. Jitter!Stale(n % Modulus) <=> ~(due < n) /\ n # due
  BY <1>1, <1>2 DEF Jitter!Stale
<1> QED BY <1>1, <1>3

LEMMA JitterInit == Jitter!Init => JitterInv
<1> SUFFICES ASSUME Jitter!Init PROVE JitterInv
  OBVIOUS
<1>1. frames = <<>> /\ at = Jitter!NoCursor /\ sent = 0 /\ base = 0 /\ flight = {} /\ played = 0 /\ due = 0
      /\ warming = TRUE /\ refused = FALSE
  BY DEF Jitter!Init
<1>2. DOMAIN frames = {} /\ Len(frames) = 0 /\ frames \in Seq(Jitter!Frame)
  BY <1>1
<1> QED BY <1>1, <1>2, JitterConstants DEF JitterInv, CursorMatches, Sorted

LEMMA JitterStutters == JitterInv /\ UNCHANGED jitterVars => JitterInv'
BY DEF jitterVars, JitterInv, CursorMatches, FlightMatches, FrameMatches, Sorted

LEMMA SendOK == ASSUME JitterInv, Jitter!Send PROVE JitterInv'
<1>0. /\ sent \in Nat /\ due \in Int /\ due >= 0 /\ due <= sent + 1 /\ sent - due <= MaxLead
      /\ played \in Int /\ 0 <= played /\ played <= sent
      /\ \A n \in flight : n \in Int /\ 1 <= n /\ n <= sent
      /\ \A i \in DOMAIN frames : frames[i].n \in Int /\ due <= frames[i].n /\ frames[i].n <= sent
  BY JitterFacts
<1>1. /\ sent < MaxSent /\ sent - due < MaxLead /\ (\A n \in flight : sent - n < Window)
      /\ sent' = sent + 1 /\ flight' = flight \cup {sent + 1}
      /\ frames' = frames /\ at' = at /\ warming' = warming /\ base' = base /\ played' = played
      /\ due' = due /\ refused' = refused
  BY DEF Jitter!Send
<1>2. sent' \in 0 .. MaxSent
  BY <1>0, <1>1, JitterConstants
<1>3. CursorMatches'
  <2>1. /\ due = sent + 1 => played = sent
        /\ at # Jitter!NoCursor => at = due % Modulus /\ played < due
        /\ at = Jitter!NoCursor => played <= due /\ due <= sent
    BY DEF JitterInv, CursorMatches
  <2>0. /\ sent \in Nat /\ due \in Int /\ due >= 0 /\ due <= sent + 1 /\ MaxLead \in Nat
        /\ played \in Int /\ 0 <= played /\ played <= sent /\ sent' = sent + 1 /\ sent - due < MaxLead
    BY <1>0, <1>1, JitterConstants
  <2>2. due \in 0 .. sent' + 1 /\ sent' - due <= MaxLead /\ played \in 0 .. sent'
    BY <2>0
  <2>3. due # sent' + 1 /\ (at = Jitter!NoCursor => due <= sent')
    BY <1>0, <1>1, <2>1
  <2> QED BY <1>1, <2>1, <2>2, <2>3 DEF CursorMatches, Jitter!NoCursor
<1>4. ASSUME NEW n \in flight' PROVE FlightMatches(n)'
  <2>1. CASE n \in flight
    <3>1. at = Jitter!NoCursor => n > due
      BY <2>1 DEF JitterInv, FlightMatches
    <3>0. /\ sent \in Nat /\ n \in Int /\ 1 <= n /\ n <= sent /\ sent - n < Window /\ sent' = sent + 1
          /\ Window \in Nat
      BY <1>0, <1>1, <2>1, JitterConstants
    <3>2. n \in 1 .. sent' /\ sent' - n <= Window
      BY <3>0
    <3> QED BY <1>1, <3>1, <3>2 DEF FlightMatches, Jitter!NoCursor
  <2>2. CASE n = sent + 1
    <3>1. at = Jitter!NoCursor => due <= sent
      BY DEF JitterInv, CursorMatches
    <3>2. n \in 1 .. sent' /\ sent' - n <= Window /\ (at = Jitter!NoCursor => n > due)
      BY <1>0, <1>1, <2>2, <3>1, JitterConstants
    <3> QED BY <1>1, <3>2 DEF FlightMatches, Jitter!NoCursor
  <2> QED BY <1>1, <1>4, <2>1, <2>2
<1>5. ASSUME NEW i \in DOMAIN frames' PROVE FrameMatches(frames[i])'
  <2>0. i \in DOMAIN frames
    BY <1>1, <1>5
  <2>1. FrameMatches(frames[i])
    BY <2>0 DEF JitterInv
  <2>2. frames[i].n \in due .. sent'
    <3>1. sent \in Nat /\ due \in Int /\ frames[i].n \in Int /\ due <= frames[i].n /\ frames[i].n <= sent
          /\ sent' = sent + 1
      BY <1>0, <1>1, <2>0
    <3> DEFINE m == frames[i].n
    <3> HIDE DEF m
    <3>2. m \in due .. sent'
      BY <3>1 DEF m
    <3> QED BY <3>2 DEF m
  <2>3. frames'[i] = frames[i] /\ due' = due /\ at' = at
    BY <1>1
  <2>4. frames[i] \in Jitter!Frame /\ frames[i].seq = frames[i].n % Modulus /\ (at = Jitter!NoCursor => frames[i].n > due)
    BY <2>1 DEF FrameMatches
  <2> QED BY <2>2, <2>3, <2>4 DEF FrameMatches, Jitter!NoCursor, Jitter!Frame
<1> QED BY <1>1, <1>2, <1>3, <1>4, <1>5 DEF JitterInv, Sorted, Jitter!Frame

LEMMA LoseOK == ASSUME JitterInv, NEW n \in flight, Jitter!Lose(n) PROVE JitterInv'
BY DEF Jitter!Lose, JitterInv, CursorMatches, FlightMatches, FrameMatches, Sorted

LEMMA ResetOK == ASSUME JitterInv, Jitter!Reset PROVE JitterInv'
<1>1. frames' = <<>> /\ at' = Jitter!NoCursor /\ warming' = TRUE /\ flight' = {} /\ due' = sent
      /\ UNCHANGED <<sent, base, played, refused>>
  BY DEF Jitter!Reset
<1>2. DOMAIN frames' = {} /\ Len(frames') = 0 /\ frames' \in Seq(Jitter!Frame)
  BY <1>1
<1>3. CursorMatches'
  BY <1>1, JitterFacts, JitterConstants DEF CursorMatches
<1> QED BY <1>1, <1>2, <1>3, JitterConstants DEF JitterInv, Sorted, Jitter!Frame

LEMMA NextNumber ==
    ASSUME NEW M \in Nat, M > 0, NEW a \in Int PROVE ((a % M) + 1) % M = (a + 1) % M
<1> DEFINE q == a \div M  r == a % M
<1>1. q \in Int /\ r \in 0 .. (M - 1) /\ a = (q * M) + r
  BY Turn
<1> HIDE DEF q, r
<1> DEFINE p == (r + 1) \div M  s == (r + 1) % M
<1>2. p \in Int /\ s \in 0 .. (M - 1) /\ r + 1 = (p * M) + s
  <2>1. r + 1 \in Int
    BY <1>1
  <2> QED BY <2>1, Turn
<1> HIDE DEF p, s
<1>3. a + 1 = ((q + p) * M) + s
  BY <1>1, <1>2, SMT
<1>4. (a + 1) % M = s
  <2>1. a + 1 \in Int /\ q + p \in Int
    BY <1>1, <1>2
  <2> QED BY <1>2, <1>3, <2>1, Remainder
<1> QED BY <1>4 DEF r, s

\* A queue in order, each of whose frames comes after what was played.
Queue(q) ==
    /\ q \in Seq(Jitter!Frame) /\ Sorted(q)
    /\ \A i \in DOMAIN q : q[i].seq = q[i].n % Modulus /\ q[i].n \in Int /\ q[i].n <= sent

LEMMA FramesQueue == ASSUME JitterInv PROVE Queue(frames)
BY JitterFacts DEF Queue, JitterInv

LEMMA QueueTail ==
    ASSUME NEW q, Queue(q), q # <<>>
    PROVE  /\ Queue(Tail(q)) /\ Len(Tail(q)) = Len(q) - 1 /\ Len(q) \in Nat \ {0} /\ 1 \in DOMAIN q
           /\ \A i \in DOMAIN Tail(q) : Tail(q)[i] = q[i + 1] /\ i + 1 \in DOMAIN q
           /\ \A i \in DOMAIN Tail(q) : Tail(q)[i].n > q[1].n
<1>1. q \in Seq(Jitter!Frame) /\ Len(q) \in Nat /\ DOMAIN q = 1 .. Len(q) /\ Len(q) # 0
  BY EmptySeq, LenProperties DEF Queue
<1>2. /\ Tail(q) \in Seq(Jitter!Frame) /\ Len(Tail(q)) = Len(q) - 1
      /\ \A i \in 1 .. Len(Tail(q)) : Tail(q)[i] = q[i + 1]
  BY <1>1, HeadTailProperties
<1>3. DOMAIN Tail(q) = 1 .. (Len(q) - 1)
  BY <1>2, LenProperties
<1> DEFINE t == Tail(q)
<1>4. \A i \in 1 .. (Len(q) - 1) : t[i] = q[i + 1] /\ i + 1 \in 1 .. Len(q)
  BY <1>1, <1>2
<1> HIDE DEF t
<1>5. \A i, j \in 1 .. Len(q) : i < j => q[i].n < q[j].n
  BY <1>1 DEF Queue, Sorted
<1>6. \A i, j \in 1 .. (Len(q) - 1) : i < j => t[i].n < t[j].n
  <2>1. ASSUME NEW i \in 1 .. (Len(q) - 1), NEW j \in 1 .. (Len(q) - 1), i < j PROVE t[i].n < t[j].n
    <3>1. i + 1 \in 1 .. Len(q) /\ j + 1 \in 1 .. Len(q) /\ i + 1 < j + 1
      BY <1>1, <2>1
    <3>2. q[i + 1].n < q[j + 1].n
      BY <1>5, <3>1
    <3> QED BY <1>4, <3>2
  <2> QED BY <2>1
<1>7. \A i \in 1 .. (Len(q) - 1) : t[i].n > q[1].n
  <2>1. ASSUME NEW i \in 1 .. (Len(q) - 1) PROVE t[i].n > q[1].n
    <3>1. i + 1 \in 1 .. Len(q) /\ 1 \in 1 .. Len(q) /\ 1 < i + 1
      BY <1>1
    <3>2. q[1].n < q[i + 1].n /\ q[1].n \in Int /\ q[i + 1].n \in Int
      BY <1>1, <1>5, <3>1 DEF Queue
    <3> QED BY <1>4, <3>2
  <2> QED BY <2>1
<1>8. Queue(t)
  <2>1. \A i \in 1 .. (Len(q) - 1) : t[i].seq = t[i].n % Modulus /\ t[i].n \in Int /\ t[i].n <= sent
    BY <1>1, <1>4 DEF Queue
  <2>2. t \in Seq(Jitter!Frame) /\ DOMAIN t = 1 .. (Len(q) - 1)
    BY <1>2, <1>3 DEF t
  <2> QED BY <1>6, <2>1, <2>2 DEF Queue, Sorted
<1> QED BY <1>1, <1>2, <1>3, <1>4, <1>7, <1>8 DEF t

\* What a queue is taken to be after a step that moves the cursor, or not.
LEMMA QueueStep ==
    ASSUME JitterInv, Queue(frames'), Len(frames') <= JitterFrames, sent' = sent, base' = base, refused' = refused,
           warming' \in BOOLEAN, flight' \subseteq flight,
           due' \in Int, due <= due', due' <= sent + 1, due' = sent + 1 => played' = sent,
           played' \in 0 .. sent, \A i \in DOMAIN frames' : due' <= frames'[i].n,
           \/ at' = due' % Modulus /\ played' < due'
           \/ at = Jitter!NoCursor /\ at' = at /\ due' = due /\ played' = played
              /\ \A i \in DOMAIN frames' : due < frames'[i].n
    PROVE  JitterInv'
<1>0. sent \in Nat /\ due \in Int /\ due >= 0 /\ sent - due <= MaxLead /\ MaxLead \in Nat
      /\ (at = Jitter!NoCursor => played <= due /\ due <= sent)
  BY JitterFacts, JitterConstants DEF JitterInv, CursorMatches
<1>1. due' \in 0 .. sent + 1 /\ sent - due' <= MaxLead
  BY <1>0
<1>2. at' = due' % Modulus => at' # Jitter!NoCursor
  <2>1. due' % Modulus \in 0 .. (Modulus - 1)
    BY JitterConstants, Turn
  <2>2. due' % Modulus # -1
    <3>1. \A x \in 0 .. (Modulus - 1) : x # -1
      BY JitterConstants
    <3> QED BY <2>1, <3>1
  <2> QED BY <2>2 DEF Jitter!NoCursor
<1>3. CursorMatches'
  BY <1>0, <1>1, <1>2 DEF CursorMatches, Jitter!NoCursor
<1>4. ASSUME NEW n \in flight' PROVE FlightMatches(n)'
  <2>1. FlightMatches(n)
    BY DEF JitterInv
  <2> QED BY <1>2, <2>1 DEF FlightMatches, Jitter!NoCursor
<1>5. ASSUME NEW i \in DOMAIN frames' PROVE FrameMatches(frames[i])'
  <2> DEFINE f == frames'[i]
  <2>1. f \in Jitter!Frame
    <3>1. frames' \in Seq(Jitter!Frame)
      BY DEF Queue
    <3> QED BY <3>1, ElementOfSeq, LenProperties
  <2>2. f.seq = f.n % Modulus /\ f.n \in Int /\ f.n <= sent /\ due' <= f.n
    BY DEF Queue
  <2>3. f.n \in due' .. sent'
    <3> DEFINE m == f.n
    <3>1. m \in Int /\ m <= sent /\ due' <= m
      BY <2>2
    <3> HIDE DEF m
    <3>2. m \in due' .. sent
      BY <1>0, <3>1
    <3> QED BY <3>2 DEF m
  <2>4. at' = Jitter!NoCursor => f.n > due'
    BY <1>2, <2>2
  <2> QED BY <2>1, <2>2, <2>3, <2>4 DEF FrameMatches, Jitter!NoCursor, Jitter!Frame
<1> QED BY <1>3, <1>4, <1>5 DEF JitterInv, Queue, Sorted, Jitter!Frame

LEMMA PopOK == ASSUME JitterInv, Jitter!Pop PROVE JitterInv'
<1> DEFINE head == frames[1]
           now == IF at = Jitter!NoCursor THEN head.seq ELSE at
           hold == IF at = Jitter!NoCursor THEN head.n ELSE due
<1>1. /\ frames # <<>> /\ at' = (now + 1) % Modulus /\ due' = hold + 1
      /\ (head.seq = now /\ frames' = Tail(frames) /\ played' = head.n)
            \/ (head.seq # now /\ frames' = frames /\ played' = played)
      /\ UNCHANGED <<warming, sent, base, flight, refused>>
  BY DEF Jitter!Pop
<1>2. /\ Queue(Tail(frames)) /\ Len(Tail(frames)) = Len(frames) - 1 /\ Len(frames) \in Nat \ {0}
      /\ 1 \in DOMAIN frames /\ \A i \in DOMAIN Tail(frames) : Tail(frames)[i].n > head.n
      /\ \A i \in DOMAIN Tail(frames) : Tail(frames)[i].n \in Int
  BY <1>1, FramesQueue, QueueTail DEF Queue
<1>3. /\ head.n \in Int /\ due <= head.n /\ head.n <= sent /\ head.seq = head.n % Modulus
      /\ sent \in Nat /\ due \in Int /\ due >= 0 /\ sent - due <= MaxLead /\ played <= sent /\ 0 <= played
      /\ MaxLead \in Nat /\ Window \in Nat /\ played \in Int
  BY <1>2, JitterFacts, JitterConstants
<1>4. /\ at # Jitter!NoCursor => at = due % Modulus /\ played < due
      /\ warming \in BOOLEAN /\ Len(frames) <= JitterFrames
  BY DEF JitterInv, CursorMatches
<1> DEFINE m == head.n
<1>5. head.seq = m % Modulus
  BY <1>3
<1>6. m \in Int /\ due <= m /\ m <= sent
  BY <1>3
<1> HIDE DEF m
<1>7. now = hold % Modulus /\ hold \in Int /\ due <= hold /\ hold <= m
  BY <1>3, <1>4, <1>5, <1>6 DEF m
<1>8. head.seq = now <=> hold = m
  <2>1. m - hold <= MaxLead /\ hold - m <= Window + 1
    BY <1>3, <1>6, <1>7
  <2> QED BY <1>5, <1>6, <1>7, <2>1, Behind
<1>9. at' = due' % Modulus
  BY <1>1, <1>7, NextNumber, JitterConstants
<1>10. CASE head.seq = now
  <2>1. /\ frames' = Tail(frames) /\ played' = m /\ due' = m + 1
    BY <1>1, <1>8, <1>10 DEF m
  <2>2. \A i \in DOMAIN frames' : due' <= frames'[i].n
    <3>1. \A x \in Int : x > m => m + 1 <= x
      BY <1>6
    <3> QED BY <1>2, <2>1, <3>1 DEF m
  <2>3. Len(frames') <= JitterFrames
    BY <1>2, <1>4, <2>1, JitterConstants
  <2>4. Queue(frames')
    BY <1>2, <2>1
  <2>5. /\ due' \in Int /\ due <= due' /\ due' <= sent + 1 /\ (due' = sent + 1 => played' = sent)
        /\ played' \in 0 .. sent /\ played' < due'
    BY <1>3, <1>6, <2>1
  <2> QED BY <1>1, <1>4, <1>9, <2>2, <2>3, <2>4, <2>5, QueueStep
<1>11. CASE head.seq # now
  <2>1. frames' = frames /\ played' = played /\ due' = hold + 1 /\ hold < m /\ at # Jitter!NoCursor /\ hold = due
    BY <1>1, <1>6, <1>7, <1>8, <1>11 DEF m
  <2>2. \A i \in DOMAIN frames' : due' <= frames'[i].n
    <3>1. \A i \in DOMAIN frames : frames[i].n \in Int /\ m <= frames[i].n
      <4>1. ASSUME NEW i \in DOMAIN frames PROVE frames[i].n \in Int /\ m <= frames[i].n
        <5>1. frames[i].n \in Int
          BY JitterFacts
        <5>2. i = 1 \/ (1 < i /\ 1 \in DOMAIN frames)
          BY <1>2, JitterFacts, LenProperties
        <5>3. m = frames[i].n \/ m < frames[i].n
          BY <5>2 DEF m, JitterInv, Sorted
        <5> QED BY <1>6, <5>1, <5>3
      <4> QED BY <4>1
    <3>2. \A x \in Int : m <= x => hold + 1 <= x
      BY <1>6, <1>7, <2>1
    <3> QED BY <2>1, <3>1, <3>2
  <2>3. /\ due' \in Int /\ due <= due' /\ due' <= sent + 1 /\ due' # sent + 1
        /\ played' \in 0 .. sent /\ played' < due'
    BY <1>3, <1>4, <1>6, <2>1
  <2> QED BY <1>1, <1>4, <1>9, <2>1, <2>2, <2>3, FramesQueue, QueueStep
<1> QED BY <1>10, <1>11

\* Where a frame that is not queued yet goes: every frame before it was sent before.
LEMMA PlaceOK ==
    ASSUME JitterInv, NEW n \in flight, n >= due, \A i \in DOMAIN frames : frames[i].n # n
    PROVE  /\ Jitter!Place(n % Modulus) \in 0 .. Len(frames)
           /\ \A j \in DOMAIN frames :
                 IF j <= Jitter!Place(n % Modulus) THEN frames[j].n < n ELSE n < frames[j].n
<1> DEFINE k == Len(frames)
           Right(i) == /\ i > 0 => Jitter!SeqLess(frames[i].seq, n % Modulus)
                       /\ \A j \in i + 1 .. k : ~Jitter!SeqLess(frames[j].seq, n % Modulus)
           Above == {j \in 1 .. k + 1 : j = k + 1 \/ n < frames[j].n}
<1>1. k \in Nat /\ DOMAIN frames = 1 .. k
  BY JitterFacts, LenProperties
<1>2. \A j \in 1 .. k : /\ Jitter!SeqLess(frames[j].seq, n % Modulus) <=> frames[j].n < n
                        /\ ~(frames[j].n < n) <=> n < frames[j].n
  <2>1. ASSUME NEW j \in 1 .. k
        PROVE  /\ Jitter!SeqLess(frames[j].seq, n % Modulus) <=> frames[j].n < n
               /\ ~(frames[j].n < n) <=> n < frames[j].n
    <3>1. j \in DOMAIN frames /\ n \in Int /\ frames[j].n \in Int /\ frames[j].n # n
      BY <1>1, JitterFacts
    <3>2. ~(frames[j].n < n) <=> n < frames[j].n
      BY <3>1
    <3> QED BY <3>1, <3>2, FrameOrder
  <2> QED BY <2>1
<1>3. \A i, j \in 1 .. k : i < j => frames[i].n < frames[j].n
  BY <1>1 DEF JitterInv, Sorted
<1>4. PICK i \in 0 .. k : Right(i)
  <2>1. PICK m \in Above : \A j \in Above : m <= j
    <3>1. Above \subseteq Nat /\ k + 1 \in Above
      BY <1>1
    <3> HIDE DEF Above
    <3> QED BY <3>1, LeastNumber
  <2>2. m \in 1 .. k + 1 /\ m - 1 \in 0 .. k
    BY <1>1, <2>1
  <2>3. m - 1 > 0 => frames[m - 1].n < n
    <3>1. ASSUME m - 1 > 0 PROVE frames[m - 1].n < n
      <4>1. m - 1 \in 1 .. k + 1 /\ m - 1 \notin Above /\ m - 1 # k + 1 /\ m - 1 \in 1 .. k
        BY <1>1, <2>1, <2>2, <3>1
      <4> QED BY <1>2, <4>1
    <3> QED BY <3>1
  <2>4. \A j \in m .. k : n < frames[j].n
    <3>1. ASSUME NEW j \in m .. k PROVE n < frames[j].n
      <4>1. m \in 1 .. k /\ j \in 1 .. k /\ (m = j \/ m < j)
        BY <1>1, <2>2, <3>1
      <4>2. n < frames[m].n
        BY <1>1, <2>1, <4>1
      <4>3. n \in Int /\ frames[m].n \in Int /\ frames[j].n \in Int
        BY <1>1, <4>1, JitterFacts
      <4>4. m < j => frames[m].n < frames[j].n
        BY <1>3, <4>1
      <4> QED BY <4>1, <4>2, <4>3, <4>4
    <3> QED BY <3>1
  <2>5. Right(m - 1)
    <3>1. (m - 1) + 1 = m
      BY <2>2
    <3>2. \A j \in m .. k : j \in 1 .. k /\ ~(frames[j].n < n)
      BY <1>1, <1>2, <2>2, <2>4
    <3>3. m - 1 > 0 => m - 1 \in 1 .. k
      BY <1>1, <2>2
    <3> QED BY <1>2, <2>3, <3>1, <3>2, <3>3
  <2> QED BY <2>2, <2>5
<1>5. Jitter!Place(n % Modulus) \in 0 .. k /\ Right(Jitter!Place(n % Modulus))
  BY <1>4 DEF Jitter!Place
<1> DEFINE p == Jitter!Place(n % Modulus)
<1> HIDE DEF p
<1>6. p \in 0 .. k /\ Right(p)
  BY <1>5 DEF p
<1>7. ASSUME NEW j \in 1 .. k PROVE IF j <= p THEN frames[j].n < n ELSE n < frames[j].n
  <2>1. CASE j <= p
    <3>1. p > 0 /\ p \in 1 .. k /\ (j = p \/ j < p)
      BY <1>1, <1>6, <2>1
    <3>2. frames[p].n < n
      BY <1>2, <1>6, <3>1
    <3>3. n \in Int /\ frames[p].n \in Int /\ frames[j].n \in Int
      BY <1>1, <3>1, JitterFacts
    <3>4. j < p => frames[j].n < frames[p].n
      BY <1>3, <3>1
    <3>5. frames[j].n < n
      BY <3>1, <3>2, <3>3, <3>4
    <3> QED BY <2>1, <3>5
  <2>2. CASE ~(j <= p)
    <3>1. j \in p + 1 .. k
      BY <1>1, <1>6, <2>2
    <3> QED BY <1>2, <1>6, <2>2, <3>1
  <2> QED BY <2>1, <2>2
<1> QED BY <1>1, <1>6, <1>7 DEF p

LEMMA Shift ==
    ASSUME NEW p \in Nat, NEW k \in Nat, p <= k
    PROVE  /\ \A i \in 1 .. k - p : p + 1 + i - 1 = p + i /\ i \in 1 .. k - (p + 1) + 1
           /\ \A i \in 1 .. k + 1 : ~(i <= p + 1) =>
                 /\ i - (p + 1) \in 1 .. k - p /\ p + (i - (p + 1)) = i - 1
                 /\ ~(i <= p) /\ i # p + 1
           /\ k - p \in Nat /\ (p + 1) + (k - p) = k + 1
OBVIOUS

LEMMA InsertedOK ==
    ASSUME JitterInv, NEW n \in flight, n >= due, \A i \in DOMAIN frames : frames[i].n # n,
           NEW f \in Jitter!Frame, f.seq = n % Modulus, f.n = n
    PROVE  /\ Queue(Jitter!Inserted(f)) /\ Len(Jitter!Inserted(f)) = Len(frames) + 1
           /\ \A i \in DOMAIN Jitter!Inserted(f) :
                 \/ Jitter!Inserted(f)[i] = f
                 \/ \E j \in DOMAIN frames : Jitter!Inserted(f)[i] = frames[j]
<1> DEFINE k == Len(frames)
           p == Jitter!Place(n % Modulus)
           left == SubSeq(frames, 1, p)
           right == SubSeq(frames, p + 1, k)
           new == left \o <<f>> \o right
<1>0. new = Jitter!Inserted(f)
  BY DEF Jitter!Inserted
<1>1. k \in Nat /\ DOMAIN frames = 1 .. k /\ (\A i \in 1 .. k : frames[i] \in Jitter!Frame) /\ n \in Int /\ n <= sent
  BY JitterFacts, LenProperties, ElementOfSeq
<1>2. p \in 0 .. k /\ \A j \in 1 .. k : IF j <= p THEN frames[j].n < n ELSE n < frames[j].n
  BY <1>1, PlaceOK
<1> HIDE DEF p
<1>3. /\ left \in Seq(Jitter!Frame) /\ Len(left) = p
      /\ \A i \in 1 .. p : left[i] = frames[i]
  <2>1. 1 \in Int /\ p \in Int /\ \A i \in 1 .. p : frames[i] \in Jitter!Frame
    BY <1>1, <1>2
  <2>2. /\ left \in Seq(Jitter!Frame) /\ Len(left) = IF 1 <= p THEN p - 1 + 1 ELSE 0
        /\ \A i \in 1 .. p - 1 + 1 : left[i] = frames[1 + i - 1]
    BY <2>1, SubSeqProperties
  <2> HIDE DEF left
  <2>3. \A i \in 1 .. p : 1 + i - 1 = i /\ i \in 1 .. p - 1 + 1
    BY <1>2
  <2> QED BY <1>1, <1>2, <2>2, <2>3
<1>4. /\ right \in Seq(Jitter!Frame) /\ Len(right) = k - p
      /\ \A i \in 1 .. k - p : right[i] = frames[p + i]
  <2>1. p + 1 \in Int /\ k \in Int /\ \A i \in p + 1 .. k : frames[i] \in Jitter!Frame
    BY <1>1, <1>2
  <2>2. /\ right \in Seq(Jitter!Frame) /\ Len(right) = IF p + 1 <= k THEN k - (p + 1) + 1 ELSE 0
        /\ \A i \in 1 .. k - (p + 1) + 1 : right[i] = frames[p + 1 + i - 1]
    BY <2>1, SubSeqProperties
  <2> HIDE DEF right
  <2>3. \A i \in 1 .. k - p : p + 1 + i - 1 = p + i /\ i \in 1 .. k - (p + 1) + 1
    <3>1. p \in Nat /\ k \in Nat /\ p <= k
      BY <1>1, <1>2
    <3> HIDE DEF k
    <3>2. \A i \in 1 .. k - p : p + 1 + i - 1 = p + i /\ i \in 1 .. k - (p + 1) + 1
      BY <3>1, Shift
    <3> QED BY <3>2
  <2>4. Len(right) = k - p
    <3> HIDE DEF k
    <3>1. (IF p + 1 <= k THEN k - (p + 1) + 1 ELSE 0) = k - p
      BY <1>1, <1>2
    <3> QED BY <2>2, <3>1
  <2>5. ASSUME NEW i \in 1 .. k - p PROVE right[i] = frames[p + i]
    <3>1. right[i] = frames[p + 1 + i - 1] /\ p + 1 + i - 1 = p + i
      BY <2>2, <2>3
    <3> QED BY <3>1
  <2> QED BY <2>2, <2>4, <2>5
<1> HIDE DEF left, right
<1> DEFINE front == left \o <<f>>
<1>5. /\ front \in Seq(Jitter!Frame) /\ Len(front) = p + 1
      /\ \A i \in 1 .. p + 1 : front[i] = IF i <= p THEN left[i] ELSE f
  <2>1. <<f>> \in Seq(Jitter!Frame) /\ Len(<<f>>) = 1 /\ <<f>>[1] = f
    OBVIOUS
  <2>2. /\ front \in Seq(Jitter!Frame) /\ Len(front) = p + 1
        /\ \A i \in 1 .. p + 1 : front[i] = IF i <= p THEN left[i] ELSE <<f>>[i - p]
    BY <1>3, <2>1, ConcatProperties
  <2>3. \A i \in 1 .. p + 1 : ~(i <= p) => i - p = 1
    BY <1>2
  <2> QED BY <2>1, <2>2, <2>3
<1> HIDE DEF front
<1>6. /\ new \in Seq(Jitter!Frame) /\ Len(new) = k + 1
      /\ \A i \in 1 .. k + 1 : new[i] = IF i <= p THEN frames[i] ELSE IF i = p + 1 THEN f ELSE frames[i - 1]
  <2>1. /\ front \o right \in Seq(Jitter!Frame) /\ Len(front \o right) = (p + 1) + (k - p)
        /\ \A i \in 1 .. (p + 1) + (k - p) :
              (front \o right)[i] = IF i <= p + 1 THEN front[i] ELSE right[i - (p + 1)]
    <3>1. front \in Seq(Jitter!Frame) /\ right \in Seq(Jitter!Frame)
      BY <1>4, <1>5
    <3>2. /\ front \o right \in Seq(Jitter!Frame) /\ Len(front \o right) = Len(front) + Len(right)
          /\ \A i \in 1 .. Len(front) + Len(right) :
                (front \o right)[i] = IF i <= Len(front) THEN front[i] ELSE right[i - Len(front)]
      BY <3>1, ConcatProperties
    <3>3. Len(front) = p + 1 /\ Len(right) = k - p
      BY <1>4, <1>5
    <3> HIDE DEF k
    <3> QED BY <3>2, <3>3
  <2>2. new = front \o right
    BY DEF front
  <2> HIDE DEF new
  <2>3. (p + 1) + (k - p) = k + 1
    BY <1>1, <1>2
  <2>4. ASSUME NEW i \in 1 .. k + 1
        PROVE  new[i] = IF i <= p THEN frames[i] ELSE IF i = p + 1 THEN f ELSE frames[i - 1]
    <3>1. CASE i <= p
      <4>1. i \in 1 .. p /\ i \in 1 .. p + 1 /\ i <= p + 1
        BY <1>2, <3>1
      <4> QED BY <1>3, <1>5, <2>1, <2>2, <2>3, <3>1, <4>1
    <3>2. CASE i = p + 1
      <4>1. i \in 1 .. p + 1 /\ i <= p + 1 /\ ~(i <= p)
        BY <1>2, <3>2
      <4> QED BY <1>5, <2>1, <2>2, <2>3, <3>2, <4>1
    <3>3. CASE ~(i <= p + 1)
      <4>1. i - (p + 1) \in 1 .. k - p /\ p + (i - (p + 1)) = i - 1 /\ ~(i <= p) /\ i # p + 1
        <5>1. p \in Nat /\ k \in Nat /\ p <= k
          BY <1>1, <1>2
        <5> QED BY <3>3, <5>1, Shift
      <4> QED BY <1>4, <2>1, <2>2, <2>3, <3>3, <4>1
    <3>4. i <= p \/ i = p + 1 \/ ~(i <= p + 1)
      BY <1>2
    <3> QED BY <3>1, <3>2, <3>3, <3>4
  <2> QED BY <2>1, <2>2, <2>3, <2>4
<1> HIDE DEF new
<1>7. DOMAIN new = 1 .. k + 1
  BY <1>6, LenProperties
<1>8. ASSUME NEW i \in 1 .. k + 1
      PROVE  new[i] = f \/ \E j \in DOMAIN frames : new[i] = frames[j]
  <2>1. i <= p => i \in 1 .. k
    BY <1>1, <1>2
  <2>2. ~(i <= p) /\ i # p + 1 => i - 1 \in 1 .. k
    BY <1>1, <1>2
  <2> QED BY <1>1, <1>6, <2>1, <2>2
<1>9. Sorted(new)
  <2>1. ASSUME NEW i \in 1 .. k + 1, NEW j \in 1 .. k + 1, i < j PROVE new[i].n < new[j].n
    <3>0. \A a, b \in 1 .. k : a < b => frames[a].n < frames[b].n
      BY <1>1 DEF JitterInv, Sorted
    <3>1. CASE j <= p
      <4>1. i <= p /\ i \in 1 .. k /\ j \in 1 .. k
        BY <1>1, <1>2, <2>1, <3>1
      <4> QED BY <1>6, <2>1, <3>0, <3>1, <4>1
    <3>2. CASE j = p + 1
      <4>1. i <= p /\ i \in 1 .. k /\ ~(j <= p)
        BY <1>1, <1>2, <2>1, <3>2
      <4>2. frames[i].n < n
        BY <1>2, <4>1
      <4> QED BY <1>6, <3>2, <4>1, <4>2
    <3>3. CASE ~(j <= p + 1)
      <4>1. ~(j <= p) /\ j # p + 1 /\ j - 1 \in 1 .. k /\ ~(j - 1 <= p)
        BY <1>1, <1>2, <3>3
      <4>2. new[j] = frames[j - 1] /\ n < frames[j - 1].n
        BY <1>2, <1>6, <4>1
      <4>3. CASE i <= p
        <5>1. i \in 1 .. k /\ i < j - 1
          BY <1>1, <1>2, <3>3, <4>3
        <5> QED BY <1>6, <3>0, <4>1, <4>2, <4>3, <5>1
      <4>4. CASE i = p + 1
        <5>1. ~(i <= p)
          BY <1>2, <4>4
        <5> QED BY <1>6, <4>2, <4>4, <5>1
      <4>5. CASE ~(i <= p + 1)
        <5>1. ~(i <= p) /\ i # p + 1 /\ i - 1 \in 1 .. k /\ i - 1 < j - 1
          BY <1>1, <1>2, <2>1, <4>5
        <5> QED BY <1>6, <3>0, <4>1, <4>2, <5>1
      <4>6. i <= p \/ i = p + 1 \/ ~(i <= p + 1)
        BY <1>2
      <4> QED BY <4>3, <4>4, <4>5, <4>6
    <3>4. j <= p \/ j = p + 1 \/ ~(j <= p + 1)
      BY <1>2
    <3> QED BY <3>1, <3>2, <3>3, <3>4
  <2> QED BY <1>7, <2>1 DEF Sorted
<1>10. ASSUME NEW i \in 1 .. k + 1
       PROVE  new[i].seq = new[i].n % Modulus /\ new[i].n \in Int /\ new[i].n <= sent
  <2>1. CASE new[i] = f
    BY <1>1, <2>1
  <2>2. ASSUME NEW j \in DOMAIN frames, new[i] = frames[j]
        PROVE  new[i].seq = new[i].n % Modulus /\ new[i].n \in Int /\ new[i].n <= sent
    BY <2>2, JitterFacts
  <2> QED BY <1>8, <2>1, <2>2
<1> QED BY <1>0, <1>6, <1>7, <1>8, <1>9, <1>10 DEF Queue

\* A packet that is refused was in time only if its frame is queued.
LEMMA RefusedOK ==
    ASSUME JitterInv, NEW n \in flight, Jitter!Stale(n % Modulus) \/ Jitter!Queued(n % Modulus)
    PROVE  ~(n = sent /\ ~Jitter!Queued(n % Modulus) /\ n > played)
<1> SUFFICES ASSUME n = sent, ~Jitter!Queued(n % Modulus), n > played PROVE FALSE
  OBVIOUS
<1>1. Jitter!Stale(n % Modulus) /\ at # Jitter!NoCursor
  BY DEF Jitter!Stale
<1>2. n < due
  BY <1>1, CursorOrder
<1>3. due = sent + 1
  BY <1>2, JitterFacts
<1>4. played = sent
  BY <1>3 DEF JitterInv, CursorMatches
<1> QED BY <1>4, JitterFacts

LEMMA PushOK == ASSUME JitterInv, NEW n \in flight, NEW again \in BOOLEAN, Jitter!Push(n, again) PROVE JitterInv'
<1> DEFINE seq == Jitter!Seq16(n)
           f == [seq |-> seq, n |-> n]
           new == Jitter!Inserted(f)
           over == Len(new) > JitterFrames
<1>0. seq = n % Modulus /\ n \in Int /\ 1 <= n /\ n <= sent
  <2>1. n \in Int /\ 1 <= n /\ n <= sent
    BY JitterFacts
  <2>2. n + base = n
    BY <2>1 DEF JitterInv
  <2> QED BY <2>1, <2>2 DEF Jitter!Seq16
<1>1. /\ flight' \subseteq flight /\ sent' = sent /\ base' = base /\ played' = played
      /\ \/ /\ Jitter!Stale(seq) \/ Jitter!Queued(seq)
            /\ refused' = (refused \/ (n = sent /\ ~Jitter!Queued(seq) /\ n > played))
            /\ UNCHANGED <<frames, at, warming, due>>
         \/ /\ ~Jitter!Stale(seq) /\ ~Jitter!Queued(seq)
            /\ frames' = IF over THEN Tail(new) ELSE new
            /\ at' = IF over /\ at # Jitter!NoCursor THEN new[2].seq ELSE at
            /\ due' = IF over /\ at # Jitter!NoCursor THEN new[2].n ELSE due
            /\ warming' = (warming /\ Len(frames') < TargetFrames)
            /\ refused' = refused
  BY DEF Jitter!Push
<1>2. CASE /\ Jitter!Stale(seq) \/ Jitter!Queued(seq)
           /\ refused' = (refused \/ (n = sent /\ ~Jitter!Queued(seq) /\ n > played))
           /\ UNCHANGED <<frames, at, warming, due>>
  <2>1. refused' = refused
    <3>1. ~(n = sent /\ ~Jitter!Queued(seq) /\ n > played)
      BY <1>0, <1>2, RefusedOK
    <3>2. refused = FALSE
      BY DEF JitterInv
    <3>3. refused' = (FALSE \/ FALSE)
      BY <1>2, <3>1, <3>2
    <3> QED BY <3>2, <3>3
  <2> QED BY <1>1, <1>2, <2>1 DEF JitterInv, CursorMatches, FlightMatches, FrameMatches, Sorted
<1>3. CASE /\ ~Jitter!Stale(seq) /\ ~Jitter!Queued(seq)
           /\ frames' = IF over THEN Tail(new) ELSE new
           /\ at' = IF over /\ at # Jitter!NoCursor THEN new[2].seq ELSE at
           /\ due' = IF over /\ at # Jitter!NoCursor THEN new[2].n ELSE due
           /\ warming' = (warming /\ Len(frames') < TargetFrames)
           /\ refused' = refused
  <2>1. n >= due /\ (at = Jitter!NoCursor => n > due)
    <3>1. at = Jitter!NoCursor => n > due
      BY DEF JitterInv, FlightMatches
    <3>2. at # Jitter!NoCursor => ~(n < due)
      BY <1>0, <1>3, CursorOrder
    <3> QED BY <1>0, <3>1, <3>2, JitterFacts
  <2>2. \A i \in DOMAIN frames : frames[i].n # n
    BY <1>0, <1>3, JitterFacts DEF Jitter!Queued
  <2>3. f \in Jitter!Frame /\ f.seq = n % Modulus /\ f.n = n
    <3>1. n % Modulus \in 0 .. (Modulus - 1)
      BY <1>0, JitterConstants, Turn
    <3>2. n \in 1 .. MaxSent
      <4>1. sent \in Nat /\ sent <= MaxSent /\ MaxSent \in Nat
        BY JitterConstants DEF JitterInv
      <4> QED BY <1>0, <4>1
    <3> QED BY <1>0, <3>1, <3>2 DEF Jitter!Frame
  <2> HIDE DEF f
  <2>4. /\ Queue(new) /\ Len(new) = Len(frames) + 1
        /\ \A i \in DOMAIN new : new[i] = f \/ \E j \in DOMAIN frames : new[i] = frames[j]
    BY <2>1, <2>2, <2>3, InsertedOK
  <2> HIDE DEF new
  <2>5. Len(frames) \in Nat /\ Len(frames) <= JitterFrames /\ DOMAIN new = 1 .. Len(frames) + 1 /\ new # <<>>
    BY <2>4, JitterFacts, LenProperties DEF JitterInv, Queue
  <2>6. \A i \in DOMAIN new : new[i].n \in Int /\ due <= new[i].n /\ (at = Jitter!NoCursor => due < new[i].n)
    <3>1. \A j \in DOMAIN frames : frames[j].n \in Int /\ due <= frames[j].n
      BY JitterFacts
    <3>2. \A j \in DOMAIN frames : at = Jitter!NoCursor => due < frames[j].n
      BY JitterFacts DEF JitterInv, FrameMatches
    <3>3. f.n \in Int /\ due <= f.n /\ (at = Jitter!NoCursor => due < f.n)
      BY <1>0, <2>1, <2>3, JitterFacts
    <3> QED BY <2>4, <3>1, <3>2, <3>3
  <2>7. warming' \in BOOLEAN /\ played' \in 0 .. sent /\ due \in Int /\ due <= sent + 1 /\ sent \in Nat
        /\ (due = sent + 1 => played = sent)
        /\ (at # Jitter!NoCursor => at = due % Modulus /\ played < due)
    BY <1>1, <1>3 DEF JitterInv, CursorMatches
  <2>8. CASE ~over
    <3>1. frames' = new /\ at' = at /\ due' = due /\ Len(frames') <= JitterFrames
      BY <1>3, <2>4, <2>5, <2>8, JitterConstants
    <3> QED BY <1>1, <1>3, <2>4, <2>6, <2>7, <3>1, QueueStep
  <2>9. CASE over
    <3>1. /\ Queue(Tail(new)) /\ Len(Tail(new)) = Len(frames)
          /\ \A i \in DOMAIN Tail(new) : Tail(new)[i] = new[i + 1] /\ i + 1 \in DOMAIN new
      BY <2>4, <2>5, QueueTail
    <3>2. frames' = Tail(new) /\ Len(frames') <= JitterFrames /\ Queue(frames')
      BY <1>3, <2>5, <2>9, <3>1
    <3>3. CASE at = Jitter!NoCursor
      <4>1. at' = at /\ due' = due
        BY <1>3, <3>3
      <4>2. \A i \in DOMAIN frames' : due < frames'[i].n /\ due <= frames'[i].n
        BY <2>6, <3>1, <3>2, <3>3
      <4> QED BY <1>1, <1>3, <2>7, <3>2, <3>3, <4>1, <4>2, QueueStep
    <3>4. CASE at # Jitter!NoCursor
      <4>1. at' = new[2].seq /\ due' = new[2].n
        BY <1>3, <2>9, <3>4
      <4>2. 1 \in DOMAIN new /\ 2 \in DOMAIN new
        BY <2>4, <2>5, <2>9, JitterConstants
      <4>3. at' = due' % Modulus /\ due' \in Int /\ due <= due' /\ due' <= sent
        BY <2>4, <2>6, <4>1, <4>2 DEF Queue
      <4>4. \A i \in DOMAIN frames' : due' <= frames'[i].n
        <5>1. ASSUME NEW i \in DOMAIN Tail(new) PROVE new[2].n <= Tail(new)[i].n
          <6>1. i + 1 \in DOMAIN new /\ Tail(new)[i] = new[i + 1]
            BY <3>1
          <6>2. i + 1 = 2 \/ 2 < i + 1
            <7>1. i \in 1 .. Len(frames)
              BY <3>1, LenProperties DEF Queue
            <7> QED BY <2>5, <7>1
          <6>3. new[2].n = new[i + 1].n \/ new[2].n < new[i + 1].n
            BY <2>4, <4>2, <6>1, <6>2 DEF Queue, Sorted
          <6>4. new[2].n \in Int /\ new[i + 1].n \in Int
            BY <2>6, <4>2, <6>1
          <6> QED BY <6>1, <6>3, <6>4
        <5> QED BY <3>2, <4>1, <5>1
      <4>5. played' < due' /\ due' <= sent + 1 /\ due' # sent + 1
        <5>1. played < due /\ played' = played /\ played \in Int
          BY <1>1, <2>7, <3>4, JitterFacts
        <5> QED BY <2>7, <4>3, <5>1
      <4> QED BY <1>1, <1>3, <2>7, <3>2, <4>3, <4>4, <4>5, QueueStep
    <3> QED BY <3>3, <3>4
  <2> QED BY <2>8, <2>9
<1> QED BY <1>1, <1>2, <1>3

LEMMA JitterNext == JitterInv /\ Jitter!Next => JitterInv'
<1> SUFFICES ASSUME JitterInv, Jitter!Next PROVE JitterInv'
  OBVIOUS
<1>1. ~Jitter!Restart
  BY DEF Jitter!Restart
<1> QED BY <1>1, SendOK, PopOK, ResetOK, LoseOK, PushOK DEF Jitter!Next

LEMMA JitterSound == JitterInv => Jitter!TypeOK /\ Jitter!PlaysInOrder /\ Jitter!NewestIsQueued
<1> SUFFICES ASSUME JitterInv PROVE Jitter!TypeOK /\ Jitter!PlaysInOrder /\ Jitter!NewestIsQueued
  OBVIOUS
<1>1. Jitter!NewestIsQueued
  BY DEF JitterInv, Jitter!NewestIsQueued
<1>2. Jitter!TypeOK
  <2>1. \A i \in DOMAIN frames : frames[i] \in Jitter!Frame
    BY DEF JitterInv, FrameMatches
  <2>2. at \in {Jitter!NoCursor} \cup 0 .. Modulus - 1
    <3>1. at # Jitter!NoCursor => at = due % Modulus
      BY DEF JitterInv, CursorMatches
    <3>2. due % Modulus \in 0 .. (Modulus - 1)
      BY JitterFacts, JitterConstants, Turn
    <3> QED BY <3>1, <3>2
  <2>3. flight \subseteq 1 .. sent
    BY DEF JitterInv, FlightMatches
  <2>4. played \in 0 .. sent /\ refused \in BOOLEAN /\ warming \in BOOLEAN /\ Len(frames) <= JitterFrames
        /\ sent \in 0 .. MaxSent
    BY DEF JitterInv, CursorMatches
  <2>5. base \in 0 .. Modulus - 1
    BY JitterConstants DEF JitterInv
  <2> QED BY <2>1, <2>2, <2>3, <2>4, <2>5 DEF Jitter!TypeOK
<1>3. Jitter!PlaysInOrder
  <2>1. \A i \in DOMAIN frames : frames[i].n > played
    <3>1. ASSUME NEW i \in DOMAIN frames PROVE frames[i].n > played
      <4>1. frames[i].n \in Int /\ due <= frames[i].n /\ due \in Int /\ played \in Int
        BY JitterFacts
      <4>2. at # Jitter!NoCursor => played < due
        BY DEF JitterInv, CursorMatches
      <4>3. at = Jitter!NoCursor => frames[i].n > due /\ played <= due
        BY DEF JitterInv, CursorMatches, FrameMatches
      <4> QED BY <4>1, <4>2, <4>3
    <3> QED BY <3>1
  <2>2. frames # <<>> => due <= frames[1].n
    <3>1. frames # <<>> => 1 \in DOMAIN frames
      BY FramesQueue, QueueTail
    <3> QED BY <3>1, JitterFacts
  <2> QED BY <2>1, <2>2 DEF Jitter!PlaysInOrder, JitterInv, Sorted
<1> QED BY <1>1, <1>2, <1>3

-----------------------------------------------------------------------------
(* The composite: the component that runs takes a step, the others stutter.  *)

CallsInv == InviteInv /\ SessionInv /\ TransferInv
SpeakInv == AgentInv /\ SpeechInv /\ JitterInv

LEMMA CompositeInit == MCInit => CallsInv /\ SpeakInv
BY InviteInit, SessionInit, TransferInit, AgentInit, SpeechInit, JitterInit DEF MCInit, CallsInv, SpeakInv

mcVars == <<active, vars, inviteVars, sessionVars, transferVars, agentVars, speechVars, jitterVars>>

LEMMA CompositeStep ==
    ASSUME [MCNext]_mcVars
    PROVE  /\ Invitation!Next \/ UNCHANGED inviteVars
           /\ Dialog!Next \/ UNCHANGED sessionVars
           /\ Referral!Next \/ UNCHANGED transferVars
           /\ Listeners!Next \/ UNCHANGED agentVars
           /\ Speech!Next \/ UNCHANGED speechVars
           /\ Jitter!Next \/ UNCHANGED jitterVars
<1>1. CASE MCNext
  BY <1>1 DEF MCNext
<1>2. CASE UNCHANGED mcVars
  BY <1>2 DEF mcVars
<1> QED BY <1>1, <1>2

LEMMA CallsNext == CallsInv /\ [MCNext]_mcVars => CallsInv'
<1> SUFFICES ASSUME CallsInv, [MCNext]_mcVars PROVE CallsInv'
  OBVIOUS
<1>1. InviteInv'
  BY CompositeStep, InviteNext, InviteStutters DEF CallsInv
<1>2. SessionInv'
  BY CompositeStep, SessionNext, SessionStutters DEF CallsInv
<1>3. TransferInv'
  BY CompositeStep, TransferNext, TransferStutters DEF CallsInv
<1> QED BY <1>1, <1>2, <1>3 DEF CallsInv

LEMMA SpeakNext == SpeakInv /\ [MCNext]_mcVars => SpeakInv'
<1> SUFFICES ASSUME SpeakInv, [MCNext]_mcVars PROVE SpeakInv'
  OBVIOUS
<1>1. AgentInv'
  BY CompositeStep, AgentNext, AgentStutters DEF SpeakInv
<1>2. SpeechInv'
  BY CompositeStep, SpeechNext, SpeechStutters DEF SpeakInv
<1>3. JitterInv'
  BY CompositeStep, JitterNext, JitterStutters DEF SpeakInv
<1> QED BY <1>1, <1>2, <1>3 DEF SpeakInv

(* The inductive invariants of the six components hold in every behaviour of *)
(* the composite, in which one of them runs (MCCalls).                       *)
THEOREM CallsInvariant == MCSpec => [](CallsInv /\ SpeakInv)
<1>1. MCInit => CallsInv /\ SpeakInv
  BY CompositeInit
<1>2. CallsInv /\ SpeakInv /\ [MCNext]_mcVars => (CallsInv /\ SpeakInv)'
  BY CallsNext, SpeakNext
<1> QED BY <1>1, <1>2, PTL DEF MCSpec, mcVars

(* For any number of calls, branches, ports, timers, REFERs and transfers: a *)
(* port that is in use has one owner, of all the branches of a fork at most  *)
(* one is kept, a session is ended by its timer only when its refresh is     *)
(* overdue, and a REFER is answered and told of its end at most once         *)
(* (port_allocator.go, engine_fork.go, sip_leg.go, transfer.go).             *)
THEOREM CallsStaySound == MCSpec => []CallsAreSound
<1>1. CallsInv => CallsAreSound
  BY InviteSound, SessionSound, TransferSound DEF CallsInv, CallsAreSound
<1> QED BY <1>1, CallsInvariant, PTL

(* For any number of agents and utterances, and for a jitter buffer of any   *)
(* depth whose packets are late by less than half a turn of their numbers:   *)
(* what listens or speaks is registered, a discarded utterance is silent,    *)
(* and frames are played in the order they were sent, the newest never being *)
(* taken for a late one (agent.go, tts_preflight.go, jitter/buffer.go).      *)
THEOREM SpeechStaysSound == MCSpec => []SpeechIsSound
<1>1. SpeakInv => SpeechIsSound
  BY AgentSound, SpeechSound, JitterSound DEF SpeakInv, SpeechIsSound
<1> QED BY <1>1, CallsInvariant, PTL

-----------------------------------------------------------------------------
(* The conduit, for every buffer depth, frame size and number of frames:      *)
(* types, and that backpressure never reorders or drops the newest audio.     *)

(* A frame between Write's first check and its last select is newer than   *)
(* everything buffered or read; and a dropped oldest frame leaves a slot.  *)
Pending(d) ==
    writer[d] \in {"offer", "drop", "retry"} =>
        /\ taken[d] < serial[d]
        /\ \A i \in 1..Len(chan[d]) : chan[d][i] < serial[d]

Bounded(d) ==
    /\ taken[d] <= serial[d]
    /\ Len(chan[d]) <= BufFrames
    /\ writer[d] = "retry" => Len(chan[d]) < BufFrames
    /\ \A i \in 1..Len(chan[d]) : chan[d][i] <= serial[d]

Ordered(d) ==
    \A i, j \in 1..Len(chan[d]) :
        /\ taken[d] < chan[d][i]
        /\ i < j => chan[d][i] < chan[d][j]

Newest(d) ==
    writer[d] = "idle" =>
        serial[d] = (IF chan[d] = <<>> THEN taken[d] ELSE chan[d][Len(chan[d])])

DirInv(d) == Pending(d) /\ Bounded(d) /\ Ordered(d) /\ Newest(d)

ConduitInv == TypeOK /\ \A d \in Dirs : DirInv(d)

(* What Append and Tail do to a sequence of frames, by index.              *)
LEMMA AppendFacts ==
    ASSUME NEW S, NEW s \in Seq(S), NEW x \in S
    PROVE  /\ Append(s, x) \in Seq(S) /\ Append(s, x) # <<>>
           /\ Len(Append(s, x)) = Len(s) + 1
           /\ Append(s, x)[Len(s) + 1] = x
           /\ \A i \in 1..Len(s) : Append(s, x)[i] = s[i]
  BY SMT

LEMMA TailFacts ==
    ASSUME NEW S, NEW s \in Seq(S), s # <<>>
    PROVE  /\ Tail(s) \in Seq(S) /\ Head(s) = s[1] /\ s[1] \in S
           /\ Len(s) \in Nat \ {0} /\ Len(Tail(s)) = Len(s) - 1
           /\ Tail(s) = <<>> <=> Len(s) = 1
           /\ \A i \in 1..Len(s) - 1 : Tail(s)[i] = s[i + 1]
<1>1. Len(s) \in Nat \ {0} /\ Tail(s) \in Seq(S) /\ Len(Tail(s)) = Len(s) - 1
      /\ \A i \in 1..Len(s) - 1 : Tail(s)[i] = s[i + 1]
  BY EmptySeq, HeadTailProperties
<1>2. Head(s) = s[1] /\ s[1] \in S
  BY <1>1, HeadTailProperties
<1>3. Tail(s) = <<>> => Len(s) = 1
  BY <1>1, EmptySeq
<1>4. Tail(s) # <<>> => Len(Tail(s)) # 0
  BY <1>1, EmptySeq
<1>5. QED
  BY <1>1, <1>2, <1>3, <1>4

LEMMA ConduitInit == Init => ConduitInv
<1> SUFFICES ASSUME Init PROVE ConduitInv
  OBVIOUS
<1> USE ConduitAssumption DEF ConduitAssumption, Init
<1>1. TypeOK
  BY DEF TypeOK, NoRest
<1>2. ASSUME NEW d \in Dirs PROVE DirInv(d)
  <2>1. chan[d] = <<>> /\ Len(chan[d]) = 0 /\ taken[d] = 0 /\ serial[d] = 0 /\ writer[d] = "idle"
    OBVIOUS
  <2> HIDE DEF Init
  <2>2. QED
    BY <2>1 DEF DirInv, Pending, Bounded, Ordered, Newest
<1>3. QED
  BY <1>1, <1>2 DEF ConduitInv

LEMMA ConduitStep == ASSUME ConduitInv, [Next]_vars PROVE ConduitInv'
<1> USE ConduitAssumption DEF ConduitAssumption, TypeOK
<1>a. TypeOK /\ \A d \in Dirs : DirInv(d)
  BY DEF ConduitInv
<1>1. ASSUME NEW d \in Dirs, WriteLoad(d) PROVE ConduitInv'
  <2>a. /\ chan' = chan /\ taken' = taken /\ UNCHANGED <<rbuf, reader, closing>>
        /\ \/ serial' = serial /\ writer' = [writer EXCEPT ![d] = "exited"]
           \/ /\ serial[d] < MaxFrames
              /\ serial' = [serial EXCEPT ![d] = serial[d] + 1]
              /\ writer' = [writer EXCEPT ![d] = "offer"]
        /\ writer[d] = "idle"
    BY <1>1 DEF WriteLoad
  <2>b. /\ writer' \in [Dirs -> {"idle", "offer", "drop", "retry", "exited"}]
        /\ serial' \in [Dirs -> 0..MaxFrames]
        /\ \A e \in Dirs : e # d => serial'[e] = serial[e] /\ writer'[e] = writer[e]
        /\ \/ serial'[d] = serial[d] /\ writer'[d] = "exited"
           \/ serial'[d] = serial[d] + 1 /\ writer'[d] = "offer"
    <3>1. CASE serial' = serial /\ writer' = [writer EXCEPT ![d] = "exited"]
      BY <3>1, <1>a
    <3>2. CASE /\ serial[d] < MaxFrames
               /\ serial' = [serial EXCEPT ![d] = serial[d] + 1]
               /\ writer' = [writer EXCEPT ![d] = "offer"]
      <4>1. serial[d] + 1 \in 0..MaxFrames
        BY <3>2, <1>a
      <4>2. QED
        BY <3>2, <4>1, <1>a
    <3>3. QED
      BY <2>a, <3>1, <3>2
  <2>1. TypeOK'
    BY <2>a, <2>b, <1>a
  <2>2. ASSUME NEW e \in Dirs PROVE DirInv(e)'
    <3>a. chan[e] \in Seq(1..MaxFrames) /\ serial[e] \in Nat /\ taken[e] \in Nat
      BY <1>a
    <3>1. DirInv(e) /\ Len(chan[e]) \in Nat
          /\ (\A i \in 1..Len(chan[e]) : chan[e][i] \in Nat)
          /\ serial[e] \in Nat /\ taken[e] \in Nat /\ chan'[e] = chan[e] /\ taken'[e] = taken[e]
      <4>1. DirInv(e) /\ chan'[e] = chan[e] /\ taken'[e] = taken[e]
        BY <1>a, <2>a
      <4>2. Len(chan[e]) \in Nat /\ \A i \in 1..Len(chan[e]) : chan[e][i] \in Nat
        BY <3>a
      <4>3. QED
        BY <3>a, <4>1, <4>2
    <3>2. Pending(e)' /\ Bounded(e)'
      BY <2>a, <2>b, <3>1 DEF DirInv, Pending, Bounded
    <3>3. Ordered(e)' /\ Newest(e)'
      BY <2>a, <2>b, <3>1 DEF DirInv, Ordered, Newest
    <3>4. QED
      BY <3>2, <3>3 DEF DirInv
  <2>3. QED
    BY <2>1, <2>2 DEF ConduitInv
<1>2. ASSUME NEW d \in Dirs, Deliver(d), writer[d] \in {"offer", "retry"}, ~ Full(d),
             UNCHANGED <<rbuf, serial, reader, taken, closing>>
      PROVE  ConduitInv'
  <2>1. serial[d] \in 1..MaxFrames /\ Len(chan[d]) \in Nat
    BY <1>2, <1>a DEF DirInv, Pending
  <2>2. chan' = [chan EXCEPT ![d] = Append(@, serial[d])]
    BY <1>2 DEF Deliver, Full
  <2>a. chan[d] \in Seq(1..MaxFrames)
    BY <1>a
  <2>b. /\ Append(chan[d], serial[d]) \in Seq(1..MaxFrames)
        /\ Append(chan[d], serial[d]) # <<>>
        /\ Len(Append(chan[d], serial[d])) = Len(chan[d]) + 1
        /\ Append(chan[d], serial[d])[Len(chan[d]) + 1] = serial[d]
        /\ \A i \in 1..Len(chan[d]) : Append(chan[d], serial[d])[i] = chan[d][i]
    <3> DEFINE q == chan[d] x == serial[d] S == 1..MaxFrames
    <3>1. q \in Seq(S) /\ x \in S
      BY <2>1, <2>a
    <3> HIDE DEF q, x, S
    <3>2. /\ Append(q, x) \in Seq(S) /\ Append(q, x) # <<>>
          /\ Len(Append(q, x)) = Len(q) + 1
          /\ Append(q, x)[Len(q) + 1] = x
          /\ \A i \in 1..Len(q) : Append(q, x)[i] = q[i]
      BY <3>1, AppendFacts
    <3>3. QED
      BY <3>2 DEF q, x, S
  <2>3. TypeOK'
    BY <1>2, <1>a, <2>2, <2>b DEF Deliver
  <2>4. ASSUME NEW e \in Dirs PROVE DirInv(e)'
    <3>1. CASE e # d
      BY <3>1, <1>2, <1>a, <2>2
         DEF Deliver, DirInv, Pending, Bounded, Ordered, Newest
    <3>2. CASE e = d
      <4> DEFINE s == Append(chan[d], serial[d])
      <4>1. chan'[d] = s /\ writer'[d] = "idle" /\ serial'[d] = serial[d] /\ taken'[d] = taken[d]
        BY <1>2, <1>a, <2>2 DEF Deliver
      <4> DEFINE c == chan[d] n == Len(chan[d])
      <4>a. /\ n \in Nat /\ Len(s) = n + 1 /\ s[n + 1] = serial[d] /\ s # <<>>
            /\ \A i \in 1..n : s[i] = c[i]
        BY <2>1, <2>b
      <4>b. /\ taken[d] \in Nat /\ serial[d] \in Nat /\ taken[d] < serial[d]
            /\ \A i \in 1..n : c[i] \in Nat /\ c[i] < serial[d] /\ taken[d] < c[i]
            /\ \A i, j \in 1..n : i < j => c[i] < c[j]
        <5>1. \A i \in 1..n : c[i] \in Nat
          BY <2>a
        <5>2. Pending(d) /\ Ordered(d)
          BY <1>a DEF DirInv
        <5>3. taken[d] \in Nat /\ serial[d] \in Nat
          BY <1>a
        <5>4. QED
          <6>1. \A i, j \in 1..n : taken[d] < c[i] /\ (i < j => c[i] < c[j])
            BY <5>2 DEF Ordered
          <6>2. taken[d] < serial[d] /\ \A i \in 1..n : c[i] < serial[d]
            BY <1>2, <5>2 DEF Pending
          <6>3. QED
            BY <5>1, <5>3, <6>1, <6>2
      <4>4. Len(s) <= BufFrames
        BY <1>2, <2>1, <2>b DEF Full
      <4> HIDE DEF s, c, n
      <4>2. \A i \in 1..Len(s) : s[i] <= serial[d] /\ taken[d] < s[i]
        BY <4>a, <4>b
      <4>3. \A i, j \in 1..Len(s) : i < j => s[i] < s[j]
        BY <4>a, <4>b
      <4>5. s # <<>> /\ s[Len(s)] = serial[d]
        BY <4>a
      <4>6. Pending(d)' /\ Bounded(d)'
        BY <4>1, <4>2, <4>4, <1>a DEF Pending, Bounded, DirInv
      <4>7. Ordered(d)' /\ Newest(d)'
        BY <4>1, <4>2, <4>3, <4>5 DEF Ordered, Newest
      <4>8. QED
        BY <3>2, <4>6, <4>7 DEF DirInv
    <3>3. QED
      BY <3>1, <3>2
  <2>5. QED
    BY <2>3, <2>4 DEF ConduitInv
<1>3. ASSUME NEW d \in Dirs, writer[d] \in {"offer", "retry"},
             writer' \in {[writer EXCEPT ![d] = "exited"], [writer EXCEPT ![d] = "drop"]},
             writer[d] = "retry" => writer' = [writer EXCEPT ![d] = "exited"],
             UNCHANGED <<chan, rbuf, serial, reader, taken, closing>>
      PROVE  ConduitInv'
  <2>1. TypeOK'
    BY <1>3, <1>a
  <2>2. ASSUME NEW e \in Dirs PROVE DirInv(e)'
    BY <1>3, <1>a, <2>2 DEF DirInv, Pending, Bounded, Ordered, Newest
  <2>3. QED
    BY <2>1, <2>2 DEF ConduitInv
<1>4. ASSUME NEW d \in Dirs, chan[d] # <<>>,
             chan' = [chan EXCEPT ![d] = Tail(@)],
             \/ /\ taken' = [taken EXCEPT ![d] = Head(chan[d])]
                /\ UNCHANGED writer
             \/ /\ UNCHANGED taken
                /\ writer[d] = "drop"
                /\ writer' = [writer EXCEPT ![d] = "retry"],
             UNCHANGED <<serial, reader, closing>>,
             rbuf' \in [Dirs -> [frame : 0..MaxFrames, left : 0..FrameLen]]
      PROVE  ConduitInv'
  <2> DEFINE t == Tail(chan[d])
  <2>1. chan[d] \in Seq(1..MaxFrames)
    BY <1>a
  <2>2. /\ t \in Seq(1..MaxFrames) /\ Head(chan[d]) = chan[d][1] /\ chan[d][1] \in 1..MaxFrames
        /\ Len(chan[d]) \in Nat \ {0} /\ Len(t) = Len(chan[d]) - 1
        /\ t = <<>> <=> Len(chan[d]) = 1
        /\ \A i \in 1..Len(chan[d]) - 1 : t[i] = chan[d][i + 1]
    BY <1>4, <2>1, TailFacts
  <2>3. chan'[d] = t
    BY <1>4, <1>a
  <2> HIDE DEF t
  <2>4. TypeOK'
    <3>1. chan' \in [Dirs -> Seq(1..MaxFrames)]
      BY <1>4, <1>a, <2>2 DEF t
    <3>2. taken' \in [Dirs -> 0..MaxFrames]
      <4>1. Head(chan[d]) \in 0..MaxFrames
        BY <2>2
      <4>2. taken' = taken \/ taken' = [taken EXCEPT ![d] = Head(chan[d])]
        BY <1>4
      <4> QED
        BY <4>1, <4>2, <1>a
    <3>3. writer' \in [Dirs -> {"idle", "offer", "drop", "retry", "exited"}]
      BY <1>4, <1>a
    <3>4. QED
      BY <1>4, <1>a, <3>1, <3>2, <3>3
  <2>5. ASSUME NEW e \in Dirs PROVE DirInv(e)'
    <3>1. CASE e # d
      <4>1. chan'[e] = chan[e] /\ taken'[e] = taken[e] /\ serial'[e] = serial[e] /\ writer'[e] = writer[e]
        BY <3>1, <1>4, <1>a
      <4>2. QED
        BY <4>1, <1>a DEF DirInv, Pending, Bounded, Ordered, Newest
    <3>2. CASE e = d
      <4> DEFINE c == chan[d] n == Len(chan[d]) k == taken'[d]
      <4>1. /\ n \in Nat \ {0} /\ Len(t) = n - 1 /\ (t = <<>> <=> n = 1)
            /\ \A i \in 1..n - 1 : t[i] = c[i + 1]
        BY <2>2
      <4>2. /\ taken[d] \in Nat /\ serial[d] \in Nat /\ taken[d] < c[1]
            /\ n <= BufFrames /\ c # <<>>
            /\ \A i \in 1..n : c[i] \in Nat /\ c[i] <= serial[d]
            /\ \A i, j \in 1..n : i < j => c[i] < c[j]
        <5>1. \A i \in 1..n : c[i] \in Nat
          BY <2>1
        <5>2. Bounded(d) /\ Ordered(d)
          BY <1>a DEF DirInv
        <5>3. taken[d] \in Nat /\ serial[d] \in Nat
          BY <1>a
        <5>4. QED
          <6>1. 1 \in 1..n /\ taken[d] < c[1] /\ \A i, j \in 1..n : i < j => c[i] < c[j]
            BY <4>1, <5>2 DEF Ordered
          <6>2. n <= BufFrames /\ \A i \in 1..n : c[i] <= serial[d]
            BY <5>2 DEF Bounded
          <6>3. c # <<>>
            BY <1>4
          <6>4. QED
            BY <5>1, <5>3, <6>1, <6>2, <6>3
      <4>3. k \in {c[1], taken[d]} /\ serial'[d] = serial[d]
        BY <1>4, <1>a, <2>2
      <4>4. Pending(d) /\ Newest(d)
        BY <1>a DEF DirInv
      <4>5. \/ k = c[1] /\ writer'[d] = writer[d] /\ (writer[d] = "retry" => n < BufFrames)
            \/ k = taken[d] /\ writer'[d] = "retry" /\ writer[d] = "drop"
        BY <1>4, <1>a, <2>2 DEF DirInv, Bounded
      <4> HIDE DEF c, n, k
      <4>6. \A i \in 1..Len(t) : t[i] \in Nat /\ t[i] <= serial[d] /\ k < t[i]
        <5> SUFFICES ASSUME NEW i \in 1..Len(t)
                     PROVE  t[i] \in Nat /\ t[i] <= serial[d] /\ k < t[i]
          OBVIOUS
        <5>1. i + 1 \in 1..n /\ 1 \in 1..n /\ 1 < i + 1 /\ t[i] = c[i + 1]
          BY <4>1
        <5>2. c[1] < c[i + 1] /\ c[i + 1] \in Nat /\ c[i + 1] <= serial[d] /\ c[1] \in Nat
          BY <4>2, <5>1
        <5>3. QED
          BY <4>2, <4>3, <5>1, <5>2
      <4>7. \A i, j \in 1..Len(t) : i < j => t[i] < t[j]
        <5> SUFFICES ASSUME NEW i \in 1..Len(t), NEW j \in 1..Len(t), i < j
                     PROVE  t[i] < t[j]
          OBVIOUS
        <5>1. i + 1 \in 1..n /\ j + 1 \in 1..n /\ i + 1 < j + 1
              /\ t[i] = c[i + 1] /\ t[j] = c[j + 1]
          BY <4>1
        <5>2. QED
          BY <4>2, <5>1
      <4>8. Ordered(d)'
        BY <4>6, <4>7, <2>3 DEF Ordered, k
      <4>9. Bounded(d)'
        BY <4>1, <4>2, <4>3, <4>5, <4>6, <2>3, ConduitAssumption DEF Bounded, k
      <4>10. Pending(d)'
        <5>1. writer'[d] \in {"offer", "drop", "retry"} =>
                /\ taken[d] < serial[d]
                /\ \A i \in 1..n : c[i] < serial[d]
          BY <4>4, <4>5 DEF Pending, c, n
        <5>2. writer'[d] \in {"offer", "drop", "retry"} =>
                k < serial[d] /\ \A i \in 1..Len(t) : t[i] < serial[d]
          BY <5>1, <4>1, <4>2, <4>3
        <5>3. QED
          BY <5>2, <4>3, <2>3 DEF Pending, k
      <4>11. Newest(d)'
        <5>1. writer'[d] = "idle" => serial[d] = c[n] /\ k = c[1]
          BY <4>2, <4>4, <4>5 DEF Newest, c, n
        <5>2. t # <<>> => t[Len(t)] = c[n]
          BY <4>1
        <5>3. t = <<>> => c[n] = c[1]
          BY <4>1
        <5>4. QED
          BY <5>1, <5>2, <5>3, <4>3, <2>3 DEF Newest, k
      <4>12. QED
        BY <3>2, <4>8, <4>9, <4>10, <4>11 DEF DirInv
    <3>3. QED
      BY <3>1, <3>2
  <2>6. QED
    BY <2>4, <2>5 DEF ConduitInv
<1>5. ASSUME NEW d \in Dirs, WriteDropOldest(d) PROVE ConduitInv'
  <2>1. CASE chan[d] # <<>>
    BY <1>4, <1>5, <2>1, <1>a DEF WriteDropOldest
  <2>2. CASE chan[d] = <<>>
    <3>1. TypeOK'
      BY <1>5, <2>2, <1>a DEF WriteDropOldest
    <3>2. chan' = chan /\ Len(chan[d]) = 0
      BY <1>5, <2>2, <1>a DEF WriteDropOldest
    <3>3. ASSUME NEW e \in Dirs PROVE DirInv(e)'
      BY <1>5, <3>2, <1>a
         DEF WriteDropOldest, DirInv, Pending, Bounded, Ordered, Newest
    <3>4. QED
      BY <3>1, <3>3 DEF ConduitInv
  <2>3. QED
    BY <2>1, <2>2
<1>6. ASSUME NEW d \in Dirs, ReadFrame(d) PROVE ConduitInv'
  <2>1. Head(chan[d]) \in 1..MaxFrames
    BY <1>6, <1>a, TailFacts DEF ReadFrame
  <2>2. rbuf' \in [Dirs -> [frame : 0..MaxFrames, left : 0..FrameLen]]
    BY <1>6, <1>a, <2>1 DEF ReadFrame, Rest, NoRest
  <2>3. QED
    BY <1>4, <1>6, <2>2 DEF ReadFrame
<1>7. ASSUME UNCHANGED <<chan, serial, writer, taken>>, TypeOK' PROVE ConduitInv'
  BY <1>7, <1>a DEF ConduitInv, DirInv, Pending, Bounded, Ordered, Newest
<1>8. ASSUME NEW d \in Dirs, ReadRest(d) \/ ReadEOF(d) PROVE ConduitInv'
  <2>1. CASE ReadRest(d)
    <3>1. rbuf[d] \in [frame : 0..MaxFrames, left : 0..FrameLen]
      BY <1>a
    <3>2. Rest(rbuf[d].frame, rbuf[d].left) \in [frame : 0..MaxFrames, left : 0..FrameLen]
      BY <3>1 DEF Rest, NoRest
    <3>3. QED
      BY <2>1, <3>2, <1>a, <1>7 DEF ReadRest
  <2>2. CASE ReadEOF(d)
    BY <2>2, <1>a, <1>7 DEF ReadEOF
  <2>3. QED
    BY <1>8, <2>1, <2>2
<1>9. ASSUME NEW d \in Dirs, WriteOffer(d) \/ WriteRetry(d) PROVE ConduitInv'
  <2>1. writer[d] = "retry" => ~ Full(d)
    BY <1>a DEF DirInv, Bounded, Full
  <2>2. CASE Deliver(d)
    <3>1. ~ Full(d)
      BY <1>9, <2>1, <2>2, <1>a DEF WriteOffer, WriteRetry, Deliver, SeeDone
    <3>2. QED
      BY <1>2, <1>9, <2>2, <3>1 DEF WriteOffer, WriteRetry
  <2>3. CASE ~ Deliver(d)
    BY <1>3, <1>9, <2>3 DEF WriteOffer, WriteRetry, SeeDone
  <2>4. QED
    BY <2>2, <2>3
<1>10. ASSUME CloseStore \/ CloseDone PROVE ConduitInv'
  BY <1>10, <1>7, <1>a DEF CloseStore, CloseDone
<1>11. CASE UNCHANGED vars
  BY <1>11, <1>7, <1>a DEF vars
<1>12. QED
  BY <1>1, <1>5, <1>6, <1>8, <1>9, <1>10, <1>11 DEF Next, Write, Read

LEMMA ConduitHolds == Spec => []ConduitInv
<1>1. Init => ConduitInv
  BY ConduitInit
<1>2. ConduitInv /\ [Next]_vars => ConduitInv'
  BY ConduitStep
<1>3. QED
  BY <1>1, <1>2, PTL DEF Spec

(* The conduit's state is always well typed.                               *)
THEOREM ConduitTypes == Spec => []TypeOK
<1>1. ConduitInv => TypeOK
  BY DEF ConduitInv
<1>2. QED
  BY <1>1, ConduitHolds, PTL

(* Dropping frames under backpressure (conduit.go:92-102) never reorders   *)
(* the audio of a direction, and never returns a frame twice.              *)
THEOREM ConduitOrder == Spec => []FramesInOrder
<1>1. ConduitInv => FramesInOrder
  BY DEF ConduitInv, DirInv, Ordered, FramesInOrder
<1>2. QED
  BY <1>1, ConduitHolds, PTL

(* The frame given up under backpressure is never the newest one.          *)
THEOREM ConduitKeepsNewest == Spec => []NewestNeverDropped
<1>1. ConduitInv => NewestNeverDropped
  BY DEF ConduitInv, DirInv, Newest, NewestNeverDropped
<1>2. QED
  BY <1>1, ConduitHolds, PTL

(* Reading a frame to its end before the next keeps whatever the reader's  *)
(* buffer holds (conduit.go:59-70): only ReadRest touches a leftover.      *)
WholeFrames ==
    \A d \in Dirs : rbuf[d].left > 0 =>
        /\ taken'[d] = taken[d]
        /\ rbuf'[d].left > 0 => rbuf'[d].frame = rbuf[d].frame

LEMMA ConduitFrames == ASSUME TypeOK, [Next]_vars PROVE WholeFrames
<1> USE DEF TypeOK
<1>1. ASSUME NEW d \in Dirs, ReadRest(d) PROVE WholeFrames
  <2>1. taken' = taken /\ rbuf' = [rbuf EXCEPT ![d] = Rest(rbuf[d].frame, rbuf[d].left)]
    BY <1>1 DEF ReadRest
  <2>2. Rest(rbuf[d].frame, rbuf[d].left).left > 0 =>
            Rest(rbuf[d].frame, rbuf[d].left).frame = rbuf[d].frame
    BY DEF Rest, NoRest
  <2>3. QED
    BY <2>1, <2>2 DEF WholeFrames
<1>2. ASSUME NEW d \in Dirs, ReadFrame(d) PROVE WholeFrames
  <2>1. \A e \in Dirs \ {d} : taken'[e] = taken[e] /\ rbuf'[e] = rbuf[e]
    BY <1>2 DEF ReadFrame
  <2>2. ~ (rbuf[d].left > 0)
    BY <1>2 DEF ReadFrame
  <2>3. QED
    BY <2>1, <2>2 DEF WholeFrames
<1>3. ASSUME UNCHANGED <<rbuf, taken>> PROVE WholeFrames
  BY <1>3 DEF WholeFrames
<1>4. QED
  BY <1>1, <1>2, <1>3
     DEF Next, Write, Read, WriteLoad, WriteOffer, WriteDropOldest, WriteRetry, ReadEOF,
         CloseStore, CloseDone, vars

(* A frame that a Read has begun is read to its end, for any frame size and *)
(* any portion asked for, whatever Write and Close do meanwhile.           *)
THEOREM ConduitKeepsFramesWhole == Spec => NoTornFrame
<1>1. TypeOK /\ [Next]_vars => [WholeFrames]_vars
  BY ConduitFrames
<1>2. QED
  BY <1>1, ConduitTypes, PTL DEF Spec, NoTornFrame, WholeFrames
=============================================================================
