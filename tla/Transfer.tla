------------------------------ MODULE Transfer ------------------------------
(* Call transfer on one connected SIP leg, in both directions.                 *)
(*                                                                             *)
(* Incoming: the peer sends REFERs. They are parked for the application, one   *)
(* entry per leg, with a timer each that declines; or, with auto-dial, the     *)
(* server accepts and dials the target itself. Outgoing: transfers asked for   *)
(* through the API, one entry per Call-ID, resolved by the peer's NOTIFYs.     *)
EXTENDS Naturals, FiniteSets

CONSTANTS Refers,       \* REFERs the peer sends
          Transfers,    \* transfers the API asks for
          None,
          Overlap       \* bound: TRUE, a REFER or a transfer may start while one of
                        \* the leg is not settled

VARIABLES
    autoDial,     \* SIP_REFER_AUTO_DIAL
    legEnd,       \* why the leg was reported disconnected, "no" while it lives
    parked,       \* pendingRefers: the entry of the leg
    refer,        \* [Refers -> [pc, accepted, timer]]
    replies,      \* [Refers -> final responses to it, in a bag of codes]
    notified,     \* [Refers -> terminal NOTIFYs sent for it]
    dialled,      \* [Refers -> the leg originated for it: its life]
    route,        \* transfers: the entry of the leg's Call-ID
    transfer,     \* [Transfers -> the goroutine that sends the REFER]
    notify,       \* the terminal NOTIFY handler at work: [pc, of, ok]
    told          \* events published: [initiated, completed, failed], transfers

vars == <<autoDial, legEnd, parked, refer, replies, notified, dialled, route, transfer, notify, told>>
inVars == <<parked, refer, replies, notified, dialled>>
outVars == <<route, transfer, notify, told>>

Init ==
    /\ autoDial \in BOOLEAN
    /\ legEnd = "no" /\ parked = None
    /\ refer = [r \in Refers |-> [pc |-> "unsent", accepted |-> FALSE, timer |-> "off"]]
    /\ replies = [r \in Refers |-> [accept |-> 0, refuse |-> 0]]
    /\ notified = [r \in Refers |-> 0]
    /\ dialled = [r \in Refers |-> "none"]
    /\ route = None
    /\ transfer = [t \in Transfers |-> "unasked"]
    /\ notify = [pc |-> "idle", of |-> None, ok |-> FALSE]
    /\ told = [initiated |-> {}, completed |-> {}, failed |-> {}]

\* cleanupLeg and publishDisconnect: the first reason is the one reported.
End(reason) == legEnd' = IF legEnd = "no" THEN reason ELSE legEnd

\* The leg ends for another reason, as far as transfers are concerned at once.
LegEnds == legEnd = "no" /\ End("other") /\ UNCHANGED <<autoDial, inVars, outVars>>

-----------------------------------------------------------------------------
(* REFERs the peer sends. *)

\* timer.Stop: a goroutine that has started runs on.
Stopped(r) == IF refer[r].timer = "armed" THEN "off" ELSE refer[r].timer
Waiting(r) == refer[r].pc \in {"sent", "parked"}
Respond(r, answer) == replies' = [replies EXCEPT ![r] = [@ EXCEPT ![answer] = replies[r][answer] + 1]]

\* The peer sends a REFER within the dialog.
SendRefer(r) ==
    /\ refer[r].pc = "unsent" /\ legEnd = "no"
    /\ Overlap \/ (parked = None /\ \A q \in Refers : ~Waiting(q))
    /\ refer' = [refer EXCEPT ![r].pc = "sent"]
    /\ UNCHANGED <<autoDial, legEnd, parked, replies, notified, dialled, outVars>>

\* HandleIncomingRefer: without a leg it is refused. The timer starts before
\* the entry is put, over whatever entry the leg has.
HandleIncomingRefer(r) ==
    /\ refer[r].pc = "sent"
    /\ \/ /\ legEnd # "no"
          /\ Respond(r, "refuse")
          /\ refer' = [refer EXCEPT ![r].pc = "over"]
          /\ UNCHANGED <<parked, dialled>>
       \/ /\ legEnd = "no" /\ ~autoDial
          /\ refer' = [refer EXCEPT ![r] = [pc |-> "parked", accepted |-> FALSE, timer |-> "armed"]]
          /\ parked' = r
          /\ UNCHANGED <<replies, dialled>>
       \/ /\ legEnd = "no" /\ autoDial
          /\ Respond(r, "accept")
          /\ refer' = [refer EXCEPT ![r] = [pc |-> "dialling", accepted |-> TRUE, timer |-> "off"]]
          /\ dialled' = [dialled EXCEPT ![r] = "ringing"]
          /\ UNCHANGED parked
    /\ UNCHANGED <<autoDial, legEnd, notified, outVars>>

\* doAcceptTransfer: markAccepted under the store's lock, then the 202 and a
\* NOTIFY of 100.
AcceptTransfer == \E r \in Refers :
    /\ parked = r /\ ~refer[r].accepted
    /\ refer' = [refer EXCEPT ![r] = [pc |-> "accepting", accepted |-> TRUE, timer |-> Stopped(r)]]
    /\ UNCHANGED <<autoDial, legEnd, parked, replies, notified, dialled, outVars>>

Accepted(r) ==
    /\ refer[r].pc = "accepting"
    /\ Respond(r, "accept")
    /\ refer' = [refer EXCEPT ![r].pc = "accepted"]
    /\ UNCHANGED <<autoDial, legEnd, parked, notified, dialled, outVars>>

\* doCompleteTransfer: takeAccepted, then the terminal NOTIFY, sent or not.
CompleteTransfer == \E r \in Refers :
    /\ parked = r /\ refer[r].accepted
    /\ parked' = None
    /\ notified' = [notified EXCEPT ![r] = @ + 1]
    /\ refer' = [refer EXCEPT ![r].pc = IF @ = "accepting" THEN @ ELSE "over"]
    /\ UNCHANGED <<autoDial, legEnd, replies, dialled, outVars>>

\* takeIfPending: only an entry not accepted, and only once.
TakeIfPending(r) == parked = r /\ ~refer[r].accepted /\ parked' = None

\* doDeclineTransfer
DeclineTransfer == \E r \in Refers :
    /\ TakeIfPending(r)
    /\ Respond(r, "refuse")
    /\ refer' = [refer EXCEPT ![r] = [@ EXCEPT !.pc = "over", !.timer = Stopped(r)]]
    /\ UNCHANGED <<autoDial, legEnd, notified, dialled, outVars>>

\* The consult timer of r fires; declineReferOnTimeout runs on a goroutine of
\* its own.
ConsultTimeout(r) ==
    /\ refer[r].timer = "armed"
    /\ refer' = [refer EXCEPT ![r].timer = "fired"]
    /\ UNCHANGED <<autoDial, legEnd, parked, replies, notified, dialled, outVars>>

\* It takes the entry of the leg, which need not be the one of its REFER.
DeclineReferOnTimeout(r) ==
    /\ refer[r].timer = "fired"
    /\ \/ \E q \in Refers :
            /\ TakeIfPending(q)
            /\ Respond(q, "refuse")
            /\ refer' = [p \in Refers |->
                 [refer[p] EXCEPT !.pc = IF p = q THEN "over" ELSE @,
                                  !.timer = IF p = r THEN "off" ELSE IF p = q THEN Stopped(q) ELSE @]]
       \/ /\ ~\E q \in Refers : parked = q /\ ~refer[q].accepted
          /\ refer' = [refer EXCEPT ![r].timer = "off"]
          /\ UNCHANGED <<parked, replies>>
    /\ UNCHANGED <<autoDial, legEnd, notified, dialled, outVars>>

-----------------------------------------------------------------------------
(* originateForRefer: the target is dialled for the peer. *)

\* The new leg may be deleted, or its own callee leave, at any time.
DialledEnds(r) ==
    /\ dialled[r] \in {"ringing", "connected"}
    /\ dialled' = [dialled EXCEPT ![r] = "ended"]
    /\ UNCHANGED <<autoDial, legEnd, parked, refer, replies, notified, outVars>>

\* Invite or ConnectOutbound failed (the latter also for a leg that hung up
\* meanwhile): notifyAndFail, and the new leg goes.
OriginateFails(r) ==
    /\ refer[r].pc = "dialling"
    /\ refer' = [refer EXCEPT ![r].pc = "over"]
    /\ notified' = [notified EXCEPT ![r] = @ + 1]
    /\ dialled' = [dialled EXCEPT ![r] = "ended"]
    /\ UNCHANGED <<autoDial, legEnd, parked, replies, outVars>>

OriginateConnects(r) ==
    /\ refer[r].pc = "dialling" /\ dialled[r] = "ringing"
    /\ refer' = [refer EXCEPT ![r].pc = "connected"]
    /\ dialled' = [dialled EXCEPT ![r] = "connected"]
    /\ UNCHANGED <<autoDial, legEnd, parked, replies, notified, outVars>>

\* The NOTIFY of 200, then the referrer is hung up.
NotifyConnected(r) ==
    /\ refer[r].pc = "connected"
    /\ notified' = [notified EXCEPT ![r] = @ + 1]
    /\ refer' = [refer EXCEPT ![r].pc = "notified"]
    /\ UNCHANGED <<autoDial, legEnd, parked, replies, dialled, outVars>>

ReferrerEnds(r) ==
    /\ refer[r].pc = "notified"
    /\ refer' = [refer EXCEPT ![r].pc = "over"]
    /\ End("transfer_completed")
    /\ UNCHANGED <<autoDial, parked, replies, notified, dialled, outVars>>

-----------------------------------------------------------------------------
(* Transfers asked for through the API. *)

Publish(event, t) == told' = [told EXCEPT ![event] = @ \cup {t}]

\* doTransferLeg: the route, the event, and a goroutine for the REFER.
TransferLeg(t) ==
    /\ transfer[t] = "unasked" /\ legEnd = "no"
    /\ Overlap \/ \A u \in Transfers : transfer[u] \in {"unasked", "over"} /\ notify.pc = "idle"
    /\ route' = t
    /\ Publish("initiated", t)
    /\ transfer' = [transfer EXCEPT ![t] = "sent"]
    /\ UNCHANGED <<autoDial, legEnd, notify, inVars>>

\* The peer's answer to the REFER, or none: the goroutine learns of it later.
AnswerRefer(t) ==
    /\ transfer[t] = "sent"
    /\ \E answer \in {"accepted", "refused"} : transfer' = [transfer EXCEPT ![t] = answer]
    /\ UNCHANGED <<autoDial, legEnd, route, notify, told, inVars>>

\* Transfer returned an error: nothing to do if a NOTIFY resolved it.
ReferFailed(t) ==
    /\ transfer[t] = "refused"
    /\ IF route = None THEN UNCHANGED <<route, told>>
       ELSE route' = None /\ Publish("failed", t)
    /\ transfer' = [transfer EXCEPT ![t] = "over"]
    /\ UNCHANGED <<autoDial, legEnd, notify, inVars>>

\* HandleReferNotify: a terminal NOTIFY of a transfer the peer accepted finds
\* the route. (Interim ones publish progress and change nothing.)
NotifyArrives(t) ==
    /\ transfer[t] = "accepted" /\ notify.pc = "idle"
    /\ transfer' = [transfer EXCEPT ![t] = "over"]
    /\ \E ok \in BOOLEAN :
        notify' = IF route = None THEN notify ELSE [pc |-> "found", of |-> route, ok |-> ok]
    /\ UNCHANGED <<autoDial, legEnd, route, told, inVars>>

\* The route is dropped and the outcome published.
NotifyResolves ==
    /\ notify.pc = "found"
    /\ route' = None
    /\ Publish(IF notify.ok THEN "completed" ELSE "failed", notify.of)
    /\ notify' = IF notify.ok THEN [notify EXCEPT !.pc = "told"]
                 ELSE [pc |-> "idle", of |-> None, ok |-> FALSE]
    /\ UNCHANGED <<autoDial, legEnd, transfer, inVars>>

\* A completed transfer ends the leg, if it has not hung up.
NotifyEnds ==
    /\ notify.pc = "told"
    /\ End("transfer_completed")
    /\ notify' = [pc |-> "idle", of |-> None, ok |-> FALSE]
    /\ UNCHANGED <<autoDial, route, transfer, told, inVars>>

Next ==
    \/ LegEnds
    \/ \E r \in Refers :
        \/ SendRefer(r) \/ HandleIncomingRefer(r) \/ Accepted(r)
        \/ ConsultTimeout(r) \/ DeclineReferOnTimeout(r)
        \/ DialledEnds(r) \/ OriginateFails(r) \/ OriginateConnects(r)
        \/ NotifyConnected(r) \/ ReferrerEnds(r)
    \/ AcceptTransfer \/ CompleteTransfer \/ DeclineTransfer
    \/ \E t \in Transfers :
        TransferLeg(t) \/ AnswerRefer(t) \/ ReferFailed(t) \/ NotifyArrives(t)
    \/ NotifyResolves \/ NotifyEnds

Spec == Init /\ [][Next]_vars

\* Handlers and goroutines go on, timers fire; an INVITE ends one way or the
\* other. Nothing is asked of the application or of the peer.
Handler(r) ==
    \/ HandleIncomingRefer(r) \/ Accepted(r) \/ OriginateFails(r) \/ OriginateConnects(r)
    \/ NotifyConnected(r) \/ ReferrerEnds(r)
ConsultTimer(r) == ConsultTimeout(r) \/ DeclineReferOnTimeout(r)

Fairness == \A r \in Refers : WF_vars(Handler(r)) /\ WF_vars(ConsultTimer(r))

-----------------------------------------------------------------------------
TypeOK ==
    /\ autoDial \in BOOLEAN
    /\ legEnd \in {"no", "other", "transfer_completed"}
    /\ parked \in Refers \cup {None}
    /\ refer \in [Refers -> [pc : {"unsent", "sent", "parked", "accepting", "accepted", "dialling",
                                   "connected", "notified", "over"},
                             accepted : BOOLEAN, timer : {"off", "armed", "fired"}]]
    /\ replies \in [Refers -> [accept : 0..2, refuse : 0..2]]
    /\ notified \in [Refers -> 0..2]
    /\ dialled \in [Refers -> {"none", "ringing", "connected", "ended"}]
    /\ route \in Transfers \cup {None}
    /\ transfer \in [Transfers -> {"unasked", "sent", "accepted", "refused", "over"}]
    /\ notify \in [pc : {"idle", "found", "told"}, of : Transfers \cup {None}, ok : BOOLEAN]
    /\ told \in [initiated : SUBSET Transfers, completed : SUBSET Transfers, failed : SUBSET Transfers]

\* However the application's decision, the consult timer and a hangup meet, a
\* REFER gets one final response and, accepted, one terminal NOTIFY at most; a
\* refused one is never followed by NOTIFYs, and a transfer is not told both
\* completed and failed.
SettledOnce ==
    /\ \A r \in Refers :
        /\ replies[r].accept + replies[r].refuse <= 1
        /\ notified[r] <= 1
        /\ replies[r].refuse > 0 => notified[r] = 0 /\ ~refer[r].accepted
    /\ told.completed \cap told.failed = {}

Undecided(r) == refer[r].pc # "unsent" /\ replies[r].accept + replies[r].refuse = 0

\* A REFER the application never decides on is declined in the end, whatever
\* else the leg goes through: the consult fails closed.
ReferIsAnswered == \A r \in Refers : Undecided(r) ~> ~Undecided(r)

\* Does not hold, it is published first: leg.transfer_initiated means that the
\* peer has accepted the REFER.
InitiatedMeansAccepted ==
    \A t \in told.initiated : transfer[t] \notin {"sent", "refused"}
=============================================================================
