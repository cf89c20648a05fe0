------------------------------ MODULE Session ------------------------------
(* The session of one answered SIP leg: who refreshes it (RFC 4028), the       *)
(* timers armed for that, hold in both directions, and the hangup they race.   *)
(*                                                                             *)
(* time.Timer objects are members of Timers, chosen anew by each AfterFunc     *)
(* among those nothing refers to; Reset re-arms a timer with the function it   *)
(* was made with, whether it has fired, is stopped or is still pending. Time   *)
(* is counted in quarters of the session interval.                             *)
EXTENDS Integers, FiniteSets

CONSTANTS Timers,       \* time.Timer objects: bounds the timers alive at once
          NoTimer,      \* nil
          MaxRequests,  \* bound: re-INVITEs and UPDATEs of the peer
    HoldWith      \* bound: the refreshers of the calls that are also held

Interval == 4           \* in quarters of the negotiated interval
Grace == 1              \* the 32 s of RFC 4028 section 10

VARIABLES
    refresher,    \* sessionRefresher: "uas" is this leg, "uac" its peer,
                  \* "none" without a session timer (sessionInterval is 0)
    leg,          \* [state, held, holdTimer]: the fields SetHeld keeps
    slot,         \* l.sessionTimer
    timer,        \* [Timers -> [fn, left]]: left is Off, or quarters to go
    refreshing,   \* the timers whose sessionRefresh waits for an answer
    request,      \* the peer's request in progress: [pc, timer, direction]
    requests,     \* how many there were
    control,      \* the API's re-INVITE in flight: "none", "hold", "unhold"
    hangup,       \* Hangup: "no", "state" (hung_up is set), "done"
    peerUp,       \* the peer still answers
    since,        \* quarters from the last refresh in either direction, up to
                  \* the end of the call, capped
    failed,       \* a refresh of ours has failed
    ended         \* why the leg was reported ended

vars == <<refresher, leg, slot, timer, refreshing, request, requests, control,
          hangup, peerUp, since, failed, ended>>
sessionVars == <<slot, timer, refreshing, since, failed>>
legVars == <<leg, control>>
endVars == <<hangup, ended>>
peerVars == <<request, requests, peerUp>>

Off == -1
Directions == {"none", "sendonly", "sendrecv"}
IdleRequest == [pc |-> "idle", timer |-> NoTimer, direction |-> "none"]
Unused == [fn |-> "refresh", left |-> Off]

\* startSessionTimer: a refresh at half the interval, or the guard.
Armed(by) == IF by = "uas" THEN [fn |-> "refresh", left |-> Interval \div 2]
                           ELSE [fn |-> "expire", left |-> Interval + Grace]

Init ==
    /\ refresher \in {"uas", "uac", "none"}
    /\ leg = [state |-> "connected", held |-> FALSE, holdTimer |-> "off"]
    /\ IF refresher = "none" THEN slot = NoTimer
       ELSE slot \in Timers /\ \A u \in Timers : slot <= u
    /\ timer = [u \in Timers |-> IF u = slot THEN Armed(refresher) ELSE Unused]
    /\ refreshing = {} /\ request = IdleRequest /\ requests = 0 /\ control = "none"
    /\ hangup = "no" /\ peerUp = TRUE /\ since = 0 /\ failed = FALSE /\ ended = "no"

-----------------------------------------------------------------------------
(* Timers. *)

Pending(t) == timer[t].left # Off

\* No reference is left: the timer is garbage, its name may be used again.
Free(t) == ~Pending(t) /\ t \notin refreshing /\ slot # t /\ request.timer # t

\* l.sessionTimer = time.AfterFunc(left, fn)
AfterFunc(fn, left) == \E t \in Timers :
    /\ Free(t)
    /\ \A u \in Timers : Free(u) => t <= u
    /\ timer' = [timer EXCEPT ![t] = [fn |-> fn, left |-> left]]
    /\ slot' = t

Since(n) == since' = IF ended = "no" THEN n ELSE since

\* Time passes: a due timer fires before the quarter is over.
Tick ==
    /\ \A t \in Timers : timer[t].left # 0
    /\ \E t \in Timers : Pending(t)
    /\ timer' = [t \in Timers |-> IF Pending(t) THEN [timer[t] EXCEPT !.left = @ - 1] ELSE timer[t]]
    /\ Since(IF since < Interval + Grace THEN since + 1 ELSE since)
    /\ UNCHANGED <<refresher, leg, slot, refreshing, request, requests, control, hangup, peerUp, failed, ended>>

Fired(t) == timer[t].left = 0 /\ timer' = [timer EXCEPT ![t].left = Off]

\* sessionRefresh, up to the re-INVITE: nothing for a leg that hung up.
SessionRefresh(t) ==
    /\ timer[t].fn = "refresh" /\ Fired(t)
    /\ refreshing' = IF leg.state = "hung_up" THEN refreshing ELSE refreshing \cup {t}
    /\ UNCHANGED <<refresher, leg, slot, request, requests, control, hangup, peerUp, since, failed, ended>>

\* SendReInviteAnswer returned: the next refresh, or the expiry a quarter
\* later. The leg's context ends with Hangup, and the request with it.
Refreshed(t) ==
    /\ t \in refreshing /\ refreshing' = refreshing \ {t}
    /\ \/ /\ peerUp
          /\ AfterFunc("refresh", Interval \div 2)
          /\ Since(0) /\ UNCHANGED failed
       \/ /\ AfterFunc("expire", Interval \div 4)
          /\ failed' = TRUE /\ UNCHANGED since
    /\ UNCHANGED <<refresher, legVars, endVars, peerVars>>

\* The callback of an expiry or of the hold timer: cleanupLeg and
\* publishDisconnect for a leg that is not hung up (Hangup's first statement
\* runs inside).
EndFor(reason) ==
    IF leg.state = "hung_up" THEN UNCHANGED <<leg, endVars>>
    ELSE /\ leg' = [leg EXCEPT !.state = "hung_up"]
         /\ hangup' = IF hangup = "no" THEN "state" ELSE hangup
         /\ ended' = IF ended = "no" THEN reason ELSE ended

\* sessionExpired
SessionExpired(t) ==
    /\ timer[t].fn = "expire" /\ Fired(t)
    /\ EndFor("session_expired")
    /\ UNCHANGED <<refresher, slot, refreshing, since, failed, control, peerVars>>

-----------------------------------------------------------------------------
(* Hold. *)

\* SetHeld: a call per change, under the leg's lock. It does not look whether
\* the leg has hung up meanwhile.
SetHeld(held) ==
    leg' = IF leg.held = held THEN leg
           ELSE [state |-> IF held THEN "held" ELSE "connected",
                 held |-> held,
                 holdTimer |-> IF held THEN "armed"
                               ELSE IF leg.holdTimer = "fired" THEN "fired" ELSE "off"]

\* Hold and Unhold of the API, up to the re-INVITE.
Hold ==
    /\ control = "none" /\ refresher \in HoldWith
    /\ ~leg.held /\ leg.state = "connected"
    /\ control' = "hold"
    /\ UNCHANGED <<refresher, leg, sessionVars, endVars, peerVars>>

Unhold ==
    /\ control = "none"
    /\ leg.held
    /\ control' = "unhold"
    /\ UNCHANGED <<refresher, leg, sessionVars, endVars, peerVars>>

\* Its answer: accepted, or the command fails.
HoldAnswered ==
    /\ control # "none" /\ control' = "none"
    /\ \/ peerUp /\ SetHeld(control = "hold")
       \/ UNCHANGED leg
    /\ UNCHANGED <<refresher, sessionVars, endVars, peerVars>>

\* The two hours are over; the callback runs in the timer's own goroutine.
HoldTimerFires ==
    /\ leg.holdTimer = "armed"
    /\ leg' = [leg EXCEPT !.holdTimer = "fired"]
    /\ UNCHANGED <<refresher, sessionVars, control, endVars, peerVars>>

HoldTimeout ==
    /\ leg.holdTimer = "fired"
    /\ leg' = [leg EXCEPT !.holdTimer = "off",
                          !.state = "hung_up"]
    /\ IF leg.state = "hung_up" THEN UNCHANGED endVars
       ELSE /\ hangup' = IF hangup = "no" THEN "state" ELSE hangup
            /\ ended' = IF ended = "no" THEN "rtp_timeout" ELSE ended
    /\ UNCHANGED <<refresher, sessionVars, control, peerVars>>

-----------------------------------------------------------------------------
(* The peer. *)

\* handleReInvite, handleUpdate: the leg is found, and ResetSessionTimer reads
\* the timer under the lock.
PeerRequest == \E d \in Directions :
    /\ peerUp /\ hangup = "no"
    /\ request.pc = "idle" /\ requests < MaxRequests
    /\ d = "none" \/ refresher \in HoldWith
    /\ request' = [pc |-> "reset", timer |-> slot, direction |-> d]
    /\ requests' = requests + 1
    /\ UNCHANGED <<refresher, peerUp, sessionVars, legVars, endVars>>

\* Mutant: the interval starts over for a refresher of ours only.
MutResetSessionTimer ==
    /\ request.pc = "reset"
    /\ timer' = IF request.timer = NoTimer \/ refresher = "uac" THEN timer
                ELSE [timer EXCEPT ![request.timer].left = Armed(refresher).left]
    /\ Since(0)
    /\ request' = [request EXCEPT !.pc = "offer", !.timer = NoTimer]
    /\ UNCHANGED <<refresher, requests, peerUp, slot, refreshing, failed, legVars, endVars>>

\* It re-arms that timer outside the lock.
ResetSessionTimer ==
    /\ request.pc = "reset"
    /\ timer' = IF request.timer = NoTimer THEN timer
                ELSE [timer EXCEPT ![request.timer].left = Armed(refresher).left]
    /\ Since(0)
    /\ request' = [request EXCEPT !.pc = "offer", !.timer = NoTimer]
    /\ UNCHANGED <<refresher, requests, peerUp, slot, refreshing, failed, legVars, endVars>>

\* ApplyRemoteOffer and HandleRemoteHold, for a request with a body.
HandleRemoteHold ==
    /\ request.pc = "offer"
    /\ IF request.direction = "none" THEN UNCHANGED leg
       ELSE SetHeld(request.direction = "sendonly")
    /\ request' = IdleRequest
    /\ UNCHANGED <<refresher, requests, peerUp, sessionVars, control, endVars>>

PeerLost == peerUp /\ peerUp' = FALSE
    /\ UNCHANGED <<refresher, request, requests, sessionVars, legVars, endVars>>

-----------------------------------------------------------------------------
(* Hangup. *)

\* Any other end of the call: a DELETE, a BYE, a silence.
Hangup ==
    /\ hangup = "no"
    /\ hangup' = "state" /\ ended' = "other"
    /\ leg' = [leg EXCEPT !.state = "hung_up"]
    /\ UNCHANGED <<refresher, sessionVars, control, peerVars>>

\* The rest of Hangup: the hold timer and stopSessionTimer.
StopTimers ==
    /\ hangup = "state" /\ hangup' = "done"
    /\ leg' = [leg EXCEPT !.holdTimer = IF @ = "armed" THEN "off" ELSE @]
    /\ timer' = IF slot = NoTimer THEN timer ELSE [timer EXCEPT ![slot].left = Off]
    /\ slot' = NoTimer
    /\ UNCHANGED <<refresher, refreshing, since, failed, control, ended, peerVars>>

Next ==
    \/ Tick
    \/ \E t \in Timers : SessionRefresh(t) \/ Refreshed(t) \/ SessionExpired(t)
    \/ Hold \/ Unhold \/ HoldAnswered \/ HoldTimerFires \/ HoldTimeout
    \/ PeerRequest \/ ResetSessionTimer \/ HandleRemoteHold \/ PeerLost
    \/ Hangup \/ StopTimers

Spec == Init /\ [][Next]_vars

\* Timers fire, requests are answered or time out, goroutines are scheduled.
TimerRuns(t) == SessionRefresh(t) \/ Refreshed(t) \/ SessionExpired(t)
RequestRuns == ResetSessionTimer \/ HandleRemoteHold

Fairness ==
    /\ WF_vars(Tick) /\ \A t \in Timers : WF_vars(TimerRuns(t))
    /\ WF_vars(HoldAnswered) /\ WF_vars(HoldTimeout)
    /\ WF_vars(RequestRuns) /\ WF_vars(StopTimers)

-----------------------------------------------------------------------------
TypeOK ==
    /\ refresher \in {"uas", "uac", "none"}
    /\ leg \in [state : {"connected", "held", "hung_up"}, held : BOOLEAN,
                holdTimer : {"off", "armed", "fired"}]
    /\ slot \in Timers \cup {NoTimer}
    /\ timer \in [Timers -> [fn : {"refresh", "expire"}, left : Off .. Interval + Grace]]
    /\ refreshing \subseteq Timers
    /\ request \in [pc : {"idle", "reset", "offer"}, timer : Timers \cup {NoTimer}, direction : Directions]
    /\ requests \in 0 .. MaxRequests
    /\ control \in {"none", "hold", "unhold"}
    /\ hangup \in {"no", "state", "done"}
    /\ peerUp \in BOOLEAN /\ failed \in BOOLEAN
    /\ since \in 0 .. Interval + Grace
    /\ ended \in {"no", "session_expired", "rtp_timeout", "other"}

\* A call is ended for want of a refresh only when there was none: a peer that
\* refreshes has the whole interval and the grace after each refresh, and a leg
\* that refreshes itself ends no call unless a refresh of its own has failed.
\* The hold timer, too, is armed for as long as the call is held and not after.
TimersAreDue ==
    /\ ended = "session_expired" => IF refresher = "uac" THEN since = Interval + Grace ELSE failed
    /\ hangup = "no" => /\ (leg.state = "held") = leg.held
                        /\ leg.holdTimer = "armed" => leg.held
                        /\ leg.held => leg.holdTimer # "off"

\* Does not hold, as a timer that has fired still runs: a session the peer
\* refreshed lives on, none ends for want of a refresh within the three
\* quarters of the interval that follow one. (The callback is documented to run
\* when the timer "expires without a refresh".)
RefreshedSessionLives == ended = "session_expired" => since >= 3

PeerMissed == ~peerUp /\ refresher # "none" /\ ended = "no"

\* A peer that is gone is noticed: its call ends although no BYE comes, whoever
\* was to refresh, however its last requests met the timers.
LostPeerEndsCall == PeerMissed ~> ended # "no"

=============================================================================
