------------------------------ MODULE MCCalls ------------------------------
(***************************************************************************)
(* Instances for TLC of seven components of a call that keep no state in    *)
(* common: in every behaviour one of them is active, and fair as its own   *)
(* module has it.                                                          *)
(***************************************************************************)
EXTENDS Conduit, TLC

CONSTANTS None,
          k1, k2, a1, a2, r1, u1, u2,
          Calls, Offers, Branches, MaxPort, Foreign, BindAttempts,  \* of OutboundInvite
          Timers, NoTimer, MaxRequests, HoldWith,            \* of Session
          Refers, Transfers,                                 \* of Transfer
          Sessions, Kind,                                    \* of Attachments
          Utts, Kinds, MaxPerLeg,                            \* of Utterances
          Modulus, TargetFrames, JitterFrames, Window, MaxLead, MaxSent  \* of JitterBuffer

TheCalls == {k1, k2}
TwoOffers ==
    (k1 :> {<<"audio">>, <<"audio", "extra", "text">>}) @@ (k2 :> {<<"audio", "text">>})
TheUtts == {u1, u2}
UttKinds == (u1 :> {"staged"}) @@ (u2 :> {"staged", "file", "speech", "roomSpeech"})
TheAgents == {a1, a2, r1}
AgentKinds == (a1 :> "agent") @@ (a2 :> "agent") @@ (r1 :> "roomAgent")

\* Nothing is None, a fork has a branch, and what listens is an agent.
ASSUME CallsAssumption ==
    /\ None \notin Branches \cup Refers \cup Transfers \cup Sessions
    /\ Branches # {} /\ MaxPort \in Nat \ {0}
    /\ \A k \in Calls : \A list \in Offers[k] : list \in Seq({"audio", "extra", "text"})
    /\ NoTimer \notin Timers /\ MaxRequests \in Nat /\ MaxPerLeg \in Nat
    /\ Kind \in [Sessions -> {"agent", "roomAgent"}]

\* The numbers of packets do not go halfway round while one of them is late.
ASSUME JitterAssumption ==
    /\ Window \in Nat /\ MaxLead \in Nat /\ MaxSent \in Nat /\ JitterFrames \in Nat \ {0}
    /\ Modulus \in Nat /\ 2 * (MaxLead + Window + 1) <= Modulus

VARIABLES
    active,   \* the component that runs
    used, cursor, call, session, branch, peer, winner, media, legOver,
    refresher, leg, slot, timer, refreshing, request, requests, control,
    hangup, peerUp, since, failed, ended,
    autoDial, legEnd, parked, refer, replies, notified, dialled, route,
    transfer, notify, told,
    legInRoom, attached, participantTap, speaking, agent, cleanup,
    heard, mixing, staged, players, source, utt,
    frames, at, warming, sent, base, flight, played, due, refused

Invitation == INSTANCE OutboundInvite
Dialog     == INSTANCE Session
Referral   == INSTANCE Transfer WITH Overlap <- FALSE
Listeners  == INSTANCE Attachments WITH Racy <- FALSE, session <- agent
Speech     == INSTANCE Utterances WITH EarlyStops <- TRUE, leg <- heard
Jitter     == INSTANCE JitterBuffer WITH
    MaxFrames <- JitterFrames, Restarts <- FALSE, cursor <- at

inviteVars   == <<used, cursor, call, session, branch, peer, winner, media, legOver>>
sessionVars  == <<refresher, leg, slot, timer, refreshing, request, requests, control,
                  hangup, peerUp, since, failed, ended>>
transferVars == <<autoDial, legEnd, parked, refer, replies, notified, dialled, route,
                  transfer, notify, told>>
agentVars    == <<legInRoom, attached, participantTap, speaking, agent, cleanup>>
speechVars   == <<heard, mixing, staged, players, source, utt>>
jitterVars   == <<frames, at, warming, sent, base, flight, played, due, refused>>

MCInit ==
    /\ active \in {"conduit", "invite", "session", "transfer", "agents", "speech", "jitter"}
    /\ Init /\ Invitation!Init /\ Dialog!Init /\ Referral!Init /\ Listeners!Init
    /\ Speech!Init /\ Jitter!Init
    /\ active # "session" => refresher = "none"
    /\ active # "transfer" => autoDial

MCNext ==
    /\ UNCHANGED active
    /\ \/ active = "conduit" /\ Next
          /\ UNCHANGED <<inviteVars, sessionVars, transferVars, agentVars, speechVars, jitterVars>>
       \/ active = "invite" /\ Invitation!Next
          /\ UNCHANGED <<vars, sessionVars, transferVars, agentVars, speechVars, jitterVars>>
       \/ active = "session" /\ Dialog!Next
          /\ UNCHANGED <<vars, inviteVars, transferVars, agentVars, speechVars, jitterVars>>
       \/ active = "transfer" /\ Referral!Next
          /\ UNCHANGED <<vars, inviteVars, sessionVars, agentVars, speechVars, jitterVars>>
       \/ active = "agents" /\ Listeners!Next
          /\ UNCHANGED <<vars, inviteVars, sessionVars, transferVars, speechVars, jitterVars>>
       \/ active = "speech" /\ Speech!Next
          /\ UNCHANGED <<vars, inviteVars, sessionVars, transferVars, agentVars, jitterVars>>
       \/ active = "jitter" /\ Jitter!Next
          /\ UNCHANGED <<vars, inviteVars, sessionVars, transferVars, agentVars, speechVars>>

(* The fairness of each component, where it is active.                       *)
InviteFairness ==
    \A k \in Calls :
        /\ WF_inviteVars(active = "invite" /\ Invitation!Caller(k))
        /\ \A b \in Branches : WF_inviteVars(active = "invite" /\ Invitation!Branch(k, b))

SessionFairness ==
    /\ WF_sessionVars(active = "session" /\ Dialog!Tick)
    /\ \A t \in Timers : WF_sessionVars(active = "session" /\ Dialog!TimerRuns(t))
    /\ WF_sessionVars(active = "session" /\ Dialog!HoldAnswered)
    /\ WF_sessionVars(active = "session" /\ Dialog!HoldTimeout)
    /\ WF_sessionVars(active = "session" /\ Dialog!RequestRuns)
    /\ WF_sessionVars(active = "session" /\ Dialog!StopTimers)

TransferFairness ==
    \A r \in Refers :
        /\ WF_transferVars(active = "transfer" /\ Referral!Handler(r))
        /\ WF_transferVars(active = "transfer" /\ Referral!ConsultTimer(r))

AgentFairness ==
    /\ \A s \in Sessions : WF_agentVars(active = "agents" /\ Listeners!Steps(s))
    /\ \A k \in {"agent", "roomAgent"} :
          WF_agentVars(active = "agents" /\ Listeners!CleanupLeg(k))

SpeechFairness ==
    \A u \in Utts :
        /\ WF_speechVars(active = "speech" /\ Speech!Synthesis(u))
        /\ WF_speechVars(active = "speech" /\ Speech!Player(u))
        /\ WF_speechVars(active = "speech" /\ Speech!LegGone(u))

ConduitFairness ==
    /\ WF_vars(active = "conduit" /\ CloseDone)
    /\ \A d \in Dirs : /\ WF_vars(active = "conduit" /\ Write(d))
                       /\ WF_vars(active = "conduit" /\ Read(d))

MCSpec ==
    /\ MCInit
    /\ [][MCNext]_<<active, vars, inviteVars, sessionVars, transferVars, agentVars,
                    speechVars, jitterVars>>
    /\ ConduitFairness /\ InviteFairness /\ SessionFairness /\ TransferFairness
    /\ AgentFairness /\ SpeechFairness

-----------------------------------------------------------------------------
(* A media port has one owner, one branch of a fork is kept, a call that     *)
(* lapses does so for want of a refresh, and a REFER is settled once         *)
(* (port_allocator.go, engine_fork.go, sip_leg.go, transfer.go).             *)
CallsAreSound ==
    /\ Invitation!TypeOK /\ Invitation!PortsAreExclusive /\ Invitation!OneBranchIsKept
    /\ Dialog!TypeOK /\ Dialog!TimersAreDue
    /\ Referral!TypeOK /\ Referral!SettledOnce

(* What speaks or listens in a room is registered there (agent.go), an       *)
(* utterance that was discarded before it was committed is not heard         *)
(* (tts_preflight.go), and what is received is played in the order it was    *)
(* sent, whatever the network does to it (jitter/buffer.go).                 *)
SpeechIsSound ==
    /\ Listeners!TypeOK /\ Listeners!NothingIsOrphaned
    /\ Speech!TypeOK /\ Speech!DiscardedIsSilent
    /\ Jitter!TypeOK /\ Jitter!PlaysInOrder /\ Jitter!NewestIsQueued

(* What has been asked to end and has not: a Read of a closed conduit, an    *)
(* INVITE, a call whose peer is lost, a REFER nobody answered, an agent, an  *)
(* utterance of a leg that is over.                                          *)
Unsettled ==
    \/ active = "conduit" /\ closing # "open" /\ \E d \in Dirs : reader[d] # "exited"
    \/ active = "invite" /\ \E k \in Calls : Invitation!Pending(k)
    \/ active = "session" /\ Dialog!PeerMissed
    \/ active = "transfer" /\ \E r \in Refers : Referral!Undecided(r)
    \/ active = "agents" /\ \E s \in Sessions : Listeners!Detached(s)
    \/ active = "speech" /\ \E u \in Utts : Speech!Unfinished(u)

(* All of it ends.  Requests are finitely many and none is asked twice, so   *)
(* this is each module's own leads-to (conduit.go, engine_fork.go,           *)
(* sip_leg.go, transfer.go, agent.go, tts_preflight.go).                     *)
EveryEndIsReached == []<>~Unsettled
=============================================================================
