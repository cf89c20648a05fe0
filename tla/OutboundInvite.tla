--------------------------- MODULE OutboundInvite ---------------------------
(***************************************************************************)
(* Outbound INVITEs and the media ports they take: Engine.Invite           *)
(* (internal/sip/engine.go), the parallel fork (engine_fork.go), the port  *)
(* pool (port_allocator.go) and the sessions bound from it (rtp.go).  A    *)
(* call to one target is a fork of one branch; only its differences have   *)
(* disjuncts of their own.  External: the peers, which answer, refuse or   *)
(* obey a CANCEL, and sipgo's WaitAnswer, which hands over a 2xx that      *)
(* crossed the CANCEL.                                                     *)
(***************************************************************************)
EXTENDS Naturals, Sequences, FiniteSets

CONSTANTS Calls, Branches,
          Offers,       \* per call, the session lists it may offer; <<"audio">> may fork
          MaxPort,      \* the pool is 1..MaxPort
          Foreign,      \* ports another process holds
          BindAttempts, \* rtpBindAttempts
          None

Ports == 1..MaxPort
Slots == {"audio", "extra", "text"}

VARIABLES
    used, cursor,  \* PortAllocator
    call,          \* per call, its Invite and how far it is
    session,       \* per call and slot, its RTPSession
    branch,        \* per call and branch, its goroutine
    peer,          \* per call and branch, the far end (external)
    winner,        \* per call, the branch whose 2xx came first
    media,         \* per call, the sessions its leg was given
    legOver        \* per call, did the leg close what it has?

vars  == <<used, cursor, call, session, branch, peer, winner, media, legOver>>
ports == <<used, cursor>>

NoCall    == [pc |-> "idle", fork |-> FALSE, todo |-> <<>>, port |-> 0, tries |-> 0,
              cancelled |-> FALSE, result |-> "none"]
NoSession == [port |-> 0, open |-> FALSE]

Init ==
    /\ used = {} /\ cursor = 1
    /\ call = [k \in Calls |-> NoCall]
    /\ session = [k \in Calls |-> [s \in Slots |-> NoSession]]
    /\ branch = [k \in Calls |-> [b \in Branches |-> "none"]]
    /\ peer = [k \in Calls |-> [b \in Branches |-> "none"]]
    /\ winner = [k \in Calls |-> None]
    /\ media = [k \in Calls |-> {}]
    /\ legOver = [k \in Calls |-> FALSE]

At(k, pc) == call[k].pc = pc

----------------------------------------------------------------------------
(* The pool.                                                                *)
MutReleased(k, S) == {session[k][s].port : s \in S}   \* mutant: no closeOnce

(* closeOnce: a session gives its port back the first time it is closed. *)
Released(k, S) == {session[k][s].port : s \in {s \in S : session[k][s].open}}

Close(k, S) ==
    /\ used' = used \ Released(k, S)
    /\ session' = [session EXCEPT ![k] =
           [s \in Slots |-> IF s \in S THEN [session[k][s] EXCEPT !.open = FALSE]
                                       ELSE session[k][s]]]
    /\ UNCHANGED cursor

After(p) == IF p = MaxPort THEN 1 ELSE p + 1

(* The ports from the cursor on, wrapping around; the first free one is     *)
(* taken.                                                                   *)
Scan == [i \in 1..MaxPort |-> 1 + ((cursor - 1 + i - 1) % MaxPort)]
NextFree == Scan[CHOOSE i \in 1..MaxPort :
                    Scan[i] \notin used /\ \A j \in 1..(i - 1) : Scan[j] \in used]

----------------------------------------------------------------------------
(* Invite: the sessions, one after the other.  A fork has one.              *)
Invite(k, fork, slots) ==
    /\ At(k, "idle") /\ (fork => slots = <<"audio">>)
    /\ call' = [call EXCEPT ![k] = [@ EXCEPT !.pc = "allocate", !.fork = fork, !.todo = slots]]
    /\ UNCHANGED <<ports, session, branch, peer, winner, media, legOver>>

Allocate(k) ==
    /\ At(k, "allocate") /\ call[k].todo # <<>> /\ used # Ports
    /\ used' = used \cup {NextFree} /\ cursor' = After(NextFree)
    /\ call' = [call EXCEPT ![k] = [@ EXCEPT !.pc = "bind", !.port = NextFree]]
    /\ UNCHANGED <<session, branch, peer, winner, media, legOver>>

Bind(k) ==
    /\ At(k, "bind") /\ call[k].port \notin Foreign
    /\ session' = [session EXCEPT ![k] = [@ EXCEPT ![Head(call[k].todo)] =
                      [port |-> call[k].port, open |-> TRUE]]]
    /\ call' = [call EXCEPT ![k] = [@ EXCEPT !.pc = "allocate", !.todo = Tail(call[k].todo),
                                            !.tries = 0]]
    /\ UNCHANGED <<ports, branch, peer, winner, media, legOver>>

(* A port another process holds goes back, and the next one is tried. *)
BindFails(k) ==
    /\ At(k, "bind") /\ call[k].port \in Foreign
    /\ used' = used \ {call[k].port}
    /\ call' = [call EXCEPT ![k] = [@ EXCEPT
                     !.pc = IF call[k].tries + 1 < BindAttempts THEN "allocate" ELSE "no socket",
                     !.tries = call[k].tries + 1]]
    /\ UNCHANGED <<cursor, session, branch, peer, winner, media, legOver>>

Fail(k) == call' = [call EXCEPT ![k] = [@ EXCEPT !.pc = "returned", !.result = "error"]]

(* Without a socket the call is over, and every socket so far is closed. *)
NoSocket(k) ==
    /\ At(k, "no socket") \/ (At(k, "allocate") /\ call[k].todo # <<>> /\ used = Ports)
    /\ Close(k, Slots) /\ Fail(k)
    /\ UNCHANGED <<branch, peer, winner, media, legOver>>

Targets(k) == IF call[k].fork THEN Branches ELSE {CHOOSE b \in Branches : TRUE}

Spawn(k) ==
    /\ At(k, "allocate") /\ call[k].todo = <<>>
    /\ branch' = [branch EXCEPT ![k] =
                     [b \in Branches |-> IF b \in Targets(k) THEN "send" ELSE "none"]]
    /\ call' = [call EXCEPT ![k].pc = "collect"]
    /\ UNCHANGED <<ports, session, peer, winner, media, legOver>>

(* The caller's context ends: the leg is deleted, or rang for too long. *)
Cancel(k) ==
    /\ At(k, "collect") /\ ~call[k].cancelled
    /\ call' = [call EXCEPT ![k].cancelled = TRUE]
    /\ UNCHANGED <<ports, session, branch, peer, winner, media, legOver>>

----------------------------------------------------------------------------
(* A branch.  Its context ends with the caller's, or once a branch has won. *)
Ended(k) == call[k].cancelled \/ (call[k].fork /\ winner[k] # None)

Becomes(k, b, pc) == branch' = [branch EXCEPT ![k] = [@ EXCEPT ![b] = pc]]
Peer(k, b, st)    == peer' = [peer EXCEPT ![k] = [@ EXCEPT ![b] = st]]

WriteInvite(k, b) ==
    /\ branch[k][b] = "send"
    /\ \/ Becomes(k, b, "wait") /\ Peer(k, b, "ringing")
       \/ Becomes(k, b, "failed") /\ UNCHANGED peer
    /\ UNCHANGED <<ports, call, session, winner, media, legOver>>

(* A 183 with a body: the first one sets the remote and hands the session to *)
(* the leg.                                                                 *)
EarlyMedia(k, b) ==
    /\ branch[k][b] = "wait" /\ peer[k][b] = "ringing" /\ media[k] = {}
    /\ media' = [media EXCEPT ![k] = {"audio"}]
    /\ UNCHANGED <<ports, call, session, branch, peer, winner, legOver>>

(* WaitAnswer's error: a refusal, or the end of the context and a CANCEL. *)
BranchFails(k, b) ==
    /\ branch[k][b] = "wait"
    /\ peer[k][b] = "refused" \/ (Ended(k) /\ peer[k][b] = "ringing")
    /\ Becomes(k, b, "failed") /\ Peer(k, b, "over")
    /\ UNCHANGED <<ports, call, session, winner, media, legOver>>

(* The first 2xx wins; winnerMu orders it before any other. *)
BranchWins(k, b) ==
    /\ branch[k][b] = "wait" /\ peer[k][b] = "answered" /\ winner[k] = None
    /\ winner' = [winner EXCEPT ![k] = b] /\ Becomes(k, b, "answered")
    /\ UNCHANGED <<ports, call, session, peer, media, legOver>>

MutBranchSilent(k, b) ==   \* mutant: a branch that lost the race reports nothing
    /\ branch[k][b] = "wait" /\ peer[k][b] = "answered" /\ winner[k] # None
    /\ Becomes(k, b, "none") /\ Peer(k, b, "over")
    /\ UNCHANGED <<ports, call, session, winner, media, legOver>>

(* A later one is acknowledged and ended. *)
BranchLoses(k, b) ==
    /\ branch[k][b] = "wait" /\ peer[k][b] = "answered" /\ winner[k] # None
    /\ Becomes(k, b, "failed") /\ Peer(k, b, "over")
    /\ UNCHANGED <<ports, call, session, winner, media, legOver>>

(* External: what the far end does with an INVITE. *)
PeerResponds(k, b) ==
    /\ peer[k][b] = "ringing"
    /\ Peer(k, b, "answered") \/ Peer(k, b, "refused")
    /\ UNCHANGED <<ports, call, session, branch, winner, media, legOver>>

----------------------------------------------------------------------------
Owned(k) == IF call[k].fork THEN {"audio"} ELSE {"audio", "text"}

(* Every branch has reported. *)
Collected(k) ==
    /\ At(k, "collect")
    /\ \A b \in Targets(k) : branch[k][b] \in {"failed", "answered"}

AllFailed(k) ==
    /\ Collected(k) /\ winner[k] = None
    /\ Close(k, Owned(k)) /\ Fail(k)
    /\ UNCHANGED <<branch, peer, winner, media, legOver>>

Ack(k) ==
    /\ Collected(k) /\ winner[k] # None
    /\ Peer(k, winner[k], "acked")
    /\ call' = [call EXCEPT ![k].pc = "answer"]
    /\ UNCHANGED <<ports, session, branch, winner, media, legOver>>

(* The ACK cannot be sent: the peer gives up, or a fork sends a BYE. *)
AckFails(k) ==
    /\ Collected(k) /\ winner[k] # None
    /\ Peer(k, winner[k], "over") /\ Close(k, Owned(k)) /\ Fail(k)
    /\ UNCHANGED <<branch, winner, media, legOver>>

(* The answer does not parse or has no usable address. *)
AnswerUnusable(k) ==
    /\ At(k, "answer")
    /\ Peer(k, winner[k], "over") /\ Close(k, Owned(k)) /\ Fail(k)
    /\ UNCHANGED <<branch, winner, media, legOver>>

(* The call goes to the leg, without the text session if that was refused. *)
Return(k) ==
    /\ At(k, "answer")
    /\ \E refused \in SUBSET {"text"} :
          /\ Close(k, refused)
          /\ media' = [media EXCEPT ![k] = Slots \ refused]
    /\ call' = [call EXCEPT ![k] = [@ EXCEPT !.pc = "returned", !.result = "call"]]
    /\ UNCHANGED <<branch, peer, winner, legOver>>

(* External: the leg ends and closes the sessions it was given, which the   *)
(* INVITE's own clean-up may have closed before or may close again.         *)
LegCloses(k) ==
    /\ media[k] # {} /\ ~legOver[k]
    /\ At(k, "returned") \/ call[k].cancelled
    /\ Close(k, media[k])
    /\ legOver' = [legOver EXCEPT ![k] = TRUE]
    /\ UNCHANGED <<call, branch, peer, winner, media>>

----------------------------------------------------------------------------
Branch(k, b) ==
    \/ WriteInvite(k, b) \/ BranchFails(k, b) \/ BranchWins(k, b) \/ BranchLoses(k, b)

Caller(k) ==
    \/ Allocate(k) \/ Bind(k) \/ BindFails(k) \/ NoSocket(k) \/ Spawn(k)
    \/ AllFailed(k) \/ Ack(k) \/ AckFails(k) \/ AnswerUnusable(k) \/ Return(k)

Next ==
    \E k \in Calls :
        \/ \E fork \in BOOLEAN, slots \in Offers[k] : Invite(k, fork, slots)
        \/ Caller(k) \/ Cancel(k) \/ LegCloses(k)
        \/ \E b \in Branches : Branch(k, b) \/ EarlyMedia(k, b) \/ PeerResponds(k, b)

Spec == Init /\ [][Next]_vars

Fairness ==
    \A k \in Calls :
        /\ WF_vars(Caller(k))
        /\ \A b \in Branches : WF_vars(Branch(k, b))

----------------------------------------------------------------------------
TypeOK ==
    /\ used \subseteq Ports /\ cursor \in Ports
    /\ \A k \in Calls :
          /\ call[k].pc \in {"idle", "allocate", "bind", "no socket", "collect", "answer",
                             "returned"}
          /\ call[k].result \in {"none", "error", "call"}
          /\ winner[k] \in Branches \cup {None} /\ media[k] \subseteq Slots
          /\ \A s \in Slots : session[k][s].port \in Ports \cup {0}
          /\ \A b \in Branches :
                /\ branch[k][b] \in {"none", "send", "wait", "failed", "answered"}
                /\ peer[k][b] \in {"none", "ringing", "answered", "refused", "acked", "over"}

Open(k, s) == session[k][s].open

(* A port in use belongs to one open session, or to one being bound: a      *)
(* session closed by its leg and again by the INVITE's clean-up does not    *)
(* take away a port that has another owner by then (rtp.go, Close).         *)
PortsAreExclusive ==
    /\ \A k, n \in Calls, s, t \in Slots :
          /\ Open(k, s) => session[k][s].port \in used
          /\ Open(k, s) /\ Open(n, t) /\ session[k][s].port = session[n][t].port
                => k = n /\ s = t
    /\ \A k \in Calls : At(k, "bind") => call[k].port \in used

(* Of all branches that answer, at most one is kept, and none when Invite   *)
(* fails: the others are ended (engine_fork.go, winnerMu).                  *)
OneBranchIsKept ==
    \A k \in Calls : At(k, "returned") =>
        {b \in Branches : peer[k][b] \in {"answered", "acked"}} =
            IF call[k].result = "call" THEN {winner[k]} ELSE {}

(* A call that failed holds no port of the pool (engine.go, Invite's        *)
(* deferred clean-up), but for the session its leg still has.               *)
PortsAreReturned ==
    \A k \in Calls : call[k].result = "error" =>
        \A s \in Slots : Open(k, s) => s \in media[k] /\ ~legOver[k]

Pending(k) == At(k, "collect") /\ Ended(k)

(* Once a branch has won or the caller gave up, Invite returns: no branch's *)
(* report goes missing, whoever else still rings (engine_fork.go, results). *)
InviteReturns == \A k \in Calls : Pending(k) ~> At(k, "returned")

(* An offer of a call with a second audio stream and text, which never forks. *)
ThreeStreams == [k \in Calls |-> {<<"audio", "extra", "text">>}]
=============================================================================
