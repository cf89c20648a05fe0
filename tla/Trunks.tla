------------------------------- MODULE Trunks -------------------------------
(***************************************************************************)
(* SIP trunks: the manager and its indexes (internal/sip/trunk_manager.go),*)
(* the register-and-refresh loop of a sip_register trunk                   *)
(* (outbound_registration.go), the OPTIONS loop of an ip_ip trunk          *)
(* (ip_ip_trunk.go), their exemptions from certificate verification        *)
(* (tls_client.go) and the handlers that create and delete them            *)
(* (internal/api/sip_trunks.go).  The upstream registrar is external: it   *)
(* applies a REGISTER only when its CSeq is higher than the last one of    *)
(* the same Call-ID.  The socket index, which no code reads, is left out.  *)
(***************************************************************************)
EXTENDS Naturals, FiniteSets

CONSTANTS Trunks,
          Kind,      \* per trunk, "sip_register" or "ip_ip"
          AOR,       \* per trunk, its address of record
          Host,      \* per trunk, the next hop it exempts, or None
          Deleters,  \* requests that delete a trunk
          None,
          Racy,      \* may a trunk be stopped between Add and Start, or be created once
                     \* Shutdown has listed the trunks, or a loop outlive the five
                     \* seconds of a stop's context?
          MaxSeq     \* bound: the CSeq up to which a loop registers

VARIABLES
    byID, byAOR,  \* TrunkManager's indexes
    trust,        \* per host, its exemptions (peerTrust)
    trunk,        \* per trunk, its fields
    loop,         \* per trunk, its goroutine: where it stands, its request
    told,         \* per trunk, the last event published about it
    stop,         \* per stopper, where it stands in Stop, and of which trunk
    shutdown,     \* "no", or the stage of TrunkManager.Shutdown
    registrar,    \* per trunk, the binding upstream and its last CSeq
    wire          \* REGISTERs on their way

vars == <<byID, byAOR, trust, trunk, loop, told, stop, shutdown, registrar, wire>>

AORs  == {AOR[t] : t \in Trunks}
Hosts == {Host[t] : t \in Trunks} \ {None}

(* A stopper is a DELETE, or Shutdown's goroutine for a trunk. *)
Stoppers == Deleters \cup Trunks

Registers(t) == Kind[t] = "sip_register"

(* "none": not created; once: may its exemption still be revoked? *)
NoTrunk == [status |-> "none", run |-> "new", seq |-> 0, granted |-> FALSE,
            late |-> FALSE, lapseTold |-> FALSE, once |-> FALSE]

NewOutboundRegistration(t) ==
    [NoTrunk EXCEPT !.status = "registering", !.once = Host[t] # None]
NewIPIPTrunk(t) ==
    [NoTrunk EXCEPT !.status = "active", !.once = Host[t] # None]
NewTrunk(t) == IF Registers(t) THEN NewOutboundRegistration(t) ELSE NewIPIPTrunk(t)

Nowhere == [pc |-> "idle", trunk |-> None, seq |-> 0, auth |-> FALSE, reply |-> "none"]
NoLoop  == [pc |-> "none", seq |-> 0, auth |-> FALSE, reply |-> "none"]

Init ==
    /\ byID = {} /\ byAOR = [a \in AORs |-> None]
    /\ trust = [h \in Hosts |-> 0]
    /\ trunk = [t \in Trunks |-> NoTrunk]
    /\ loop = [t \in Trunks |-> NoLoop]
    /\ told = [t \in Trunks |-> "none"]
    /\ stop = [p \in Stoppers |-> Nowhere]
    /\ shutdown = "no"
    /\ registrar = [t \in Trunks |-> [bound |-> FALSE, seq |-> 0]]
    /\ wire = {}

upstream == <<registrar, wire>>

----------------------------------------------------------------------------
(* peerTrust counts the exemptions of a host, and never below zero. *)
Exempted(t)   == [h \in Hosts |-> IF h = Host[t] THEN trust[h] + 1 ELSE trust[h]]
Unexempted(t) ==
    [h \in Hosts |-> IF h = Host[t] /\ trust[h] > 0 THEN trust[h] - 1 ELSE trust[h]]

(* TrunkManager.Add: the newest trunk of an AOR answers for it. *)
Add(t) == byID' = byID \cup {t} /\ byAOR' = [byAOR EXCEPT ![AOR[t]] = t]

(* doCreateTrunk: the constructor exempts the next hop, Add indexes it. *)
Create(t) ==
    /\ trunk[t] = NoTrunk /\ (Racy \/ shutdown = "no")
    /\ trunk' = [trunk EXCEPT ![t] = NewTrunk(t)]
    /\ trust' = Exempted(t) /\ Add(t)
    /\ UNCHANGED <<loop, told, stop, shutdown, upstream>>

Start(t) ==
    /\ trunk[t] # NoTrunk /\ loop[t] = NoLoop /\ trunk[t].run # "armed"
    /\ trunk' = [trunk EXCEPT ![t].run = "armed"]
    /\ loop' = [loop EXCEPT ![t].pc = "send"]
    /\ UNCHANGED <<byID, byAOR, trust, told, stop, shutdown, upstream>>

MutRemoveAOR(t) == byAOR   \* mutant: the second index is forgotten

(* The AOR's entry goes only when it is this trunk's. *)
RemoveAOR(t) == [byAOR EXCEPT ![AOR[t]] = IF @ = t THEN None ELSE @]

----------------------------------------------------------------------------
(* The loop of a sip_register trunk: registerOnce, then sleep.              *)
NextSeq(t) == trunk[t].seq + 1

Request(t, s, bind) == [trunk |-> t, seq |-> s, bind |-> bind]

LoopAt(t, pc) == loop[t].pc = pc

Cancelled(t) == trunk[t].run = "cancelled"

(* buildRegister takes the next CSeq; the transaction starts. *)
SendRegister(t) ==
    /\ LoopAt(t, "send") /\ Registers(t) /\ NextSeq(t) <= MaxSeq
    /\ trunk' = [trunk EXCEPT ![t].seq = NextSeq(t)]
    /\ loop' = [loop EXCEPT ![t] =
                  [@ EXCEPT !.pc = "wait", !.seq = NextSeq(t), !.reply = "none"]]
    /\ wire' = wire \cup {Request(t, NextSeq(t), TRUE)}
    /\ UNCHANGED <<byID, byAOR, trust, told, stop, shutdown, registrar>>

(* A first challenge is answered once; the retry is a request of its own. *)
Challenged(t) ==
    /\ LoopAt(t, "wait") /\ loop[t].reply = "challenge" /\ ~loop[t].auth
    /\ loop' = [loop EXCEPT ![t] = [@ EXCEPT !.pc = "send", !.auth = TRUE, !.reply = "none"]]
    /\ UNCHANGED <<byID, byAOR, trust, trunk, told, stop, shutdown, upstream>>

(* A 2xx: the state is set under the lock, the event published after it. *)
Registered(t) ==
    /\ LoopAt(t, "wait") /\ Registers(t) /\ loop[t].reply = "ok"
    /\ trunk' = [trunk EXCEPT ![t] = [@ EXCEPT !.status = "active", !.granted = TRUE,
                                                !.late = FALSE, !.lapseTold = FALSE]]
    /\ loop' = [loop EXCEPT ![t] = [NoLoop EXCEPT !.pc = "tell active"]]
    /\ UNCHANGED <<byID, byAOR, trust, told, stop, shutdown, upstream>>

(* markFailed: a transport error, a timeout, the loop's context, a second   *)
(* challenge, a challenge that cannot be answered or another status.        *)
MarkFailed(t) ==
    /\ LoopAt(t, "wait") /\ Registers(t) /\ loop[t].reply # "ok"
    /\ LET lapsed == trunk[t].granted /\ trunk[t].late /\ ~trunk[t].lapseTold
       IN  /\ trunk' = [trunk EXCEPT ![t] =
                  [@ EXCEPT !.status = "failed", !.lapseTold = trunk[t].lapseTold \/ lapsed]]
           /\ loop' = [loop EXCEPT ![t] =
                  [NoLoop EXCEPT !.pc = IF lapsed THEN "tell both" ELSE "tell failed"]]
    /\ UNCHANGED <<byID, byAOR, trust, told, stop, shutdown, upstream>>

(* The loop publishes what it has just recorded. *)
Tell(t) ==
    /\ \/ LoopAt(t, "tell active") /\ told' = [told EXCEPT ![t] = "active"]
       \/ LoopAt(t, "tell failed") /\ told' = [told EXCEPT ![t] = "failed"]
       \/ LoopAt(t, "tell both")   /\ told' = [told EXCEPT ![t] = "failed"]
       \/ LoopAt(t, "tell lapsed") /\ told' = [told EXCEPT ![t] = "lapsed"]
       \/ LoopAt(t, "tell up")     /\ told' = [told EXCEPT ![t] = "up"]
       \/ LoopAt(t, "tell down")   /\ told' = [told EXCEPT ![t] = "down"]
    /\ loop' = [loop EXCEPT ![t].pc = IF LoopAt(t, "tell both") THEN "tell lapsed" ELSE "sleep"]
    /\ UNCHANGED <<byID, byAOR, trust, trunk, stop, shutdown, upstream>>

(* The refresh timer, the backoff or the ping interval is over. *)
Wake(t) ==
    /\ LoopAt(t, "sleep")
    /\ loop' = [loop EXCEPT ![t].pc = "send"]
    /\ UNCHANGED <<byID, byAOR, trust, trunk, told, stop, shutdown, upstream>>

LoopEnds(t) ==
    /\ LoopAt(t, "sleep") /\ Cancelled(t)
    /\ loop' = [loop EXCEPT ![t].pc = "done"]
    /\ UNCHANGED <<byID, byAOR, trust, trunk, told, stop, shutdown, upstream>>

(* The granted lifetime is over by the loop's clock. *)
LifetimeEnds(t) ==
    /\ trunk[t].granted /\ ~trunk[t].late
    /\ trunk' = [trunk EXCEPT ![t].late = TRUE]
    /\ UNCHANGED <<byID, byAOR, trust, loop, told, stop, shutdown, upstream>>

----------------------------------------------------------------------------
(* The loop of an ip_ip trunk: pingOnce, then sleep.                        *)
SendOptions(t) ==
    /\ LoopAt(t, "send") /\ ~Registers(t)
    /\ loop' = [loop EXCEPT ![t].pc = "wait"]
    /\ UNCHANGED <<byID, byAOR, trust, trunk, told, stop, shutdown, upstream>>

PingIgnored(t) ==
    /\ LoopAt(t, "wait") /\ ~Registers(t) /\ Cancelled(t)
    /\ loop' = [loop EXCEPT ![t].pc = "sleep"]
    /\ UNCHANGED <<byID, byAOR, trust, trunk, told, stop, shutdown, upstream>>

(* markUp, markDown: an event only when the peer's health has changed; the  *)
(* first reply always is a change (health starts unknown).                  *)
Pinged(t) ==
    /\ LoopAt(t, "wait") /\ ~Registers(t) /\ ~Cancelled(t)
    /\ \E up \in BOOLEAN :
          LET health == IF up THEN "up" ELSE "down"
          IN  /\ trunk' = [trunk EXCEPT ![t].status = IF up THEN "active" ELSE "failed"]
              /\ loop' = [loop EXCEPT ![t].pc =
                             IF told[t] = health THEN "sleep"
                             ELSE IF up THEN "tell up" ELSE "tell down"]
    /\ UNCHANGED <<byID, byAOR, trust, told, stop, shutdown, upstream>>

----------------------------------------------------------------------------
(* Stop, on behalf of a DELETE or of Shutdown.                              *)
StopAt(p, pc) == stop[p].pc = pc

Delete(p, t) ==
    /\ stop[p] = Nowhere /\ t \in byID
    /\ Racy \/ trunk[t].run # "new"
    /\ stop' = [stop EXCEPT ![p] = [@ EXCEPT !.pc = "stop", !.trunk = t]]
    /\ UNCHANGED <<byID, byAOR, trust, trunk, loop, told, shutdown, upstream>>

(* Cancels the loop, once, and takes the channel it closes when it ends. *)
StopBegins(p) ==
    /\ StopAt(p, "stop")
    /\ LET t == stop[p].trunk IN
       /\ trunk' = [trunk EXCEPT ![t] = [@ EXCEPT
              !.run = IF trunk[t].run = "armed" THEN "cancelled" ELSE trunk[t].run,
              !.status = IF Registers(t) THEN "unregistering" ELSE trunk[t].status]]
       /\ stop' = [stop EXCEPT ![p].pc = IF trunk[t].run = "new" THEN "unregister"
                                                                 ELSE "await"]
    /\ UNCHANGED <<byID, byAOR, trust, loop, told, shutdown, upstream>>

MutLoopOver(t) == TRUE   \* mutant: Stop does not wait for the loop

LoopOver(t) == LoopAt(t, "done")

StopAwaitsLoop(p) ==
    /\ StopAt(p, "await") /\ LoopOver(stop[p].trunk)
    /\ stop' = [stop EXCEPT ![p].pc = "unregister"]
    /\ UNCHANGED <<byID, byAOR, trust, trunk, loop, told, shutdown, upstream>>

(* The context is over before the loop is: the unregistration fails at once. *)
StopGivesUp(p) ==
    /\ Racy /\ StopAt(p, "await") /\ ~LoopOver(stop[p].trunk)
    /\ stop' = [stop EXCEPT ![p].pc = "unsure"]
    /\ UNCHANGED <<byID, byAOR, trust, trunk, loop, told, shutdown, upstream>>

(* unregister: a REGISTER with Expires 0; an ip_ip trunk has none. *)
Unregister(p) ==
    /\ StopAt(p, "unregister") /\ Registers(stop[p].trunk)
    /\ LET t == stop[p].trunk IN
       /\ trunk' = [trunk EXCEPT ![t].seq = NextSeq(t)]
       /\ stop' = [stop EXCEPT ![p] =
              [@ EXCEPT !.pc = "wait", !.seq = NextSeq(t), !.reply = "none"]]
       /\ wire' = wire \cup {Request(t, NextSeq(t), FALSE)}
    /\ UNCHANGED <<byID, byAOR, trust, loop, told, shutdown, registrar>>

UnregisterChallenged(p) ==
    /\ StopAt(p, "wait") /\ stop[p].reply = "challenge" /\ ~stop[p].auth
    /\ stop' = [stop EXCEPT ![p] = [@ EXCEPT !.pc = "unregister", !.auth = TRUE, !.reply = "none"]]
    /\ UNCHANGED <<byID, byAOR, trust, trunk, loop, told, shutdown, upstream>>

MutUnregisterEnds(p) ==   \* mutant: only a refusal counts as a failure
    /\ StopAt(p, "wait")
    /\ stop' = [stop EXCEPT ![p].pc = IF stop[p].reply = "reject" THEN "unsure" ELSE "gone"]
    /\ UNCHANGED <<byID, byAOR, trust, trunk, loop, told, shutdown, upstream>>

(* The answer, or none: the context's five seconds are over. *)
UnregisterEnds(p) ==
    /\ StopAt(p, "wait")
    /\ stop' = [stop EXCEPT ![p].pc = IF stop[p].reply = "ok" THEN "gone" ELSE "unsure"]
    /\ UNCHANGED <<byID, byAOR, trust, trunk, loop, told, shutdown, upstream>>

StopPing(p) ==
    /\ StopAt(p, "unregister") /\ ~Registers(stop[p].trunk)
    /\ stop' = [stop EXCEPT ![p].pc = "unsure"]
    /\ UNCHANGED <<byID, byAOR, trust, trunk, loop, told, shutdown, upstream>>

(* untrustOnce *)
MayUntrust(t) == trunk[t].once

(* clearTLSTrust, then the final status; then the final event. *)
StopSettles(p) ==
    /\ StopAt(p, "gone") \/ StopAt(p, "unsure")
    /\ LET t == stop[p].trunk IN
       /\ trust' = IF MayUntrust(t) THEN Unexempted(t) ELSE trust
       /\ trunk' = [trunk EXCEPT ![t] = [@ EXCEPT !.once = FALSE,
              !.status = IF Registers(t) THEN "expired" ELSE trunk[t].status]]
       /\ stop' = [stop EXCEPT ![p].pc = IF ~Registers(t) THEN "stopped"
                        ELSE IF StopAt(p, "gone") THEN "tell unregistered" ELSE "tell shutdown"]
    /\ UNCHANGED <<byID, byAOR, loop, told, shutdown, upstream>>

StopTells(p) ==
    /\ \/ StopAt(p, "tell unregistered") /\ told' = [told EXCEPT ![stop[p].trunk] = "unregistered"]
       \/ StopAt(p, "tell shutdown") /\ told' = [told EXCEPT ![stop[p].trunk] = "shutdown"]
    /\ stop' = [stop EXCEPT ![p].pc = "stopped"]
    /\ UNCHANGED <<byID, byAOR, trust, trunk, loop, shutdown, upstream>>

(* A DELETE's goroutine removes the trunk from the manager after Stop. *)
Remove(p) ==
    /\ p \in Deleters /\ StopAt(p, "stopped")
    /\ LET t == stop[p].trunk IN
       /\ byID' = byID \ {t}
       /\ byAOR' = IF t \in byID THEN RemoveAOR(t) ELSE byAOR
    /\ stop' = [stop EXCEPT ![p] = [Nowhere EXCEPT !.pc = "over"]]
    /\ UNCHANGED <<trust, trunk, loop, told, shutdown, upstream>>

(* Shutdown stops what List returned, each on its goroutine, and empties    *)
(* the indexes when all have returned.                                      *)
ShutdownBegins ==
    /\ shutdown = "no" /\ shutdown' = "stopping"
    /\ \A t \in byID : Racy \/ trunk[t].run # "new"
    /\ stop' = [p \in Stoppers |->
                   IF p \in byID THEN [Nowhere EXCEPT !.pc = "stop", !.trunk = p] ELSE stop[p]]
    /\ UNCHANGED <<byID, byAOR, trust, trunk, loop, told, upstream>>

ShutdownEnds ==
    /\ shutdown = "stopping" /\ shutdown' = "done"
    /\ \A t \in Trunks : stop[t].pc \in {"idle", "stopped"}
    /\ byID' = {} /\ byAOR' = [a \in AORs |-> None]
    /\ UNCHANGED <<trust, trunk, loop, told, stop, upstream>>

----------------------------------------------------------------------------
(* The registrar (external).  Its answer reaches a transaction that still   *)
(* waits for it.                                                            *)
Answer(m, code) ==
    /\ loop' = [t \in Trunks |->
           IF t = m.trunk /\ LoopAt(t, "wait") /\ loop[t].seq = m.seq
           THEN [loop[t] EXCEPT !.reply = code] ELSE loop[t]]
    /\ stop' = [p \in Stoppers |->
           IF stop[p].trunk = m.trunk /\ StopAt(p, "wait") /\ stop[p].seq = m.seq
           THEN [stop[p] EXCEPT !.reply = code] ELSE stop[p]]
    /\ wire' = wire \ {m}
    /\ UNCHANGED <<byID, byAOR, trust, trunk, told, shutdown>>

RegistrarAccepts(m) ==
    /\ m.seq > registrar[m.trunk].seq
    /\ registrar' = [registrar EXCEPT ![m.trunk] = [bound |-> m.bind, seq |-> m.seq]]
    /\ Answer(m, "ok")

RegistrarRefuses(m) ==
    /\ \E code \in {"challenge", "reject"} : Answer(m, code)
    /\ UNCHANGED registrar

RegisterIsLost(m) == wire' = wire \ {m} /\ UNCHANGED <<byID, byAOR, trust, trunk, loop, told,
                                                        stop, shutdown, registrar>>

BindingExpires(t) ==
    /\ registrar[t].bound
    /\ registrar' = [registrar EXCEPT ![t].bound = FALSE]
    /\ UNCHANGED <<byID, byAOR, trust, trunk, loop, told, stop, shutdown, wire>>

----------------------------------------------------------------------------
LoopStep(t) ==
    \/ SendRegister(t) \/ Challenged(t) \/ Registered(t) \/ MarkFailed(t)
    \/ SendOptions(t) \/ PingIgnored(t) \/ Pinged(t)
    \/ Tell(t) \/ Wake(t) \/ LoopEnds(t)

StopStep(p) ==
    \/ StopBegins(p) \/ StopAwaitsLoop(p) \/ StopGivesUp(p) \/ Unregister(p) \/ UnregisterChallenged(p)
    \/ UnregisterEnds(p) \/ StopPing(p) \/ StopSettles(p) \/ StopTells(p) \/ Remove(p)

Next ==
    \/ \E t \in Trunks : Create(t) \/ Start(t) \/ LoopStep(t) \/ LifetimeEnds(t)
    \/ \E p \in Deleters, t \in Trunks : Delete(p, t)
    \/ \E p \in Stoppers : StopStep(p)
    \/ ShutdownBegins \/ ShutdownEnds
    \/ \E m \in wire : RegistrarAccepts(m) \/ RegistrarRefuses(m) \/ RegisterIsLost(m)
    \/ \E t \in Trunks : BindingExpires(t)

Spec == Init /\ [][Next]_vars

----------------------------------------------------------------------------
LoopPCs == {"none", "send", "wait", "sleep", "done", "tell active", "tell failed",
            "tell both", "tell lapsed", "tell up", "tell down"}
StopPCs == {"idle", "stop", "await", "unregister", "wait", "gone", "unsure",
            "tell unregistered", "tell shutdown", "stopped", "over"}
Replies == {"none", "ok", "challenge", "reject"}

(* Every variable keeps its type, the counters of peerTrust included. *)
TypeOK ==
    /\ byID \subseteq Trunks
    /\ byAOR \in [AORs -> Trunks \cup {None}]
    /\ trust \in [Hosts -> Nat]
    /\ trunk \in [Trunks -> [status : {"none", "registering", "active", "failed",
                                       "unregistering", "expired"},
                             run : {"new", "armed", "cancelled"}, seq : Nat,
                             granted : BOOLEAN, late : BOOLEAN, lapseTold : BOOLEAN,
                             once : BOOLEAN]]
    /\ loop \in [Trunks -> [pc : LoopPCs, seq : Nat, auth : BOOLEAN, reply : Replies]]
    /\ told \in [Trunks -> {"none", "active", "failed", "lapsed", "up", "down",
                            "unregistered", "shutdown"}]
    /\ stop \in [Stoppers -> [pc : StopPCs, trunk : Trunks \cup {None}, seq : Nat,
                              auth : BOOLEAN, reply : Replies]]
    /\ shutdown \in {"no", "stopping", "done"}
    /\ registrar \in [Trunks -> [bound : BOOLEAN, seq : Nat]]
    /\ wire \subseteq [trunk : Trunks, seq : Nat, bind : BOOLEAN]

(* A trunk reported as unregistered has no binding upstream, now or later:  *)
(* no REGISTER still on its way can bring it back (buildRegister's CSeq,    *)
(* Stop's wait for the loop).                                               *)
UnregisteredIsGone ==
    \A t \in Trunks : told[t] = "unregistered" =>
        /\ ~registrar[t].bound
        /\ \A m \in wire : m.trunk = t /\ m.bind => m.seq <= registrar[t].seq

AtRest(t) ==
    /\ loop[t].pc \in {"none", "send", "wait", "sleep", "done"}
    /\ \A p \in Stoppers : stop[p].trunk = t => stop[p].pc \in {"stop", "stopped"}

(* Between two procedures a trunk's status is the one its last event told   *)
(* (outbound_registration.go, Stop and run; ip_ip_trunk.go, markDown).      *)
StatusIsTold ==
    \A t \in Trunks : AtRest(t) =>
        CASE trunk[t].status = "none"        -> told[t] = "none"
          [] trunk[t].status = "registering" -> told[t] = "none"
          [] trunk[t].status = "active"      -> told[t] \in {"active", "up", "none"}
          [] trunk[t].status = "failed"      -> told[t] \in {"failed", "lapsed", "down"}
          [] trunk[t].status = "unregistering" -> FALSE
          [] trunk[t].status = "expired"     -> told[t] \in {"unregistered", "shutdown"}

(* A host is exempted by as many trunks as still may dial it, however often *)
(* a trunk is stopped (tls_client.go, peerTrust; untrustOnce).              *)
TrustIsCounted ==
    \A h \in Hosts : trust[h] = Cardinality({t \in Trunks : Host[t] = h /\ trunk[t].once})

(* No call is placed over a trunk that was removed (LookupByFromAOR).       *)
AORLeadsToManaged == \A a \in AORs : byAOR[a] = None \/ byAOR[a] \in byID

=============================================================================
