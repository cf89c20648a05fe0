---------------------------- MODULE TransportLegs ----------------------------
(***************************************************************************)
(* A leg whose media is one transport of its own: a WebSocket, accepted or *)
(* dialled (wsmedia/transport.go, leg/ws_leg.go, api/ws_leg.go), or MoQ    *)
(* over WebTransport (moqmedia/transport.go, leg/moq_leg.go,               *)
(* api/moq_leg.go).  The loops of the transport, the handler that waits    *)
(* for their end, the leg's Hangup, and a DELETE of it.                    *)
(***************************************************************************)
EXTENDS Naturals, SequencesExt

CONSTANTS
    Kinds,        \* of wsIn, wsOut, moq: those to run
    MaxText,      \* bound: texts of the peer
    EarlyDeletes, \* may the DELETE come while the leg is still being set up?
    EarlyText     \* may text come before the leg's callback is set?

Loops == {"recv", "send", "ping"}

VARIABLES
    kind, limited,  \* the leg, and whether it has a MaxDuration
    handler,   \* wsLeg, doCreateWebSocketOutboundLeg and runWSOutboundDial, or moqLeg
    leg,       \* the leg's state
    listed,    \* LegMgr has it
    inRoom, egress,  \* and the pipe the room writes to
    conn,      \* the transport: none, open, closed
    loop,      \* each loop: off, on, failing (setErr has found no error yet), exited
    cause,     \* the error each of them met
    err,       \* Transport.err
    subscribed, \* MoQ: the peer listens to the mix
    peer,      \* up, closed (orderly), or lost: it neither sends nor reads
    typed, heard, \* texts of the peer, and those published as received
    wired,     \* the callback for them is set
    delete,    \* doDeleteLeg
    claimed, told

vars == <<kind, limited, handler, leg, listed, inRoom, egress, conn, loop, cause, err,
          subscribed, peer, typed, heard, wired, delete, claimed, told>>
self     == <<kind, limited>>
wireVars == <<conn, loop, cause, err>>
textVars == <<typed, heard, wired>>
endVars  == <<leg, egress>>

WS == kind \in {"wsIn", "wsOut"}

Init ==
    /\ kind \in Kinds /\ limited \in IF kind = "wsOut" THEN BOOLEAN ELSE {FALSE}
    /\ handler = "new" /\ leg = "none" /\ listed = FALSE /\ inRoom = FALSE
    /\ egress = "open" /\ conn = "none" /\ loop = [i \in Loops |-> "off"]
    /\ cause = [i \in Loops |-> "none"] /\ err = "none" /\ subscribed = FALSE
    /\ peer = "up" /\ typed = 0 /\ heard = 0 /\ wired = FALSE
    /\ delete = "idle" /\ claimed = FALSE /\ told = <<>>

Tell(e) == told' = Append(told, e)

-----------------------------------------------------------------------------
(* Transport. *)

\* Start.  MoQ's recv is its sessionLoop.
Started == [i \in Loops |-> IF i = "ping" /\ ~WS THEN "off" ELSE "on"]

AllExited == \A i \in Loops : loop[i] \in {"off", "exited"}

\* Close, once: the context, the connection, and the egress pipe's reader.
Close == conn' = IF conn = "open" THEN "closed" ELSE conn

\* What a loop meets: its own transport closed, or what became of the peer.
Meets(i) ==
    CASE conn = "closed" -> {"closed"}
      [] conn = "open" /\ i = "recv" /\ peer = "closed" -> {"eof"}
      [] conn = "open" /\ i = "recv" /\ peer = "lost" -> {"timeout"}
      [] conn = "open" /\ i # "recv" /\ peer = "closed" -> {"reset"}
      [] conn = "open" /\ i # "recv" /\ peer = "lost" -> {"slow"}
      [] OTHER -> {}

\* Of a WebSocket's loops; the sender of a pipe at its end has no error.
LoopFails(i) ==
    /\ WS /\ loop[i] = "on" /\ ~(i = "send" /\ egress = "closed")
    /\ \E c \in Meets(i) : cause' = [cause EXCEPT ![i] = c]
    /\ loop' = [loop EXCEPT ![i] = IF err = "none" THEN "failing" ELSE "ended"]
    /\ UNCHANGED <<self, handler, leg, listed, inRoom, egress, conn, err, subscribed, peer,
                   textVars, delete, claimed, told>>

SetErr(i) ==
    /\ loop[i] = "failing" /\ err' = cause[i] /\ loop' = [loop EXCEPT ![i] = "ended"]
    /\ UNCHANGED <<self, handler, leg, listed, inRoom, egress, conn, cause, subscribed, peer,
                   textVars, delete, claimed, told>>

\* The deferred Close: the ping loop has none.
LoopExits(i) ==
    /\ loop[i] = "ended" /\ loop' = [loop EXCEPT ![i] = "exited"]
    /\ IF i = "ping" THEN UNCHANGED <<conn, egress>>
       ELSE Close /\ egress' = IF conn = "open" THEN "closed" ELSE egress
    /\ UNCHANGED <<self, handler, leg, listed, inRoom, cause, err, subscribed, peer, textVars,
                   delete, claimed, told>>

\* sendLoop reads the egress pipe to its end; MoQ's needs a subscriber first,
\* and closes nothing.
SendEnds ==
    /\ loop["send"] = "on"
    /\ IF WS THEN egress = "closed" /\ loop' = [loop EXCEPT !["send"] = "ended"]
       ELSE /\ \/ conn = "closed"
               \/ subscribed /\ (egress = "closed" \/ peer # "up")
            /\ loop' = [loop EXCEPT !["send"] = "exited"]
    /\ UNCHANGED <<self, handler, leg, listed, inRoom, egress, conn, cause, err, subscribed,
                   peer, textVars, delete, claimed, told>>

\* HandleSubscribe: of one subscriber.
Subscribe ==
    /\ kind = "moq" /\ conn = "open" /\ peer = "up" /\ ~subscribed /\ subscribed' = TRUE
    /\ UNCHANGED <<self, handler, leg, listed, inRoom, egress, wireVars, peer, textVars,
                   delete, claimed, told>>

\* sessionLoop, and closeError: a session its peer closed without a code is no error.
MutSessionEnds == UNCHANGED <<conn, egress>>    \* mutant: the loop does not close

SessionCloses == Close /\ egress' = "closed"

SessionEnds ==
    /\ kind = "moq" /\ loop["recv"] = "on" /\ (peer # "up" \/ conn = "closed")
    /\ loop' = [loop EXCEPT !["recv"] = "exited"]
    /\ err' = IF conn = "open" /\ peer # "closed" THEN "moqError" ELSE err
    /\ SessionCloses
    /\ UNCHANGED <<self, handler, leg, listed, inRoom, cause, subscribed, peer, textVars,
                   delete, claimed, told>>

\* handleTextFrame: a text before the callback is set reaches nobody.
TextArrives ==
    /\ WS /\ conn = "open" /\ loop["recv"] = "on" /\ peer = "up" /\ typed < MaxText
    /\ EarlyText \/ wired
    /\ typed' = typed + 1 /\ heard' = IF wired THEN heard + 1 ELSE heard
    /\ UNCHANGED <<self, handler, leg, listed, inRoom, egress, wireVars, subscribed, peer,
                   wired, delete, claimed, told>>

\* A "hangup" or "stop" message is one way to close.
PeerEnds(how) ==
    /\ conn = "open" /\ peer = "up" /\ peer' = how
    /\ UNCHANGED <<self, handler, leg, listed, inRoom, egress, wireVars, subscribed, textVars,
                   delete, claimed, told>>

-----------------------------------------------------------------------------
(* The handler. *)

At(pc) == handler = pc
Goto(pc) == handler' = pc

\* UpgradeServer and the leg's constructor, which starts the transport.
Upgrade ==
    /\ At("new") /\ kind \in {"wsIn", "moq"} /\ Goto("register")
    /\ leg' = "connected" /\ conn' = "open" /\ loop' = Started
    /\ UNCHANGED <<self, listed, inRoom, egress, cause, err, subscribed, peer, textVars, delete,
                   claimed, told>>

Create ==
    /\ At("new") /\ kind = "wsOut" /\ Goto("register") /\ leg' = "ringing"
    /\ UNCHANGED <<self, listed, inRoom, egress, wireVars, subscribed, peer, textVars, delete,
                   claimed, told>>

Register ==
    /\ At("register") /\ listed' = TRUE /\ Goto(IF kind = "moq" THEN "connected" ELSE "wire")
    /\ UNCHANGED <<self, endVars, inRoom, wireVars, subscribed, peer, textVars, delete, claimed,
                   told>>

\* wireWSLegEventForwarding, and leg.ringing.
Wire ==
    /\ At("wire") /\ wired' = TRUE /\ Tell("ringing")
    /\ Goto(IF kind = "wsOut" THEN "dial" ELSE "connected")
    /\ UNCHANGED <<self, endVars, listed, inRoom, wireVars, subscribed, peer, typed, heard,
                   delete, claimed>>

\* DialClient, under the leg's context and the ring timeout.
Dialled ==
    /\ At("dial") /\ leg # "hungUp" /\ (EarlyDeletes \/ delete = "idle") /\ Goto("attach")
    /\ UNCHANGED <<self, endVars, listed, inRoom, wireVars, subscribed, peer, textVars, delete,
                   claimed, told>>

DialFails ==
    /\ At("dial") /\ Goto("cleanup")
    /\ UNCHANGED <<self, endVars, listed, inRoom, wireVars, subscribed, peer, textVars, delete,
                   claimed, told>>

\* AttachTransport, of a leg that may have hung up since.
AttachTransport ==
    /\ At("attach") /\ Goto("connected") /\ conn' = "open" /\ loop' = Started
    /\ leg' = IF leg = "ringing" THEN "connected" ELSE leg
    /\ UNCHANGED <<self, egress, listed, inRoom, cause, err, subscribed, peer, textVars, delete,
                   claimed, told>>

TellConnected ==
    /\ At("connected") /\ Tell("connected") /\ Goto("room")
    /\ UNCHANGED <<self, endVars, listed, inRoom, wireVars, subscribed, peer, textVars, delete,
                   claimed>>

\* RoomMgr.AddLeg, of a leg that is registered.
AddToRoom ==
    /\ At("room") /\ inRoom' = listed /\ Goto("wait")
    /\ UNCHANGED <<self, endVars, listed, wireVars, subscribed, peer, textVars, delete, claimed,
                   told>>

\* Done, or the maximum duration: only a leg nobody has hung up is cleaned up.
Done ==
    /\ At("wait") /\ AllExited /\ Goto(IF leg = "hungUp" THEN "over" ELSE "cleanup")
    /\ UNCHANGED <<self, endVars, listed, inRoom, wireVars, subscribed, peer, textVars, delete,
                   claimed, told>>

MaxDuration ==
    /\ At("wait") /\ limited /\ Goto(IF leg = "hungUp" THEN "over" ELSE "cleanup")
    /\ UNCHANGED <<self, endVars, listed, inRoom, wireVars, subscribed, peer, textVars, delete,
                   claimed, told>>

-----------------------------------------------------------------------------
(* cleanupLeg and publishDisconnect, by the handler or by the DELETE.        *)
Hangup ==
    /\ leg' = "hungUp" /\ egress' = "closed"
    /\ conn' = IF leg # "hungUp" /\ conn = "open" THEN "closed" ELSE conn

Cleanup ==
    /\ inRoom' = FALSE /\ Hangup /\ listed' = FALSE

MutClaim == /\ claimed' = TRUE     \* mutant: whoever comes tells
            /\ Tell("disconnected")

Claim == /\ claimed' = TRUE
         /\ IF claimed THEN UNCHANGED told ELSE Tell("disconnected")

HandlerCleans ==
    /\ At("cleanup") /\ Goto("tell") /\ Cleanup
    /\ UNCHANGED <<self, loop, cause, err, subscribed, peer, textVars, delete, claimed, told>>

HandlerTells ==
    /\ At("tell") /\ Goto("over") /\ Claim
    /\ UNCHANGED <<self, endVars, listed, inRoom, wireVars, subscribed, peer, textVars, delete>>

DeleteLeg ==
    /\ delete = "idle" /\ listed /\ (EarlyDeletes \/ handler \in {"dial", "wait", "cleanup"})
    /\ listed' = FALSE /\ delete' = "hangup"
    /\ UNCHANGED <<self, handler, endVars, inRoom, wireVars, subscribed, peer, textVars,
                   claimed, told>>

DeleteHangsUp ==
    /\ delete = "hangup" /\ delete' = "cleanup" /\ Hangup
    /\ UNCHANGED <<self, handler, listed, inRoom, loop, cause, err, subscribed, peer, textVars,
                   claimed, told>>

DeleteCleans ==
    /\ delete = "cleanup" /\ delete' = "tell" /\ Cleanup
    /\ UNCHANGED <<self, handler, loop, cause, err, subscribed, peer, textVars, claimed, told>>

DeleteTells ==
    /\ delete = "tell" /\ delete' = "over" /\ Claim
    /\ UNCHANGED <<self, handler, endVars, listed, inRoom, wireVars, subscribed, peer, textVars>>

-----------------------------------------------------------------------------
Handler == \/ Upgrade \/ Create \/ Register \/ Wire \/ Dialled \/ DialFails
           \/ AttachTransport \/ TellConnected \/ AddToRoom \/ Done
           \/ HandlerCleans \/ HandlerTells
Deleter == DeleteHangsUp \/ DeleteCleans \/ DeleteTells
Loop(i) == LoopFails(i) \/ SetErr(i) \/ LoopExits(i)

Next ==
    \/ Handler \/ Deleter \/ DeleteLeg \/ MaxDuration
    \/ \E i \in Loops : Loop(i)
    \/ SendEnds \/ SessionEnds \/ Subscribe \/ TextArrives
    \/ \E how \in {"closed", "lost"} : PeerEnds(how)

Fairness ==
    /\ WF_vars(Handler) /\ WF_vars(Deleter) /\ WF_vars(SendEnds) /\ WF_vars(SessionEnds)
    /\ \A i \in Loops : WF_vars(Loop(i))

Spec == Init /\ [][Next]_vars /\ Fairness

-----------------------------------------------------------------------------
(* Every variable keeps its type.                                            *)
TypeOK ==
    /\ leg \in {"none", "ringing", "connected", "hungUp"} /\ conn \in {"none", "open", "closed"}
    /\ handler \in {"new", "register", "wire", "dial", "attach", "connected", "room", "wait",
                    "cleanup", "tell", "over"}
    /\ loop \in [Loops -> {"off", "on", "failing", "ended", "exited"}]
    /\ {listed, inRoom, wired, claimed, subscribed} \subseteq BOOLEAN
    /\ delete \in {"idle", "hangup", "cleanup", "tell", "over"}
    /\ heard \in 0 .. typed /\ typed \in 0 .. MaxText

Count(e) == Cardinality({i \in DOMAIN told : told[i] = e})

(* A leg is told connected and disconnected once each, disconnected last     *)
(* (legs.go:107), and text its peer sends is heard (ws_leg.go).              *)
ToldInOrder ==
    /\ Count("connected") <= 1 /\ Count("disconnected") <= 1
    /\ Count("disconnected") = 1 => told[Len(told)] = "disconnected"
    /\ heard = typed

Over == handler = "over" /\ delete \in {"idle", "over"}

(* A leg that is over was told so and leaves no room, entry, connection or   *)
(* pipe behind it (ws_leg.go, moq_leg.go).                                   *)
LeavesNothing ==
    Over => /\ Count("disconnected") = 1 /\ leg = "hungUp" /\ ~listed /\ ~inRoom
            /\ conn # "open" /\ egress = "closed"

(* A leg whose peer is gone, that was deleted, or whose dial failed, ends.   *)
Leaving == (peer # "up" \/ delete # "idle" \/ leg = "hungUp") /\ ~(Over /\ AllExited)
LegEnds == Leaving ~> ~Leaving

(* Does not hold: two loops may find no error yet, and the second store      *)
(* replaces the first's, or panics for its type (transport.go setErr).       *)
FirstErrorWins == [][err # "none" => err' = err]_vars
=============================================================================
