--------------------------- MODULE ProviderSession ---------------------------
(***************************************************************************)
(* A session with a provider of speech over a WebSocket: the transcribers  *)
(* of stt/ and the agents of agent/, each with Start, its two loops and    *)
(* what becomes of each message, and the helpers of wsutilx they share.    *)
(* A message stands for its text by its place in what the provider said.   *)
(***************************************************************************)
EXTENDS Naturals, SequencesExt

CONSTANTS
    Vendors,     \* those to run
    Bounds,      \* per vendor, a set of [audio, talk, calls, faults]: units of audio before
                 \* the session is cancelled, messages, calls of Finalize, and may it
                 \* be stopped, its pipe closed or its peer lost?
    EarlyCalls,  \* may Finalize or InjectMessage come before the session's first frame?
    EarlyFrames  \* may a message come in the same packet as the handshake?

Transcribers == {"deepgram", "flux", "speechmatics", "azure", "elevenlabs"}
Agents       == {"vapi", "deepgramAgent", "pipecat", "elevenlabsAgent"}

VARIABLES
    vendor, partials, bound,
    start,     \* Start: idle, call, dial, hello, loops, returned
    done,      \* its context is cancelled
    writer,    \* the writer that Finalize and InjectMessage find
    send, recv, watch, deadline,
    caller,    \* one Finalize or InjectMessage: idle, copied (the writer), over
    arrived, waiting, open,   \* audio so far, what of it is unread, and the pipe
    sent,      \* frames written
    peer,      \* up, or gone: then each write fails
    said, next, \* the provider's messages, and how many were read
    turn,      \* the provider's turn: "none", "open" or "eager", and its number
    utt,       \* smUtterance and turnIndex
    told,      \* callbacks made
    playing, interrupted      \* an agent's audio in the writer, lastInterruptID

vars == <<vendor, partials, bound, start, done, writer, send, recv, watch, deadline, caller,
          arrived, waiting, open, sent, peer, said, next, turn, utt, told, playing,
          interrupted>>
session   == <<vendor, partials, bound>>
audioVars == <<arrived, waiting, open>>
talkVars  == <<said, turn>>
heardVars == <<next, utt, told, playing, interrupted>>
recvVars  == <<recv, watch, deadline>>

Init ==
    /\ vendor \in Vendors
    /\ partials \in IF vendor \in Transcribers THEN BOOLEAN ELSE {TRUE}
    /\ bound \in Bounds[vendor]
    /\ start = "idle" /\ done = FALSE /\ writer = FALSE
    /\ send = "off" /\ recv = "off" /\ watch = "off" /\ deadline = "future"
    /\ caller = "idle" /\ arrived = 0 /\ waiting = 0 /\ open = TRUE
    /\ sent = <<>> /\ peer = "up" /\ said = <<>> /\ next = 0
    /\ turn = [state |-> "none", n |-> 0] /\ utt = [segments |-> <<>>, turn |-> 0]
    /\ told = <<>> /\ playing = {} /\ interrupted = 0

-----------------------------------------------------------------------------
(* What each transcriber makes of message m, the i-th: final and interim     *)
(* transcripts, and turns with the texts they cover.                         *)
Final(i)     == <<[kind |-> "final", of |-> <<i>>]>>
Interim(i)   == IF partials THEN <<[kind |-> "interim", of |-> <<i>>]>> ELSE <<>>
TurnTold(is) == <<[kind |-> "turn", of |-> is]>>

DeepgramTells(m, i) ==
    CASE m.kind = "utteranceEnd" -> TurnTold(<<>>)
      [] m.kind \in {"final", "speechFinal"} /\ m.text -> Final(i)
      [] m.kind = "interim" /\ m.text -> Interim(i)
      [] OTHER -> <<>>

FluxTells(m, i) ==
    (IF m.kind # "update" \/ partials THEN TurnTold(IF m.text THEN <<i>> ELSE <<>>) ELSE <<>>)
    \o (CASE ~m.text \/ m.kind = "resumed" -> <<>>
          [] m.text /\ m.kind = "end" -> Final(i)
          [] OTHER -> Interim(i))

SpeechmaticsTells(m, i) ==
    CASE m.kind = "interim" /\ m.text -> Interim(i)
      [] m.kind = "final" /\ m.text -> Final(i)
      [] m.kind = "endOfUtterance" -> TurnTold(utt.segments)
      [] OTHER -> <<>>

SmUtterance(m, i) ==
    CASE m.kind = "final" /\ m.text -> [utt EXCEPT !.segments = Append(@, i)]
      [] m.kind = "endOfUtterance" -> [segments |-> <<>>, turn |-> utt.turn + 1]
      [] OTHER -> utt

AzureTells(m, i) ==
    CASE m.kind = "interim" /\ m.text -> Interim(i)
      [] m.kind = "final" /\ m.text -> Final(i)
      [] OTHER -> <<>>

ElevenLabsTells(m, i) == AzureTells(m, i)

(* Of an agent's messages: transcripts of either side, and its audio.        *)
Said(m, i) == IF m.kind \in {"user", "assistant"} /\ m.text
                THEN <<[kind |-> m.kind, of |-> <<i>>]>> ELSE <<>>
Connected  == <<[kind |-> "connected", of |-> <<>>]>>

VapiTells(m, i)    == Said(m, i)
PipecatTells(m, i) == Said(m, i)
DeepgramAgentTells(m, i)   == IF m.kind = "welcome" THEN Connected ELSE Said(m, i)
ElevenLabsAgentTells(m, i) == IF m.kind = "welcome" THEN Connected ELSE Said(m, i)

Tells(m, i) ==
    CASE vendor = "deepgram" -> DeepgramTells(m, i)
      [] vendor = "flux" -> FluxTells(m, i)
      [] vendor = "speechmatics" -> SpeechmaticsTells(m, i)
      [] vendor = "azure" -> AzureTells(m, i)
      [] vendor = "elevenlabs" -> ElevenLabsTells(m, i)
      [] vendor = "vapi" -> VapiTells(m, i)
      [] vendor = "pipecat" -> PipecatTells(m, i)
      [] vendor = "deepgramAgent" -> DeepgramAgentTells(m, i)
      [] OTHER -> ElevenLabsAgentTells(m, i)

\* ElevenLabs' audio carries the number of its response.
MutStale(m) == FALSE     \* mutant: plays what was interrupted

Stale(m) == vendor = "elevenlabsAgent" /\ m.n # 0 /\ m.n <= interrupted

Plays(m) ==
    CASE m.kind = "audio" /\ ~Stale(m) -> /\ playing' = playing \cup {m.n}
                                          /\ UNCHANGED interrupted
      [] m.kind = "interrupted" ->
            /\ playing' = {}        \* discardBuffered
            /\ interrupted' = IF vendor = "elevenlabsAgent" /\ m.n > interrupted
                                THEN m.n ELSE interrupted
      [] OTHER -> UNCHANGED <<playing, interrupted>>

-----------------------------------------------------------------------------
(* LockedWriter: the first failure is latched, so only a peer that is up     *)
(* gets a frame.                                                             *)
WriteOK == peer = "up"
Write(frames) == sent' = IF WriteOK THEN sent \o frames ELSE sent
Audio(n) == <<[kind |-> "audio", n |-> n]>>

AudioFrames == Cardinality({i \in DOMAIN sent : sent[i].kind = "audio"})

(* Each Start by what it does of its own: greets before the loops, registers *)
(* the writer for Finalize or InjectMessage, keeps what the handshake's      *)
(* reader has buffered, and where an agent is told connected.                *)
StartOf(greets, registers, keeps, connects) ==
    [greets |-> greets, registers |-> registers, keeps |-> keeps, connects |-> connects]

DeepgramStart        == StartOf(FALSE, TRUE, FALSE, "none")
FluxStart            == StartOf(FALSE, FALSE, FALSE, "none")
SpeechmaticsStart    == StartOf(TRUE, TRUE, FALSE, "none")
AzureStart           == StartOf(TRUE, FALSE, FALSE, "none")
ElevenLabsStart      == StartOf(FALSE, FALSE, FALSE, "none")
VapiStart            == StartOf(FALSE, FALSE, TRUE, "call")
PipecatStart         == StartOf(FALSE, TRUE, TRUE, "dialled")
DeepgramAgentStart   == StartOf(TRUE, TRUE, TRUE, "message")
ElevenLabsAgentStart == StartOf(TRUE, FALSE, FALSE, "message")

Its ==
    CASE vendor = "deepgram" -> DeepgramStart
      [] vendor = "flux" -> FluxStart
      [] vendor = "speechmatics" -> SpeechmaticsStart
      [] vendor = "azure" -> AzureStart
      [] vendor = "elevenlabs" -> ElevenLabsStart
      [] vendor = "vapi" -> VapiStart
      [] vendor = "pipecat" -> PipecatStart
      [] vendor = "deepgramAgent" -> DeepgramAgentStart
      [] OTHER -> ElevenLabsAgentStart

(* The frame each sendLoop ends with, after k frames of audio.               *)
End(n) == <<[kind |-> "end", n |-> n]>>

DeepgramEnds(k)        == End(0)
FluxEnds(k)            == End(0)
SpeechmaticsEnds(k)    == End(k)
AzureEnds(k)           == End(0)
ElevenLabsEnds(k)      == <<>>
VapiEnds(k)            == <<>>
PipecatEnds(k)         == <<>>
DeepgramAgentEnds(k)   == <<>>
ElevenLabsAgentEnds(k) == <<>>

EndOfStream(k) ==
    CASE vendor = "deepgram" -> DeepgramEnds(k)
      [] vendor = "flux" -> FluxEnds(k)
      [] vendor = "speechmatics" -> SpeechmaticsEnds(k)
      [] vendor = "azure" -> AzureEnds(k)
      [] vendor = "elevenlabs" -> ElevenLabsEnds(k)
      [] vendor = "vapi" -> VapiEnds(k)
      [] vendor = "pipecat" -> PipecatEnds(k)
      [] vendor = "deepgramAgent" -> DeepgramAgentEnds(k)
      [] OTHER -> ElevenLabsAgentEnds(k)

-----------------------------------------------------------------------------
(* Start. *)

Disconnected == IF vendor \in Agents THEN <<[kind |-> "disconnected", of |-> <<>>]>> ELSE <<>>

Begin ==
    /\ start = "idle" /\ start' = IF Its.connects = "call" THEN "call" ELSE "dial"
    /\ UNCHANGED <<session, done, writer, send, recvVars, caller, audioVars, sent,
                   peer, talkVars, heardVars>>

CreateCall ==
    /\ start = "call" /\ ~done /\ start' = "dial" /\ told' = told \o Connected
    /\ UNCHANGED <<session, done, writer, send, recvVars, caller, audioVars, sent,
                   peer, talkVars, next, utt, playing, interrupted>>

Dial(early) ==
    /\ start = "dial" /\ ~done /\ start' = "hello" /\ writer' = Its.registers
    /\ said' = early /\ next' = IF Its.keeps THEN 0 ELSE Len(early)
    /\ UNCHANGED <<session, done, send, recvVars, caller, audioVars, sent, peer,
                   turn, utt, told, playing, interrupted>>

Hello ==
    /\ start = "hello" /\ (WriteOK \/ ~Its.greets) /\ start' = "loops"
    /\ Write(IF Its.greets THEN <<[kind |-> "hello", n |-> 0]>> ELSE <<>>)
    /\ told' = IF Its.connects = "dialled" THEN told \o Connected ELSE told
    /\ send' = "check" /\ recv' = "check" /\ watch' = "on"
    /\ UNCHANGED <<session, done, writer, deadline, caller, audioVars, peer, talkVars,
                   next, utt, playing, interrupted>>

\* mutant: a call that was not created is waited for.
MutReturn ==
    /\ \/ start = "dial"
       \/ start = "hello" /\ Its.greets /\ ~WriteOK
       \/ start = "loops" /\ send = "exited" /\ recv = "exited"
    /\ start' = "returned" /\ writer' = FALSE /\ told' = told \o Disconnected
    /\ peer' = "gone" /\ watch' = "off"
    /\ UNCHANGED <<session, done, send, recv, deadline, caller, audioVars, sent,
                   talkVars, next, utt, playing, interrupted>>

\* The deferred part of Start, after an error or both loops.
Return ==
    /\ \/ start \in {"call", "dial"}
       \/ start = "hello" /\ Its.greets /\ ~WriteOK
       \/ start = "loops" /\ send = "exited" /\ recv = "exited"
    /\ start' = "returned" /\ writer' = FALSE /\ told' = told \o Disconnected
    /\ peer' = "gone" /\ watch' = "off"
    /\ UNCHANGED <<session, done, send, recv, deadline, caller, audioVars, sent,
                   talkVars, next, utt, playing, interrupted>>

Stop ==
    /\ bound.faults /\ start \notin {"idle", "returned"} /\ ~done /\ done' = TRUE
    /\ UNCHANGED <<session, start, writer, send, recvVars, caller, audioVars, sent,
                   peer, talkVars, heardVars>>

-----------------------------------------------------------------------------
(* sendLoop. *)

SendExits == send' = "exited" /\ done' = TRUE

SendCheck ==
    /\ send = "check"
    /\ IF done THEN SendExits /\ Write(EndOfStream(AudioFrames))
               ELSE send' = "read" /\ UNCHANGED <<done, sent>>
    /\ UNCHANGED <<session, start, writer, recvVars, caller, audioVars, peer,
                   talkVars, heardVars>>

\* Flux fills a frame of several reads first, unless the pipe ends.
Chunk == IF vendor = "flux" THEN 2 ELSE 1

SendRead ==
    /\ send = "read" /\ (waiting >= Chunk \/ (~open /\ vendor = "flux" /\ waiting > 0))
    /\ LET n == IF waiting >= Chunk THEN Chunk ELSE waiting
       IN  /\ waiting' = waiting - n
           /\ IF n < Chunk THEN SendExits /\ Write(Audio(n) \o EndOfStream(AudioFrames + 1))
              ELSE /\ Write(Audio(n))
                   /\ IF WriteOK THEN send' = "check" /\ UNCHANGED done ELSE SendExits
    /\ UNCHANGED <<session, start, writer, recvVars, caller, arrived, open, peer,
                   talkVars, heardVars>>

SendPipeClosed ==
    /\ send = "read" /\ ~open /\ waiting = 0 /\ SendExits /\ Write(EndOfStream(AudioFrames))
    /\ UNCHANGED <<session, start, writer, recvVars, caller, audioVars, peer,
                   talkVars, heardVars>>

\* The participant's tap, which the leg's audio feeds until its pipe is closed.
AudioArrives ==
    /\ start = "loops" /\ open /\ waiting < Chunk /\ (arrived < bound.audio \/ done)
    /\ send # "exited"
    /\ arrived' = arrived + 1 /\ waiting' = waiting + 1
    /\ UNCHANGED <<session, start, done, writer, send, recvVars, caller, open, sent,
                   peer, talkVars, heardVars>>

PipeCloses ==
    /\ (bound.faults \/ done) /\ start = "loops" /\ open /\ open' = FALSE
    /\ UNCHANGED <<session, start, done, writer, send, recvVars, caller, arrived,
                   waiting, sent, peer, talkVars, heardVars>>

-----------------------------------------------------------------------------
(* recvLoop, and the goroutine of WatchCancel.                               *)
RecvExits == recv' = "exited" /\ done' = TRUE

RecvCheck ==
    /\ recv = "check"
    /\ IF done THEN RecvExits ELSE recv' = "arm" /\ UNCHANGED done
    /\ UNCHANGED <<session, start, writer, send, watch, deadline, caller, audioVars,
                   sent, peer, talkVars, heardVars>>

SetReadDeadline ==
    /\ recv = "arm" /\ recv' = "read" /\ deadline' = "future"
    /\ UNCHANGED <<session, start, done, writer, send, watch, caller, audioVars, sent,
                   peer, talkVars, heardVars>>

WatchCancel ==
    /\ watch = "on" /\ done /\ watch' = "fired" /\ deadline' = "past"
    /\ UNCHANGED <<session, start, done, writer, send, recv, caller, audioVars, sent,
                   peer, talkVars, heardVars>>

Ends(m) == m.kind \in {"close", "ended", "endOfTranscript"}

Receive ==
    /\ recv = "read" /\ deadline = "future" /\ next < Len(said)
    /\ LET m == said[next + 1] IN
         /\ next' = next + 1 /\ told' = told \o Tells(m, next + 1) /\ Plays(m)
         /\ utt' = IF vendor = "speechmatics" THEN SmUtterance(m, next + 1) ELSE utt
         /\ Write(IF m.kind = "ping" THEN <<[kind |-> "pong", n |-> m.n]>> ELSE <<>>)
         /\ IF Ends(m) THEN RecvExits ELSE recv' = "check" /\ UNCHANGED done
    /\ UNCHANGED <<session, start, writer, send, watch, deadline, caller, audioVars,
                   peer, talkVars>>

\* The read deadline, which the peer's silence lets pass too.
ReadFails ==
    /\ recv = "read" /\ (deadline = "past" \/ next = Len(said)) /\ RecvExits
    /\ UNCHANGED <<session, start, writer, send, watch, deadline, caller, audioVars,
                   sent, peer, talkVars, heardVars>>

-----------------------------------------------------------------------------
(* Finalize and InjectMessage: the writer is copied under the lock and       *)
(* written to after it.                                                      *)
Copy ==
    /\ caller = "idle" /\ bound.calls > 0 /\ start \in {"dial", "hello", "loops"} /\ (EarlyCalls \/ start = "loops")
    /\ caller' = IF writer THEN "copied" ELSE "over"
    /\ UNCHANGED <<session, start, done, writer, send, recvVars, audioVars, sent, peer,
                   talkVars, heardVars>>

WriteCopied ==
    /\ caller = "copied" /\ caller' = "over" /\ Write(<<[kind |-> "finalize", n |-> 0]>>)
    /\ UNCHANGED <<session, start, done, writer, send, recvVars, audioVars, peer,
                   talkVars, heardVars>>

-----------------------------------------------------------------------------
(* The provider: what each may say next, by its own protocol.                *)
Says(kinds, n) == {[kind |-> k, text |-> t, n |-> n] : k \in kinds, t \in {TRUE}}
Blank(kinds)   == {[kind |-> k, text |-> FALSE, n |-> 0] : k \in kinds}
Talked == {said[i].kind : i \in DOMAIN said}

Utterances ==
    CASE vendor = "deepgram" -> Says({"interim", "final", "speechFinal", "utteranceEnd"}, 0)
                                \cup Blank({"final"})
      [] vendor = "flux" /\ turn.state = "none" -> Blank({"start"})
      [] vendor = "flux" /\ turn.state = "open" -> Says({"update", "eager", "end"}, turn.n)
                                                   \cup Blank({"end"})
      [] vendor = "flux" /\ turn.state = "eager" -> Says({"resumed", "end"}, turn.n)
      [] vendor = "speechmatics" -> Says({"interim", "final"}, 0)
                                    \cup Blank({"final", "endOfUtterance"})
      [] vendor \in {"azure", "elevenlabs"} -> Says({"interim", "final"}, 0) \cup Blank({"final"})
      [] vendor \in {"deepgramAgent", "elevenlabsAgent"} /\ said = <<>> -> Says({"welcome"}, 0)
      [] vendor = "elevenlabsAgent" /\ said # <<>> ->
            Says({"ping", "assistant"}, 0) \cup Says({"interrupted"}, turn.n + 1)
            \cup UNION {Says({"audio"}, r) : r \in {turn.n, turn.n + 1} \ {0}}
      [] OTHER -> Says({"user", "assistant", "interrupted", "audio"}, 0)
                  \cup (IF vendor = "vapi" THEN Says({"ended"}, 0) ELSE {})

\* Bound: one message is in flight; a socket keeps their order anyway.
Talk(m) ==
    /\ next = Len(said)
    /\ start = "loops" /\ peer = "up" /\ "close" \notin Talked /\ Len(said) < bound.talk
    /\ said' = Append(said, m)
    /\ turn' = CASE vendor = "flux" /\ m.kind \in {"start", "resumed"} -> [turn EXCEPT !.state = "open"]
                 [] vendor = "flux" /\ m.kind = "eager" -> [turn EXCEPT !.state = "eager"]
                 [] vendor = "flux" /\ m.kind = "end" -> [state |-> "none", n |-> turn.n + 1]
                 [] vendor = "elevenlabsAgent" /\ m.kind = "interrupted" ->
                       [turn EXCEPT !.n = @ + 1]
                 [] OTHER -> turn
    /\ UNCHANGED <<session, start, done, writer, send, recvVars, caller, audioVars,
                   sent, peer, heardVars>>

PeerFails ==
    /\ bound.faults /\ start \in {"hello", "loops"} /\ peer = "up" /\ peer' = "gone"
    /\ UNCHANGED <<session, start, done, writer, send, recvVars, caller, audioVars,
                   sent, talkVars, heardVars>>

-----------------------------------------------------------------------------
Starter == Begin \/ CreateCall \/ Dial(<<>>) \/ Hello \/ Return
Sender  == SendCheck \/ SendRead \/ SendPipeClosed
Reader  == RecvCheck \/ SetReadDeadline \/ Receive \/ ReadFails
Close   == [kind |-> "close", text |-> FALSE, n |-> 0]

Next ==
    \/ Starter \/ Sender \/ Reader \/ WatchCancel \/ Stop \/ Copy \/ WriteCopied
    \/ EarlyFrames /\ \E m \in Utterances : Dial(<<m>>)
    \/ AudioArrives \/ PipeCloses \/ PeerFails
    \/ \E m \in Utterances \cup {Close} : Talk(m)

Fairness == WF_vars(Starter) /\ WF_vars(Sender) /\ WF_vars(Reader)
            /\ WF_vars(AudioArrives \/ PipeCloses)

Spec == Init /\ [][Next]_vars /\ Fairness

-----------------------------------------------------------------------------
(* Every variable keeps its type, and no loop runs outside Start.            *)
TypeOK ==
    /\ vendor \in Vendors /\ start \in {"idle", "call", "dial", "hello", "loops", "returned"}
    /\ {done, writer, open, partials} \subseteq BOOLEAN
    /\ send \in {"off", "check", "read", "exited"}
    /\ recv \in {"off", "check", "arm", "read", "exited"}
    /\ watch \in {"off", "on", "fired"} /\ deadline \in {"future", "past"}
    /\ caller \in {"idle", "copied", "over"} /\ peer \in {"up", "gone"}
    /\ waiting \in 0 .. Chunk /\ waiting <= arrived /\ next \in 0 .. Len(said)
    /\ start = "returned" => send \in {"off", "exited"} /\ recv \in {"off", "exited"} /\ ~writer
    /\ playing \subseteq Nat /\ interrupted \in Nat

Told(kind) == SelectSeq(told, LAMBDA e : e.kind = kind)
Settled(m) ==     \* text the provider will not take back
    m.text /\ m.kind \in CASE vendor = "flux" -> {"end"} [] OTHER -> {"final", "speechFinal"}
ReadOf(Kept(_)) == {i \in 1 .. next : Kept(said[i])}

(* Each text that is settled is told final once, in order, and nothing else  *)
(* is; a turn of Speechmatics covers the finals since the turn before        *)
(* (deepgram_flux.go:360-361, speechmatics.go:336-338).                      *)
FinalsAreTold ==
    vendor \in Transcribers =>
        LET finals == [k \in DOMAIN Told("final") |-> Told("final")[k].of[1]]
            Turns  == {k \in DOMAIN told : told[k].kind = "turn"}
        IN  /\ ToSet(finals) = ReadOf(Settled)
            /\ \A j, k \in DOMAIN finals : j < k => finals[j] < finals[k]
            /\ vendor = "speechmatics" =>
                 \A k \in Turns :
                    LET before == {j \in Turns : j < k}
                        from   == IF before = {} THEN 0 ELSE Max(before)
                    IN  ToSet(told[k].of) =
                          {told[j].of[1] : j \in {h \in from + 1 .. k - 1 : told[h].kind = "final"}}

(* The provider hears its greeting first, every unit of audio that was read  *)
(* and none after the stream's end, which tells Speechmatics how many frames *)
(* it had (speechmatics.go:291-293, deepgram_flux.go:178-180).               *)
StreamIsWhole ==
    /\ Its.greets /\ sent # <<>> => sent[1].kind = "hello"
    /\ \A i \in DOMAIN sent : sent[i].kind = "end" =>
         LET before == {j \in 1 .. i - 1 : sent[j].kind = "audio"}
         IN  /\ \A j \in i + 1 .. Len(sent) : sent[j].kind \notin {"audio", "end"}
             /\ vendor = "speechmatics" => sent[i].n = Cardinality(before)
             /\ waiting = 0 /\ ~open =>
                   arrived = FoldFunctionOnSet(+, 0, [j \in before |-> sent[j].n], before)

(* What was interrupted is not played (elevenlabs.go:353-357), and a session *)
(* is told disconnected once, last, and connected before it.                 *)
AgentIsHeard ==
    vendor \in Agents =>
        /\ vendor = "elevenlabsAgent" => \A n \in playing : n > interrupted
        /\ Len(Told("disconnected")) = IF start = "returned" THEN 1 ELSE 0
        /\ Told("disconnected") # <<>> => Last(told).kind = "disconnected"
        /\ Len(Told("connected")) <= 1
        /\ \A k \in DOMAIN told : told[k].kind \in {"user", "assistant"} /\ vendor # "deepgramAgent"
             => told[1].kind = "connected"

Unreturned == done /\ start # "returned"

(* A session that was cancelled returns.                                     *)
StopEnds == Unreturned ~> ~Unreturned

(* Does not hold: a read that starts after the watcher fired is broken by    *)
(* it (wsutilx.go:87-90).                                                    *)
CancelBreaksRead == watch = "fired" /\ recv = "read" => deadline = "past"
=============================================================================
