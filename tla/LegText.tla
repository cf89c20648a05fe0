------------------------------ MODULE LegText ------------------------------
(***************************************************************************)
(* Real-time text of a SIP leg (leg/sip_leg.go, codec/t140/, api/rtt.go):  *)
(* the sending leg's queue, encoder and write loop, a network that loses,  *)
(* doubles and reorders packets, and the receiving leg's decoder, read     *)
(* loop and dispatcher. A text stands for itself by its number; a chunk is *)
(* the texts that one packet has as its primary block.                     *)
(***************************************************************************)
EXTENDS Integers, SequencesExt, FiniteSetsExt, TLC

CONSTANTS
    Redundancy,       \* generations that a packet repeats, if RED is agreed
    OutCapacity, InCapacity,    \* of textOutCh and textInCh
    Wrap,             \* sequence numbers are taken modulo it
    Window,           \* timestamps the decoder remembers: dedupWindow
    MaxOffset, MaxBlock,        \* what a RED header can describe
    Overtakes,        \* by how many packets one may overtake
    MaxTexts, MaxLost, MaxDoubled, MaxPauses, MaxToggles   \* bounds

VARIABLES
    offer, red, answered,       \* m=text as offered, RED agreed, and what the answer says of it
    out, pending, history, nextSeq, now, count,   \* of the sender: count texts were queued
    net, losses, doubles, pauses,
    lastSeq, seen, decoded,     \* of the decoder: decoded is what DecodePacket returned
    accept, toggles, in, heard, \* of the receiver: heard is what the callback was told
    over

vars == <<offer, red, answered, out, pending, history, nextSeq, now, count, net, losses, doubles,
          pauses, lastSeq, seen, decoded, accept, toggles, in, heard, over>>
agreed   == <<offer, red, answered>>
sender   == <<out, pending, history, nextSeq, now, count>>
network  == <<net, losses, doubles, pauses>>
receiver == <<lastSeq, seen, decoded, accept, toggles, in, heard>>

NoSeq == -1

\* rand.Uint32: the first number is any; here, one that soon wraps.
Init ==
    /\ offer \in {"none", "noPayloadType", "plain", "red"}
    /\ red = FALSE /\ answered = "unknown"
    /\ out = <<>> /\ pending = <<>> /\ history = <<>> /\ nextSeq = Wrap - 2 /\ now = 0 /\ count = 0
    /\ net = <<>> /\ losses = 0 /\ doubles = 0 /\ pauses = 0
    /\ lastSeq = NoSeq /\ seen = <<>> /\ decoded = <<>>
    /\ accept = TRUE /\ toggles = 0 /\ in = <<>> /\ heard = <<>> /\ over = FALSE

Negotiated == answered = "accepted"

(* setupInboundTextMedia, adoptOutboundTextSession and setupTextMedia. A     *)
(* section that cannot be honoured is refused, never left out.               *)
SetUp(port) ==
    /\ answered = "unknown" /\ port \in BOOLEAN
    /\ answered' = CASE offer = "none" -> "absent"
                     [] offer = "noPayloadType" -> "refused"
                     [] OTHER -> IF port THEN "accepted" ELSE "refused"
    /\ red' = (answered' = "accepted" /\ offer = "red")
    /\ UNCHANGED <<offer, sender, network, receiver, over>>

-----------------------------------------------------------------------------
(* SendText, by doSendLegRTT and broadcastRTT; one that finds the queue full *)
(* gives up when its context ends and its caller is told.                    *)
SendText ==
    /\ Negotiated /\ count < MaxTexts /\ Len(out) < OutCapacity
    /\ count' = count + 1 /\ out' = Append(out, count + 1)
    /\ UNCHANGED <<agreed, pending, history, nextSeq, now, network, receiver, over>>

\* textWriteLoop, between two ticks.
Take ==
    /\ ~over /\ out # <<>> /\ pending' = Append(pending, Head(out)) /\ out' = Tail(out)
    /\ UNCHANGED <<agreed, history, nextSeq, now, count, network, receiver, over>>

\* A generation that the RED header cannot describe is left out.
Describes(ts, chunk) == ts - chunk.ts <= MaxOffset /\ Len(chunk.texts) <= MaxBlock

Push(chunk) ==
    LET all == Append(history, chunk)
    IN  IF Len(all) > Redundancy THEN Tail(all) ELSE all

(* Flush: one packet with the pending texts and what it can repeat.          *)
Flush(ts, texts) ==
    LET chunk == [ts |-> ts, texts |-> texts]
        blocks == IF red THEN SelectSeq(history, LAMBDA c : Describes(ts, c)) ELSE <<>>
    IN  /\ net' = Append(net, [seq |-> nextSeq, n |-> ts, blocks |-> Append(blocks, chunk)])
        /\ history' = IF red THEN Push(chunk) ELSE history

\* A tick of textWriteLoop takes whatever is queued.
Tick ==
    /\ ~over /\ pending \o out # <<>>
    /\ now' = now + 1 /\ Flush(now + 1, pending \o out)
    /\ pending' = <<>> /\ out' = <<>> /\ nextSeq' = (nextSeq + 1) % Wrap
    /\ UNCHANGED <<agreed, count, losses, doubles, pauses, receiver, over>>

\* Nobody types for longer than a RED header can reach back.
Pause ==
    /\ pauses < MaxPauses /\ Negotiated /\ pauses' = pauses + 1 /\ now' = now + MaxOffset + 1
    /\ UNCHANGED <<agreed, out, pending, history, nextSeq, count, net, losses, doubles, receiver, over>>

-----------------------------------------------------------------------------
Rest(i) == RemoveAt(net, i)

Lose ==
    /\ losses < MaxLost /\ net # <<>> /\ losses' = losses + 1 /\ net' = Rest(1)
    /\ UNCHANGED <<agreed, sender, doubles, pauses, receiver, over>>

(* DecodePacket. *)
Ahead(a, b) == ((a - b + Wrap + Wrap \div 2) % Wrap) - Wrap \div 2     \* int16(a - b)

New(blocks) == SelectSeq(SortSeq(blocks, LAMBDA a, b : a.ts < b.ts),
                         LAMBDA c : c.texts # <<>> /\ ~Contains(seen, c.ts))

MarkSeen(blocks) ==
    LET all == seen \o [i \in DOMAIN blocks |-> blocks[i].ts]
    IN  IF Len(all) > Window THEN SubSeq(all, Len(all) - Window + 1, Len(all)) ELSE all

Gap(seq) == IF lastSeq # NoSeq /\ Ahead(seq, lastSeq) > 1 THEN Ahead(seq, lastSeq) - 1 ELSE 0

LossMarker(seq, blocks) == Gap(seq) > 0 /\ Len(blocks) < Gap(seq) + 1

Text(blocks) == FlattenSeq([i \in DOMAIN blocks |-> blocks[i].texts])

(* textReadLoop: what is decoded is queued; a queue that is full drops its   *)
(* oldest.                                                                   *)
Queue(entry) == IF Len(in) < InCapacity THEN Append(in, entry) ELSE Append(Tail(in), entry)

Decode(packet) ==
    LET new  == New(packet.blocks)
        lost == LossMarker(packet.seq, new)
        entry == [texts |-> Text(new), lost |-> lost]
    IN  /\ seen' = MarkSeen(new)
        /\ lastSeq' = IF lastSeq = NoSeq \/ Ahead(packet.seq, lastSeq) > 0 THEN packet.seq ELSE lastSeq
        /\ IF new = <<>> /\ ~lost THEN UNCHANGED <<decoded, in>>
           ELSE /\ decoded' = Append(decoded, entry)
                /\ in' = IF accept THEN Queue(entry) ELSE in

Receive(i) ==
    /\ ~over /\ i \in DOMAIN net /\ net[i].n - net[1].n <= Overtakes /\ net' = Rest(i)
    /\ Decode(net[i])
    /\ UNCHANGED <<agreed, sender, losses, doubles, pauses, accept, toggles, heard, over>>

ReceiveDoubled(i) ==
    /\ ~over /\ doubles < MaxDoubled /\ i \in DOMAIN net /\ net[i].n - net[1].n <= Overtakes
    /\ doubles' = doubles + 1 /\ Decode(net[i])
    /\ UNCHANGED <<agreed, sender, net, losses, pauses, accept, toggles, heard, over>>

\* textDispatchLoop: the event is published and the text is sent on.
Dispatch ==
    /\ ~over /\ in # <<>> /\ heard' = Append(heard, Head(in)) /\ in' = Tail(in)
    /\ UNCHANGED <<agreed, sender, network, lastSeq, seen, decoded, accept, toggles, over>>

SetAcceptText ==
    /\ Negotiated /\ toggles < MaxToggles /\ toggles' = toggles + 1 /\ accept' = ~accept
    /\ UNCHANGED <<agreed, sender, network, lastSeq, seen, decoded, in, heard, over>>

Hangup ==
    /\ ~over /\ over' = TRUE /\ UNCHANGED <<agreed, sender, network, receiver>>

-----------------------------------------------------------------------------
Next ==
    \/ \E port \in BOOLEAN : SetUp(port)
    \/ SendText \/ Take \/ Tick \/ Pause \/ Lose
    \/ \E i \in 1 .. Overtakes + 1 : Receive(i) \/ ReceiveDoubled(i)
    \/ Dispatch \/ SetAcceptText \/ Hangup

Fairness == WF_vars(Tick) /\ WF_vars(Dispatch)

Spec == Init /\ [][Next]_vars /\ Fairness

-----------------------------------------------------------------------------
(* Every variable keeps its type.                                            *)
TypeOK ==
    /\ answered \in {"unknown", "absent", "refused", "accepted"}
    /\ {red, accept, over} \subseteq BOOLEAN /\ nextSeq \in 0 .. Wrap - 1
    /\ lastSeq \in 0 .. Wrap - 1 \cup {NoSeq} /\ Len(out) <= OutCapacity
    /\ Len(in) <= InCapacity /\ Len(history) <= Redundancy /\ Len(seen) <= Window

(* A text is decoded once at most, however often it comes: as the primary of *)
(* one packet and as redundancy of the next (decoder.go:10-12).              *)
TextComesOnce ==
    LET texts == Text(decoded)
    IN  \A i, j \in DOMAIN texts : i < j => texts[i] # texts[j]

\* The texts decoded before entry k, and where a marker stands.
Before(k) == ToSet(Text(SubSeq(decoded, 1, k - 1)))
First(k)  == Min(Before(k))

(* After the first, a text that is missing where a later one is decoded has  *)
(* a loss marker in its place (decoder.go:10-12).                            *)
LossesAreMarked ==
    \A k \in 2 .. Len(decoded) :
        decoded[k].texts # <<>> /\ First(k) < Max(ToSet(decoded[k].texts)) =>
        \A t \in First(k) .. Max(ToSet(decoded[k].texts)) :
            \/ t \in Before(k) \cup ToSet(decoded[k].texts)
            \/ \E j \in 2 .. k : decoded[j].lost /\ t > Min(Before(j))

(* With RED and neither pauses nor long chunks, texts come in their order    *)
(* and none is missed while what is lost and what overtakes is within what a *)
(* packet repeats (API.md:1226).                                             *)
RedundancyHelps ==
    red /\ pauses = 0 /\ MaxBlock >= MaxTexts /\ Overtakes + losses <= Redundancy =>
    LET texts == Text(decoded)
    IN  /\ \A i, j \in DOMAIN texts : i < j => texts[i] < texts[j]
        /\ \A k \in DOMAIN decoded : ~decoded[k].lost

(* What the callback is told is what was decoded, in that order.             *)
HeardAsDecoded == \E f \in [DOMAIN heard -> DOMAIN decoded] :
    \A i, j \in DOMAIN heard : heard[i] = decoded[f[i]] /\ (i < j => f[i] < f[j])

(* An offered m=text is answered, and only an agreed one carries text.       *)
AnswersMirrorOffers ==
    /\ offer # "none" => answered # "absent"
    /\ out # <<>> \/ net # <<>> => Negotiated

Unsent == ~over /\ (pending \o out # <<>> \/ in # <<>>)

(* What was queued is sent, and what was decoded is told, while the leg is   *)
(* up.                                                                       *)
TextMovesOn == Unsent ~> ~Unsent
=============================================================================
