---------------------------- MODULE ReceiveLoop ----------------------------
(***************************************************************************)
(* How a SIP leg's audio stream receives, without a jitter buffer          *)
(* (leg/sip_leg.go readLoop, leg/gap_fill.go): the loop blocks in the      *)
(* socket until a deadline it set before, counts every packet, tells each  *)
(* digit, decodes audio and fills the holes that loss and discontinuous    *)
(* transmission leave, and pushes frames at a room that may fall behind.   *)
(* A packet stands for a frame of 20 ms, and timestamps count frames; what *)
(* a stream has one source of (SSRC) does not change.                      *)
(***************************************************************************)
EXTENDS Integers, SequencesExt, FiniteSetsExt

CONSTANTS
    None,
    Kinds,                  \* what the peer sends: "audio", "sid", "bad" audio, "noise"
    MaxTime, MaxDelay,      \* frames the peer sends; the network's delay
    MaxLost, MaxDoubled,    \* packets
    MaxDigits, Starts, Ends, \* digits of the peer, and the packets of each
    MaxBurst, MaxFill,      \* gapMaxBurst, gapMaxFill
    Capacity,               \* of inFrames
    MaxOffers, MaxHolds,
    Primary                 \* is this the leg's primary stream?

\* What follows is about networks with MaxDelay <= MaxFill, so that a late packet
\* finds its interval filled, and MaxDelay <= Starts + 1, so that no digit is
\* overtaken by the end of the next.

VARIABLES
    now, peer,      \* the peer's clock; it sends, is in a digit, is quiet (DTX), is silent
    digitsLeft, event,
    flight, lost, doubled, nextSeq,
    offers, pt, peerPT,     \* the live codec, and the one the peer sends
    held, holds,
    loop,           \* [at, armed, lc, frames]: what its deadline is for
    gaps,           \* gapFiller: [codec, synced, next, due, filled, dtx]
    stats,          \* [received, first, last]
    read, lastDTMF, told,
    inFrames, delivered,
    over            \* None, or why the stream ended

vars == <<now, peer, digitsLeft, event, flight, lost, doubled, nextSeq, offers, pt, peerPT, held,
          holds, loop, gaps, stats, read, lastDTMF, told, inFrames, delivered, over>>
source  == <<now, peer, digitsLeft, event, nextSeq, peerPT>>
network == <<flight, lost, doubled>>
call    == <<offers, pt, held, holds>>
dtmf    == <<lastDTMF, told>>
frames  == <<inFrames, delivered>>

NoGaps == [codec |-> None, synced |-> FALSE, next |-> 0, due |-> 0, filled |-> 0, dtx |-> FALSE]

Init ==
    /\ now = 1 /\ peer = "talks" /\ digitsLeft = MaxDigits /\ event = 0
    /\ flight = {} /\ lost = 0 /\ doubled = 0 /\ nextSeq = 1
    /\ offers = 0 /\ pt = 0 /\ peerPT = 0 /\ held = FALSE /\ holds = 0
    /\ loop = [at |-> "arm", armed |-> None, lc |-> None, frames |-> <<>>]
    /\ gaps = NoGaps /\ stats = [received |-> 0, first |-> 0, last |-> 0]
    /\ read = {} /\ lastDTMF = 0 /\ told = <<>>
    /\ inFrames = <<>> /\ delivered = <<>> /\ over = None

-----------------------------------------------------------------------------
(* The peer: a packet for every frame but those it is quiet for. A digit is  *)
(* Starts + Ends packets of the timestamp of its first.                      *)
Packet(kind, ts) == [kind |-> kind, ts |-> ts, seq |-> nextSeq, pt |-> peerPT, at |-> now, copy |-> 0]
InTime == \A p \in flight : now - p.at < MaxDelay
SendPacket(p) == flight' = flight \cup {p} /\ nextSeq' = nextSeq + 1 /\ now' = now + 1

Speaks(kind) ==
    /\ peer \in {"talks", "quiet"} /\ now <= MaxTime /\ InTime /\ SendPacket(Packet(kind, now))
    /\ peer' = CASE kind = "sid" -> "quiet" [] kind = "noise" -> peer [] OTHER -> "talks"
    /\ UNCHANGED <<digitsLeft, event, lost, doubled, peerPT, call, loop, gaps, stats, read, dtmf,
                   frames, over>>

StaysQuiet ==
    /\ peer = "quiet" /\ now <= MaxTime /\ InTime /\ now' = now + 1
    /\ UNCHANGED <<peer, digitsLeft, event, nextSeq, peerPT, network, call, loop, gaps, stats, read,
                   dtmf, frames, over>>

\* event is the time of the digit's first packet.
SendsDigit ==
    /\ now <= MaxTime /\ InTime
    /\ \/ peer = "talks" /\ digitsLeft > 0 /\ digitsLeft' = digitsLeft - 1 /\ event' = now
          /\ peer' = "digit" /\ SendPacket(Packet("start", now))
       \/ peer = "digit" /\ UNCHANGED <<digitsLeft, event>>
          /\ SendPacket(Packet(IF now - event < Starts THEN "start" ELSE "end", event))
          /\ peer' = IF now - event + 1 < Starts + Ends THEN "digit" ELSE "talks"
    /\ UNCHANGED <<lost, doubled, peerPT, call, loop, gaps, stats, read, dtmf, frames, over>>

FollowsOffer ==
    /\ peer \in {"talks", "quiet"} /\ peerPT # pt /\ peerPT' = pt
    /\ UNCHANGED <<now, peer, digitsLeft, event, nextSeq, network, call, loop, gaps, stats, read,
                   dtmf, frames, over>>

\* It sends nothing for longer than any of the loop's deadlines.
FallsSilent ==
    /\ peer \in {"talks", "quiet"} /\ peer' = "silent"
    /\ UNCHANGED <<now, digitsLeft, event, nextSeq, peerPT, network, call, loop, gaps, stats, read,
                   dtmf, frames, over>>

Lose(p) ==
    /\ lost < MaxLost /\ lost' = lost + 1 /\ flight' = flight \ {p}
    /\ UNCHANGED <<source, doubled, call, loop, gaps, stats, read, dtmf, frames, over>>

Double(p) ==
    /\ doubled < MaxDoubled /\ p.copy = 0 /\ doubled' = doubled + 1
    /\ flight' = flight \cup {[p EXCEPT !.copy = 1]}
    /\ UNCHANGED <<source, lost, call, loop, gaps, stats, read, dtmf, frames, over>>

-----------------------------------------------------------------------------
(* The leg: SetHeld, a renegotiation that replaces the decoder, the room.    *)
SetHeld ==
    /\ over = None /\ holds < MaxHolds /\ holds' = holds + 1 /\ held' = ~held
    /\ UNCHANGED <<source, network, offers, pt, loop, gaps, stats, read, dtmf, frames, over>>

Renegotiate ==
    /\ over = None /\ offers < MaxOffers /\ offers' = offers + 1 /\ pt' = pt + 1 /\ inFrames' = <<>>
    /\ UNCHANGED <<source, network, held, holds, loop, gaps, stats, read, dtmf, delivered, over>>

RoomReads ==
    /\ inFrames # <<>> /\ inFrames' = Tail(inFrames)
    /\ UNCHANGED <<source, network, call, loop, gaps, stats, read, dtmf, delivered, over>>

\* The hold timer; a hangup from elsewhere is LegLifecycle's.
HoldExpires ==
    /\ held /\ over = None /\ over' = "hold"
    /\ UNCHANGED <<source, network, call, loop, gaps, stats, read, dtmf, frames>>

-----------------------------------------------------------------------------
(* gapFiller.                                                                *)
GapDue == gaps.synced /\ gaps.filled < MaxFill /\ gaps.dtx

Burst(gap) == IF gap > 0 /\ gap <= MaxBurst THEN gap ELSE 0
IsFilled(gap) == gap < 0 /\ gap >= -MaxFill

\* tick, at time t: every frame due by then, a frame of slack behind.
DueBy(t) == t - gaps.due
Filled(n) == gaps.filled + n
Fill(from, n) == [i \in 1..n |-> [ts |-> from + i - 1, by |-> "gap"]]

\* before, the decoder's turn, and after. What cannot be decoded leaves its
\* hole for the next packet.
Before(g, p) == IF g.synced THEN Burst(p.ts - g.next) ELSE 0
After(g, p) == [g EXCEPT !.synced = TRUE, !.next = p.ts + 1, !.due = now + 1, !.filled = 0,
                         !.dtx = p.kind = "sid"]

-----------------------------------------------------------------------------
(* readLoop. The deadline is set from what holds before the loop blocks.     *)
Arm ==
    /\ loop.at = "arm" /\ over = None
    /\ loop' = [loop EXCEPT !.at = "read",
                            !.armed = IF held THEN "held" ELSE IF GapDue THEN "gap" ELSE "talk"]
    /\ UNCHANGED <<source, network, call, gaps, stats, read, dtmf, frames, over>>

Track(p) ==
    stats' = [received |-> stats.received + 1, last |-> p.seq,
              first |-> IF stats.received = 0 THEN p.seq ELSE stats.first]

\* A telephone-event: its end tells the digit, and its repetitions nothing.
IsNew(p) == p.ts # lastDTMF
HearDigit(p) ==
    /\ IF p.kind = "end" /\ IsNew(p)
         THEN lastDTMF' = p.ts /\ told' = Append(told, p.ts) ELSE UNCHANGED dtmf
    /\ loop' = [loop EXCEPT !.at = "arm"] /\ UNCHANGED gaps

\* Audio, on the live codec. A packet of another payload type is only counted.
HearAudio(p) ==
    LET g == IF gaps.codec = pt THEN gaps ELSE [NoGaps EXCEPT !.codec = pt]
        burst == Before(g, p)
        shown == [g EXCEPT !.next = @ + burst, !.due = @ + burst]
    IN  /\ UNCHANGED dtmf
        /\ IF p.kind = "noise" \/ p.pt # pt
             THEN UNCHANGED gaps /\ loop' = [loop EXCEPT !.at = "arm"]
           ELSE IF g.synced /\ IsFilled(p.ts - g.next)
             THEN gaps' = g /\ loop' = [loop EXCEPT !.at = "arm"]
           ELSE /\ gaps' = IF p.kind = "bad" THEN shown ELSE After(shown, p)
                /\ loop' = [loop EXCEPT
                     !.at = "deliver", !.lc = pt,
                     !.frames = Fill(g.next, burst)
                                \o (IF p.kind = "bad" THEN <<>> ELSE <<[ts |-> p.ts, by |-> "packet"]>>)]

ReadPacket(p) ==
    /\ loop.at = "read" /\ over = None /\ p \in flight /\ flight' = flight \ {p}
    /\ Track(p) /\ read' = read \cup {p}
    /\ IF p.kind \in {"start", "end"} THEN HearDigit(p) ELSE HearAudio(p)
    /\ UNCHANGED <<source, lost, doubled, call, frames, over>>

\* A gap is due: fill what is, unless the decoder was replaced.
FillGaps ==
    /\ loop.at = "read" /\ loop.armed = "gap" /\ over = None
    /\ LET due == IF peer = "silent" /\ flight = {} THEN MaxFill ELSE DueBy(now)
           n == Min({due, MaxFill - gaps.filled})
       IN  /\ n > 0
           /\ IF gaps.codec = pt
                THEN /\ gaps' = [gaps EXCEPT !.next = @ + n, !.due = @ + n, !.filled = Filled(n)]
                     /\ loop' = [loop EXCEPT !.at = "deliver", !.lc = pt, !.frames = Fill(gaps.next, n)]
                ELSE gaps' = NoGaps /\ loop' = [loop EXCEPT !.at = "arm"]
    /\ UNCHANGED <<source, network, call, stats, read, dtmf, frames, over>>

\* deliverInbound: a full channel loses its oldest frame.
Deliver ==
    /\ loop.at = "deliver"
    /\ IF loop.frames = <<>> THEN loop' = [loop EXCEPT !.at = "arm"] /\ UNCHANGED <<inFrames, delivered>>
       ELSE LET f == Head(loop.frames)
            IN  /\ inFrames' = Append(IF Len(inFrames) < Capacity THEN inFrames ELSE Tail(inFrames), f)
                /\ delivered' = Append(delivered, f)
                /\ loop' = [loop EXCEPT !.frames = Tail(@)]
    /\ UNCHANGED <<source, network, call, gaps, stats, read, dtmf, over>>

\* Nothing came until the deadline: the call ends, or the secondary stream.
\* A deadline set while held is later than the hold timer's.
TimesOut ==
    /\ loop.at = "read" /\ over = None /\ peer = "silent" /\ flight = {}
    /\ loop.armed = "talk" \/ (loop.armed = "held" /\ ~held)
    /\ over' = IF ~Primary THEN "closed" ELSE IF held THEN "cutWhileHeld" ELSE "rtpTimeout"
    /\ loop' = [loop EXCEPT !.at = "over"]
    /\ UNCHANGED <<source, network, call, gaps, stats, read, dtmf, frames>>

-----------------------------------------------------------------------------
Reading == Arm \/ (\E p \in flight : ReadPacket(p)) \/ FillGaps \/ Deliver \/ TimesOut

Next ==
    \/ \E kind \in Kinds : Speaks(kind)
    \/ StaysQuiet \/ SendsDigit \/ FollowsOffer \/ FallsSilent
    \/ \E p \in flight : Lose(p) \/ Double(p)
    \/ SetHeld \/ Renegotiate \/ RoomReads \/ HoldExpires \/ Reading

Fairness == WF_vars(Reading)
Spec == Init /\ [][Next]_vars /\ Fairness

-----------------------------------------------------------------------------
TypeOK ==
    /\ now \in 1..(MaxTime + 1) /\ Len(inFrames) <= Capacity
    /\ loop.at \in {"arm", "read", "deliver", "over"} /\ loop.armed \in {None, "held", "gap", "talk"}
    /\ gaps.filled \in 0..MaxFill /\ stats.received = Cardinality(read)
    /\ over \in {None, "hold", "closed", "rtpTimeout", "cutWhileHeld"}

Rising(s) == \A i, j \in DOMAIN s : i < j => s[i] < s[j]
TimesOf(s) == [i \in DOMAIN s |-> s[i].ts]

(* An interval is played once, by its packet or by a fill, and in order,     *)
(* whatever the network loses, doubles or delays by less than gapMaxFill,    *)
(* as long as the decoder is not replaced (gapFiller, readLoop).             *)
IntervalsPlayedOnce == offers = 0 => Rising(TimesOf(delivered)) /\ Rising(TimesOf(inFrames))

(* A packet no later than the slack of a frame is played, and no fill has    *)
(* taken its place (gapSlack, tick).                                         *)
FillsLeaveRoom ==
    MaxDelay <= 1 /\ offers = 0 =>
      \A p \in read : p.kind \in {"audio", "sid"} =>
        [ts |-> p.ts, by |-> "packet"] \in ToSet(delivered) \cup ToSet(loop.frames)

(* A digit is told once, in the order of the digits, and always if an end of *)
(* it arrived (readLoop).                                                    *)
DigitToldOnce ==
    /\ Rising(told)
    /\ {p.ts : p \in {q \in read : q.kind = "end"}} = ToSet(told)

(* Without reordering and doubling, what the statistics call lost is what    *)
(* was sent between the first and the last packet and not read, digits and   *)
(* other payloads included (trackRTPSeq, RTPStats).                          *)
LossIsCounted ==
    LET seqs == {p.seq : p \in read}
    IN  stats.received > 0 /\ stats.first = Min(seqs) /\ stats.last = Max(seqs)
          /\ stats.received = Cardinality(seqs)
        => (stats.last - stats.first) + 1 - stats.received
             = Cardinality((stats.first..stats.last) \ seqs)

(* A call on hold is not ended for want of packets ("The RTP timeout is      *)
(* paused while held").                                                      *)
HeldCallsAreKept == over # "cutWhileHeld"

(* A peer that is gone is noticed: no fill puts the timeout off for ever.    *)
Unnoticed == peer = "silent" /\ over = None /\ ~held
=============================================================================
