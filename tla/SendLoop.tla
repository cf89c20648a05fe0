------------------------------ MODULE SendLoop ------------------------------
(***************************************************************************)
(* How a stream of a SIP leg sends (leg/sip_leg.go, leg/renegotiate.go,    *)
(* sip/dtmf.go): the room writes frames into a channel, the API writes     *)
(* digits into another, and the write loop makes one packet a tick of one  *)
(* or the other, on the codec that the last negotiation published, chosen  *)
(* from the section the peer offered (sip/sdp.go). Time is counted in      *)
(* ticks of 20 ms, and a timestamp in frames.                              *)
(***************************************************************************)
EXTENDS Naturals, SequencesExt, FiniteSetsExt

CONSTANTS
    None,
    Sections,      \* the audio sections a peer may offer: formats [name, pt, clock]
    Supported,     \* the codecs we have: name to [clock, rate], of RTP and of PCM
    FixedPTs,      \* payload types that stand for a codec whatever their rtpmap says
    AMR,           \* codecs that remember the payload type to send (rtpSendPT)
    First, Preferred,   \* the section the call began with, and its preference
    Capacity,      \* of outFrames and of dtmfCh
    Starts, Ends,  \* packets of a digit: without and with the end bit
    Requests,      \* strings of digits that may be sent; 0 is no digit
    MaxTicks, MaxRequests, MaxHolds, MaxOffers,   \* bounds
    Faults         \* may the socket fail?

VARIABLES
    negotiated, offers,   \* the stream's fields: [type, pt, sendPT, eventPT, rate]
    live,         \* liveCodec: the codec, and whose encoder
    offer,        \* the negotiation: idle, published, drained
    roomRate,     \* the rate the room writes at
    frames, room, \* outFrames, and the room's writer: idle, blocked, closed
    digits, asked,  \* dtmfCh, and all that it accepted
    held, holds, over,
    loop,         \* writeLoop: [at, lc, text, k]
    seq, ts, ticks,
    sent

vars == <<negotiated, offers, live, offer, roomRate, frames, room, digits, asked, held, holds, over,
          loop, seq, ts, ticks, sent>>
codec == <<negotiated, offers, live, offer, roomRate>>
input == <<frames, room, digits, asked>>
call  == <<held, holds, over>>
output == <<seq, ts, ticks, sent>>

(* parseAudioMedia. A codec that is listed twice has the payload type of its *)
(* last format.                                                              *)
CodecOf(f) == IF f.pt \in DOMAIN FixedPTs THEN FixedPTs[f.pt] ELSE f.name

ParseAudio(section) ==
    LET formats == SelectSeq(section, LAMBDA f : CodecOf(f) # "telephone-event")
        last(c) == Max({i \in DOMAIN formats : CodecOf(formats[i]) = c})
    IN  [codecs |-> [i \in DOMAIN formats |-> CodecOf(formats[i])],
         pts |-> [c \in {CodecOf(f) : f \in ToSet(formats)} |-> formats[last(c)].pt],
         events |-> {f \in ToSet(section) : f.name = "telephone-event"}]

\* The preferred codec if both have it, or the peer's first that we have.
NegotiateCodec(media, preferred) ==
    LET common == SelectSeq(media.codecs, LAMBDA c : c \in DOMAIN Supported)
    IN  IF preferred \in ToSet(common) THEN preferred
        ELSE IF common = <<>> THEN None ELSE Head(common)

\* The lowest telephone-event at the codec's clock, or the lowest of any, or 101.
DTMFEventForCodec(media, c) ==
    LET paired == {f \in media.events : f.clock = Supported[c].clock}
        events == IF paired = {} THEN media.events ELSE paired
    IN  IF events = {} THEN 101 ELSE Min({f.pt : f \in events})

\* The stream's fields after an offer, from what they were.
Configured(media, preferred, sendPT) ==
    LET c == NegotiateCodec(media, preferred)
    IN  [type |-> c, pt |-> media.pts[c], sendPT |-> IF c \in AMR THEN media.pts[c] ELSE sendPT,
         eventPT |-> DTMFEventForCodec(media, c), rate |-> Supported[c].rate]

\* snapshotCodec.
SendPT(c) == IF c.sendPT # 0 THEN c.sendPT ELSE c.pt
Live(c, encoder) == [pt |-> SendPT(c), eventPT |-> c.eventPT, rate |-> c.rate, encoder |-> encoder]

FirstCodec == Configured(ParseAudio(First), Preferred, 0)
Waiting == [at |-> "tick", lc |-> None, text |-> <<>>, k |-> 0]

Init ==
    /\ negotiated = FirstCodec /\ offers = 0 /\ live = Live(FirstCodec, FirstCodec.type) /\ offer = "idle"
    /\ roomRate = FirstCodec.rate /\ frames = <<>> /\ room = "idle"
    /\ digits = <<>> /\ asked = <<>>
    /\ held = FALSE /\ holds = 0 /\ over = FALSE
    /\ loop = Waiting /\ seq = 0 /\ ts = 0 /\ ticks = 0 /\ sent = <<>>

-----------------------------------------------------------------------------
(* renegotiateStreamMedia. A payload type of its own needs no new encoder;   *)
(* an encoder that cannot be built leaves the running codec.                 *)
NeedsRebuild(c) == live.encoder # c.type
Changed(c) == NeedsRebuild(c) \/ live.pt # SendPT(c) \/ live.eventPT # c.eventPT

\* A section without a codec we have is refused, and its stream closed (LegStreams).
Negotiate(section, built) ==
    LET media == ParseAudio(section)
        c == Configured(media, None, negotiated.sendPT) IN
    /\ offer = "idle" /\ ~over /\ offers < MaxOffers /\ offers' = offers + 1
    /\ NegotiateCodec(media, None) # None /\ negotiated' = c
    /\ IF Changed(c) /\ (built \/ ~NeedsRebuild(c))
         THEN /\ live' = Live(c, IF NeedsRebuild(c) THEN c.type ELSE live.encoder)
              /\ offer' = IF c.rate # live.rate THEN "published" ELSE "idle"
         ELSE UNCHANGED <<live, offer>>
    /\ UNCHANGED <<roomRate, input, call, loop, output>>

\* What is queued is at the old rate.
Drain ==
    /\ offer = "published" /\ offer' = "drained"
    /\ frames' = <<>> /\ room' = IF room = "blocked" THEN "idle" ELSE room
    /\ UNCHANGED <<negotiated, offers, live, roomRate, digits, asked, call, loop, output>>

\* notifyRateChange: the room rebuilds the leg's media.
RebuildLegMedia ==
    /\ offer = "drained" /\ offer' = "idle" /\ roomRate' = live.rate
    /\ UNCHANGED <<negotiated, offers, live, input, call, loop, output>>

-----------------------------------------------------------------------------
(* sipWriter.Write, a tick of the room: it blocks while the channel is full. *)
RoomWrites ==
    /\ room # "closed" /\ ~over
    /\ IF Len(frames) < Capacity THEN frames' = Append(frames, roomRate) /\ room' = "idle"
                                 ELSE room' = "blocked" /\ UNCHANGED frames
    /\ UNCHANGED <<codec, digits, asked, call, loop, output>>

RoomCloses ==
    /\ over /\ room # "closed" /\ room' = "closed"
    /\ UNCHANGED <<codec, frames, digits, asked, call, loop, output>>

\* SendDTMF: the caller waits for room until its own context ends.
SendDTMF(text) ==
    /\ Len(asked) < MaxRequests /\ Len(digits) < Capacity
    /\ digits' = Append(digits, text) /\ asked' = Append(asked, text)
    /\ UNCHANGED <<codec, frames, room, call, loop, output>>

SetHeld ==
    /\ holds < MaxHolds /\ holds' = holds + 1 /\ held' = ~held
    /\ UNCHANGED <<codec, input, over, loop, output>>

Hangup ==
    /\ ~over /\ over' = TRUE /\ UNCHANGED <<codec, input, held, holds, loop, output>>

-----------------------------------------------------------------------------
(* writeLoop. A tick takes the live codec, whole.                            *)
Wakes ==
    /\ loop.at = "tick" /\ ~over /\ ticks < MaxTicks /\ ticks' = ticks + 1
    /\ loop' = [loop EXCEPT !.at = "woken", !.lc = live]
    /\ UNCHANGED <<codec, input, call, seq, ts, sent>>

\* Held: nothing is sent, and one frame of the room is thrown away.
SkipHeld ==
    /\ loop.at = "woken" /\ held /\ frames' = IF frames = <<>> THEN <<>> ELSE Tail(frames)
    /\ ts' = ts + 1 /\ loop' = Waiting
    /\ UNCHANGED <<codec, room, digits, asked, call, seq, ticks, sent>>

TakeDigits ==
    /\ loop.at = "woken" /\ ~held /\ digits # <<>> /\ digits' = Tail(digits)
    /\ loop' = [loop EXCEPT !.at = "event", !.text = SelectSeq(Head(digits), LAMBDA d : d # 0)]
    /\ UNCHANGED <<codec, frames, room, asked, call, output>>

Packet(kind, pt, rate, digit, end) ==
    [kind |-> kind, seq |-> seq, ts |-> ts, pt |-> pt, rate |-> rate, digit |-> digit,
     end |-> end, for |-> loop.lc]
Send(packet) == sent' = Append(sent, packet) /\ seq' = seq + 1

(* GenerateDTMFPackets, one packet at a time: the packets of a digit bear    *)
(* the timestamp of its first, and the last of them lets time go on.         *)
AfterEvent(t) == t + Starts + Ends

SendEvent ==
    /\ loop.at = "event" /\ loop.text # <<>> /\ ~over
    /\ Send(Packet("event", loop.lc.eventPT, loop.lc.rate, Head(loop.text), loop.k >= Starts))
    /\ IF loop.k + 1 < Starts + Ends THEN loop' = [loop EXCEPT !.k = @ + 1] /\ UNCHANGED ts
       ELSE loop' = [loop EXCEPT !.k = 0, !.text = Tail(@)] /\ ts' = AfterEvent(ts)
    /\ UNCHANGED <<codec, input, call, ticks>>

DigitsSent ==
    /\ loop.at = "event" /\ loop.text = <<>> /\ loop' = Waiting
    /\ UNCHANGED <<codec, input, call, output>>

PT == loop.lc.pt

\* A frame sized for another rate is replaced by silence of the right size.
Rate(rate) == loop.lc.rate

\* The encoder may have nothing to send for a frame (DTX).
SendFrame(silent) ==
    /\ loop.at = "woken" /\ ~held /\ digits = <<>>
    /\ LET rate == IF frames = <<>> THEN loop.lc.rate ELSE Head(frames)
       IN  IF silent THEN UNCHANGED <<seq, sent>>
           ELSE Send(Packet("audio", PT, Rate(rate), 0, FALSE))
    /\ frames' = IF frames = <<>> THEN <<>> ELSE Tail(frames)
    /\ ts' = ts + 1 /\ loop' = Waiting
    /\ UNCHANGED <<codec, room, digits, asked, call, ticks>>

\* The context is cancelled, or a write fails: the loop ends, its leg does not.
LoopEnds ==
    /\ \/ loop.at \in {"tick", "event"} /\ over
       \/ loop.at \in {"woken", "event"} /\ Faults
    /\ loop' = [Waiting EXCEPT !.at = "over"]
    /\ UNCHANGED <<codec, input, call, output>>

-----------------------------------------------------------------------------
Loop == Wakes \/ SkipHeld \/ TakeDigits \/ SendEvent \/ DigitsSent
        \/ (\E silent \in BOOLEAN : SendFrame(silent)) \/ LoopEnds

Next ==
    \/ \E section \in Sections, built \in BOOLEAN : Negotiate(section, built)
    \/ Drain \/ RebuildLegMedia \/ RoomWrites \/ RoomCloses
    \/ \E text \in Requests : SendDTMF(text)
    \/ SetHeld \/ Hangup \/ Loop

Fairness == WF_vars(Loop) /\ WF_vars(RoomWrites \/ RoomCloses)

Spec == Init /\ [][Next]_vars /\ Fairness

-----------------------------------------------------------------------------
TypeOK ==
    /\ {negotiated.type, live.encoder} \subseteq DOMAIN Supported
    /\ negotiated.rate = Supported[negotiated.type].rate
    /\ offer \in {"idle", "published", "drained"} /\ room \in {"idle", "blocked", "closed"}
    /\ Len(frames) <= Capacity /\ Len(digits) <= Capacity
    /\ loop.at \in {"tick", "woken", "event", "over"} /\ loop.k < Starts + Ends
    /\ seq = Len(sent) /\ held \in BOOLEAN /\ over \in BOOLEAN

(* A packet bears a payload type under which the peer offered the codec that *)
(* encoded it, or a telephone-event of the same offer, and the encoder was   *)
(* given a frame of its own rate: a renegotiation in the middle of a tick    *)
(* changes neither (writeLoop, renegotiateStreamMedia).  Does not hold with  *)
(* AMR: rtpSendPT, of which media_stream.go:49-52 says "0 means 'use rtpPT'  *)
(* (the symmetric case for all other codecs)", is not cleared when an AMR    *)
(* stream is renegotiated to another codec.                                  *)
Bears(p, section) ==
    LET c == p.for.encoder IN
    /\ \E f \in ToSet(section) : f.name = c /\ (p.kind = "audio" => f.pt = p.pt)
    /\ p.kind = "event" =>
         \/ \E f \in ToSet(section) : f.name = "telephone-event" /\ f.pt = p.pt
         \/ p.pt = 101 /\ \A f \in ToSet(section) : f.name # "telephone-event"

EncodedAsNegotiated ==
    \A i \in DOMAIN sent :
      /\ sent[i].rate = Supported[sent[i].for.encoder].rate
      /\ \E section \in Sections \cup {First} : Bears(sent[i], section)

(* The packets are numbered without a gap, time goes on from one to the next *)
(* but within a digit, which has one timestamp of its own, its packets in    *)
(* a row and its end repeated (writeLoop, GenerateDTMFPackets).              *)
StreamIsContiguous ==
    \A i \in DOMAIN sent :
      /\ sent[i].seq = i - 1
      /\ i > 1 =>
           LET p == sent[i - 1]  q == sent[i]
               within == p.kind = "event" /\ (~p.end \/ (q.ts = p.ts /\ q.kind = "event"))
           IN  IF within THEN q.kind = "event" /\ q.ts = p.ts /\ q.digit = p.digit /\ (p.end => q.end)
                         ELSE q.ts > p.ts

(* The digits that were accepted are sent in their order and each once: the  *)
(* first packet of each stands for it (SendDTMF, writeLoop).                 *)
DigitsAreSent ==
    LET first == SelectSeq([i \in DOMAIN sent |->
                              IF sent[i].kind = "event"
                                 /\ (i = 1 \/ sent[i - 1].kind = "audio" \/ sent[i - 1].ts # sent[i].ts)
                              THEN sent[i].digit ELSE 0], LAMBDA d : d # 0)
        wanted == SelectSeq(FlattenSeq(asked), LAMBDA d : d # 0)
    IN  IsPrefix(first, wanted)

(* A room whose mixer waits for this leg is let go, held or not: whether the *)
(* loop sends digits, drains or ends with its leg. (Not with Faults: a loop  *)
(* that failed to write is gone and its leg lives on.)                       *)
MixerWaits == room = "blocked" /\ ticks < MaxTicks
=============================================================================
