---------------------------- MODULE JitterBuffer ----------------------------
(***************************************************************************)
(* The jitter buffer of a received stream (internal/jitter/buffer.go) with *)
(* the network before it and the 20 ms clock that drains it.  Sequence     *)
(* numbers wrap; packets are late, lost and doubled.                       *)
(***************************************************************************)
EXTENDS Integers, Sequences

CONSTANTS
    Modulus,                  \* 2^16 in the code; more than twice MaxLead + Window
    TargetFrames, MaxFrames,
    Window,                   \* bound: how far the network reorders
    MaxLead,                  \* bound: packets in a row that are lost or queued
    MaxSent,                  \* bound: packets sent
    Restarts                  \* the peer may start its numbering anew

NoCursor == -1

VARIABLES
    frames,          \* queued frames, each by its sequence number and true number
    cursor, warming,
    sent, base,      \* packets sent; what the peer adds to their numbers
    flight,          \* packets on their way
    played, due,     \* the last frame played; the one the cursor stands for
    refused          \* the newest packet sent arrived, and was not queued

vars == <<frames, cursor, warming, sent, base, flight, played, due, refused>>

Init ==
    /\ frames = <<>> /\ cursor = NoCursor /\ warming = TRUE
    /\ sent = 0 /\ base = 0 /\ flight = {} /\ played = 0 /\ due = 0
    /\ refused = FALSE

Seq16(n) == (n + base) % Modulus

\* Circular comparison, RFC 1982.
SeqLess(a, b) == a # b /\ (b - a) % Modulus < Modulus \div 2

-----------------------------------------------------------------------------
(* The peer and the network. *)

Send ==
    /\ sent < MaxSent /\ sent - due < MaxLead
    /\ \A n \in flight : sent - n < Window
    /\ sent' = sent + 1 /\ flight' = flight \cup {sent + 1}
    /\ UNCHANGED <<frames, cursor, warming, base, played, due, refused>>

Lose(n) ==
    /\ n \in flight /\ flight' = flight \ {n}
    /\ UNCHANGED <<frames, cursor, warming, sent, base, played, due, refused>>

\* A new source after a transfer in the peer's network: numbers go back.
Restart ==
    /\ Restarts /\ base = 0 /\ flight = {}
    /\ base' = Modulus \div 2
    /\ UNCHANGED <<frames, cursor, warming, sent, flight, played, due, refused>>

-----------------------------------------------------------------------------
(* Buffer.Push *)

Stale(seq) == cursor # NoCursor /\ ~SeqLess(cursor, seq) /\ seq # cursor
Queued(seq) == \E i \in DOMAIN frames : frames[i].seq = seq

\* Behind every frame it follows.
Place(seq) ==
    CHOOSE i \in 0 .. Len(frames) :
        /\ i > 0 => SeqLess(frames[i].seq, seq)
        /\ \A j \in i + 1 .. Len(frames) : ~SeqLess(frames[j].seq, seq)

\* Mutant: frames are queued as they come.
MutInserted(f) == Append(frames, f)

Inserted(f) ==
    LET i == Place(f.seq) IN
    SubSeq(frames, 1, i) \o <<f>> \o SubSeq(frames, i + 1, Len(frames))

Push(n, again) ==
    LET seq == Seq16(n)
        new == Inserted([seq |-> seq, n |-> n])
        over == Len(new) > MaxFrames IN
    /\ n \in flight
    /\ flight' = IF again THEN flight ELSE flight \ {n}
    /\ IF Stale(seq) \/ Queued(seq)
       THEN /\ refused' = (refused \/ (n = sent /\ ~Queued(seq) /\ n > played))
            /\ UNCHANGED <<frames, cursor, warming, due>>
       ELSE /\ frames' = IF over THEN Tail(new) ELSE new
            /\ cursor' = IF over /\ cursor # NoCursor THEN new[2].seq ELSE cursor
            /\ due' = IF over /\ cursor # NoCursor THEN new[2].n ELSE due
            /\ warming' = (warming /\ Len(frames') < TargetFrames)
            /\ UNCHANGED refused
    /\ UNCHANGED <<sent, base, played>>

-----------------------------------------------------------------------------
(* Buffer.Pop, every 20 ms, and Reset, when the codec's rate changes. *)

Pop ==
    LET head == frames[1]
        at == IF cursor = NoCursor THEN head.seq ELSE cursor IN
    /\ ~warming /\ frames # <<>>
    /\ cursor' = (at + 1) % Modulus
    /\ due' = (IF cursor = NoCursor THEN head.n ELSE due) + 1
    /\ IF head.seq = at
       THEN frames' = Tail(frames) /\ played' = head.n
       ELSE UNCHANGED <<frames, played>>
    /\ UNCHANGED <<warming, sent, base, flight, refused>>

\* What is on its way carries the payload type of the old codec.
Reset ==
    /\ frames' = <<>> /\ cursor' = NoCursor /\ warming' = TRUE
    /\ flight' = {} /\ due' = sent
    /\ UNCHANGED <<sent, base, played, refused>>

Next ==
    \/ Send \/ Restart \/ Pop \/ Reset
    \/ \E n \in flight : Lose(n) \/ \E again \in BOOLEAN : Push(n, again)

Spec == Init /\ [][Next]_vars

-----------------------------------------------------------------------------
Frame == [seq : 0 .. Modulus - 1, n : 1 .. MaxSent]

(* The buffer's variables keep their types, and the queue its depth          *)
(* (jitter/buffer.go).                                                       *)
TypeOK ==
    /\ \A i \in DOMAIN frames : frames[i] \in Frame
    /\ Len(frames) <= MaxFrames
    /\ cursor \in {NoCursor} \cup 0 .. Modulus - 1 /\ warming \in BOOLEAN
    /\ sent \in 0 .. MaxSent /\ flight \subseteq 1 .. sent
    /\ played \in 0 .. sent /\ base \in 0 .. Modulus - 1
    /\ refused \in BOOLEAN

(* Whatever the network does to the packets, and across the wrap of their    *)
(* numbers, what is queued will be played in the order it was sent, each     *)
(* frame once and at its own tick (Push and Pop).                            *)
PlaysInOrder ==
    /\ \A i \in DOMAIN frames : frames[i].n > played
    /\ \A i, j \in DOMAIN frames : i < j => frames[i].n < frames[j].n
    /\ cursor # NoCursor /\ frames # <<>> => due <= frames[1].n

(* The newest packet of a stream is never taken for a late one.  Does not    *)
(* hold where the peer starts its numbers anew: nothing resets the cursor,   *)
(* and the leg is silent until they have caught up (Push, sip_leg.go).       *)
NewestIsQueued == ~refused
=============================================================================
