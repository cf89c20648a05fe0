------------------------------- MODULE Conduit -------------------------------
(***************************************************************************)
(* The duplex in-memory conduit that joins two room mixers                 *)
(* (internal/bridge/conduit.go).  Each direction is a bounded channel with *)
(* one writing goroutine (the mixer's writeLoop) and one reading goroutine *)
(* (the peer mixer's readLoop); the two directions share one close signal. *)
(* A frame is its serial number; FrameLen units are read ReadLen at a time.*)
(***************************************************************************)
EXTENDS Naturals, Sequences

CONSTANTS Dirs,       \* the two directions, A to B and B to A
          BufFrames,  \* depth of each channel (bufFrames)
          FrameLen,   \* units in a frame
          ReadLen,    \* units a Read asks for
          MaxFrames   \* bound: frames written per direction

ASSUME ConduitAssumption ==
    /\ BufFrames \in Nat \ {0} /\ FrameLen \in Nat \ {0}
    /\ ReadLen \in Nat \ {0} /\ MaxFrames \in Nat

VARIABLES
    chan,     \* frames buffered, per direction, oldest first
    rbuf,     \* the frame partly read and the units of it left over
    serial,   \* serial number of the newest frame handed to Write
    writer,   \* where the writing goroutine stands in Write
    reader,   \* "reading", or "exited" after io.EOF
    taken,    \* the newest frame a Read took off the channel
    closing   \* "open", then "stored" (st is set), then "closed" (done closed)

vars == <<chan, rbuf, serial, writer, reader, taken, closing>>

NoRest == [frame |-> 0, left |-> 0]

Init ==
    /\ chan = [d \in Dirs |-> <<>>]
    /\ rbuf = [d \in Dirs |-> NoRest]
    /\ serial = [d \in Dirs |-> 0]
    /\ writer = [d \in Dirs |-> "idle"]
    /\ reader = [d \in Dirs |-> "reading"]
    /\ taken = [d \in Dirs |-> 0]
    /\ closing = "open"

(* Write: the frame is refused once st is set, else it is offered. *)
WriteLoad(d) ==
    /\ writer[d] = "idle" /\ serial[d] < MaxFrames
    /\ \/ /\ closing # "open"
          /\ writer' = [writer EXCEPT ![d] = "exited"]
          /\ UNCHANGED serial
       \/ /\ closing = "open"
          /\ writer' = [writer EXCEPT ![d] = "offer"]
          /\ serial' = [serial EXCEPT ![d] = @ + 1]
    /\ UNCHANGED <<chan, rbuf, reader, taken, closing>>

Full(d) == Len(chan[d]) >= BufFrames

MutDeliverFirst(d) ==   \* mutant: the new frame jumps the queue
    /\ chan' = [chan EXCEPT ![d] = IF Full(d) THEN @ ELSE <<serial[d]>> \o @]
    /\ writer' = [writer EXCEPT ![d] = "idle"]

(* The frame goes into a free slot; without one it is lost (default:). *)
Deliver(d) ==
    /\ chan' = [chan EXCEPT ![d] = IF Full(d) THEN @ ELSE Append(@, serial[d])]
    /\ writer' = [writer EXCEPT ![d] = "idle"]

SeeDone(d) ==
    /\ closing = "closed"
    /\ writer' = [writer EXCEPT ![d] = "exited"]
    /\ UNCHANGED chan

MutOfferLosesNewest(d) ==   \* mutant: a full buffer refuses the new frame
    /\ writer[d] = "offer"
    /\ Deliver(d) \/ SeeDone(d)
    /\ UNCHANGED <<rbuf, serial, reader, taken, closing>>

(* A select that finds both done and a free slot ready picks either. *)
WriteOffer(d) ==
    /\ writer[d] = "offer"
    /\ \/ ~ Full(d) /\ Deliver(d)
       \/ SeeDone(d)
       \/ /\ Full(d) /\ closing # "closed"
          /\ writer' = [writer EXCEPT ![d] = "drop"]
          /\ UNCHANGED chan
    /\ UNCHANGED <<rbuf, serial, reader, taken, closing>>

WriteDropOldest(d) ==
    /\ writer[d] = "drop"
    /\ chan' = [chan EXCEPT ![d] = IF @ = <<>> THEN @ ELSE Tail(@)]
    /\ writer' = [writer EXCEPT ![d] = "retry"]
    /\ UNCHANGED <<rbuf, serial, reader, taken, closing>>

WriteRetry(d) ==
    /\ writer[d] = "retry"
    /\ \/ Deliver(d) /\ ~ (closing = "closed" /\ Full(d))
       \/ SeeDone(d)
    /\ UNCHANGED <<rbuf, serial, reader, taken, closing>>

(* Read: leftovers first, then whichever of a frame and done is ready. *)
MutRestPastEnd(f, left) == [frame |-> f, left |-> left - ReadLen]

Rest(f, left) ==
    IF left > ReadLen THEN [frame |-> f, left |-> left - ReadLen] ELSE NoRest

ReadRest(d) ==
    /\ reader[d] = "reading" /\ rbuf[d].left > 0
    /\ rbuf' = [rbuf EXCEPT ![d] = Rest(@.frame, @.left)]
    /\ UNCHANGED <<chan, serial, writer, reader, taken, closing>>

MutReadOverLeftover(d) ==   \* mutant: rbuf is overwritten before it is empty
    /\ reader[d] = "reading" /\ chan[d] # <<>>
    /\ rbuf' = [rbuf EXCEPT ![d] = Rest(Head(chan[d]), FrameLen)]
    /\ taken' = [taken EXCEPT ![d] = Head(chan[d])]
    /\ chan' = [chan EXCEPT ![d] = Tail(@)]
    /\ UNCHANGED <<serial, writer, reader, closing>>

ReadFrame(d) ==
    /\ reader[d] = "reading" /\ rbuf[d].left = 0 /\ chan[d] # <<>>
    /\ rbuf' = [rbuf EXCEPT ![d] = Rest(Head(chan[d]), FrameLen)]
    /\ taken' = [taken EXCEPT ![d] = Head(chan[d])]
    /\ chan' = [chan EXCEPT ![d] = Tail(@)]
    /\ UNCHANGED <<serial, writer, reader, closing>>

ReadEOF(d) ==
    /\ reader[d] = "reading" /\ rbuf[d].left = 0 /\ closing = "closed"
    /\ reader' = [reader EXCEPT ![d] = "exited"]
    /\ UNCHANGED <<chan, rbuf, serial, writer, taken, closing>>

(* Close, from either endpoint: once.Do sets st and then closes done. *)
CloseStore ==
    /\ closing = "open"
    /\ closing' = "stored"
    /\ UNCHANGED <<chan, rbuf, serial, writer, reader, taken>>

CloseDone ==
    /\ closing = "stored"
    /\ closing' = "closed"
    /\ UNCHANGED <<chan, rbuf, serial, writer, reader, taken>>

Write(d) == WriteLoad(d) \/ WriteOffer(d) \/ WriteDropOldest(d) \/ WriteRetry(d)
Read(d) == ReadRest(d) \/ ReadFrame(d) \/ ReadEOF(d)

Next == CloseStore \/ CloseDone \/ \E d \in Dirs : Write(d) \/ Read(d)

Spec == Init /\ [][Next]_vars

(* Both mixers' loops keep running, and a Close that began completes. *)
Fairness ==
    /\ WF_vars(CloseDone)
    /\ \A d \in Dirs : WF_vars(Write(d)) /\ WF_vars(Read(d))

FairSpec == Spec /\ Fairness
-----------------------------------------------------------------------------
TypeOK ==
    /\ chan \in [Dirs -> Seq(1..MaxFrames)]
    /\ rbuf \in [Dirs -> [frame : 0..MaxFrames, left : 0..FrameLen]]
    /\ serial \in [Dirs -> 0..MaxFrames]
    /\ writer \in [Dirs -> {"idle", "offer", "drop", "retry", "exited"}]
    /\ reader \in [Dirs -> {"reading", "exited"}]
    /\ taken \in [Dirs -> 0..MaxFrames]
    /\ closing \in {"open", "stored", "closed"}

(* Backpressure never reorders audio: whatever is buffered is in the order *)
(* it was written, and all of it is newer than anything Read has returned. *)
FramesInOrder ==
    \A d \in Dirs : \A i, j \in 1..Len(chan[d]) :
        /\ taken[d] < chan[d][i]
        /\ i < j => chan[d][i] < chan[d][j]

(* "drops the oldest frame under backpressure": the frame Write just handed *)
(* over is never the one lost, so between two Writes it is buffered or read.*)
NewestNeverDropped ==
    \A d \in Dirs :
        writer[d] = "idle" =>
            serial[d] = (IF chan[d] = <<>> THEN taken[d]
                         ELSE chan[d][Len(chan[d])])

(* The leftover of a frame is read to its end before another frame starts. *)
NoTornFrame ==
    [][\A d \in Dirs : rbuf[d].left > 0 =>
          /\ taken'[d] = taken[d]
          /\ rbuf'[d].left > 0 => rbuf'[d].frame = rbuf[d].frame]_vars

(* Closing one endpoint unblocks the Read parked on the other.             *)
CloseEndsReads == \A d \in Dirs : closing # "open" ~> reader[d] = "exited"
=============================================================================
