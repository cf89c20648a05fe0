---------------------------- MODULE PlayoutBuffer ----------------------------
(***************************************************************************)
(* The buffer between a leg's receive loop and the mixer: of a WebSocket   *)
(* with a playout lead or without (wsmedia/streambuf.go, drift.go), and    *)
(* of MoQ and LiveKit, which have none (moqmedia, lkmedia streambuf.go).   *)
(* Audio is a sequence of units, Frame of them to a frame; a unit is its   *)
(* place in what was written and whether it is below the speech floor.     *)
(***************************************************************************)
EXTENDS Integers, SequencesExt

CONSTANTS
    Frame,     \* units in a frame
    Capacity,  \* cap, in units
    Lead,      \* playoutBytes, whole frames below the capacity; 0: no jitter buffering
    Blocking,  \* Read waits for a frame; else LiveKit's tryRead
    MaxConceal, MaxInsert,  \* maxConcealFrames, maxInsertRun
    MaxUnits,  \* bound: units written
    MaxReads   \* bound: frames handed out

VARIABLES
    buf, closed, warming,
    last,      \* lastFrame is set
    conceal, insert,   \* concealRun, insertRun
    reader,    \* where a Read stands: idle, warm, short, rewarm, take, eof
    written, loud,     \* units written, and those of them above the floor
    lost,      \* units dropped on overflow
    trimmed,   \* units discarded because they ran ahead
    out        \* what Reads returned: per frame its units, none for an invented one

vars == <<buf, closed, warming, last, conceal, insert, reader, written, loud, lost, trimmed, out>>
inVars  == <<closed, written, loud, lost>>
runVars == <<last, conceal, insert>>

Init ==
    /\ buf = <<>> /\ closed = FALSE /\ warming = (Lead > 0) /\ last = FALSE
    /\ conceal = 0 /\ insert = 0 /\ reader = "idle"
    /\ written = 0 /\ loud = {} /\ lost = {} /\ trimmed = {} /\ out = <<>>

-----------------------------------------------------------------------------
(* Write: all of it or, past the capacity, nothing. *)
Units(n) == [i \in 1 .. n |-> written + i]

Write(n, speech) ==
    /\ ~closed /\ written + n <= MaxUnits
    /\ written' = written + n
    /\ loud' = IF speech THEN loud \cup ToSet(Units(n)) ELSE loud
    /\ IF Len(buf) + n > Capacity
         THEN lost' = lost \cup ToSet(Units(n)) /\ UNCHANGED buf
         ELSE buf' = buf \o Units(n) /\ UNCHANGED lost
    /\ UNCHANGED <<closed, warming, runVars, reader, trimmed, out>>

Close ==
    /\ ~closed /\ closed' = TRUE
    /\ UNCHANGED <<buf, warming, runVars, reader, written, loud, lost, trimmed, out>>

-----------------------------------------------------------------------------
(* Read. *)

Quiet(units) == ToSet(units) \cap loud = {}
Foremost == SubSeq(buf, 1, Frame)
Rest(n) == SubSeq(buf, n + 1, Len(buf))
Less(n) == IF Len(buf) < n THEN Len(buf) ELSE n

TrimAbove   == Lead + (IF Lead \div 2 < 2 * Frame THEN 2 * Frame ELSE Lead \div 2)
InsertBelow == IF Lead - Frame > Frame THEN Lead - Frame ELSE Frame

Goto(pc) == reader' = pc
Returns(units) == out' = Append(out, units) /\ Goto("idle")

\* awaitSlot paces the Reads; each waits as its kind does.
Read ==
    /\ reader = "idle" /\ Len(out) < MaxReads
    /\ Goto(CASE Lead > 0 /\ warming -> "warm" [] Lead > 0 /\ ~warming -> "level"
              [] OTHER -> "pass")
    /\ UNCHANGED <<buf, inVars, warming, runVars, trimmed, out>>

EOF ==
    /\ reader \in {"pass", "level", "short", "rewarm"} /\ closed /\ buf = <<>> /\ Goto("eof")
    /\ UNCHANGED <<buf, inVars, warming, runVars, trimmed, out>>

\* readPassthrough, and the Reads of MoQ and LiveKit: what is left, on close.
PassThrough ==
    /\ Lead = 0 /\ Blocking /\ reader = "pass" /\ buf # <<>> /\ (Len(buf) >= Frame \/ closed)
    /\ Returns(SubSeq(buf, 1, Less(Frame))) /\ buf' = Rest(Less(Frame))
    /\ UNCHANGED <<inVars, warming, runVars, trimmed>>

\* tryRead: a whole frame or nothing, and what is left when closed is lost.
TryRead ==
    /\ ~Blocking /\ reader = "pass"
    /\ CASE Len(buf) >= Frame -> Returns(Foremost) /\ buf' = Rest(Frame)
         [] Len(buf) < Frame /\ closed -> Goto("eof") /\ UNCHANGED <<buf, out>>
         [] OTHER -> Goto("idle") /\ UNCHANGED <<buf, out>>
    /\ UNCHANGED <<inVars, warming, runVars, trimmed>>

\* The lead is accumulated once, whole.
Warm ==
    /\ reader = "warm" /\ (closed \/ Len(buf) >= Lead) /\ Goto("level")
    /\ warming' = closed
    /\ UNCHANGED <<buf, inVars, runVars, trimmed, out>>

\* mutant: a partial frame left at close is not handed out.
MutDrainTail == Goto("eof") /\ buf' = <<>> /\ UNCHANGED out

DrainTail == Returns(buf) /\ buf' = <<>>

TailLeft ==
    /\ reader \in {"level", "short", "rewarm"} /\ closed /\ buf # <<>> /\ Len(buf) < Frame
    /\ DrainTail
    /\ UNCHANGED <<inVars, warming, runVars, trimmed>>

\* The buffer ran dry: a few frames are invented, and then it waits.
MutConceals == last       \* mutant: invents frames without end

Conceals == conceal < MaxConceal /\ last

Underrun ==
    /\ reader = "level" /\ ~closed /\ Len(buf) < Frame
    /\ IF Conceals THEN Returns(<<>>) /\ conceal' = conceal + 1
                   ELSE Goto("short") /\ UNCHANGED <<conceal, out>>
    /\ UNCHANGED <<buf, inVars, warming, last, insert, trimmed>>

\* After a long wait the lead is accumulated again.
WaitedShort(long) ==
    /\ reader = "short" /\ Len(buf) >= Frame /\ Goto(IF long /\ ~closed THEN "rewarm" ELSE "take")
    /\ UNCHANGED <<buf, inVars, warming, runVars, trimmed, out>>

Rewarmed ==
    /\ reader = "rewarm" /\ Len(buf) >= Frame /\ (closed \/ Len(buf) >= Lead) /\ Goto("take")
    /\ UNCHANGED <<buf, inVars, warming, runVars, trimmed, out>>

Enough ==
    /\ reader = "level" /\ Len(buf) >= Frame /\ Goto("take")
    /\ UNCHANGED <<buf, inVars, warming, runVars, trimmed, out>>

\* Ahead, a quiet frame is dropped; behind, one is repeated.
MutTrims == Len(buf) >= TrimAbove + Frame      \* mutant: drops speech as well

Trims == Len(buf) >= TrimAbove + Frame /\ Quiet(Foremost)

Take ==
    /\ reader = "take" /\ conceal' = 0 /\ last' = TRUE
    /\ LET left    == IF Trims THEN Rest(Frame) ELSE buf
           frame   == SubSeq(left, 1, Frame)
           repeats == insert < MaxInsert /\ Len(left) <= InsertBelow /\ Quiet(frame)
       IN  /\ trimmed' = IF Trims THEN trimmed \cup ToSet(Foremost) ELSE trimmed
           /\ Returns(frame)
           /\ insert' = IF repeats THEN insert + 1 ELSE 0
           /\ buf' = IF repeats THEN left ELSE SubSeq(left, Frame + 1, Len(left))
    /\ UNCHANGED <<inVars, warming>>

-----------------------------------------------------------------------------
Reads == \/ Read \/ EOF \/ PassThrough \/ TryRead \/ Warm \/ TailLeft \/ Underrun
         \/ Rewarmed \/ Enough \/ Take
         \/ \E long \in BOOLEAN : WaitedShort(long)

Next == \/ Reads \/ Close
        \/ \E n \in 1 .. Frame, speech \in BOOLEAN : Write(n, speech)

Spec == Init /\ [][Next]_vars

-----------------------------------------------------------------------------
(* Every variable keeps its type, and the buffer its capacity.               *)
TypeOK ==
    /\ Len(buf) <= Capacity /\ {closed, warming, last} \subseteq BOOLEAN
    /\ conceal \in 0 .. MaxConceal /\ insert \in 0 .. MaxInsert
    /\ reader \in {"idle", "pass", "warm", "level", "short", "rewarm", "take", "eof"}
    /\ written \in 0 .. MaxUnits /\ (loud \cup lost \cup trimmed) \subseteq 1 .. MaxUnits

Played == UNION {ToSet(out[i]) : i \in DOMAIN out}

(* Speech that was accepted is played once and in order, or is waiting to    *)
(* be; only quiet frames are dropped or repeated, and what is left at close  *)
(* is played before the end (streambuf.go:108-112).                          *)
SpeechIsPlayed ==
    /\ loud \ lost = (ToSet(buf) \cup Played) \cap loud
    /\ trimmed \cap loud = {}
    /\ \A i, j \in DOMAIN out : i < j =>
          \/ out[i] = out[j] /\ Quiet(out[i])
          \/ \A x \in ToSet(out[i]), y \in ToSet(out[j]) : x < y
    /\ \A i \in DOMAIN buf, x \in Played : buf[i] \in loud => x < buf[i]
    /\ Blocking /\ reader = "eof" => buf = <<>>

(* No more frames in a row are invented than the bound, and none before      *)
(* audio was played (drift.go maxConcealFrames).                             *)
InventsLittle ==
    \A i \in DOMAIN out : out[i] = <<>> =>
        /\ out[1] # <<>>
        /\ \E j \in i .. i + MaxConceal : j > Len(out) \/ out[j] # <<>>
=============================================================================
