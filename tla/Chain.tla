------------------------------- MODULE Chain -------------------------------
(***************************************************************************)
(* A leg's audio on its way into a room (audiofilter/chain.go,             *)
(* room/room.go): a reader pulls from the leg, runs its filters block by   *)
(* block and shows what it puts out to observers; the filters are replaced *)
(* under a fade while audio flows; and a renegotiated rate replaces the    *)
(* whole reader. Samples are numbered by the source. Filters are known by  *)
(* the length of their block alone.                                        *)
(***************************************************************************)
EXTENDS Naturals, SequencesExt

CONSTANTS
    None,
    Blocks,       \* lengths of block that filters may ask for
    Extra,        \* samples a source read may bring beyond a block
    FadeSteps,    \* of the ramp
    Observers,
    MaxSamples, MaxSets, MaxReaders,   \* bounds
    Overlap       \* may a rebuild come between the lookup of a reader and its use?

Readers == 1..MaxReaders

VARIABLES
    next, ended,     \* the leg's audio: the next sample; it is over
    reader,          \* audiofilter.Reader, None where there is none yet
    loop, chunk,     \* its read loop in the mixer: idle, parked, got, over; what it read
    current,         \* the room's reader of the leg
    block, closed,   \* chains: of each the block; those whose stages are released
    setter, asked, sets,   \* SetLegFilters: [reader, block]; the last it set
    heard, shown     \* what the room was given, and what each observer

vars == <<next, ended, reader, loop, chunk, current, block, closed, setter, asked, sets, heard, shown>>
source == <<next, ended>>
room == <<reader, loop, current>>
chains == <<block, closed>>
call == <<setter, asked, sets>>
results == <<heard, shown>>

\* Build: the chain c runs from the start, at full gain.
Build(c) == [c |-> c, pending |-> None, fade |-> FadeSteps, fadingOut |-> FALSE, acc |-> <<>>,
             out |-> <<>>, done |-> FALSE, observers |-> {}, released |-> {}, lost |-> 0]

Init ==
    /\ next = 1 /\ ended = FALSE
    /\ \E b \in Blocks : block = <<b>> /\ asked = b
    /\ reader = [g \in Readers |-> IF g = 1 THEN Build(1) ELSE None]
    /\ loop = [g \in Readers |-> IF g = 1 THEN "idle" ELSE "none"]
    /\ chunk = [g \in Readers |-> <<>>] /\ current = 1 /\ closed = {}
    /\ setter = None /\ sets = 0 /\ heard = <<>> /\ shown = [o \in Observers |-> <<>>]

Filters(r) == block[IF r.pending # None THEN r.pending ELSE r.c]

-----------------------------------------------------------------------------
(* The read goroutine's steps on a reader, under its lock.                   *)

\* swapPending. lost tells that more than a block of input went with it.
Swap(r) ==
    IF r.pending = None THEN [r EXCEPT !.fadingOut = FALSE]
    ELSE [r EXCEPT !.c = r.pending, !.pending = None, !.fadingOut = FALSE, !.acc = <<>>,
                   !.released = @ \cup {r.c},
                   !.lost = IF Len(r.acc) < block[r.c] + Extra THEN @ ELSE 1]

\* applyFade, for one sample of the output.
Ramp(r) ==
    IF r.fadingOut THEN LET s == [r EXCEPT !.fade = IF @ > 0 THEN @ - 1 ELSE 0]
                        IN  IF s.fade = 0 THEN Swap(s) ELSE s
    ELSE IF r.fade < FadeSteps THEN [r EXCEPT !.fade = @ + 1] ELSE r

EmitSample(r, s) == Ramp([r EXCEPT !.out = Append(@, [sample |-> s, gain |-> r.fade])])
Emit(r, samples) == FoldLeft(EmitSample, r, samples)

\* drain: whole blocks, on the chain that runs when each begins.
EmitBlock(r, k) ==
    LET b == block[r.c]
    IN  IF Len(r.acc) < b THEN r
        ELSE Emit([r EXCEPT !.acc = SubSeq(@, b + 1, Len(@))], SubSeq(r.acc, 1, b))
Drain(r) == FoldLeft(EmitBlock, r, [k \in 1..Len(r.acc) |-> k])

Feed(r, samples) == Drain([r EXCEPT !.acc = @ \o samples])

\* flush: the trailing part of a block.
Flush(r) == [Emit([r EXCEPT !.acc = <<>>], r.acc) EXCEPT !.acc = <<>>, !.done = TRUE]

\* appendOut: the observers are given what is new in the output.
Publish(g, r) ==
    /\ reader' = [reader EXCEPT ![g] = [r EXCEPT !.released = {}]]
    /\ closed' = closed \cup r.released
    /\ LET new == SubSeq(r.out, Len(reader[g].out) + 1, Len(r.out))
       IN  shown' = [o \in Observers |-> IF o \in r.observers THEN shown[o] \o new ELSE shown[o]]

-----------------------------------------------------------------------------
(* Reader.Read, in the mixer's read loop. Output that is there is returned   *)
(* first; the loop of a participant that was removed ends with it.           *)
Return(g) ==
    /\ loop[g] = "idle" /\ reader[g].out # <<>>
    /\ IF g = current THEN heard' = heard \o reader[g].out /\ UNCHANGED loop
                      ELSE loop' = [loop EXCEPT ![g] = "over"] /\ UNCHANGED heard
    /\ reader' = [reader EXCEPT ![g].out = <<>>]
    /\ UNCHANGED <<source, chunk, current, chains, call, shown>>

Park(g) ==
    /\ loop[g] = "idle" /\ reader[g].out = <<>>
    /\ loop' = [loop EXCEPT ![g] = IF reader[g].done THEN "over" ELSE "parked"]
    /\ UNCHANGED <<source, reader, chunk, current, chains, call, results>>

\* The leg's reader yields as much as it has, and at its end nothing.
SourceYields(g, n) ==
    /\ loop[g] = "parked" /\ n <= block[reader[g].c] + Extra
    /\ IF ended THEN n = 0 ELSE n > 0
    /\ next + n <= MaxSamples + 1
    /\ chunk' = [chunk EXCEPT ![g] = [i \in 1..n |-> next + i - 1]] /\ next' = next + n
    /\ loop' = [loop EXCEPT ![g] = "got"]
    /\ UNCHANGED <<ended, reader, current, chains, call, results>>

Process(g) ==
    /\ loop[g] = "got" /\ loop' = [loop EXCEPT ![g] = "idle"] /\ chunk' = [chunk EXCEPT ![g] = <<>>]
    /\ Publish(g, IF chunk[g] = <<>> THEN Flush(reader[g]) ELSE Feed(reader[g], chunk[g]))
    /\ UNCHANGED <<source, current, block, call, heard>>

LegEnds ==
    /\ ~ended /\ ended' = TRUE
    /\ UNCHANGED <<next, room, chunk, chains, call, results>>

-----------------------------------------------------------------------------
(* SetLegFilters: the room's reader is looked up under the room's lock and   *)
(* used without it.                                                          *)
FindReader(b) ==
    /\ setter = None /\ sets < MaxSets /\ sets' = sets + 1
    /\ setter' = [reader |-> current, block |-> b]
    /\ UNCHANGED <<source, room, chunk, chains, asked, results>>

\* The chain is staged in place of another that was.
Stage(r, c) == [r EXCEPT !.pending = c, !.fadingOut = TRUE]

\* mutant: a chain that was superseded keeps its stages.
MutSuperseded(r) == {}
Superseded(r) == IF r.pending # None THEN {r.pending} ELSE {}

SetFilters ==
    /\ setter # None /\ setter' = None /\ asked' = setter.block
    /\ block' = Append(block, setter.block)
    /\ LET g == setter.reader
       IN  /\ reader' = [reader EXCEPT ![g] = Stage(@, Len(block) + 1)]
           /\ closed' = closed \cup Superseded(reader[g])
    /\ UNCHANGED <<source, loop, chunk, current, sets, results>>

\* SetLegAudioObserver.
SetObserver(o) ==
    /\ LET r == reader[current]
       IN  reader' = [reader EXCEPT ![current].observers =
                        IF o \in @ THEN @ \ {o} ELSE @ \cup {o}]
    /\ UNCHANGED <<source, loop, chunk, current, chains, call, results>>

(* RebuildLegMedia: the participant goes, the reader's chains are released,  *)
(* though its loop may be parked in the leg's audio, and a new reader takes  *)
(* over what ran and who observed.                                           *)
RebuildLegMedia ==
    /\ current < MaxReaders /\ (Overlap \/ setter = None) /\ ~ended
    /\ LET r == reader[current]  c == Len(block) + 1
       IN  /\ block' = Append(block, Filters(r))
           /\ closed' = closed \cup {r.c} \cup Superseded(r)
           /\ reader' = [reader EXCEPT ![current].pending = None,
                                       ![current + 1] = [Build(c) EXCEPT !.observers = r.observers]]
    /\ loop' = [loop EXCEPT ![current + 1] = "idle"] /\ current' = current + 1
    /\ UNCHANGED <<source, chunk, call, results>>

-----------------------------------------------------------------------------
Next ==
    \/ \E g \in Readers : \/ Return(g) \/ Park(g) \/ Process(g)
                          \/ \E n \in 0..MaxSamples : SourceYields(g, n)
    \/ LegEnds \/ (\E b \in Blocks : FindReader(b)) \/ SetFilters
    \/ (\E o \in Observers : SetObserver(o)) \/ RebuildLegMedia

Spec == Init /\ [][Next]_vars

-----------------------------------------------------------------------------
TypeOK ==
    /\ next \in 1..(MaxSamples + 1) /\ current \in Readers /\ closed \subseteq DOMAIN block
    /\ \A g \in Readers : reader[g] # None =>
         reader[g].fade \in 0..FadeSteps /\ reader[g].c \in DOMAIN block

InOrder(s) == \A i, j \in DOMAIN s : i < j => s[i].sample < s[j].sample

(* The room hears the leg in order and nothing twice, across changes of the  *)
(* filters and of the reader; a change costs the input that had not filled a *)
(* block, and nothing that was filtered; and the gain goes up and down a     *)
(* step at a time, so that no change is a click (applyFade, swapPending).    *)
HeardInOrder ==
    /\ InOrder(heard)
    /\ \A g \in 1..current : reader[g].lost = 0
    /\ current = 1 => \A i \in DOMAIN heard :
         i > 1 => heard[i].gain <= heard[i - 1].gain + 1 /\ heard[i - 1].gain <= heard[i].gain + 1

(* What runs or is staged is what was set last, on whichever reader the leg  *)
(* has by then (SetFilters, RebuildLegMedia).                                *)
LastSetWins == Filters(reader[current]) = asked

(* The stages of a chain are released if and only if no reader will run them *)
(* again: no kernel state is leaked or taken from a running leg (SetFilters, *)
(* swapPending, Close).                                                      *)
StagesAreReleased ==
    \A c \in DOMAIN block : c \in closed <=> c \notin {reader[current].c, reader[current].pending}

(* An observer hears in order, and while it has observed from the start what *)
(* the room hears, or is about to (appendOut).                               *)
ObserversHearTheRoom ==
    current = 1 =>
      \A o \in Observers :
        /\ InOrder(shown[o])
        /\ ToSet(shown[o]) \subseteq ToSet(heard \o reader[1].out)
=============================================================================
