----------------------------- MODULE Detection -----------------------------
(***************************************************************************)
(* Answering machine detection on a SIP leg: the analyser's automaton      *)
(* (amd/amd.go, amd/params.go, amd/beep.go) and the drivers that feed it   *)
(* from the leg's audio, bound it in time and publish its verdict          *)
(* (api/legs.go). Time is counted in the analyser's frames of 20 ms. A     *)
(* second start on a leg replaces the first one's tap.                     *)
(***************************************************************************)
EXTENDS Naturals, SequencesExt, FiniteSetsExt

CONSTANTS
    None,
    Drivers,                          \* the analyses started on the leg
    InRoom,                           \* the leg is in a room: they observe its filter chain
    Settings,                         \* parameters a request may carry, in frames
    SpeechOn, SpeechOff, BeepFrames,  \* the debounce of speech and of the beep
    Frames,                           \* the frames that may come: "silent", "voiced", "tone" (voiced too)
    MaxFrames, MaxChunk               \* bounds: frames in all, and in one write

VARIABLES
    params,    \* of every analysis here
    state,     \* per driver, the automaton: fsmState
    tone,      \* per driver, the beep detector and the frames it waited
    beeping, done, pending,   \* of amdDriver
    found,     \* per driver, the verdict that is on its way
    slot,      \* whose feed is installed: the leg's tap, or the chain's observer
    detach,    \* per driver, detachObserver is set
    starter,   \* per driver: idle, checked, fed, started
    watch,     \* per driver: off, waiting, drop, claim, publish, over
    reader,    \* readLoop, or the chain's: [at, by, chunk]
    gone,      \* the leg's context is cancelled
    fed,       \* per driver, the frames it has decoded
    told       \* what was published, and by whom

vars == <<params, state, tone, beeping, done, pending, found, slot, detach, starter, watch,
          reader, gone, fed, told>>
flags == <<beeping, done, pending>>

-----------------------------------------------------------------------------
(* The parameters.                                                           *)
NoSpeechReachable(p) == p.total > p.silence
MachineReachable(p)  == p.total > p.greeting + SpeechOn - 1
HumanReachable(p)    ==
    p.total > (IF p.word < SpeechOff THEN SpeechOff ELSE p.word) + SpeechOn - 1 + p.after

Validate(p) ==
    /\ \A t \in {p.silence, p.greeting, p.after, p.total, p.word} : t > 0
    /\ NoSpeechReachable(p) \/ MachineReachable(p) \/ HumanReachable(p)

(* The automaton. Counts are of frames.                                      *)
Fresh == [phase |-> "waiting", elapsed |-> 0, initial |-> 0, greeting |-> 0, silence |-> 0,
          speech |-> 0, active |-> 0, silent |-> 0, speaking |-> FALSE]

Debounced(s, frame) ==
    LET active == IF frame = "silent" THEN 0 ELSE s.active + 1
        silent == IF frame = "silent" THEN s.silent + 1 ELSE 0
    IN  [s EXCEPT !.elapsed = @ + 1, !.active = active, !.silent = silent,
                  !.speaking = IF s.speaking THEN silent < SpeechOff ELSE active >= SpeechOn]

Verdict(s, v) == [state |-> s, verdict |-> v]

Waiting(s) ==
    IF s.speaking THEN Verdict([s EXCEPT !.phase = "greeting", !.speech = 1, !.greeting = 1], None)
    ELSE Verdict([s EXCEPT !.initial = @ + 1],
                 IF s.initial + 1 >= params.silence THEN "no_speech" ELSE None)

Talking(s) ==
    Verdict([s EXCEPT !.speech = @ + 1, !.greeting = @ + 1, !.silence = 0],
            IF s.greeting + 1 >= params.greeting THEN "machine" ELSE None)

\* mutant: a burst that is too short still counts.
MutBurstEnds(s) == [s EXCEPT !.speech = 0]

\* A burst that is too short does not count.
BurstEnds(s) ==
    [s EXCEPT !.greeting = IF s.speech < params.word THEN @ - s.speech ELSE @, !.speech = 0]

Silent(s) ==
    IF s.silence + 1 < params.after THEN Verdict([s EXCEPT !.silence = @ + 1], None)
    ELSE IF s.greeting > 0 THEN Verdict([s EXCEPT !.silence = @ + 1], "human")
    ELSE Verdict([s EXCEPT !.phase = "waiting", !.initial = @ + s.silence + 1, !.silence = 0], None)

Step(before, frame) ==
    LET s == Debounced(before, frame)
    IN  CASE s.elapsed >= params.total -> Verdict(s, "not_sure")
          [] s.elapsed < params.total /\ s.phase = "waiting" -> Waiting(s)
          [] s.elapsed < params.total /\ s.phase = "greeting" /\ s.speaking -> Talking(s)
          [] OTHER -> Silent(IF before.speaking THEN BurstEnds(s) ELSE s)

\* Up to the first verdict; what is left of the chunk is not decoded.
Feed(s, chunk) ==
    FoldLeft(LAMBDA r, frame : IF r.verdict # None THEN r
                               ELSE Step(r.state, frame) @@ [used |-> r.used + 1],
             Verdict(s, None) @@ [used |-> 0], chunk)

OnDeadline(s) == IF s.phase = "waiting" /\ s.greeting = 0 THEN "no_speech" ELSE "not_sure"

(* The beep: enough tonal frames in a row within the window.                 *)
Quiet == [run |-> 0, waited |-> 0]

FeedBeep(b, chunk) ==
    FoldLeft(LAMBDA r, frame :
                IF r.verdict # None THEN r
                ELSE IF r.state.waited >= params.beep THEN [r EXCEPT !.verdict = "no_beep"]
                ELSE LET run == IF frame = "tone" THEN r.state.run + 1 ELSE 0
                     IN  Verdict([run |-> run, waited |-> r.state.waited + 1],
                                 IF run >= BeepFrames THEN "beep" ELSE None),
             Verdict(b, None), chunk)

-----------------------------------------------------------------------------
Idle == [at |-> "idle", by |-> None, chunk |-> <<>>]

Init ==
    /\ params \in {p \in Settings : Validate(p)}
    /\ state = [d \in Drivers |-> Fresh] /\ tone = [d \in Drivers |-> Quiet]
    /\ beeping = [d \in Drivers |-> FALSE] /\ done = [d \in Drivers |-> FALSE]
    /\ pending = [d \in Drivers |-> FALSE] /\ found = [d \in Drivers |-> None]
    /\ slot = None /\ detach = [d \in Drivers |-> FALSE]
    /\ starter = [d \in Drivers |-> "idle"] /\ watch = [d \in Drivers |-> "off"]
    /\ reader = Idle /\ gone = FALSE
    /\ fed = [d \in Drivers |-> <<>>] /\ told = <<>>

\* The chain's lock, which it holds while its observers are written to.
ChainLocked == InRoom /\ reader.at # "idle"

(* doStartAMDLeg and the first call of prepareAMD's start.                   *)
Check(d) ==
    /\ starter[d] = "idle" /\ ~gone /\ starter' = [starter EXCEPT ![d] = "checked"]
    /\ UNCHANGED <<params, state, tone, flags, found, slot, detach, watch, reader, gone, fed, told>>

\* A driver that observes the chain learns how to detach after it is fed.
Install(d) ==
    /\ starter[d] = "checked" /\ ~ChainLocked /\ slot' = d
    /\ starter' = [starter EXCEPT ![d] = "fed"]
    /\ UNCHANGED <<params, state, tone, flags, found, detach, watch, reader, gone, fed, told>>

StartWatch(d) ==
    /\ starter[d] = "fed" /\ starter' = [starter EXCEPT ![d] = "started"]
    /\ watch' = [watch EXCEPT ![d] = "waiting"] /\ detach' = [detach EXCEPT ![d] = InRoom]
    /\ UNCHANGED <<params, state, tone, flags, found, slot, reader, gone, fed, told>>

(* clearTap, by a driver: of the leg's tap only its own, of the chain's      *)
(* observers the one under the key they all share.                           *)
Clears(d) == IF InRoom THEN detach[d] ELSE slot = d

ClearTap(d) ==
    IF Clears(d) THEN slot' = None /\ detach' = [detach EXCEPT ![d] = FALSE]
    ELSE UNCHANGED <<slot, detach>>

-----------------------------------------------------------------------------
(* Write, on the goroutine that reads the leg: it looks the tap up, lets go  *)
(* of the leg's lock and writes; the chain writes under its own lock.        *)
Deliver(chunk) ==
    /\ reader = Idle /\ slot # None
    /\ \A d \in Drivers : Len(fed[d]) + Len(chunk) <= MaxFrames
    /\ reader' = [at |-> "write", by |-> slot, chunk |-> chunk]
    /\ UNCHANGED <<params, state, tone, flags, found, slot, detach, starter, watch, gone, fed, told>>

WriteIgnored ==
    /\ reader.at = "write" /\ done[reader.by] /\ reader' = Idle
    /\ UNCHANGED <<params, state, tone, flags, found, slot, detach, starter, watch, gone, fed, told>>

WriteFrames ==
    /\ reader.at = "write" /\ ~done[reader.by] /\ ~beeping[reader.by]
    /\ LET d == reader.by
           r == Feed(state[d], reader.chunk)
           wait == r.verdict = "machine" /\ params.beep > 0
       IN  /\ state' = [state EXCEPT ![d] = r.state]
           /\ fed' = [fed EXCEPT ![d] = @ \o SubSeq(reader.chunk, 1, r.used)]
           /\ found' = [found EXCEPT ![d] = r.verdict]
           /\ done' = [done EXCEPT ![d] = r.verdict # None /\ ~wait]
           /\ beeping' = [beeping EXCEPT ![d] = wait] /\ pending' = [pending EXCEPT ![d] = wait]
           /\ reader' = CASE r.verdict = None -> Idle
                          [] wait -> [reader EXCEPT !.at = "own"]
                          [] OTHER -> [reader EXCEPT !.at = "claim"]
    /\ UNCHANGED <<params, tone, slot, detach, starter, watch, gone, told>>

WriteBeep ==
    /\ reader.at = "write" /\ ~done[reader.by] /\ beeping[reader.by]
    /\ LET d == reader.by
           r == FeedBeep(tone[d], reader.chunk)
       IN  /\ tone' = [tone EXCEPT ![d] = r.state] /\ found' = [found EXCEPT ![d] = r.verdict]
           /\ done' = [done EXCEPT ![d] = r.verdict # None]
           /\ reader' = IF r.verdict = None THEN Idle ELSE [reader EXCEPT !.at = "claim"]
    /\ UNCHANGED <<params, state, beeping, pending, slot, detach, starter, watch, gone, fed, told>>

\* A verdict claims the tap by clearing it. To detach from the chain it needs
\* the lock its own goroutine holds.
Claim ==
    /\ reader.at = "claim" /\ ~(InRoom /\ detach[reader.by])
    /\ ClearTap(reader.by)
    /\ reader' = IF Clears(reader.by) THEN [reader EXCEPT !.at = "publish"] ELSE Idle
    /\ UNCHANGED <<params, state, tone, flags, found, starter, watch, gone, fed, told>>

\* A machine's verdict only looks, and keeps the tap for the beep.
Own ==
    /\ reader.at = "own"
    /\ LET owns == IF InRoom THEN detach[reader.by] ELSE slot = reader.by
       IN reader' = [reader EXCEPT !.at = IF owns THEN "resolve" ELSE "lost"]
    /\ UNCHANGED <<params, state, tone, flags, found, slot, detach, starter, watch, gone, fed, told>>

Resolve ==
    /\ reader.at \in {"resolve", "lost"}
    /\ LET d == reader.by
           lost == reader.at = "lost"
       IN  /\ pending' = [pending EXCEPT ![d] = FALSE]
           /\ done' = [done EXCEPT ![d] = @ \/ lost]
           /\ beeping' = [beeping EXCEPT ![d] = ~lost]
           /\ reader' = CASE lost -> Idle
                          [] ~lost /\ done[d] -> [reader EXCEPT !.at = "last"]
                          [] OTHER -> [reader EXCEPT !.at = "publish"]
    /\ UNCHANGED <<params, state, tone, found, slot, detach, starter, watch, gone, fed, told>>

Publish(d, v) == told' = IF v = "no_beep" THEN told ELSE Append(told, [by |-> d, what |-> v])

\* After "last" the deadline has passed meanwhile: the tap goes too.
PublishFound ==
    /\ reader.at \in {"publish", "last"} /\ Publish(reader.by, found[reader.by])
    /\ reader' = IF reader.at = "last" THEN [reader EXCEPT !.at = "release"] ELSE Idle
    /\ UNCHANGED <<params, state, tone, flags, found, slot, detach, starter, watch, gone, fed>>

Release ==
    /\ reader.at = "release" /\ ~(InRoom /\ detach[reader.by])
    /\ ClearTap(reader.by) /\ reader' = Idle
    /\ UNCHANGED <<params, state, tone, flags, found, starter, watch, gone, fed, told>>

-----------------------------------------------------------------------------
(* watch. The timer may fire at any time: the leg's audio may stall.         *)
DeadlineNext(d) == IF done[d] \/ pending[d] THEN "over" ELSE "claim"

Deadline(d) ==
    /\ watch[d] = "waiting" /\ done' = [done EXCEPT ![d] = TRUE]
    /\ watch' = [watch EXCEPT ![d] = DeadlineNext(d)]
    /\ found' = IF done[d] \/ beeping[d] THEN found
                ELSE [found EXCEPT ![d] = OnDeadline(state[d])]
    /\ UNCHANGED <<params, state, tone, beeping, pending, slot, detach, starter, reader, gone, fed, told>>

ContextDone(d) ==
    /\ watch[d] = "waiting" /\ gone /\ done' = [done EXCEPT ![d] = TRUE]
    /\ watch' = [watch EXCEPT ![d] = "drop"]
    /\ UNCHANGED <<params, state, tone, beeping, pending, found, slot, detach, starter, reader, gone, fed, told>>

WatchClears(d) ==
    /\ watch[d] \in {"drop", "claim"} /\ ~(ChainLocked /\ detach[d]) /\ ClearTap(d)
    /\ watch' = [watch EXCEPT ![d] =
                    IF watch[d] = "claim" /\ Clears(d) /\ ~beeping[d] THEN "publish" ELSE "over"]
    /\ UNCHANGED <<params, state, tone, flags, found, starter, reader, gone, fed, told>>

WatchPublishes(d) ==
    /\ watch[d] = "publish" /\ Publish(d, found[d]) /\ watch' = [watch EXCEPT ![d] = "over"]
    /\ UNCHANGED <<params, state, tone, flags, found, slot, detach, starter, reader, gone, fed>>

LegGoes ==
    /\ ~gone /\ gone' = TRUE
    /\ UNCHANGED <<params, state, tone, flags, found, slot, detach, starter, watch, reader, fed, told>>

-----------------------------------------------------------------------------
Chunks   == BoundedSeq(Frames, MaxChunk) \ {<<>>}
Starting(d) == Install(d) \/ StartWatch(d)
Reading  == WriteIgnored \/ WriteFrames \/ WriteBeep \/ Claim \/ Own \/ Resolve
            \/ PublishFound \/ Release
Watching(d) == Deadline(d) \/ ContextDone(d) \/ WatchClears(d) \/ WatchPublishes(d)

Next ==
    \/ \E d \in Drivers : Check(d) \/ Starting(d) \/ Watching(d)
    \/ \E chunk \in Chunks : Deliver(chunk)
    \/ Reading \/ LegGoes

Fairness == /\ \A d \in Drivers : WF_vars(Starting(d)) /\ WF_vars(Watching(d))
            /\ WF_vars(Reading)

Spec == Init /\ [][Next]_vars /\ Fairness

-----------------------------------------------------------------------------
(* Every variable keeps its type.                                            *)
TypeOK ==
    /\ params \in Settings /\ slot \in Drivers \cup {None} /\ gone \in BOOLEAN
    /\ \A d \in Drivers :
         /\ {beeping[d], done[d], pending[d], detach[d]} \subseteq BOOLEAN
         /\ starter[d] \in {"idle", "checked", "fed", "started"}
         /\ watch[d] \in {"off", "waiting", "drop", "claim", "publish", "over"}
         /\ state[d].phase \in {"waiting", "greeting"} /\ state[d].elapsed = Len(fed[d])
         /\ tone[d].waited \in 0 .. params.beep
    /\ reader.at \in {"idle", "write", "claim", "own", "resolve", "lost", "publish", "last", "release"}

(* What an analysis says of the frames it has decoded, by definition. The    *)
(* leg speaks at i if the last run of enough voiced frames ended after the   *)
(* last of enough silent ones; a burst is a maximal interval of speech.      *)
LastRun(h, i, n, loud) ==
    Max({0} \cup {j \in n .. i : \A k \in j - n + 1 .. j : (h[k] # "silent") = loud})
Speaks(h, i) == i > 0 /\ LastRun(h, i, SpeechOn, TRUE) > LastRun(h, i, SpeechOff, FALSE)
Bursts(h) == {b \in (DOMAIN h) \X (DOMAIN h) :
                /\ b[1] <= b[2] /\ ~Speaks(h, b[1] - 1) /\ (b[2] < Len(h) => ~Speaks(h, b[2] + 1))
                /\ \A k \in b[1] .. b[2] : Speaks(h, k)}
Counts(h, b) == b[2] = Len(h) \/ b[2] - b[1] + 1 >= params.word
Greeting(h) == Cardinality(UNION {b[1] .. b[2] : b \in {c \in Bursts(h) : Counts(h, c)}})
QuietFor(h) == Len(h) - Max({0} \cup {i \in DOMAIN h : Speaks(h, i)})
QuietIn(h)  == Cardinality({i \in DOMAIN h : ~Speaks(h, i)})

(* A verdict is what the frames say: machine for enough speech that counts,  *)
(* human for silence after some, no_speech for silence without any; and it   *)
(* is one that the parameters' check takes to be possible (params.go:44-52). *)
VerdictIsSound ==
    \A i \in DOMAIN told :
        LET h == fed[told[i].by]
            v == told[i].what
        IN  /\ v = "machine" => Greeting(h) >= params.greeting /\ MachineReachable(params)
            /\ v = "human" => /\ Greeting(h) \in 1 .. params.greeting - 1
                              /\ QuietFor(h) >= params.after /\ HumanReachable(params)
            /\ v = "no_speech" => Greeting(h) = 0
            /\ v = "not_sure" => Len(h) <= params.total
            /\ v = "beep" => BeepFrames <= params.beep

(* No analysis runs on past its verdict, and one that runs has none due.     *)
NoVerdictIsDue ==
    \A d \in Drivers : ~done[d] /\ ~beeping[d] =>
        /\ Len(fed[d]) < params.total /\ Greeting(fed[d]) < params.greeting
        /\ QuietIn(fed[d]) < params.silence + params.after
        /\ Greeting(fed[d]) > 0 => QuietFor(fed[d]) < params.after

Told(d, whats) == SelectSeq(told, LAMBDA e : e.by = d /\ e.what \in whats)
Results == {"human", "machine", "no_speech", "not_sure"}

(* An analysis tells one result at most (legs.go:1830-1833), and a beep once *)
(* and after it called the leg a machine.                                    *)
ToldOnce ==
    \A d \in Drivers :
        /\ Len(Told(d, Results)) <= 1 /\ Len(Told(d, {"beep"})) <= 1
        /\ Told(d, {"beep"}) # <<>> => Told(d, Results \cup {"beep"})[1].what = "machine"

(* An analysis that is over feeds on nothing (legs.go:1924-1928).            *)
TapIsFreed ==
    \A d \in Drivers : watch[d] = "over" /\ reader.by # d => slot # d

Superseded(d) == slot # d /\ \E e \in Drivers \ {d} : starter[e] \in {"fed", "started"}
Undecided(d)  == starter[d] = "started" /\ Told(d, Results) = <<>> /\ ~gone /\ ~Superseded(d)

(* An analysis nobody replaced tells a result while its leg is up, whichever *)
(* of the deadline and a machine's verdict comes first (legs.go:1803-1809).  *)
EveryAnalysisTells == \A d \in Drivers : Undecided(d) ~> ~Undecided(d)

(* The goroutine that carries the leg's audio is not held up by an analysis  *)
(* (audiofilter/chain.go:181-182).                                           *)
ReaderGoesOn == ~(InRoom /\ reader.at \in {"claim", "release"} /\ detach[reader.by])
=============================================================================
