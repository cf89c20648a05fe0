----------------------------- MODULE Utterances -----------------------------
(***************************************************************************)
(* What the application has a leg or a room hear: speech that is           *)
(* synthesized and played, speech that is synthesized ahead and committed  *)
(* or discarded later, and files (api/tts.go, tts_preflight.go,            *)
(* playback.go over playback/player.go).  Each has a goroutine that plays  *)
(* it and a player in a table where a stop finds it; a staged one waits in *)
(* another table, with a goroutine that synthesizes and one that watches.  *)
(* What a room hears goes through a pipe to its mixer, under the context   *)
(* of the leg that was first in the room.                                  *)
(***************************************************************************)
EXTENDS Naturals, FiniteSets

CONSTANTS
    Utts,         \* utterances asked for
    Kinds,        \* of an utterance: "speech", "staged", "file", "roomSpeech", "roomFile"
    MaxPerLeg,    \* staged utterances of a leg
    EarlyStops    \* a stop may come before the player plays

VARIABLES
    leg,       \* the context of the leg is live, or "over"
    mixing,    \* the room's mixer runs
    staged,    \* stagedTTSReg
    players,   \* legPlayers and roomPlayers
    source,    \* room-wide sources of the mixer
    utt        \* each utterance's goroutines and what the application was told

vars == <<leg, mixing, staged, players, source, utt>>

Staged(u) == utt[u].kind = "staged"
InRoom(u) == utt[u].kind \in {"roomSpeech", "roomFile"}

\* entry: stagedTTS.state.  pc: the goroutine that plays.  owed: the event that
\* the goroutine which took the decision is about to publish.
New == [kind |-> "none", entry |-> "none", synth |-> "none", pc |-> "none", owed |-> "none",
        cancelled |-> FALSE, told |-> {}, ends |-> 0]

Init ==
    /\ leg = "live" /\ mixing = TRUE
    /\ staged = {} /\ players = {} /\ source = {}
    /\ utt = [u \in Utts |-> New]

Become(u, r) == utt' = [utt EXCEPT ![u] = r]
Asked(u) == utt[u].pc # "none"

-----------------------------------------------------------------------------
(* The requests. *)

\* doLegTTS, doStartLegPlay, doRoomTTS, doStartRoomPlay.
Ask(u, kind) ==
    LET room == kind \in {"roomSpeech", "roomFile"}
        e == [New EXCEPT !.kind = kind] IN
    /\ ~Asked(u) /\ kind # "staged"
    /\ room => leg = "live"
    /\ players' = players \cup {u}
    /\ source' = IF room THEN source \cup {u} ELSE source
    /\ Become(u, IF kind \in {"file", "roomFile"} THEN [e EXCEPT !.pc = "ready"]
                 ELSE [e EXCEPT !.synth = "running", !.pc = "waiting"])
    /\ UNCHANGED <<leg, mixing, staged>>

\* doPreflightLegTTS.
Preflight(u) ==
    /\ ~Asked(u) /\ "staged" \in Kinds[u] /\ Cardinality(staged) < MaxPerLeg
    /\ staged' = staged \cup {u}
    /\ Become(u, [New EXCEPT !.kind = "staged", !.entry = "synthesizing",
                             !.synth = "running", !.pc = "staged"])
    /\ UNCHANGED <<leg, mixing, players, source>>

\* doCommitLegTTS, and the registration after its lock is released.
Commit(u) ==
    /\ u \in staged /\ staged' = staged \ {u}
    /\ Become(u, [utt[u] EXCEPT !.entry = "committed", !.pc = "committing"])
    /\ UNCHANGED <<leg, mixing, players, source>>

RegisterLegPlayer(u) ==
    /\ utt[u].pc = "committing" /\ players' = players \cup {u}
    /\ Become(u, [utt[u] EXCEPT !.pc = "waiting"])
    /\ UNCHANGED <<leg, mixing, staged, source>>

\* discardStaged, for the application, the leg's end or the TTL.
MutDiscardable(u) == utt[u].entry # "done"          \* mutant: commit does not count

Discardable(u) == utt[u].entry \in {"synthesizing", "ready"}

DiscardStaged(u) ==
    /\ Discardable(u) /\ staged' = staged \ {u}
    /\ Become(u, [utt[u] EXCEPT !.entry = "done", !.pc = "over", !.owed = "discarded"])
    /\ UNCHANGED <<leg, mixing, players, source>>

LegGone(u) == leg = "over" /\ DiscardStaged(u)

\* doStopLegPlay, doStopRoomPlay: cancels a player that plays, and only that.
Stop(u) ==
    /\ u \in players /\ players' = players \ {u}
    /\ EarlyStops \/ utt[u].pc \notin {"waiting", "ready"}
    /\ Become(u, [utt[u] EXCEPT !.cancelled = @ \/ utt[u].pc = "playing",
                                !.told = @ \cup {"stopped"}])
    /\ UNCHANGED <<leg, mixing, staged, source>>

-----------------------------------------------------------------------------
(* Synthesis.  What it fails with does not tell a cancelled context from a   *)
(* provider that gave up.                                                    *)

Ended(u, r) == [r EXCEPT !.told = @ \cup {r.owed}, !.owed = "none", !.ends = @ + 1]

\* synthesizeStaged: the result is stored, and an error ends the utterance,
\* whether or not it was committed meanwhile.
StoreStaged(u, ok) ==
    LET e == utt[u] IN
    /\ Staged(u) /\ e.synth = "running"
    /\ IF e.entry = "done"
       THEN Become(u, [e EXCEPT !.synth = "settled"]) /\ UNCHANGED staged
       ELSE IF ok
       THEN /\ Become(u, [e EXCEPT !.synth = "ok",
                 !.entry = IF @ = "synthesizing" THEN "ready" ELSE @,
                 !.told = IF e.entry = "committed" THEN @ ELSE @ \cup {"staged"}])
            /\ UNCHANGED staged
       ELSE /\ Become(u, [e EXCEPT !.synth = "failed", !.entry = "done",
                 !.pc = IF @ = "staged" THEN "over" ELSE @,
                 !.owed = IF leg = "over" THEN "discarded" ELSE "error"])
            /\ staged' = staged \ {u}
    /\ UNCHANGED <<leg, mixing, players, source>>

\* discardStaged, synthesizeStaged: the event, after the lock.
TellStaged(u) ==
    /\ Staged(u) /\ utt[u].owed # "none" /\ utt[u].pc \notin {"ended", "left"}
    /\ Become(u, Ended(u, utt[u]))
    /\ UNCHANGED <<leg, mixing, staged, players, source>>

Synthesized(u) ==
    \/ ~Staged(u) /\ utt[u].synth = "running"
    \/ Staged(u) /\ utt[u].synth = "ok"

SynthesisFails(u) ==
    \/ ~Staged(u) /\ utt[u].synth = "running"
    \/ Staged(u) /\ utt[u].synth = "failed"

\* The goroutine that plays has the audio, or deregisters: the error of a
\* staged utterance was published by its synthesis.
AudioReady(u) ==
    /\ utt[u].pc = "waiting" /\ Synthesized(u)
    /\ Become(u, [utt[u] EXCEPT !.pc = "ready", !.synth = "ok"])
    /\ UNCHANGED <<leg, mixing, staged, players, source>>

NoAudio(u) ==
    /\ utt[u].pc = "waiting" /\ SynthesisFails(u)
    /\ players' = players \ {u} /\ source' = source \ {u}
    /\ Become(u, IF Staged(u) THEN [utt[u] EXCEPT !.pc = "over"]
                 ELSE [utt[u] EXCEPT !.synth = "failed", !.pc = "left", !.owed = "error"])
    /\ UNCHANGED <<leg, mixing, staged>>

-----------------------------------------------------------------------------
(* playReader, playAt: from here a stop finds a cancel function. *)

Play(u) ==
    /\ utt[u].pc = "ready"
    /\ Become(u, [utt[u] EXCEPT !.pc = "playing"])
    /\ UNCHANGED <<leg, mixing, staged, players, source>>

Started(u) ==
    /\ utt[u].pc = "playing" /\ "started" \notin utt[u].told
    /\ Become(u, [utt[u] EXCEPT !.told = @ \cup {"started"}])
    /\ UNCHANGED <<leg, mixing, staged, players, source>>

\* A write to the room's pipe waits for the mixer, whatever the context says.
Writes(u) == InRoom(u) /\ "started" \in utt[u].told => mixing

\* The audio ends, the fetch or a write fails, or the context is done.
PlayEnds(u, how) ==
    /\ utt[u].pc = "playing" /\ Writes(u)
    /\ CASE how = "finished" -> "started" \in utt[u].told
         [] how = "error"    -> TRUE
         [] how = "stopped"  -> utt[u].cancelled \/ leg = "over"
    /\ Become(u, [utt[u] EXCEPT !.pc = "ended",
                     !.owed = IF how = "error" THEN "error" ELSE "finished"])
    /\ UNCHANGED <<leg, mixing, staged, players, source>>

Deregister(u) ==
    /\ utt[u].pc = "ended"
    /\ players' = players \ {u} /\ source' = source \ {u}
    /\ Become(u, [utt[u] EXCEPT !.pc = "left"])
    /\ UNCHANGED <<leg, mixing, staged>>

MutTellEnd(u) ==     \* mutant: nothing is published of what the app stopped
    /\ utt[u].pc = "left"
    /\ Become(u, IF utt[u].cancelled THEN [utt[u] EXCEPT !.pc = "over"]
                 ELSE [Ended(u, utt[u]) EXCEPT !.pc = "over"])
    /\ UNCHANGED <<leg, mixing, staged, players, source>>

TellEnd(u) ==
    /\ utt[u].pc = "left"
    /\ Become(u, [Ended(u, utt[u]) EXCEPT !.pc = "over"])
    /\ UNCHANGED <<leg, mixing, staged, players, source>>

-----------------------------------------------------------------------------
LegEnds ==
    /\ leg = "live" /\ leg' = "over"
    /\ UNCHANGED <<mixing, staged, players, source, utt>>

\* The last leg leaves the room; the loops that read its sources end.
MixerStops ==
    /\ mixing /\ mixing' = FALSE
    /\ UNCHANGED <<leg, staged, players, source, utt>>

Synthesis(u) == (\E ok \in BOOLEAN : StoreStaged(u, ok)) \/ TellStaged(u)

Player(u) ==
    \/ RegisterLegPlayer(u) \/ AudioReady(u) \/ NoAudio(u)
    \/ Play(u) \/ Started(u) \/ Deregister(u) \/ TellEnd(u)
    \/ \E how \in {"finished", "error", "stopped"} : PlayEnds(u, how)

Next ==
    \/ \E u \in Utts : \/ Preflight(u) \/ \E kind \in Kinds[u] : Ask(u, kind)
                       \/ Commit(u) \/ DiscardStaged(u) \/ Stop(u)
                       \/ Synthesis(u) \/ Player(u)
    \/ LegEnds \/ MixerStops

\* The goroutines are scheduled; a provider answers and audio ends.
Fairness ==
    \A u \in Utts : WF_vars(Synthesis(u)) /\ WF_vars(Player(u)) /\ WF_vars(LegGone(u))

Spec == Init /\ [][Next]_vars /\ Fairness

-----------------------------------------------------------------------------
Utterance(u) ==
    [kind : {"none"} \cup Kinds[u], entry : {"none", "synthesizing", "ready", "committed", "done"},
     synth : {"none", "running", "ok", "failed", "settled"},
     pc : {"none", "staged", "committing", "waiting", "ready", "playing", "ended",
           "left", "over"},
     owed : {"none", "discarded", "error", "finished"}, cancelled : BOOLEAN,
     told : SUBSET {"staged", "started", "stopped", "discarded", "error", "finished"},
     ends : 0 .. 1]

(* Every variable keeps its type: an utterance ends once, whichever of the   *)
(* synthesis, the watcher, the commit and the player ends it                 *)
(* (tts_preflight.go).                                                       *)
TypeOK ==
    /\ leg \in {"live", "over"} /\ mixing \in BOOLEAN
    /\ staged \subseteq Utts /\ players \subseteq Utts /\ source \subseteq Utts
    /\ Cardinality(staged) <= MaxPerLeg
    /\ \A u \in Utts : utt[u] \in Utterance(u)

(* An utterance is staged or has a player, never both, and what was          *)
(* discarded before it was committed is not heard (tts_preflight.go:62-63).  *)
DiscardedIsSilent ==
    /\ staged \cap players = {}
    /\ \A u \in Utts :
          "discarded" \in utt[u].told \cup {utt[u].owed} => "started" \notin utt[u].told

(* What the leg was to hear comes to an end once the leg has, with an event  *)
(* that says so, and is in neither table then.                               *)
Unfinished(u) ==
    /\ leg = "over" /\ Asked(u) /\ ~InRoom(u)
    /\ u \in staged \cup players \/ utt[u].ends = 0

EveryUtteranceEnds == []<>(\A u \in Utts : ~Unfinished(u))

(* Does not hold with EarlyStops: a stop between the registration of the     *)
(* player and the start of its playing cancels nothing, and is answered with *)
(* "stopped"; tts.go:61-62 says that the stop reaches the utterance.         *)
StoppedIsSilent ==
    \A u \in Utts : utt[u].pc = "playing" /\ "stopped" \in utt[u].told => utt[u].cancelled

(* Does not hold: the end of the leg hides that the utterance was committed, *)
(* and its failure is told as a discard (tts_preflight.go:179, 199).         *)
CommittedIsNotDiscarded ==
    [][\A u \in Utts : utt[u].pc = "waiting" => utt'[u].owed # "discarded"]_vars

(* Does not hold: a room's player waits in the pipe of a mixer that stopped. *)
RoomUtteranceEnds ==
    []<>(\A u \in Utts : leg = "over" /\ Asked(u) => utt[u].pc = "over")
=============================================================================
