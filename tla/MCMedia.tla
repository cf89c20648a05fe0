------------------------------ MODULE MCMedia --------------------------------
(***************************************************************************)
(* Instances for TLC of what works on a leg's media while the call is up   *)
(* and keeps no state in common: in every behaviour one component is       *)
(* active, and fair as its own module has it.                              *)
(***************************************************************************)
EXTENDS Naturals, Sequences

CONSTANTS None,
          d1, d2, MaxChunk,                                            \* of Detection
          r1, OnFrames, OffFrames, MaxFrames, MaxMutes, MaxMoves,      \* of Speaking
          MaxTicks, MaxOffers, MaxHolds,                               \* of SendLoop
          o1, MaxSamples                                               \* of Chain

\* Sessions with providers: faults with little said, and much said without.
VendorBounds ==
    LET B(a, t, c, f) == [audio |-> a, talk |-> t, calls |-> c, faults |-> f]
        Shy == {"azure", "elevenlabs", "pipecat"}
        Faults(v) == IF v \in Shy THEN B(0, 1, 0, TRUE) ELSE B(IF v = "flux" THEN 2 ELSE 1, 0, 1, TRUE)
        Talk(v) == B(0, CASE v = "flux" -> 4 [] v \in {"speechmatics", "elevenlabsAgent"} -> 3
                          [] OTHER -> 2, 0, FALSE)
    IN  [v \in {"deepgram", "flux", "speechmatics", "azure", "elevenlabs", "vapi",
                "deepgramAgent", "pipecat", "elevenlabsAgent"} |-> {Faults(v), Talk(v)}]

\* Analyses: every setting a boundary away from another, and one with a beep.
P(s, g, a, t, w, b) ==
    [silence |-> s, greeting |-> g, after |-> a, total |-> t, word |-> w, beep |-> b]
SweepSettings == {P(s, g, a, t, w, 0) : s \in {2, 4}, g \in {2, 4}, a \in {2, 3}, t \in {4, 7}, w \in {1, 3}}
RaceSettings == {P(2, 2, 1, 4, 1, 2)}

\* Offers: the preferred codec is not the peer's first, a change of payload type
\* alone, one of encoder and rate, and a codec we do not have.
F(n, p, c) == [name |-> n, pt |-> p, clock |-> c]
OpusOffer == <<F("pcmu", 0, 8), F("opus", 111, 48), F("telephone-event", 101, 8),
               F("telephone-event", 110, 48)>>
Offers == {<<F("g729", 18, 8), F("opus", 112, 48), F("telephone-event", 110, 48)>>,
           <<F("pcmu", 0, 8), F("opus", 111, 48)>>, <<F("g729", 18, 8)>>}
Codec(clock, rate) == [clock |-> clock, rate |-> rate]
Fixed == [p \in {0, 8, 9, 111} |-> CASE p = 0 -> "pcmu" [] p = 8 -> "pcma" [] p = 9 -> "g722"
                                       [] p = 111 -> "opus"]

VARIABLES
    active,   \* the component that runs
    vendor, partials, bound, start, cancelled, writer, send, recv, guard, deadline, caller,
    arrived, waiting, open, sent, peer, said, next, turn, utt, heard, playing, interrupted,
    params, state, tone, beeping, done, pending, found, slot, detach, starter, watch, reader,
    gone, fed, results,
    room, observer, tap, registered, detector, attached, stopper, run, stopped, muted, frame,
    buf, speaking, voiced, silent, scored, speech, mutes, moves,
    section, red, answered, out, typed, history, textSeq, clock, count, net, losses, doubles,
    pauses, lastSeq, seen, decoded, accept, toggles, in, displayed, hungUp,
    negotiated, offers, live, offer, roomRate, frames, writer20, digits, asked, held, holds,
    over, loop, seq, ts, ticks, packets,
    now, far, digitsLeft, event, flight, lost, doubled, nextSeq, reoffers, pt, peerPT, parked,
    parks, rtp, gaps, stats, read, lastDTMF, told, inFrames, delivered, ending,
    nextSample, ended, chain, pull, chunk, current, block, closed, setter, wanted, sets, mixed,
    shown

Provider == INSTANCE ProviderSession WITH
    Vendors <- DOMAIN VendorBounds, Bounds <- VendorBounds, EarlyCalls <- FALSE,
    EarlyFrames <- FALSE, done <- cancelled, watch <- guard, told <- heard
Sweep == INSTANCE Detection WITH
    Drivers <- {d1}, InRoom <- FALSE, Settings <- SweepSettings, SpeechOn <- 2, SpeechOff <- 2,
    BeepFrames <- 1, Frames <- {"silent", "voiced"}, MaxFrames <- 7, told <- results
Race == INSTANCE Detection WITH
    Drivers <- {d1, d2}, InRoom <- FALSE, Settings <- RaceSettings, SpeechOn <- 1, SpeechOff <- 1,
    BeepFrames <- 1, Frames <- {"silent", "tone"}, MaxFrames <- 3, told <- results
Voice == INSTANCE Speaking WITH
    Rooms <- {r1}, Early <- FALSE, Standalone <- FALSE, starter <- detector,
    active <- voiced, told <- speech

Text == INSTANCE LegText WITH
    Redundancy <- 1, OutCapacity <- 2, InCapacity <- 2, Wrap <- 8, Window <- 3, MaxOffset <- 8,
    MaxBlock <- 1, Overtakes <- 1, MaxTexts <- 3, MaxLost <- 1, MaxDoubled <- 1, MaxPauses <- 1,
    MaxToggles <- 1, offer <- section, pending <- typed, nextSeq <- textSeq, now <- clock,
    heard <- displayed, over <- hungUp
Long == INSTANCE LegText WITH
    Redundancy <- 2, OutCapacity <- 2, InCapacity <- 4, Wrap <- 8, Window <- 4, MaxOffset <- 8,
    MaxBlock <- 4, Overtakes <- 1, MaxTexts <- 4, MaxLost <- 1, MaxDoubled <- 1, MaxPauses <- 0,
    MaxToggles <- 0, offer <- section, pending <- typed, nextSeq <- textSeq, now <- clock,
    heard <- displayed, over <- hungUp
Sending == INSTANCE SendLoop WITH
    Sections <- Offers, First <- OpusOffer, Preferred <- "opus", FixedPTs <- Fixed, AMR <- {},
    Supported <- [opus |-> Codec(48, 3), pcmu |-> Codec(8, 1)], Capacity <- 1, Starts <- 1, Ends <- 2,
    Requests <- {<<1, 0, 2>>}, MaxRequests <- 1, Faults <- FALSE, room <- writer20,
    sent <- packets
Concealing == INSTANCE ReceiveLoop WITH
    Kinds <- {"audio", "sid", "bad", "noise"}, MaxTime <- 3, MaxDelay <- 1, MaxLost <- 1,
    MaxDoubled <- 1, MaxDigits <- 1, Starts <- 1, Ends <- 2, MaxBurst <- 1, MaxFill <- 2,
    Capacity <- 1, MaxOffers <- 0, MaxHolds <- 0, Primary <- TRUE, peer <- far,
    offers <- reoffers, held <- parked, holds <- parks, loop <- rtp, over <- ending
Holding == INSTANCE ReceiveLoop WITH
    Kinds <- {"audio", "sid", "bad", "noise"}, MaxTime <- 2, MaxDelay <- 2, MaxLost <- 0,
    MaxDoubled <- 0, MaxDigits <- 1, Starts <- 1, Ends <- 2, MaxBurst <- 1, MaxFill <- 2,
    Capacity <- 1, Primary <- TRUE, peer <- far, offers <- reoffers, held <- parked,
    holds <- parks, loop <- rtp, over <- ending
Dialling == INSTANCE ReceiveLoop WITH
    Kinds <- {}, MaxTime <- 6, MaxDelay <- 2, MaxLost <- 1, MaxDoubled <- 1, MaxDigits <- 2,
    Starts <- 1, Ends <- 2, MaxBurst <- 1, MaxFill <- 2, Capacity <- 1, MaxOffers <- 0,
    MaxHolds <- 0, Primary <- FALSE, peer <- far, offers <- reoffers, held <- parked,
    holds <- parks, loop <- rtp, over <- ending
Filtered == INSTANCE Chain WITH
    Blocks <- {1, 2}, Extra <- 1, FadeSteps <- 2, Observers <- {o1}, MaxSets <- 2,
    MaxReaders <- 1, Overlap <- FALSE, next <- nextSample, reader <- chain, loop <- pull,
    asked <- wanted, heard <- mixed
Rebuilt == INSTANCE Chain WITH
    Blocks <- {1, 2}, Extra <- 1, FadeSteps <- 2, Observers <- {}, MaxSets <- 1,
    MaxReaders <- 2, Overlap <- FALSE, next <- nextSample, reader <- chain, loop <- pull,
    asked <- wanted, heard <- mixed

providerVars == <<vendor, partials, bound, start, cancelled, writer, send, recv, guard, deadline,
                  caller, arrived, waiting, open, sent, peer, said, next, turn, utt, heard,
                  playing, interrupted>>
detectionVars == <<params, state, tone, beeping, done, pending, found, slot, detach, starter,
                   watch, reader, gone, fed, results>>
voiceVars == <<room, observer, tap, registered, detector, attached, stopper, run, stopped, muted,
               frame, buf, speaking, voiced, silent, scored, speech, mutes, moves>>
textVars == <<section, red, answered, out, typed, history, textSeq, clock, count, net, losses,
              doubles, pauses, lastSeq, seen, decoded, accept, toggles, in, displayed, hungUp>>
sendVars == <<negotiated, offers, live, offer, roomRate, frames, writer20, digits, asked, held,
              holds, over, loop, seq, ts, ticks, packets>>
receiveVars == <<now, far, digitsLeft, event, flight, lost, doubled, nextSeq, reoffers, pt, peerPT,
                 parked, parks, rtp, gaps, stats, read, lastDTMF, told, inFrames, delivered, ending>>
chainVars == <<nextSample, ended, chain, pull, chunk, current, block, closed, setter, wanted, sets,
               mixed, shown>>
analysisVars == <<providerVars, detectionVars, voiceVars>>
streamVars == <<textVars, sendVars, receiveVars, chainVars>>

Analyses == {"provider", "sweep", "race", "voice"}
Streams == {"text", "long", "send", "conceal", "hold", "dial", "filter", "rebuild"}

\* The parameters of a component that is not active are fixed.
Init ==
    /\ active \in Analyses \cup Streams
    /\ Provider!Init /\ Voice!Init /\ Text!Init /\ Sending!Init
    /\ IF active = "sweep" THEN Sweep!Init ELSE Race!Init
    /\ IF active = "dial" THEN Dialling!Init ELSE Concealing!Init
    /\ IF active = "rebuild" THEN Rebuilt!Init ELSE Filtered!Init
    /\ active # "provider" => /\ vendor = "azure" /\ partials
                              /\ bound = [audio |-> 0, talk |-> 1, calls |-> 0, faults |-> TRUE]
    /\ active # "voice" => room = None /\ ~muted
    /\ active \notin {"text", "long"} => section = "none"
    /\ active \notin {"filter", "rebuild"} => wanted = 1

Analysis ==
    \/ active = "provider" /\ Provider!Next /\ UNCHANGED <<detectionVars, voiceVars>>
    \/ active = "sweep" /\ Sweep!Next /\ UNCHANGED <<providerVars, voiceVars>>
    \/ active = "race" /\ Race!Next /\ UNCHANGED <<providerVars, voiceVars>>
    \/ active = "voice" /\ Voice!Next /\ UNCHANGED <<providerVars, detectionVars>>

Stream ==
    \/ active = "text" /\ Text!Next /\ UNCHANGED <<sendVars, receiveVars, chainVars>>
    \/ active = "long" /\ Long!Next /\ UNCHANGED <<sendVars, receiveVars, chainVars>>
    \/ active = "send" /\ Sending!Next /\ UNCHANGED <<textVars, receiveVars, chainVars>>
    \/ active = "conceal" /\ Concealing!Next /\ UNCHANGED <<textVars, sendVars, chainVars>>
    \/ active = "hold" /\ Holding!Next /\ UNCHANGED <<textVars, sendVars, chainVars>>
    \/ active = "dial" /\ Dialling!Next /\ UNCHANGED <<textVars, sendVars, chainVars>>
    \/ active = "filter" /\ Filtered!Next /\ UNCHANGED <<textVars, sendVars, receiveVars>>
    \/ active = "rebuild" /\ Rebuilt!Next /\ UNCHANGED <<textVars, sendVars, receiveVars>>

Next ==
    /\ UNCHANGED active
    /\ \/ Analysis /\ UNCHANGED streamVars
       \/ Stream /\ UNCHANGED analysisVars

(* The fairness of each component, where it is active.                       *)
ProviderFairness ==
    /\ WF_providerVars(active = "provider" /\ Provider!Starter)
    /\ WF_providerVars(active = "provider" /\ Provider!Sender)
    /\ WF_providerVars(active = "provider" /\ Provider!Reader)
    /\ WF_providerVars(active = "provider" /\ (Provider!AudioArrives \/ Provider!PipeCloses))

DetectionFairness ==
    /\ WF_detectionVars(active = "sweep" /\ (Sweep!Starting(d1) \/ Sweep!Watching(d1)))
    /\ WF_detectionVars(active = "sweep" /\ Sweep!Reading)
    /\ WF_detectionVars(active = "race" /\ Race!Reading)
    /\ \A d \in {d1, d2} : /\ WF_detectionVars(active = "race" /\ Race!Starting(d))
                           /\ WF_detectionVars(active = "race" /\ Race!Watching(d))

VoiceFairness ==
    /\ WF_voiceVars(active = "voice" /\ Voice!Starting)
    /\ WF_voiceVars(active = "voice" /\ (Voice!DetachFeeds \/ Voice!Stop \/ Voice!Stopped))
    /\ WF_voiceVars(active = "voice" /\ Voice!Ends)

StreamFairness ==
    /\ WF_textVars(active = "text" /\ Text!Tick) /\ WF_textVars(active = "text" /\ Text!Dispatch)
    /\ WF_textVars(active = "long" /\ Long!Tick) /\ WF_textVars(active = "long" /\ Long!Dispatch)
    /\ WF_sendVars(active = "send" /\ Sending!Loop)
    /\ WF_sendVars(active = "send" /\ (Sending!RoomWrites \/ Sending!RoomCloses))
    /\ WF_receiveVars(active = "conceal" /\ Concealing!Reading)
    /\ WF_receiveVars(active = "hold" /\ Holding!Reading)
    /\ WF_receiveVars(active = "dial" /\ Dialling!Reading)

Spec ==
    /\ Init
    /\ [][Next]_<<active, analysisVars, streamVars>>
    /\ ProviderFairness /\ DetectionFairness /\ VoiceFairness /\ StreamFairness

-----------------------------------------------------------------------------
(* What a provider settled is told once and in order, it hears the audio     *)
(* that was read and no more, and an agent's audio that was interrupted is   *)
(* not played (stt/, agent/).                                                *)
SessionsAreSound ==
    active = "provider" => /\ Provider!TypeOK /\ Provider!FinalsAreTold /\ Provider!StreamIsWhole
                           /\ Provider!AgentIsHeard

(* A detector says what the frames it heard say, tells it once or in turn,   *)
(* and gives the leg's tap back (amd/, speaking/, api/legs.go).              *)
DetectionIsSound ==
    CASE active = "sweep" -> /\ Sweep!TypeOK /\ Sweep!VerdictIsSound /\ Sweep!NoVerdictIsDue
                             /\ Sweep!ToldOnce /\ Sweep!TapIsFreed
      [] active = "race"  -> /\ Race!VerdictIsSound /\ Race!NoVerdictIsDue
                             /\ Race!ToldOnce /\ Race!TapIsFreed
      [] active = "voice" -> /\ Voice!TypeOK /\ Voice!Debounced /\ Voice!ToldInTurn
                             /\ Voice!HeardOnce
      [] OTHER -> TRUE

(* Text is told once, in order and with its losses marked; what is sent is   *)
(* one stream of what was negotiated; what is received is played once, and   *)
(* its digits told once; and a filter that is replaced costs no more than a  *)
(* block (leg/sip_leg.go, codec/t140/, audiofilter/chain.go).                *)
StreamsAreSound ==
    CASE active = "text" -> /\ Text!TypeOK /\ Text!TextComesOnce /\ Text!LossesAreMarked
                            /\ Text!HeardAsDecoded /\ Text!AnswersMirrorOffers
      [] active = "long" -> /\ Long!TextComesOnce /\ Long!LossesAreMarked /\ Long!RedundancyHelps
                            /\ Long!HeardAsDecoded
      [] active = "send" -> /\ Sending!TypeOK /\ Sending!EncodedAsNegotiated
                            /\ Sending!StreamIsContiguous /\ Sending!DigitsAreSent
      [] active = "conceal" -> /\ Concealing!TypeOK /\ Concealing!IntervalsPlayedOnce
                               /\ Concealing!FillsLeaveRoom /\ Concealing!DigitToldOnce
                               /\ Concealing!LossIsCounted
      [] active = "hold" -> /\ Holding!TypeOK /\ Holding!IntervalsPlayedOnce
                            /\ Holding!DigitToldOnce /\ Holding!LossIsCounted
      [] active = "dial" -> Dialling!DigitToldOnce /\ Dialling!LossIsCounted
      [] active = "filter" -> /\ Filtered!TypeOK /\ Filtered!HeardInOrder /\ Filtered!LastSetWins
                              /\ Filtered!StagesAreReleased /\ Filtered!ObserversHearTheRoom
      [] active = "rebuild" -> /\ Rebuilt!TypeOK /\ Rebuilt!HeardInOrder /\ Rebuilt!LastSetWins
                               /\ Rebuilt!StagesAreReleased
      [] OTHER -> TRUE

Unsettled ==
    \/ active = "provider" /\ Provider!Unreturned
    \/ active = "sweep" /\ Sweep!Undecided(d1)
    \/ active = "race" /\ \E d \in {d1, d2} : Race!Undecided(d)
    \/ active = "voice" /\ Voice!Unstopped
    \/ active \in {"text", "long"} /\ Text!Unsent
    \/ active = "send" /\ Sending!MixerWaits
    \/ active \in {"conceal", "hold", "dial"} /\ Concealing!Unnoticed

(* A session that was cancelled returns, an analysis nobody replaced tells   *)
(* its result, a stop returns, queued text is told, a mixer that waits for a *)
(* leg is let go, and a peer that is gone is noticed (stt/, agent/,          *)
(* api/legs.go, leg/sip_leg.go).                                             *)
EveryMediaEnds == []<>~Unsettled
=============================================================================
