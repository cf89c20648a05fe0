-------------------------- MODULE RemoteLegsProofs --------------------------
(* Proofs about the legs of MCRemotes, of LiveKit, of a socket and of a peer   *)
(* connection, for every value of the constants. Each has an invariant of its  *)
(* own, which a step of another component does not touch, whatever it is that  *)
(* runs; so the three together are one of the whole module.                    *)
EXTENDS MCRemotes, FiniteSetTheorems, SequenceTheorems, TLAPS

-----------------------------------------------------------------------------
(* LiveKit: a track's leg is made once, and whoever ends it finds it.          *)

LiveKitInv ==
    /\ LiveKitRoom!TypeOK
    /\ client = "closed" => recv \notin LiveKitRoom!Signals
    /\ watch = "waiting" => taken = {}
    /\ \A t \in {t1} :
          /\ track[t] \in {"absent", "unknown", "stashed", "fired"} =>
                partLeg[t] = "none" /\ ends[t] = 0 /\ t \notin index \cup taken
          /\ partLeg[t] = "live" =>
                ends[t] = 0 /\ (t \in index \cup taken \/ track[t] = "added")
          /\ pending[lkPeer] = t => track[t] = "stashed"

LEMMA LiveKitNames ==
    /\ LiveKitRoom!Participants = {lkPeer}
    /\ \A t \in {t1} : [u \in {t1} |-> lkPeer][t] = lkPeer
    /\ {<<"reading">>, <<"failed">>, <<"done">>} \cap LiveKitRoom!Signals = {}
    /\ \A p \in {lkPeer} : <<"drain", p>> \notin LiveKitRoom!Signals
    /\ LiveKitRoom!NoTrack = "none"
<1>1. LiveKitRoom!Participants = {lkPeer}
  BY DEF LiveKitRoom!Participants
<1> QED
  BY <1>1 DEF LiveKitRoom!Signals, LiveKitRoom!NoTrack

LEMMA LiveKitInits == LiveKitRoom!Init => LiveKitInv
<1> SUFFICES ASSUME LiveKitRoom!Init PROVE LiveKitInv
  OBVIOUS
<1>1. LiveKitRoom!TypeOK
  <2>1. <<>> \in Seq(LiveKitRoom!Signals) /\ Len(<<>>) = 0
    BY EmptySeq
  <2>2. 0 \in 0..1 /\ 0 \in 0..MaxSignals /\ 0 <= MaxQueue
    BY RemotesAssumption
  <2> QED
    BY <2>1, <2>2, LiveKitNames DEF LiveKitRoom!Init, LiveKitRoom!TypeOK
<1> QED
  BY <1>1, LiveKitNames, RemotesAssumption DEF LiveKitRoom!Init, LiveKitInv

LEMMA LiveKitSteps == LiveKitInv /\ LiveKitRoom!Next => LiveKitInv'
<1> SUFFICES ASSUME LiveKitInv, LiveKitRoom!Next PROVE LiveKitInv'
  OBVIOUS
<1>0. MaxQueue \in Nat /\ MaxSignals \in Nat /\ t1 # "none"
  BY RemotesAssumption
<1>1. CASE \E m \in LiveKitRoom!Signals : LiveKitRoom!Receive(m)
  BY <1>0, <1>1, LiveKitNames DEF LiveKitRoom!Receive, LiveKitRoom!legVars, LiveKitInv, LiveKitRoom!TypeOK
<1>2. CASE LiveKitRoom!ReceiveFails
  BY <1>0, <1>2, LiveKitNames DEF LiveKitRoom!ReceiveFails, LiveKitRoom!legVars, LiveKitInv, LiveKitRoom!TypeOK
<1>3. CASE LiveKitRoom!Emit
  <2>1. queue \in Seq(LiveKitRoom!Signals) /\ Len(queue) \in Nat /\ Len(queue) <= MaxQueue
    BY LenProperties DEF LiveKitInv, LiveKitRoom!TypeOK
  <2>2. /\ recv \in LiveKitRoom!Signals /\ client # "closed"
        /\ recv' \in {<<"failed">>, <<"reading">>} /\ UNCHANGED <<crashed, client>>
        /\ queue' = queue \/ (Len(queue) < MaxQueue /\ queue' = Append(queue, recv))
        /\ UNCHANGED <<dispatch, torn, known, pending, track, sent, index, partLeg, publish,
                       watch, taken, ends>>
    BY <1>3 DEF LiveKitRoom!Emit, LiveKitRoom!AfterEmit, LiveKitRoom!legVars, LiveKitInv
  <2>3. queue' \in Seq(LiveKitRoom!Signals) /\ Len(queue') <= MaxQueue
    <3>1. CASE queue' = queue
      BY <2>1, <3>1
    <3>2. CASE Len(queue) < MaxQueue /\ queue' = Append(queue, recv)
      <4>1. queue' \in Seq(LiveKitRoom!Signals) /\ Len(queue') = Len(queue) + 1
        BY <2>1, <2>2, <3>2, AppendProperties
      <4> QED
        BY <1>0, <2>1, <3>2, <4>1
    <3> QED
      BY <2>2, <3>1, <3>2
  <2> QED
    BY <2>2, <2>3, LiveKitNames DEF LiveKitInv, LiveKitRoom!TypeOK
<1>4. CASE LiveKitRoom!RecvDone
  BY <1>0, <1>4, LiveKitNames DEF LiveKitRoom!RecvDone, LiveKitRoom!Shutdown, LiveKitRoom!legVars, LiveKitInv, LiveKitRoom!TypeOK
<1>5. CASE LiveKitRoom!CloseChannel
  BY <1>0, <1>5, LiveKitNames DEF LiveKitRoom!CloseChannel, LiveKitRoom!legVars, LiveKitInv, LiveKitRoom!TypeOK
<1>6. CASE LiveKitRoom!MediaFails
  BY <1>0, <1>6, LiveKitNames DEF LiveKitRoom!MediaFails, LiveKitRoom!Cleanup, LiveKitRoom!signalVars, LiveKitRoom!legVars, LiveKitInv, LiveKitRoom!TypeOK
<1>7. CASE LiveKitRoom!NextSignal
  BY <1>0, <1>7, LiveKitNames DEF LiveKitRoom!NextSignal, LiveKitRoom!legVars, LiveKitInv, LiveKitRoom!TypeOK
<1>8. CASE LiveKitRoom!LoopEnds
  BY <1>0, <1>8, LiveKitNames DEF LiveKitRoom!LoopEnds, LiveKitRoom!Cleanup, LiveKitRoom!signalVars, LiveKitRoom!legVars, LiveKitInv, LiveKitRoom!TypeOK
<1>9. CASE LiveKitRoom!LeaveRoom
  BY <1>0, <1>9, LiveKitNames DEF LiveKitRoom!LeaveRoom, LiveKitRoom!Cleanup, LiveKitRoom!signalVars, LiveKitRoom!legVars, LiveKitInv, LiveKitRoom!TypeOK
<1>10. CASE \E p \in {lkPeer} : LiveKitRoom!Merge(p)
  BY <1>0, <1>10, LiveKitNames DEF LiveKitRoom!Merge, LiveKitRoom!signalVars, LiveKitRoom!legVars, LiveKitInv, LiveKitRoom!TypeOK
<1>11. CASE \E p \in {lkPeer} : LiveKitRoom!Drain(p)
  BY <1>0, <1>11, LiveKitNames DEF LiveKitRoom!Drain, LiveKitRoom!signalVars, LiveKitRoom!legVars, LiveKitInv, LiveKitRoom!TypeOK
<1>12. CASE \E t \in {t1} : LiveKitRoom!TrackEnded(t)
  BY <1>0, <1>12, LiveKitNames DEF LiveKitRoom!TrackEnded, LiveKitRoom!EndLeg, LiveKitRoom!signalVars, LiveKitInv, LiveKitRoom!TypeOK
<1>13. CASE \E t \in {t1} : LiveKitRoom!TrackArrives(t)
  BY <1>0, <1>13, LiveKitNames DEF LiveKitRoom!TrackArrives, LiveKitRoom!signalVars, LiveKitRoom!legVars, LiveKitInv, LiveKitRoom!TypeOK
<1>14. CASE \E t \in {t1} : LiveKitRoom!Stash(t)
  BY <1>0, <1>14, LiveKitNames DEF LiveKitRoom!Stash, LiveKitRoom!signalVars, LiveKitRoom!legVars, LiveKitInv, LiveKitRoom!TypeOK
<1>15. CASE \E t \in {t1} : LiveKitRoom!AddParticipant(t)
  BY <1>0, <1>15, LiveKitNames DEF LiveKitRoom!AddParticipant, LiveKitRoom!signalVars, LiveKitInv, LiveKitRoom!TypeOK
<1>16. CASE \E t \in {t1} : LiveKitRoom!IndexParticipant(t)
  BY <1>0, <1>16, LiveKitNames DEF LiveKitRoom!IndexParticipant, LiveKitRoom!signalVars, LiveKitInv, LiveKitRoom!TypeOK
<1>17. CASE \E t \in {t1} : LiveKitRoom!DeleteParticipant(t)
  BY <1>0, <1>17, LiveKitNames DEF LiveKitRoom!DeleteParticipant, LiveKitRoom!EndLeg, LiveKitRoom!signalVars, LiveKitInv, LiveKitRoom!TypeOK
<1>18. CASE \E t \in {t1} : LiveKitRoom!EndTaken(t)
  BY <1>0, <1>18, LiveKitNames DEF LiveKitRoom!EndTaken, LiveKitRoom!EndLeg, LiveKitRoom!signalVars, LiveKitInv, LiveKitRoom!TypeOK
<1>19. CASE LiveKitRoom!DeletePublish
  BY <1>0, <1>19, LiveKitNames DEF LiveKitRoom!DeletePublish, LiveKitRoom!HangupPublish, LiveKitRoom!Cleanup, LiveKitRoom!Shutdown, LiveKitInv, LiveKitRoom!TypeOK
<1>20. CASE LiveKitRoom!WatchWakes
  BY <1>0, <1>20, LiveKitNames DEF LiveKitRoom!WatchWakes, LiveKitRoom!TakeIndex, LiveKitRoom!signalVars, LiveKitInv, LiveKitRoom!TypeOK
<1>21. CASE LiveKitRoom!EndPublish
  BY <1>0, <1>21, LiveKitNames DEF LiveKitRoom!EndPublish, LiveKitRoom!HangupPublish, LiveKitRoom!Cleanup, LiveKitRoom!Shutdown, LiveKitInv, LiveKitRoom!TypeOK
<1> QED
  BY <1>1, <1>2, <1>3, <1>4, <1>5, <1>6, <1>7, <1>8, <1>9, <1>10, <1>11, <1>12, <1>13, <1>14, <1>15, <1>16, <1>17, <1>18, <1>19, <1>20, <1>21, LiveKitNames
  DEF LiveKitRoom!Next, LiveKitRoom!Dispatch, LiveKitRoom!Watching, LiveKitRoom!Callback

-----------------------------------------------------------------------------
(* What the application is told of a leg: disconnected last, when it is        *)
(* claimed, and connected once, when it is no longer early.                    *)
Words == {"ringing", "connected", "interrupted", "restored", "disconnected"}
Messages(s, claim, early) ==
    /\ s \in Seq(Words)
    /\ \A i \in 1..Len(s) : s[i] = "disconnected" => claim /\ i = Len(s)
    /\ claim => Len(s) >= 1 /\ s[Len(s)] = "disconnected"
    /\ \A i \in 1..Len(s) : s[i] = "connected" => ~early
    /\ \A i, j \in 1..Len(s) : s[i] = "connected" /\ s[j] = "connected" => i = j

LEMMA ToldOne ==
    ASSUME NEW s \in Seq(Words), NEW e \in Words
    PROVE  /\ Len(s) \in Nat /\ Append(s, e) \in Seq(Words) /\ Len(Append(s, e)) = Len(s) + 1
           /\ Append(s, e)[Len(s) + 1] = e
           /\ \A i \in 1..Len(s) : Append(s, e)[i] = s[i]
           /\ \A i \in 1..(Len(s) + 1) : i \in 1..Len(s) \/ i = Len(s) + 1
<1>1. Len(s) \in Nat
  BY LenProperties
<1>2. /\ Append(s, e) \in Seq(Words) /\ Len(Append(s, e)) = Len(s) + 1
      /\ Append(s, e)[Len(s) + 1] = e
      /\ \A i \in 1..Len(s) : Append(s, e)[i] = s[i]
  BY AppendProperties
<1>3. \A i \in 1..(Len(s) + 1) : i \in 1..Len(s) \/ i = Len(s) + 1
  BY <1>1
<1> QED
  BY <1>1, <1>2, <1>3

LEMMA ToldElse ==
    ASSUME NEW s, NEW early, Messages(s, FALSE, early),
           NEW e \in Words, e \notin {"connected", "disconnected"}
    PROVE  Messages(Append(s, e), FALSE, early)
<1>1. s \in Seq(Words)
  BY DEF Messages
<1> QED
  BY <1>1, ToldOne DEF Messages

LEMMA ToldConnected ==
    ASSUME NEW s, Messages(s, FALSE, TRUE)
    PROVE  Messages(Append(s, "connected"), FALSE, FALSE)
<1>1. s \in Seq(Words)
  BY DEF Messages
<1>2. "connected" \in Words
  BY DEF Words
<1> QED
  BY <1>1, <1>2, ToldOne DEF Messages

LEMMA ToldDisconnected ==
    ASSUME NEW s, NEW early, Messages(s, FALSE, early)
    PROVE  Messages(Append(s, "disconnected"), TRUE, early)
<1>1. s \in Seq(Words)
  BY DEF Messages
<1>2. "disconnected" \in Words
  BY DEF Words
<1> QED
  BY <1>1, <1>2, ToldOne DEF Messages

LEMMA ToldLater ==
    ASSUME NEW s, NEW claim, NEW early, Messages(s, claim, early) PROVE Messages(s, claim, FALSE)
  BY DEF Messages

LEMMA OneIsOne ==
    ASSUME NEW S, NEW k, S \subseteq {k}
    PROVE  Cardinality(S) <= 1 /\ (k \in S => Cardinality(S) = 1) /\ IsFiniteSet(S)
<1>1. S = {} \/ S = {k}
  OBVIOUS
<1> QED
  BY <1>1, FS_EmptySet, FS_Singleton

LEMMA ToldCounts ==
    ASSUME NEW s, NEW claim \in BOOLEAN, NEW early, Messages(s, claim, early)
    PROVE  /\ DOMAIN s = 1..Len(s)
           /\ Cardinality({i \in DOMAIN s : s[i] = "connected"}) <= 1
           /\ Cardinality({i \in DOMAIN s : s[i] = "disconnected"}) = (IF claim THEN 1 ELSE 0)
<1>1. s \in Seq(Words) /\ Len(s) \in Nat /\ DOMAIN s = 1..Len(s)
  BY LenProperties DEF Messages
<1>2. Cardinality({i \in DOMAIN s : s[i] = "connected"}) <= 1
  <2> DEFINE S == {i \in DOMAIN s : s[i] = "connected"}
  <2>1. CASE S = {}
    BY <2>1, FS_EmptySet
  <2>2. CASE S # {}
    <3>1. PICK k \in 1..Len(s) : s[k] = "connected"
      BY <1>1, <2>2
    <3>2. S \subseteq {k}
      BY <1>1, <3>1 DEF Messages
    <3> HIDE DEF S
    <3>3. Cardinality(S) <= 1
      BY <3>2, OneIsOne
    <3> QED
      BY <3>3 DEF S
  <2> QED
    BY <2>1, <2>2
<1>3. Cardinality({i \in DOMAIN s : s[i] = "disconnected"}) = (IF claim THEN 1 ELSE 0)
  <2> DEFINE S == {i \in DOMAIN s : s[i] = "disconnected"}
  <2>1. CASE claim = FALSE
    <3>1. S = {}
      BY <1>1, <2>1 DEF Messages
    <3> QED
      BY <2>1, <3>1, FS_EmptySet
  <2>2. CASE claim = TRUE
    <3>2. Len(s) >= 1 /\ s[Len(s)] = "disconnected"
      BY <2>2 DEF Messages
    <3>0. Len(s) >= 1 /\ s[Len(s)] = "disconnected" /\ Len(s) \in 1..Len(s)
      BY <1>1, <3>2
    <3>1. Len(s) \in S /\ S \subseteq {Len(s)}
      BY <1>1, <3>0 DEF Messages
    <3> HIDE DEF S
    <3>3. Cardinality(S) = 1
      BY <3>1, OneIsOne
    <3> QED
      BY <2>2, <3>3 DEF S
  <2> QED
    BY <2>1, <2>2
<1> QED
  BY <1>1, <1>2, <1>3

-----------------------------------------------------------------------------
(* A socket's leg: a DELETE comes while the handler waits, and whoever is      *)
(* through last has hung up, told and unregistered it.                         *)

SocketEarly == acceptor \in {"new", "register", "wire", "dial", "attach", "connected"}
SocketInv ==
    /\ Socket!TypeOK /\ egress \in {"open", "closed"} /\ heard = typed
    /\ delete # "idle" =>
          ~listed /\ acceptor \in {"dial", "wait", "cleanup", "tell", "over"}
    /\ delete \in {"tell", "over"} => ~inRoom
    /\ delete \in {"cleanup", "tell", "over"} => wsLeg = "hungUp"
    /\ wsLeg = "hungUp" =>
          /\ delete \in {"cleanup", "tell", "over"} \/ acceptor \in {"tell", "over"}
          /\ conn # "open" /\ egress = "closed"
    /\ acceptor \in {"tell", "over"} => wsLeg = "hungUp" /\ ~listed
    /\ acceptor \in {"tell", "over"} => ~inRoom \/ delete = "cleanup"
    /\ wsClaimed => acceptor = "over" \/ delete = "over"
    /\ delete = "over" => wsClaimed
    /\ acceptor = "over" => wsClaimed \/ delete \in {"cleanup", "tell"}
    /\ Messages(wsTold, wsClaimed, SocketEarly)

LEMMA SocketInits == Socket!Init => SocketInv
<1> SUFFICES ASSUME Socket!Init PROVE SocketInv
  OBVIOUS
<1>1. Messages(wsTold, wsClaimed, SocketEarly)
  <2>1. wsTold = <<>> /\ wsClaimed = FALSE
    BY DEF Socket!Init
  <2>2. <<>> \in Seq(Words) /\ Len(<<>>) = 0
    BY EmptySeq
  <2> QED
    BY <2>1, <2>2 DEF Messages
<1>2. Socket!TypeOK
  <2>1. 0 \in 0..0 /\ 0 \in 0..MaxText
    BY RemotesAssumption
  <2> QED
    BY <2>1 DEF Socket!Init, Socket!TypeOK
<1> QED
  BY <1>1, <1>2 DEF Socket!Init, SocketInv

LEMMA SocketSteps == SocketInv /\ Socket!Next => SocketInv'
<1> SUFFICES ASSUME SocketInv, Socket!Next PROVE SocketInv'
  OBVIOUS
<1>0. MaxText \in Nat
  BY RemotesAssumption
<1>1. CASE Socket!Upgrade
  <2>1. /\ UNCHANGED <<wsTold, wsClaimed>> /\ (SocketEarly' => SocketEarly)
        /\ Socket!TypeOK' /\ egress' \in {"open", "closed"} /\ heard' = typed'
    BY <1>0, <1>1 DEF Socket!Upgrade, Socket!self, Socket!wireVars, Socket!textVars, Socket!endVars, Socket!At, Socket!Goto, SocketInv, Socket!TypeOK, Socket!Started, SocketEarly
  <2>2. Messages(wsTold', wsClaimed', SocketEarly')
    BY <2>1 DEF SocketInv, Messages
  <2> QED
    BY <1>1, <2>1, <2>2 DEF Socket!Upgrade, Socket!self, Socket!wireVars, Socket!textVars, Socket!endVars, Socket!At, Socket!Goto, SocketInv, Socket!TypeOK
<1>2. CASE Socket!Create
  <2>1. /\ UNCHANGED <<wsTold, wsClaimed>> /\ (SocketEarly' => SocketEarly)
        /\ Socket!TypeOK' /\ egress' \in {"open", "closed"} /\ heard' = typed'
    BY <1>0, <1>2 DEF Socket!Create, Socket!self, Socket!wireVars, Socket!textVars, Socket!endVars, Socket!At, Socket!Goto, SocketInv, Socket!TypeOK, Socket!Started, SocketEarly
  <2>2. Messages(wsTold', wsClaimed', SocketEarly')
    BY <2>1 DEF SocketInv, Messages
  <2> QED
    BY <1>2, <2>1, <2>2 DEF Socket!Create, Socket!self, Socket!wireVars, Socket!textVars, Socket!endVars, Socket!At, Socket!Goto, SocketInv, Socket!TypeOK
<1>3. CASE Socket!Register
  <2>1. /\ UNCHANGED <<wsTold, wsClaimed>> /\ (SocketEarly' => SocketEarly)
        /\ Socket!TypeOK' /\ egress' \in {"open", "closed"} /\ heard' = typed'
    BY <1>0, <1>3 DEF Socket!Register, Socket!self, Socket!wireVars, Socket!textVars, Socket!endVars, Socket!At, Socket!Goto, SocketInv, Socket!TypeOK, Socket!Started, SocketEarly
  <2>2. Messages(wsTold', wsClaimed', SocketEarly')
    BY <2>1 DEF SocketInv, Messages
  <2> QED
    BY <1>3, <2>1, <2>2 DEF Socket!Register, Socket!self, Socket!wireVars, Socket!textVars, Socket!endVars, Socket!At, Socket!Goto, SocketInv, Socket!TypeOK
<1>4. CASE Socket!Dialled
  <2>1. /\ UNCHANGED <<wsTold, wsClaimed>> /\ (SocketEarly' => SocketEarly)
        /\ Socket!TypeOK' /\ egress' \in {"open", "closed"} /\ heard' = typed'
    BY <1>0, <1>4 DEF Socket!Dialled, Socket!self, Socket!wireVars, Socket!textVars, Socket!endVars, Socket!At, Socket!Goto, SocketInv, Socket!TypeOK, Socket!Started, SocketEarly
  <2>2. Messages(wsTold', wsClaimed', SocketEarly')
    BY <2>1 DEF SocketInv, Messages
  <2> QED
    BY <1>4, <2>1, <2>2 DEF Socket!Dialled, Socket!self, Socket!wireVars, Socket!textVars, Socket!endVars, Socket!At, Socket!Goto, SocketInv, Socket!TypeOK
<1>5. CASE Socket!DialFails
  <2>1. /\ UNCHANGED <<wsTold, wsClaimed>> /\ (SocketEarly' => SocketEarly)
        /\ Socket!TypeOK' /\ egress' \in {"open", "closed"} /\ heard' = typed'
    BY <1>0, <1>5 DEF Socket!DialFails, Socket!self, Socket!wireVars, Socket!textVars, Socket!endVars, Socket!At, Socket!Goto, SocketInv, Socket!TypeOK, Socket!Started, SocketEarly
  <2>2. Messages(wsTold', wsClaimed', SocketEarly')
    BY <2>1 DEF SocketInv, Messages
  <2> QED
    BY <1>5, <2>1, <2>2 DEF Socket!DialFails, Socket!self, Socket!wireVars, Socket!textVars, Socket!endVars, Socket!At, Socket!Goto, SocketInv, Socket!TypeOK
<1>6. CASE Socket!AttachTransport
  <2>1. /\ UNCHANGED <<wsTold, wsClaimed>> /\ (SocketEarly' => SocketEarly)
        /\ Socket!TypeOK' /\ egress' \in {"open", "closed"} /\ heard' = typed'
    BY <1>0, <1>6 DEF Socket!AttachTransport, Socket!self, Socket!wireVars, Socket!textVars, Socket!endVars, Socket!At, Socket!Goto, SocketInv, Socket!TypeOK, Socket!Started, SocketEarly
  <2>2. Messages(wsTold', wsClaimed', SocketEarly')
    BY <2>1 DEF SocketInv, Messages
  <2> QED
    BY <1>6, <2>1, <2>2 DEF Socket!AttachTransport, Socket!self, Socket!wireVars, Socket!textVars, Socket!endVars, Socket!At, Socket!Goto, SocketInv, Socket!TypeOK
<1>7. CASE Socket!AddToRoom
  <2>1. /\ UNCHANGED <<wsTold, wsClaimed>> /\ (SocketEarly' => SocketEarly)
        /\ Socket!TypeOK' /\ egress' \in {"open", "closed"} /\ heard' = typed'
    BY <1>0, <1>7 DEF Socket!AddToRoom, Socket!self, Socket!wireVars, Socket!textVars, Socket!endVars, Socket!At, Socket!Goto, SocketInv, Socket!TypeOK, Socket!Started, SocketEarly
  <2>2. Messages(wsTold', wsClaimed', SocketEarly')
    BY <2>1 DEF SocketInv, Messages
  <2> QED
    BY <1>7, <2>1, <2>2 DEF Socket!AddToRoom, Socket!self, Socket!wireVars, Socket!textVars, Socket!endVars, Socket!At, Socket!Goto, SocketInv, Socket!TypeOK
<1>8. CASE Socket!Done
  <2>1. /\ UNCHANGED <<wsTold, wsClaimed>> /\ (SocketEarly' => SocketEarly)
        /\ Socket!TypeOK' /\ egress' \in {"open", "closed"} /\ heard' = typed'
    BY <1>0, <1>8 DEF Socket!Done, Socket!self, Socket!wireVars, Socket!textVars, Socket!endVars, Socket!At, Socket!Goto, SocketInv, Socket!TypeOK, Socket!Started, SocketEarly
  <2>2. Messages(wsTold', wsClaimed', SocketEarly')
    BY <2>1 DEF SocketInv, Messages
  <2> QED
    BY <1>8, <2>1, <2>2 DEF Socket!Done, Socket!self, Socket!wireVars, Socket!textVars, Socket!endVars, Socket!At, Socket!Goto, SocketInv, Socket!TypeOK
<1>9. CASE Socket!MaxDuration
  <2>1. /\ UNCHANGED <<wsTold, wsClaimed>> /\ (SocketEarly' => SocketEarly)
        /\ Socket!TypeOK' /\ egress' \in {"open", "closed"} /\ heard' = typed'
    BY <1>0, <1>9 DEF Socket!MaxDuration, Socket!self, Socket!wireVars, Socket!textVars, Socket!endVars, Socket!At, Socket!Goto, SocketInv, Socket!TypeOK, Socket!Started, SocketEarly
  <2>2. Messages(wsTold', wsClaimed', SocketEarly')
    BY <2>1 DEF SocketInv, Messages
  <2> QED
    BY <1>9, <2>1, <2>2 DEF Socket!MaxDuration, Socket!self, Socket!wireVars, Socket!textVars, Socket!endVars, Socket!At, Socket!Goto, SocketInv, Socket!TypeOK
<1>10. CASE Socket!HandlerCleans
  <2>1. /\ UNCHANGED <<wsTold, wsClaimed>> /\ (SocketEarly' => SocketEarly)
        /\ Socket!TypeOK' /\ egress' \in {"open", "closed"} /\ heard' = typed'
    BY <1>0, <1>10 DEF Socket!HandlerCleans, Socket!Cleanup, Socket!Hangup, Socket!self, Socket!wireVars, Socket!textVars, Socket!endVars, Socket!At, Socket!Goto, SocketInv, Socket!TypeOK, Socket!Started, SocketEarly
  <2>2. Messages(wsTold', wsClaimed', SocketEarly')
    BY <2>1 DEF SocketInv, Messages
  <2> QED
    BY <1>10, <2>1, <2>2 DEF Socket!HandlerCleans, Socket!Cleanup, Socket!Hangup, Socket!self, Socket!wireVars, Socket!textVars, Socket!endVars, Socket!At, Socket!Goto, SocketInv, Socket!TypeOK
<1>11. CASE Socket!DeleteLeg
  <2>1. /\ UNCHANGED <<wsTold, wsClaimed>> /\ (SocketEarly' => SocketEarly)
        /\ Socket!TypeOK' /\ egress' \in {"open", "closed"} /\ heard' = typed'
    BY <1>0, <1>11 DEF Socket!DeleteLeg, Socket!self, Socket!wireVars, Socket!textVars, Socket!endVars, Socket!At, Socket!Goto, SocketInv, Socket!TypeOK, Socket!Started, SocketEarly
  <2>2. Messages(wsTold', wsClaimed', SocketEarly')
    BY <2>1 DEF SocketInv, Messages
  <2> QED
    BY <1>11, <2>1, <2>2 DEF Socket!DeleteLeg, Socket!self, Socket!wireVars, Socket!textVars, Socket!endVars, Socket!At, Socket!Goto, SocketInv, Socket!TypeOK
<1>12. CASE Socket!DeleteHangsUp
  <2>1. /\ UNCHANGED <<wsTold, wsClaimed>> /\ (SocketEarly' => SocketEarly)
        /\ Socket!TypeOK' /\ egress' \in {"open", "closed"} /\ heard' = typed'
    BY <1>0, <1>12 DEF Socket!DeleteHangsUp, Socket!Hangup, Socket!self, Socket!wireVars, Socket!textVars, Socket!endVars, Socket!At, Socket!Goto, SocketInv, Socket!TypeOK, Socket!Started, SocketEarly
  <2>2. Messages(wsTold', wsClaimed', SocketEarly')
    BY <2>1 DEF SocketInv, Messages
  <2> QED
    BY <1>12, <2>1, <2>2 DEF Socket!DeleteHangsUp, Socket!Hangup, Socket!self, Socket!wireVars, Socket!textVars, Socket!endVars, Socket!At, Socket!Goto, SocketInv, Socket!TypeOK
<1>13. CASE Socket!DeleteCleans
  <2>1. /\ UNCHANGED <<wsTold, wsClaimed>> /\ (SocketEarly' => SocketEarly)
        /\ Socket!TypeOK' /\ egress' \in {"open", "closed"} /\ heard' = typed'
    BY <1>0, <1>13 DEF Socket!DeleteCleans, Socket!Cleanup, Socket!Hangup, Socket!self, Socket!wireVars, Socket!textVars, Socket!endVars, Socket!At, Socket!Goto, SocketInv, Socket!TypeOK, Socket!Started, SocketEarly
  <2>2. Messages(wsTold', wsClaimed', SocketEarly')
    BY <2>1 DEF SocketInv, Messages
  <2> QED
    BY <1>13, <2>1, <2>2 DEF Socket!DeleteCleans, Socket!Cleanup, Socket!Hangup, Socket!self, Socket!wireVars, Socket!textVars, Socket!endVars, Socket!At, Socket!Goto, SocketInv, Socket!TypeOK
<1>14. CASE \E i \in Socket!Loops : Socket!LoopFails(i)
  <2>1. /\ UNCHANGED <<wsTold, wsClaimed>> /\ (SocketEarly' => SocketEarly)
        /\ Socket!TypeOK' /\ egress' \in {"open", "closed"} /\ heard' = typed'
    BY <1>0, <1>14 DEF Socket!LoopFails, Socket!self, Socket!wireVars, Socket!textVars, Socket!endVars, Socket!At, Socket!Goto, SocketInv, Socket!TypeOK, Socket!Started, SocketEarly
  <2>2. Messages(wsTold', wsClaimed', SocketEarly')
    BY <2>1 DEF SocketInv, Messages
  <2> QED
    BY <1>14, <2>1, <2>2 DEF Socket!LoopFails, Socket!self, Socket!wireVars, Socket!textVars, Socket!endVars, Socket!At, Socket!Goto, SocketInv, Socket!TypeOK
<1>15. CASE \E i \in Socket!Loops : Socket!SetErr(i)
  <2>1. /\ UNCHANGED <<wsTold, wsClaimed>> /\ (SocketEarly' => SocketEarly)
        /\ Socket!TypeOK' /\ egress' \in {"open", "closed"} /\ heard' = typed'
    BY <1>0, <1>15 DEF Socket!SetErr, Socket!self, Socket!wireVars, Socket!textVars, Socket!endVars, Socket!At, Socket!Goto, SocketInv, Socket!TypeOK, Socket!Started, SocketEarly
  <2>2. Messages(wsTold', wsClaimed', SocketEarly')
    BY <2>1 DEF SocketInv, Messages
  <2> QED
    BY <1>15, <2>1, <2>2 DEF Socket!SetErr, Socket!self, Socket!wireVars, Socket!textVars, Socket!endVars, Socket!At, Socket!Goto, SocketInv, Socket!TypeOK
<1>16. CASE \E i \in Socket!Loops : Socket!LoopExits(i)
  <2>1. /\ UNCHANGED <<wsTold, wsClaimed>> /\ (SocketEarly' => SocketEarly)
        /\ Socket!TypeOK' /\ egress' \in {"open", "closed"} /\ heard' = typed'
    BY <1>0, <1>16 DEF Socket!LoopExits, Socket!Close, Socket!self, Socket!wireVars, Socket!textVars, Socket!endVars, Socket!At, Socket!Goto, SocketInv, Socket!TypeOK, Socket!Started, SocketEarly
  <2>2. Messages(wsTold', wsClaimed', SocketEarly')
    BY <2>1 DEF SocketInv, Messages
  <2> QED
    BY <1>16, <2>1, <2>2 DEF Socket!LoopExits, Socket!Close, Socket!self, Socket!wireVars, Socket!textVars, Socket!endVars, Socket!At, Socket!Goto, SocketInv, Socket!TypeOK
<1>17. CASE Socket!SendEnds
  <2>1. /\ UNCHANGED <<wsTold, wsClaimed>> /\ (SocketEarly' => SocketEarly)
        /\ Socket!TypeOK' /\ egress' \in {"open", "closed"} /\ heard' = typed'
    BY <1>0, <1>17 DEF Socket!SendEnds, Socket!self, Socket!wireVars, Socket!textVars, Socket!endVars, Socket!At, Socket!Goto, SocketInv, Socket!TypeOK, Socket!Started, SocketEarly
  <2>2. Messages(wsTold', wsClaimed', SocketEarly')
    BY <2>1 DEF SocketInv, Messages
  <2> QED
    BY <1>17, <2>1, <2>2 DEF Socket!SendEnds, Socket!self, Socket!wireVars, Socket!textVars, Socket!endVars, Socket!At, Socket!Goto, SocketInv, Socket!TypeOK
<1>18. CASE Socket!SessionEnds
  <2>1. /\ UNCHANGED <<wsTold, wsClaimed>> /\ (SocketEarly' => SocketEarly)
        /\ Socket!TypeOK' /\ egress' \in {"open", "closed"} /\ heard' = typed'
    BY <1>0, <1>18 DEF Socket!SessionEnds, Socket!SessionCloses, Socket!Close, Socket!self, Socket!wireVars, Socket!textVars, Socket!endVars, Socket!At, Socket!Goto, SocketInv, Socket!TypeOK, Socket!Started, SocketEarly
  <2>2. Messages(wsTold', wsClaimed', SocketEarly')
    BY <2>1 DEF SocketInv, Messages
  <2> QED
    BY <1>18, <2>1, <2>2 DEF Socket!SessionEnds, Socket!SessionCloses, Socket!Close, Socket!self, Socket!wireVars, Socket!textVars, Socket!endVars, Socket!At, Socket!Goto, SocketInv, Socket!TypeOK
<1>19. CASE Socket!Subscribe
  <2>1. /\ UNCHANGED <<wsTold, wsClaimed>> /\ (SocketEarly' => SocketEarly)
        /\ Socket!TypeOK' /\ egress' \in {"open", "closed"} /\ heard' = typed'
    BY <1>0, <1>19 DEF Socket!Subscribe, Socket!self, Socket!wireVars, Socket!textVars, Socket!endVars, Socket!At, Socket!Goto, SocketInv, Socket!TypeOK, Socket!Started, SocketEarly
  <2>2. Messages(wsTold', wsClaimed', SocketEarly')
    BY <2>1 DEF SocketInv, Messages
  <2> QED
    BY <1>19, <2>1, <2>2 DEF Socket!Subscribe, Socket!self, Socket!wireVars, Socket!textVars, Socket!endVars, Socket!At, Socket!Goto, SocketInv, Socket!TypeOK
<1>20. CASE Socket!TextArrives
  <2>1. /\ UNCHANGED <<wsTold, wsClaimed>> /\ (SocketEarly' => SocketEarly)
        /\ Socket!TypeOK' /\ egress' \in {"open", "closed"} /\ heard' = typed'
    BY <1>0, <1>20 DEF Socket!TextArrives, Socket!self, Socket!wireVars, Socket!textVars, Socket!endVars, Socket!At, Socket!Goto, SocketInv, Socket!TypeOK, Socket!Started, SocketEarly
  <2>2. Messages(wsTold', wsClaimed', SocketEarly')
    BY <2>1 DEF SocketInv, Messages
  <2> QED
    BY <1>20, <2>1, <2>2 DEF Socket!TextArrives, Socket!self, Socket!wireVars, Socket!textVars, Socket!endVars, Socket!At, Socket!Goto, SocketInv, Socket!TypeOK
<1>21. CASE \E how \in {"closed", "lost"} : Socket!PeerEnds(how)
  <2>1. /\ UNCHANGED <<wsTold, wsClaimed>> /\ (SocketEarly' => SocketEarly)
        /\ Socket!TypeOK' /\ egress' \in {"open", "closed"} /\ heard' = typed'
    BY <1>0, <1>21 DEF Socket!PeerEnds, Socket!self, Socket!wireVars, Socket!textVars, Socket!endVars, Socket!At, Socket!Goto, SocketInv, Socket!TypeOK, Socket!Started, SocketEarly
  <2>2. Messages(wsTold', wsClaimed', SocketEarly')
    BY <2>1 DEF SocketInv, Messages
  <2> QED
    BY <1>21, <2>1, <2>2 DEF Socket!PeerEnds, Socket!self, Socket!wireVars, Socket!textVars, Socket!endVars, Socket!At, Socket!Goto, SocketInv, Socket!TypeOK
<1>22. CASE Socket!Wire
  <2>1. /\ wsTold' = Append(wsTold, "ringing") /\ UNCHANGED <<wsClaimed>> /\ SocketEarly
        /\ Socket!TypeOK' /\ egress' \in {"open", "closed"} /\ heard' = typed' /\ ~wsClaimed
    BY <1>22 DEF Socket!Wire, Socket!Tell, Socket!self, Socket!wireVars, Socket!textVars, Socket!endVars, Socket!At, Socket!Goto, SocketInv, Socket!TypeOK, Socket!Started, SocketEarly
  <2>2. Messages(wsTold', wsClaimed', SocketEarly')
    <3>1. SocketEarly' /\ "ringing" \in Words /\ "ringing" \notin {"connected", "disconnected"}
      BY <1>22 DEF Socket!Wire, Socket!Tell, Socket!self, Socket!wireVars, Socket!textVars, Socket!endVars, Socket!At, Socket!Goto, SocketEarly, Words
    <3>2. Messages(wsTold, FALSE, TRUE)
      BY <2>1 DEF SocketInv, Messages
    <3>3. Messages(wsTold', FALSE, TRUE)
      BY <2>1, <3>1, <3>2, ToldElse
    <3> QED
      BY <2>1, <3>1, <3>3 DEF Messages
  <2> QED
    BY <1>22, <2>1, <2>2 DEF Socket!Wire, Socket!Tell, Socket!self, Socket!wireVars, Socket!textVars, Socket!endVars, Socket!At, Socket!Goto, SocketInv, Socket!TypeOK
<1>23. CASE Socket!TellConnected
  <2>1. /\ wsTold' = Append(wsTold, "connected") /\ UNCHANGED <<wsClaimed>> /\ SocketEarly
        /\ Socket!TypeOK' /\ egress' \in {"open", "closed"} /\ heard' = typed' /\ ~wsClaimed
    BY <1>23 DEF Socket!TellConnected, Socket!Tell, Socket!self, Socket!wireVars, Socket!textVars, Socket!endVars, Socket!At, Socket!Goto, SocketInv, Socket!TypeOK, Socket!Started, SocketEarly
  <2>2. Messages(wsTold', wsClaimed', SocketEarly')
    <3>2. Messages(wsTold, FALSE, TRUE)
      BY <2>1 DEF SocketInv, Messages
    <3>3. Messages(wsTold', FALSE, FALSE)
      BY <2>1, <3>2, ToldConnected
    <3>4. ~SocketEarly'
      BY <1>23 DEF Socket!TellConnected, Socket!Tell, Socket!self, Socket!wireVars, Socket!textVars, Socket!endVars, Socket!At, Socket!Goto, SocketEarly
    <3> QED
      BY <2>1, <3>3, <3>4 DEF Messages
  <2> QED
    BY <1>23, <2>1, <2>2 DEF Socket!TellConnected, Socket!Tell, Socket!self, Socket!wireVars, Socket!textVars, Socket!endVars, Socket!At, Socket!Goto, SocketInv, Socket!TypeOK
<1>24. CASE Socket!HandlerTells
  <2>1. /\ wsTold' = (IF wsClaimed THEN wsTold ELSE Append(wsTold, "disconnected"))
        /\ wsClaimed' = TRUE /\ (SocketEarly' => SocketEarly)
        /\ Socket!TypeOK' /\ egress' \in {"open", "closed"} /\ heard' = typed'
    BY <1>24 DEF Socket!HandlerTells, Socket!Claim, Socket!Tell, Socket!self, Socket!wireVars, Socket!textVars, Socket!endVars, Socket!At, Socket!Goto, SocketInv, Socket!TypeOK, Socket!Started, SocketEarly
  <2>2. Messages(wsTold', wsClaimed', SocketEarly')
    <3>1. CASE wsClaimed
      BY <2>1, <3>1 DEF SocketInv, Messages
    <3>2. CASE ~wsClaimed
      <4>1. Messages(wsTold, FALSE, SocketEarly)
        BY <3>2 DEF SocketInv, Messages
      <4>2. Messages(wsTold', TRUE, SocketEarly)
        BY <2>1, <3>2, <4>1, ToldDisconnected
      <4> QED
        BY <2>1, <4>2 DEF Messages
    <3> QED
      BY <3>1, <3>2
  <2> QED
    BY <1>24, <2>1, <2>2 DEF Socket!HandlerTells, Socket!Claim, Socket!Tell, Socket!self, Socket!wireVars, Socket!textVars, Socket!endVars, Socket!At, Socket!Goto, SocketInv, Socket!TypeOK
<1>25. CASE Socket!DeleteTells
  <2>1. /\ wsTold' = (IF wsClaimed THEN wsTold ELSE Append(wsTold, "disconnected"))
        /\ wsClaimed' = TRUE /\ (SocketEarly' => SocketEarly)
        /\ Socket!TypeOK' /\ egress' \in {"open", "closed"} /\ heard' = typed'
    BY <1>25 DEF Socket!DeleteTells, Socket!Claim, Socket!Tell, Socket!self, Socket!wireVars, Socket!textVars, Socket!endVars, Socket!At, Socket!Goto, SocketInv, Socket!TypeOK, Socket!Started, SocketEarly
  <2>2. Messages(wsTold', wsClaimed', SocketEarly')
    <3>1. CASE wsClaimed
      BY <2>1, <3>1 DEF SocketInv, Messages
    <3>2. CASE ~wsClaimed
      <4>1. Messages(wsTold, FALSE, SocketEarly)
        BY <3>2 DEF SocketInv, Messages
      <4>2. Messages(wsTold', TRUE, SocketEarly)
        BY <2>1, <3>2, <4>1, ToldDisconnected
      <4> QED
        BY <2>1, <4>2 DEF Messages
    <3> QED
      BY <3>1, <3>2
  <2> QED
    BY <1>25, <2>1, <2>2 DEF Socket!DeleteTells, Socket!Claim, Socket!Tell, Socket!self, Socket!wireVars, Socket!textVars, Socket!endVars, Socket!At, Socket!Goto, SocketInv, Socket!TypeOK
<1> QED
  BY <1>1, <1>2, <1>3, <1>4, <1>5, <1>6, <1>7, <1>8, <1>9, <1>10, <1>11, <1>12, <1>13, <1>14, <1>15, <1>16, <1>17, <1>18, <1>19, <1>20, <1>21, <1>22, <1>23, <1>24, <1>25
  DEF Socket!Next, Socket!Handler, Socket!Deleter, Socket!Loop

-----------------------------------------------------------------------------
(* A peer connection's leg: nothing is told once its end is, and an            *)
(* interruption and its end alternate.                                         *)

Alternates(s, down) ==
    /\ \A i \in 1..Len(s) : s[i] # "ringing"
    /\ down => \A i \in 1..Len(s) : s[i] = "restored" =>
                  \E k \in 1..Len(s) : k > i /\ s[k] = "interrupted"
    /\ ~down => \A i \in 1..Len(s) : s[i] = "interrupted" =>
                  \E k \in 1..Len(s) : k > i /\ s[k] = "restored"
    /\ \A i, j \in 1..Len(s) :
          i < j /\ s[i] = s[j] /\ s[i] \in {"interrupted", "restored"} =>
             \E k \in 1..Len(s) : k > i /\ k < j /\ s[k] \in {"interrupted", "restored"} \ {s[i]}

LEMMA AlternatesElse ==
    ASSUME NEW s \in Seq(Words), NEW down, Alternates(s, down),
           NEW e \in {"connected", "disconnected"}
    PROVE  Alternates(Append(s, e), down)
<1>1. e \in Words
  BY DEF Words
<1> DEFINE m == Append(s, e)
<1>2. /\ Len(s) \in Nat /\ Len(m) = Len(s) + 1 /\ m[Len(s) + 1] = e
      /\ \A i \in 1..Len(s) : m[i] = s[i]
      /\ \A i \in 1..(Len(s) + 1) : i \in 1..Len(s) \/ i = Len(s) + 1
  BY <1>1, ToldOne
<1>3. \A i \in 1..Len(s) : i \in 1..Len(m)
  BY <1>2
<1> HIDE DEF m
<1>4. Alternates(m, down)
  BY <1>2, <1>3 DEF Alternates
<1> QED
  BY <1>4 DEF m

LEMMA AlternatesFlap ==
    ASSUME NEW s \in Seq(Words), NEW down \in BOOLEAN, Alternates(s, down),
           NEW e \in {"interrupted", "restored"}, e = (IF down THEN "restored" ELSE "interrupted")
    PROVE  Alternates(Append(s, e), ~down)
<1>1. e \in Words
  BY DEF Words
<1> DEFINE m == Append(s, e)
<1>2. /\ Len(s) \in Nat /\ Len(m) = Len(s) + 1 /\ m[Len(s) + 1] = e
      /\ \A i \in 1..Len(s) : m[i] = s[i]
      /\ \A i \in 1..(Len(s) + 1) : i \in 1..Len(s) \/ i = Len(s) + 1
  BY <1>1, ToldOne
<1>3. /\ \A i \in 1..Len(s) : i \in 1..Len(m) /\ Len(s) + 1 > i
      /\ Len(s) + 1 \in 1..Len(m)
  BY <1>2
<1> HIDE DEF m
<1>4. \A i \in 1..Len(m) : m[i] # "ringing"
  BY <1>2, <1>3 DEF Alternates
<1>5. ASSUME NEW i \in 1..Len(m), m[i] = (IF down THEN "interrupted" ELSE "restored")
      PROVE  \E k \in 1..Len(m) : k > i /\ m[k] = e
  <2>1. i # Len(s) + 1
    BY <1>2, <1>5
  <2>2. i \in 1..Len(s)
    BY <1>2, <1>5, <2>1
  <2> QED
    BY <1>2, <1>3, <2>2
<1>6. ASSUME NEW i \in 1..Len(m), NEW j \in 1..Len(m), i < j, m[i] = m[j],
             m[i] \in {"interrupted", "restored"}
      PROVE  \E k \in 1..Len(m) : k > i /\ k < j /\ m[k] \in {"interrupted", "restored"} \ {m[i]}
  <2>1. i \in 1..Len(s)
    <3>1. Len(s) \in Nat /\ i \in 1..(Len(s) + 1) /\ j \in 1..(Len(s) + 1) /\ i < j
      BY <1>2, <1>6
    <3> QED
      BY <3>1
  <2>2. CASE j \in 1..Len(s)
    <3>1. s[i] = s[j] /\ s[i] \in {"interrupted", "restored"}
      BY <1>2, <1>6, <2>1, <2>2
    <3>2. PICK k \in 1..Len(s) :
             k > i /\ k < j /\ s[k] \in {"interrupted", "restored"} \ {s[i]}
      BY <1>6, <2>1, <2>2, <3>1 DEF Alternates
    <3> QED
      BY <1>2, <1>3, <2>1, <3>2
  <2>3. CASE j = Len(s) + 1
    <3>1. m[i] = e /\ s[i] = e
      BY <1>2, <1>6, <2>1, <2>3
    <3>2. PICK k \in 1..Len(s) :
             k > i /\ s[k] = (IF down THEN "interrupted" ELSE "restored")
      BY <2>1, <3>1 DEF Alternates
    <3>3. k < j /\ m[k] = s[k] /\ k \in 1..Len(m)
      BY <1>2, <1>3, <2>3, <3>2
    <3> QED
      BY <3>1, <3>2, <3>3
  <2> QED
    BY <1>2, <1>6, <2>2, <2>3
<1>7. Alternates(m, ~down)
  BY <1>4, <1>5, <1>6 DEF Alternates
<1> QED
  BY <1>7 DEF m

PeerEarly ==
    IF pcKind = "webrtc" THEN media = "new" \/ callback = "connected"
    ELSE caller \in {"await", "answer", "answered", "invite", "apply", "tell"}
\* The application takes the connection for interrupted.
Down == CASE callback = "interrupted" -> FALSE
          [] callback = "restored" -> TRUE
          [] OTHER -> ice = "interrupted"

PeerPoints ==
    /\ pcKind = "webrtc" => caller = "done" /\ ~answerCh
    /\ pcKind # "webrtc" => callback = "none"
    /\ media = "new" => callback = "none"
    /\ caller \in {"answer", "answered"} => answerCh
    /\ callback = "interrupted" => ice = "interrupted"
    /\ callback = "restored" => ice = "ok"
    /\ remover # "none" =>
          ~present /\ ~answerCh /\ callback = "none" /\ caller \notin {"answer", "answered", "tell"}
    /\ remover \in {"publish", "done"} => state = "hungup"
    /\ lost # "none" => callback = "none" /\ caller \in {"done", "watch", "publish"}
    /\ pcClaimed => \/ remover = "done" \/ lost = "done"
                    \/ pcKind # "webrtc" /\ caller = "done"
PeerMessages == Messages(pcTold, pcClaimed, PeerEarly) /\ Alternates(pcTold, Down)
PeerTrickle ==
    /\ saved \in (SUBSET {c1}) \X BOOLEAN
    /\ restart = "none" => /\ gathered \subseteq buffered \cup drained
                           /\ pcKind = "webrtc" => (iceDone <=> ~gathering)
    /\ restart = "applying" => /\ gathered \subseteq saved[1] \cup drained
                               /\ buffered = {} /\ iceDone = FALSE
                               /\ pcKind = "webrtc" => (saved[2] <=> ~gathering)
PeerAudio ==
    /\ producer \in [{t1} -> {"read", "full", "push"}]
    /\ \A t \in {t1} : producer[t] = "push" => inFrames < PcFrames

PeerPlaces ==
    /\ pcKind \in {"webrtc", "inbound", "outbound"} /\ media \in {"new", "up", "closed"}
    /\ call \in {"none", "ringing", "answered", "over"}
    /\ state \in {"ringing", "connected", "hungup"}
    /\ caller \in {"await", "answer", "answered", "invite", "apply", "failed", "tell", "watch",
                   "publish", "done"}
    /\ remover \in {"none", "hangup", "publish", "done"}
    /\ lost \in {"none", "grace", "check", "publish", "done"}
PeerFlags == present \in BOOLEAN /\ answerCh \in BOOLEAN /\ pcClaimed \in BOOLEAN
PeerIce ==
    /\ ice \in {"ok", "interrupted"} /\ flaps \in 0..MaxFlaps
    /\ callback \in {"none", "connected", "interrupted", "restored"}
PeerKept ==
    /\ iceDone \in BOOLEAN /\ gathering \in BOOLEAN /\ drainedDone \in BOOLEAN
    /\ buffered \cup gathered \cup drained \subseteq {c1}
    /\ restart \in {"none", "applying"}
PeerTyped == PeerPlaces /\ PeerFlags /\ PeerIce /\ PeerKept /\ inFrames \in 0..PcFrames

PeerInv == PeerTyped /\ PeerPoints /\ PeerMessages /\ PeerTrickle /\ PeerAudio

LEMMA PeerInits == Peer!Init => PeerInv
<1> SUFFICES ASSUME Peer!Init PROVE PeerInv
  OBVIOUS
<1>1. /\ pcTold = <<>> /\ pcClaimed = FALSE /\ callback = "none" /\ ice = "ok"
      /\ saved = <<{}, FALSE>> /\ restart = "none"
  BY DEF Peer!Init
<1>2. PeerMessages
  <2>1. <<>> \in Seq(Words) /\ Len(<<>>) = 0
    BY EmptySeq
  <2>2. Down = FALSE
    BY <1>1 DEF Down
  <2> QED
    BY <1>1, <2>1, <2>2 DEF PeerMessages, Messages, Alternates
<1>3. PeerTrickle
  <2>1. saved \in (SUBSET {c1}) \X BOOLEAN
    BY <1>1
  <2>2. gathered = {} /\ gathering \in BOOLEAN /\ iceDone = FALSE /\ gathering = (pcKind = "webrtc")
    BY DEF Peer!Init
  <2> QED
    BY <1>1, <2>1, <2>2 DEF PeerTrickle
<1>4. PeerTyped
  <2>1. 0 \in 0..MaxFlaps /\ 0 \in 0..PcFrames
    BY RemotesAssumption
  <2>2. gathering \in BOOLEAN /\ (gathering = (pcKind = "webrtc"))
    BY DEF Peer!Init
  <2> QED
    BY <2>1, <2>2 DEF Peer!Init, PeerTyped, PeerPlaces, PeerFlags, PeerIce, PeerKept
<1>5. PeerPoints /\ PeerAudio
  BY DEF Peer!Init, PeerPoints, PeerAudio
<1> QED
  BY <1>2, <1>3, <1>4, <1>5 DEF PeerInv

LEMMA PeerToldSame ==
    ASSUME PeerMessages, UNCHANGED <<pcTold, pcClaimed>>, PeerEarly' => PeerEarly,
           Down \in BOOLEAN, Down' = Down
    PROVE  PeerMessages'
  BY DEF PeerMessages, Messages

LEMMA PeerToldLast ==
    ASSUME PeerMessages, pcClaimed \in BOOLEAN, Peer!PublishDisconnect, PeerEarly' => PeerEarly,
           Down' = Down
    PROVE  PeerMessages' /\ pcClaimed'
<1>1. /\ pcClaimed' = TRUE
      /\ pcTold' = IF pcClaimed THEN pcTold ELSE Append(pcTold, "disconnected")
  BY DEF Peer!PublishDisconnect
<1>2. CASE pcClaimed
  BY <1>1, <1>2 DEF PeerMessages, Messages
<1>3. CASE ~pcClaimed
  <2>1. Messages(pcTold, FALSE, PeerEarly) /\ Alternates(pcTold, Down) /\ pcTold \in Seq(Words)
    BY <1>3 DEF PeerMessages, Messages
  <2>2. Messages(pcTold', TRUE, PeerEarly)
    BY <1>1, <1>3, <2>1, ToldDisconnected
  <2>3. Alternates(pcTold', Down)
    BY <1>1, <1>3, <2>1, AlternatesElse
  <2> QED
    BY <1>1, <2>2, <2>3 DEF PeerMessages, Messages
<1> QED
  BY <1>1, <1>2, <1>3

LEMMA PeerSteps == PeerInv /\ Peer!Next => PeerInv'
<1> SUFFICES ASSUME PeerInv, Peer!Next PROVE PeerInv'
  OBVIOUS
<1>0. MaxFlaps \in Nat /\ PcFrames \in Nat /\ PcFrames >= 1
  BY RemotesAssumption
<1>00. Down \in BOOLEAN
  BY DEF Down
<1>1. CASE Peer!DeleteLeg
  <2>1. /\ UNCHANGED <<pcTold, pcClaimed, buffered, iceDone, gathered, gathering, drained, drainedDone,
                      restart, saved, restarts, producer, inFrames, pcKind>>
    BY <1>1 DEF Peer!DeleteLeg, Peer!legVars, Peer!iceVars, Peer!trickle, Peer!audioVars
  <2>0. PeerPlaces /\ PeerFlags /\ PeerIce /\ PeerKept /\ inFrames \in 0..PcFrames
    BY DEF PeerInv, PeerTyped
  <2>5. PeerTyped'
    <3>1. PeerPlaces'
      BY <2>0, <1>1 DEF Peer!DeleteLeg, Peer!legVars, Peer!iceVars, Peer!trickle, Peer!audioVars, PeerPlaces
    <3>2. PeerFlags'
      BY <2>0, <1>1 DEF Peer!DeleteLeg, Peer!legVars, Peer!iceVars, Peer!trickle, Peer!audioVars, PeerFlags
    <3>3. PeerIce'
      BY <1>0, <2>0, <1>1 DEF Peer!DeleteLeg, Peer!legVars, Peer!iceVars, Peer!trickle, Peer!audioVars, PeerIce
    <3>4. PeerKept'
      BY <2>0, <1>1 DEF Peer!DeleteLeg, Peer!legVars, Peer!iceVars, Peer!trickle, Peer!audioVars, PeerKept
    <3>5. inFrames' \in 0..PcFrames
      BY <2>0, <1>1 DEF Peer!DeleteLeg, Peer!legVars, Peer!iceVars, Peer!trickle, Peer!audioVars
    <3> QED
      BY <3>1, <3>2, <3>3, <3>4, <3>5 DEF PeerTyped
  <2>6. PeerPoints'
    BY <1>1 DEF Peer!DeleteLeg, Peer!legVars, Peer!iceVars, Peer!trickle, Peer!audioVars, PeerInv, PeerPoints, PeerTyped, PeerPlaces, PeerFlags, PeerIce
  <2>7. (PeerEarly' => PeerEarly) /\ Down' = Down
    BY <1>1 DEF Peer!DeleteLeg, Peer!legVars, Peer!iceVars, Peer!trickle, Peer!audioVars, PeerInv, PeerPoints, PeerTyped, PeerPlaces, PeerFlags, PeerIce, PeerEarly, Down
  <2>2. PeerTyped' /\ PeerPoints' /\ (PeerEarly' => PeerEarly) /\ Down' = Down
    BY <2>5, <2>6, <2>7
  <2>3. PeerMessages'
    BY <1>00, <2>1, <2>2, PeerToldSame DEF PeerInv
  <2>4. PeerTrickle' /\ PeerAudio'
    BY <2>1 DEF PeerInv, PeerTrickle, PeerAudio
  <2> QED
    BY <2>2, <2>3, <2>4 DEF PeerInv
<1>2. CASE Peer!DeleteCleansUp
  <2>1. /\ UNCHANGED <<pcTold, pcClaimed, buffered, iceDone, gathered, gathering, drained, drainedDone,
                      restart, saved, restarts, producer, inFrames, pcKind>>
    BY <1>2 DEF Peer!DeleteCleansUp, Peer!CleanUp, Peer!Hangup, Peer!Bye, Peer!legVars, Peer!iceVars, Peer!trickle, Peer!audioVars
  <2>0. PeerPlaces /\ PeerFlags /\ PeerIce /\ PeerKept /\ inFrames \in 0..PcFrames
    BY DEF PeerInv, PeerTyped
  <2>5. PeerTyped'
    <3>1. PeerPlaces'
      BY <2>0, <1>2 DEF Peer!DeleteCleansUp, Peer!CleanUp, Peer!Hangup, Peer!Bye, Peer!legVars, Peer!iceVars, Peer!trickle, Peer!audioVars, PeerPlaces
    <3>2. PeerFlags'
      BY <2>0, <1>2 DEF Peer!DeleteCleansUp, Peer!CleanUp, Peer!Hangup, Peer!Bye, Peer!legVars, Peer!iceVars, Peer!trickle, Peer!audioVars, PeerFlags
    <3>3. PeerIce'
      BY <1>0, <2>0, <1>2 DEF Peer!DeleteCleansUp, Peer!CleanUp, Peer!Hangup, Peer!Bye, Peer!legVars, Peer!iceVars, Peer!trickle, Peer!audioVars, PeerIce
    <3>4. PeerKept'
      BY <2>0, <1>2 DEF Peer!DeleteCleansUp, Peer!CleanUp, Peer!Hangup, Peer!Bye, Peer!legVars, Peer!iceVars, Peer!trickle, Peer!audioVars, PeerKept
    <3>5. inFrames' \in 0..PcFrames
      BY <2>0, <1>2 DEF Peer!DeleteCleansUp, Peer!CleanUp, Peer!Hangup, Peer!Bye, Peer!legVars, Peer!iceVars, Peer!trickle, Peer!audioVars
    <3> QED
      BY <3>1, <3>2, <3>3, <3>4, <3>5 DEF PeerTyped
  <2>6. PeerPoints'
    BY <1>2 DEF Peer!DeleteCleansUp, Peer!CleanUp, Peer!Hangup, Peer!Bye, Peer!legVars, Peer!iceVars, Peer!trickle, Peer!audioVars, PeerInv, PeerPoints, PeerTyped, PeerPlaces, PeerFlags, PeerIce
  <2>7. (PeerEarly' => PeerEarly) /\ Down' = Down
    BY <1>2 DEF Peer!DeleteCleansUp, Peer!CleanUp, Peer!Hangup, Peer!Bye, Peer!legVars, Peer!iceVars, Peer!trickle, Peer!audioVars, PeerInv, PeerPoints, PeerTyped, PeerPlaces, PeerFlags, PeerIce, PeerEarly, Down
  <2>2. PeerTyped' /\ PeerPoints' /\ (PeerEarly' => PeerEarly) /\ Down' = Down
    BY <2>5, <2>6, <2>7
  <2>3. PeerMessages'
    BY <1>00, <2>1, <2>2, PeerToldSame DEF PeerInv
  <2>4. PeerTrickle' /\ PeerAudio'
    BY <2>1 DEF PeerInv, PeerTrickle, PeerAudio
  <2> QED
    BY <2>2, <2>3, <2>4 DEF PeerInv
<1>3. CASE Peer!MediaUp
  <2>1. /\ UNCHANGED <<pcTold, pcClaimed, buffered, iceDone, gathered, gathering, drained, drainedDone,
                      restart, saved, restarts, producer, inFrames, pcKind>>
    BY <1>3 DEF Peer!MediaUp, Peer!Alone, Peer!legVars, Peer!iceVars, Peer!trickle, Peer!audioVars
  <2>0. PeerPlaces /\ PeerFlags /\ PeerIce /\ PeerKept /\ inFrames \in 0..PcFrames
    BY DEF PeerInv, PeerTyped
  <2>5. PeerTyped'
    <3>1. PeerPlaces'
      BY <2>0, <1>3 DEF Peer!MediaUp, Peer!Alone, Peer!legVars, Peer!iceVars, Peer!trickle, Peer!audioVars, PeerPlaces
    <3>2. PeerFlags'
      BY <2>0, <1>3 DEF Peer!MediaUp, Peer!Alone, Peer!legVars, Peer!iceVars, Peer!trickle, Peer!audioVars, PeerFlags
    <3>3. PeerIce'
      BY <1>0, <2>0, <1>3 DEF Peer!MediaUp, Peer!Alone, Peer!legVars, Peer!iceVars, Peer!trickle, Peer!audioVars, PeerIce
    <3>4. PeerKept'
      BY <2>0, <1>3 DEF Peer!MediaUp, Peer!Alone, Peer!legVars, Peer!iceVars, Peer!trickle, Peer!audioVars, PeerKept
    <3>5. inFrames' \in 0..PcFrames
      BY <2>0, <1>3 DEF Peer!MediaUp, Peer!Alone, Peer!legVars, Peer!iceVars, Peer!trickle, Peer!audioVars
    <3> QED
      BY <3>1, <3>2, <3>3, <3>4, <3>5 DEF PeerTyped
  <2>6. PeerPoints'
    BY <1>3 DEF Peer!MediaUp, Peer!Alone, Peer!legVars, Peer!iceVars, Peer!trickle, Peer!audioVars, PeerInv, PeerPoints, PeerTyped, PeerPlaces, PeerFlags, PeerIce
  <2>7. (PeerEarly' => PeerEarly) /\ Down' = Down
    BY <1>3 DEF Peer!MediaUp, Peer!Alone, Peer!legVars, Peer!iceVars, Peer!trickle, Peer!audioVars, PeerInv, PeerPoints, PeerTyped, PeerPlaces, PeerFlags, PeerIce, PeerEarly, Down
  <2>2. PeerTyped' /\ PeerPoints' /\ (PeerEarly' => PeerEarly) /\ Down' = Down
    BY <2>5, <2>6, <2>7
  <2>3. PeerMessages'
    BY <1>00, <2>1, <2>2, PeerToldSame DEF PeerInv
  <2>4. PeerTrickle' /\ PeerAudio'
    BY <2>1 DEF PeerInv, PeerTrickle, PeerAudio
  <2> QED
    BY <2>2, <2>3, <2>4 DEF PeerInv
<1>4. CASE Peer!Flap
  <2>1. /\ UNCHANGED <<pcTold, pcClaimed, buffered, iceDone, gathered, gathering, drained, drainedDone,
                      restart, saved, restarts, producer, inFrames, pcKind>>
    BY <1>4 DEF Peer!Flap, Peer!Alone, Peer!legVars, Peer!iceVars, Peer!trickle, Peer!audioVars
  <2>0. PeerPlaces /\ PeerFlags /\ PeerIce /\ PeerKept /\ inFrames \in 0..PcFrames
    BY DEF PeerInv, PeerTyped
  <2>5. PeerTyped'
    <3>1. PeerPlaces'
      BY <2>0, <1>4 DEF Peer!Flap, Peer!Alone, Peer!legVars, Peer!iceVars, Peer!trickle, Peer!audioVars, PeerPlaces
    <3>2. PeerFlags'
      BY <2>0, <1>4 DEF Peer!Flap, Peer!Alone, Peer!legVars, Peer!iceVars, Peer!trickle, Peer!audioVars, PeerFlags
    <3>3. PeerIce'
      BY <1>0, <2>0, <1>4 DEF Peer!Flap, Peer!Alone, Peer!legVars, Peer!iceVars, Peer!trickle, Peer!audioVars, PeerIce
    <3>4. PeerKept'
      BY <2>0, <1>4 DEF Peer!Flap, Peer!Alone, Peer!legVars, Peer!iceVars, Peer!trickle, Peer!audioVars, PeerKept
    <3>5. inFrames' \in 0..PcFrames
      BY <2>0, <1>4 DEF Peer!Flap, Peer!Alone, Peer!legVars, Peer!iceVars, Peer!trickle, Peer!audioVars
    <3> QED
      BY <3>1, <3>2, <3>3, <3>4, <3>5 DEF PeerTyped
  <2>6. PeerPoints'
    BY <1>4 DEF Peer!Flap, Peer!Alone, Peer!legVars, Peer!iceVars, Peer!trickle, Peer!audioVars, PeerInv, PeerPoints, PeerTyped, PeerPlaces, PeerFlags, PeerIce
  <2>7. (PeerEarly' => PeerEarly) /\ Down' = Down
    BY <1>4 DEF Peer!Flap, Peer!Alone, Peer!legVars, Peer!iceVars, Peer!trickle, Peer!audioVars, PeerInv, PeerPoints, PeerTyped, PeerPlaces, PeerFlags, PeerIce, PeerEarly, Down
  <2>2. PeerTyped' /\ PeerPoints' /\ (PeerEarly' => PeerEarly) /\ Down' = Down
    BY <2>5, <2>6, <2>7
  <2>3. PeerMessages'
    BY <1>00, <2>1, <2>2, PeerToldSame DEF PeerInv
  <2>4. PeerTrickle' /\ PeerAudio'
    BY <2>1 DEF PeerInv, PeerTrickle, PeerAudio
  <2> QED
    BY <2>2, <2>3, <2>4 DEF PeerInv
<1>5. CASE \E how \in {"failed", "peerClosed"} : Peer!MediaLost(how)
  <2>1. /\ UNCHANGED <<pcTold, pcClaimed, buffered, iceDone, gathered, gathering, drained, drainedDone,
                      restart, saved, restarts, producer, inFrames, pcKind>>
    BY <1>5 DEF Peer!MediaLost, Peer!legVars, Peer!iceVars, Peer!trickle, Peer!audioVars
  <2>0. PeerPlaces /\ PeerFlags /\ PeerIce /\ PeerKept /\ inFrames \in 0..PcFrames
    BY DEF PeerInv, PeerTyped
  <2>5. PeerTyped'
    <3>1. PeerPlaces'
      BY <2>0, <1>5 DEF Peer!MediaLost, Peer!legVars, Peer!iceVars, Peer!trickle, Peer!audioVars, PeerPlaces
    <3>2. PeerFlags'
      BY <2>0, <1>5 DEF Peer!MediaLost, Peer!legVars, Peer!iceVars, Peer!trickle, Peer!audioVars, PeerFlags
    <3>3. PeerIce'
      BY <1>0, <2>0, <1>5 DEF Peer!MediaLost, Peer!legVars, Peer!iceVars, Peer!trickle, Peer!audioVars, PeerIce
    <3>4. PeerKept'
      BY <2>0, <1>5 DEF Peer!MediaLost, Peer!legVars, Peer!iceVars, Peer!trickle, Peer!audioVars, PeerKept
    <3>5. inFrames' \in 0..PcFrames
      BY <2>0, <1>5 DEF Peer!MediaLost, Peer!legVars, Peer!iceVars, Peer!trickle, Peer!audioVars
    <3> QED
      BY <3>1, <3>2, <3>3, <3>4, <3>5 DEF PeerTyped
  <2>6. PeerPoints'
    BY <1>5 DEF Peer!MediaLost, Peer!legVars, Peer!iceVars, Peer!trickle, Peer!audioVars, PeerInv, PeerPoints, PeerTyped, PeerPlaces, PeerFlags, PeerIce
  <2>7. (PeerEarly' => PeerEarly) /\ Down' = Down
    BY <1>5 DEF Peer!MediaLost, Peer!legVars, Peer!iceVars, Peer!trickle, Peer!audioVars, PeerInv, PeerPoints, PeerTyped, PeerPlaces, PeerFlags, PeerIce, PeerEarly, Down
  <2>2. PeerTyped' /\ PeerPoints' /\ (PeerEarly' => PeerEarly) /\ Down' = Down
    BY <2>5, <2>6, <2>7
  <2>3. PeerMessages'
    BY <1>00, <2>1, <2>2, PeerToldSame DEF PeerInv
  <2>4. PeerTrickle' /\ PeerAudio'
    BY <2>1 DEF PeerInv, PeerTrickle, PeerAudio
  <2> QED
    BY <2>2, <2>3, <2>4 DEF PeerInv
<1>6. CASE Peer!GraceEnds
  <2>1. /\ UNCHANGED <<pcTold, pcClaimed, buffered, iceDone, gathered, gathering, drained, drainedDone,
                      restart, saved, restarts, producer, inFrames, pcKind>>
    BY <1>6 DEF Peer!GraceEnds, Peer!legVars, Peer!iceVars, Peer!trickle, Peer!audioVars
  <2>0. PeerPlaces /\ PeerFlags /\ PeerIce /\ PeerKept /\ inFrames \in 0..PcFrames
    BY DEF PeerInv, PeerTyped
  <2>5. PeerTyped'
    <3>1. PeerPlaces'
      BY <2>0, <1>6 DEF Peer!GraceEnds, Peer!legVars, Peer!iceVars, Peer!trickle, Peer!audioVars, PeerPlaces
    <3>2. PeerFlags'
      BY <2>0, <1>6 DEF Peer!GraceEnds, Peer!legVars, Peer!iceVars, Peer!trickle, Peer!audioVars, PeerFlags
    <3>3. PeerIce'
      BY <1>0, <2>0, <1>6 DEF Peer!GraceEnds, Peer!legVars, Peer!iceVars, Peer!trickle, Peer!audioVars, PeerIce
    <3>4. PeerKept'
      BY <2>0, <1>6 DEF Peer!GraceEnds, Peer!legVars, Peer!iceVars, Peer!trickle, Peer!audioVars, PeerKept
    <3>5. inFrames' \in 0..PcFrames
      BY <2>0, <1>6 DEF Peer!GraceEnds, Peer!legVars, Peer!iceVars, Peer!trickle, Peer!audioVars
    <3> QED
      BY <3>1, <3>2, <3>3, <3>4, <3>5 DEF PeerTyped
  <2>6. PeerPoints'
    BY <1>6 DEF Peer!GraceEnds, Peer!legVars, Peer!iceVars, Peer!trickle, Peer!audioVars, PeerInv, PeerPoints, PeerTyped, PeerPlaces, PeerFlags, PeerIce
  <2>7. (PeerEarly' => PeerEarly) /\ Down' = Down
    BY <1>6 DEF Peer!GraceEnds, Peer!legVars, Peer!iceVars, Peer!trickle, Peer!audioVars, PeerInv, PeerPoints, PeerTyped, PeerPlaces, PeerFlags, PeerIce, PeerEarly, Down
  <2>2. PeerTyped' /\ PeerPoints' /\ (PeerEarly' => PeerEarly) /\ Down' = Down
    BY <2>5, <2>6, <2>7
  <2>3. PeerMessages'
    BY <1>00, <2>1, <2>2, PeerToldSame DEF PeerInv
  <2>4. PeerTrickle' /\ PeerAudio'
    BY <2>1 DEF PeerInv, PeerTrickle, PeerAudio
  <2> QED
    BY <2>2, <2>3, <2>4 DEF PeerInv
<1>7. CASE Peer!LostCleansUp
  <2>1. /\ UNCHANGED <<pcTold, pcClaimed, buffered, iceDone, gathered, gathering, drained, drainedDone,
                      restart, saved, restarts, producer, inFrames, pcKind>>
    BY <1>7 DEF Peer!LostCleansUp, Peer!CleanUp, Peer!Hangup, Peer!Bye, Peer!legVars, Peer!iceVars, Peer!trickle, Peer!audioVars
  <2>0. PeerPlaces /\ PeerFlags /\ PeerIce /\ PeerKept /\ inFrames \in 0..PcFrames
    BY DEF PeerInv, PeerTyped
  <2>5. PeerTyped'
    <3>1. PeerPlaces'
      BY <2>0, <1>7 DEF Peer!LostCleansUp, Peer!CleanUp, Peer!Hangup, Peer!Bye, Peer!legVars, Peer!iceVars, Peer!trickle, Peer!audioVars, PeerPlaces
    <3>2. PeerFlags'
      BY <2>0, <1>7 DEF Peer!LostCleansUp, Peer!CleanUp, Peer!Hangup, Peer!Bye, Peer!legVars, Peer!iceVars, Peer!trickle, Peer!audioVars, PeerFlags
    <3>3. PeerIce'
      BY <1>0, <2>0, <1>7 DEF Peer!LostCleansUp, Peer!CleanUp, Peer!Hangup, Peer!Bye, Peer!legVars, Peer!iceVars, Peer!trickle, Peer!audioVars, PeerIce
    <3>4. PeerKept'
      BY <2>0, <1>7 DEF Peer!LostCleansUp, Peer!CleanUp, Peer!Hangup, Peer!Bye, Peer!legVars, Peer!iceVars, Peer!trickle, Peer!audioVars, PeerKept
    <3>5. inFrames' \in 0..PcFrames
      BY <2>0, <1>7 DEF Peer!LostCleansUp, Peer!CleanUp, Peer!Hangup, Peer!Bye, Peer!legVars, Peer!iceVars, Peer!trickle, Peer!audioVars
    <3> QED
      BY <3>1, <3>2, <3>3, <3>4, <3>5 DEF PeerTyped
  <2>6. PeerPoints'
    BY <1>7 DEF Peer!LostCleansUp, Peer!CleanUp, Peer!Hangup, Peer!Bye, Peer!legVars, Peer!iceVars, Peer!trickle, Peer!audioVars, PeerInv, PeerPoints, PeerTyped, PeerPlaces, PeerFlags, PeerIce
  <2>7. (PeerEarly' => PeerEarly) /\ Down' = Down
    BY <1>7 DEF Peer!LostCleansUp, Peer!CleanUp, Peer!Hangup, Peer!Bye, Peer!legVars, Peer!iceVars, Peer!trickle, Peer!audioVars, PeerInv, PeerPoints, PeerTyped, PeerPlaces, PeerFlags, PeerIce, PeerEarly, Down
  <2>2. PeerTyped' /\ PeerPoints' /\ (PeerEarly' => PeerEarly) /\ Down' = Down
    BY <2>5, <2>6, <2>7
  <2>3. PeerMessages'
    BY <1>00, <2>1, <2>2, PeerToldSame DEF PeerInv
  <2>4. PeerTrickle' /\ PeerAudio'
    BY <2>1 DEF PeerInv, PeerTrickle, PeerAudio
  <2> QED
    BY <2>2, <2>3, <2>4 DEF PeerInv
<1>8. CASE Peer!PeerEnds
  <2>1. /\ UNCHANGED <<pcTold, pcClaimed, buffered, iceDone, gathered, gathering, drained, drainedDone,
                      restart, saved, restarts, producer, inFrames, pcKind>>
    BY <1>8 DEF Peer!PeerEnds, Peer!legVars, Peer!iceVars, Peer!trickle, Peer!audioVars
  <2>0. PeerPlaces /\ PeerFlags /\ PeerIce /\ PeerKept /\ inFrames \in 0..PcFrames
    BY DEF PeerInv, PeerTyped
  <2>5. PeerTyped'
    <3>1. PeerPlaces'
      BY <2>0, <1>8 DEF Peer!PeerEnds, Peer!legVars, Peer!iceVars, Peer!trickle, Peer!audioVars, PeerPlaces
    <3>2. PeerFlags'
      BY <2>0, <1>8 DEF Peer!PeerEnds, Peer!legVars, Peer!iceVars, Peer!trickle, Peer!audioVars, PeerFlags
    <3>3. PeerIce'
      BY <1>0, <2>0, <1>8 DEF Peer!PeerEnds, Peer!legVars, Peer!iceVars, Peer!trickle, Peer!audioVars, PeerIce
    <3>4. PeerKept'
      BY <2>0, <1>8 DEF Peer!PeerEnds, Peer!legVars, Peer!iceVars, Peer!trickle, Peer!audioVars, PeerKept
    <3>5. inFrames' \in 0..PcFrames
      BY <2>0, <1>8 DEF Peer!PeerEnds, Peer!legVars, Peer!iceVars, Peer!trickle, Peer!audioVars
    <3> QED
      BY <3>1, <3>2, <3>3, <3>4, <3>5 DEF PeerTyped
  <2>6. PeerPoints'
    BY <1>8 DEF Peer!PeerEnds, Peer!legVars, Peer!iceVars, Peer!trickle, Peer!audioVars, PeerInv, PeerPoints, PeerTyped, PeerPlaces, PeerFlags, PeerIce
  <2>7. (PeerEarly' => PeerEarly) /\ Down' = Down
    BY <1>8 DEF Peer!PeerEnds, Peer!legVars, Peer!iceVars, Peer!trickle, Peer!audioVars, PeerInv, PeerPoints, PeerTyped, PeerPlaces, PeerFlags, PeerIce, PeerEarly, Down
  <2>2. PeerTyped' /\ PeerPoints' /\ (PeerEarly' => PeerEarly) /\ Down' = Down
    BY <2>5, <2>6, <2>7
  <2>3. PeerMessages'
    BY <1>00, <2>1, <2>2, PeerToldSame DEF PeerInv
  <2>4. PeerTrickle' /\ PeerAudio'
    BY <2>1 DEF PeerInv, PeerTrickle, PeerAudio
  <2> QED
    BY <2>2, <2>3, <2>4 DEF PeerInv
<1>9. CASE Peer!RequestAnswer
  <2>1. /\ UNCHANGED <<pcTold, pcClaimed, buffered, iceDone, gathered, gathering, drained, drainedDone,
                      restart, saved, restarts, producer, inFrames, pcKind>>
    BY <1>9 DEF Peer!RequestAnswer, Peer!legVars, Peer!iceVars, Peer!trickle, Peer!audioVars
  <2>0. PeerPlaces /\ PeerFlags /\ PeerIce /\ PeerKept /\ inFrames \in 0..PcFrames
    BY DEF PeerInv, PeerTyped
  <2>5. PeerTyped'
    <3>1. PeerPlaces'
      BY <2>0, <1>9 DEF Peer!RequestAnswer, Peer!legVars, Peer!iceVars, Peer!trickle, Peer!audioVars, PeerPlaces
    <3>2. PeerFlags'
      BY <2>0, <1>9 DEF Peer!RequestAnswer, Peer!legVars, Peer!iceVars, Peer!trickle, Peer!audioVars, PeerFlags
    <3>3. PeerIce'
      BY <1>0, <2>0, <1>9 DEF Peer!RequestAnswer, Peer!legVars, Peer!iceVars, Peer!trickle, Peer!audioVars, PeerIce
    <3>4. PeerKept'
      BY <2>0, <1>9 DEF Peer!RequestAnswer, Peer!legVars, Peer!iceVars, Peer!trickle, Peer!audioVars, PeerKept
    <3>5. inFrames' \in 0..PcFrames
      BY <2>0, <1>9 DEF Peer!RequestAnswer, Peer!legVars, Peer!iceVars, Peer!trickle, Peer!audioVars
    <3> QED
      BY <3>1, <3>2, <3>3, <3>4, <3>5 DEF PeerTyped
  <2>6. PeerPoints'
    BY <1>9 DEF Peer!RequestAnswer, Peer!legVars, Peer!iceVars, Peer!trickle, Peer!audioVars, PeerInv, PeerPoints, PeerTyped, PeerPlaces, PeerFlags, PeerIce
  <2>7. (PeerEarly' => PeerEarly) /\ Down' = Down
    BY <1>9 DEF Peer!RequestAnswer, Peer!legVars, Peer!iceVars, Peer!trickle, Peer!audioVars, PeerInv, PeerPoints, PeerTyped, PeerPlaces, PeerFlags, PeerIce, PeerEarly, Down
  <2>2. PeerTyped' /\ PeerPoints' /\ (PeerEarly' => PeerEarly) /\ Down' = Down
    BY <2>5, <2>6, <2>7
  <2>3. PeerMessages'
    BY <1>00, <2>1, <2>2, PeerToldSame DEF PeerInv
  <2>4. PeerTrickle' /\ PeerAudio'
    BY <2>1 DEF PeerInv, PeerTrickle, PeerAudio
  <2> QED
    BY <2>2, <2>3, <2>4 DEF PeerInv
<1>10. CASE Peer!Unanswered
  <2>1. /\ UNCHANGED <<pcTold, pcClaimed, buffered, iceDone, gathered, gathering, drained, drainedDone,
                      restart, saved, restarts, producer, inFrames, pcKind>>
    BY <1>10 DEF Peer!Unanswered, Peer!legVars, Peer!iceVars, Peer!trickle, Peer!audioVars
  <2>0. PeerPlaces /\ PeerFlags /\ PeerIce /\ PeerKept /\ inFrames \in 0..PcFrames
    BY DEF PeerInv, PeerTyped
  <2>5. PeerTyped'
    <3>1. PeerPlaces'
      BY <2>0, <1>10 DEF Peer!Unanswered, Peer!legVars, Peer!iceVars, Peer!trickle, Peer!audioVars, PeerPlaces
    <3>2. PeerFlags'
      BY <2>0, <1>10 DEF Peer!Unanswered, Peer!legVars, Peer!iceVars, Peer!trickle, Peer!audioVars, PeerFlags
    <3>3. PeerIce'
      BY <1>0, <2>0, <1>10 DEF Peer!Unanswered, Peer!legVars, Peer!iceVars, Peer!trickle, Peer!audioVars, PeerIce
    <3>4. PeerKept'
      BY <2>0, <1>10 DEF Peer!Unanswered, Peer!legVars, Peer!iceVars, Peer!trickle, Peer!audioVars, PeerKept
    <3>5. inFrames' \in 0..PcFrames
      BY <2>0, <1>10 DEF Peer!Unanswered, Peer!legVars, Peer!iceVars, Peer!trickle, Peer!audioVars
    <3> QED
      BY <3>1, <3>2, <3>3, <3>4, <3>5 DEF PeerTyped
  <2>6. PeerPoints'
    BY <1>10 DEF Peer!Unanswered, Peer!legVars, Peer!iceVars, Peer!trickle, Peer!audioVars, PeerInv, PeerPoints, PeerTyped, PeerPlaces, PeerFlags, PeerIce
  <2>7. (PeerEarly' => PeerEarly) /\ Down' = Down
    BY <1>10 DEF Peer!Unanswered, Peer!legVars, Peer!iceVars, Peer!trickle, Peer!audioVars, PeerInv, PeerPoints, PeerTyped, PeerPlaces, PeerFlags, PeerIce, PeerEarly, Down
  <2>2. PeerTyped' /\ PeerPoints' /\ (PeerEarly' => PeerEarly) /\ Down' = Down
    BY <2>5, <2>6, <2>7
  <2>3. PeerMessages'
    BY <1>00, <2>1, <2>2, PeerToldSame DEF PeerInv
  <2>4. PeerTrickle' /\ PeerAudio'
    BY <2>1 DEF PeerInv, PeerTrickle, PeerAudio
  <2> QED
    BY <2>2, <2>3, <2>4 DEF PeerInv
<1>11. CASE Peer!RingTimeoutOverlaps
  <2>1. /\ UNCHANGED <<pcTold, pcClaimed, buffered, iceDone, gathered, gathering, drained, drainedDone,
                      restart, saved, restarts, producer, inFrames, pcKind>>
    BY <1>11 DEF Peer!RingTimeoutOverlaps, Peer!legVars, Peer!iceVars, Peer!trickle, Peer!audioVars
  <2>0. PeerPlaces /\ PeerFlags /\ PeerIce /\ PeerKept /\ inFrames \in 0..PcFrames
    BY DEF PeerInv, PeerTyped
  <2>5. PeerTyped'
    <3>1. PeerPlaces'
      BY <2>0, <1>11 DEF Peer!RingTimeoutOverlaps, Peer!legVars, Peer!iceVars, Peer!trickle, Peer!audioVars, PeerPlaces
    <3>2. PeerFlags'
      BY <2>0, <1>11 DEF Peer!RingTimeoutOverlaps, Peer!legVars, Peer!iceVars, Peer!trickle, Peer!audioVars, PeerFlags
    <3>3. PeerIce'
      BY <1>0, <2>0, <1>11 DEF Peer!RingTimeoutOverlaps, Peer!legVars, Peer!iceVars, Peer!trickle, Peer!audioVars, PeerIce
    <3>4. PeerKept'
      BY <2>0, <1>11 DEF Peer!RingTimeoutOverlaps, Peer!legVars, Peer!iceVars, Peer!trickle, Peer!audioVars, PeerKept
    <3>5. inFrames' \in 0..PcFrames
      BY <2>0, <1>11 DEF Peer!RingTimeoutOverlaps, Peer!legVars, Peer!iceVars, Peer!trickle, Peer!audioVars
    <3> QED
      BY <3>1, <3>2, <3>3, <3>4, <3>5 DEF PeerTyped
  <2>6. PeerPoints'
    BY <1>11 DEF Peer!RingTimeoutOverlaps, Peer!legVars, Peer!iceVars, Peer!trickle, Peer!audioVars, PeerInv, PeerPoints, PeerTyped, PeerPlaces, PeerFlags, PeerIce
  <2>7. (PeerEarly' => PeerEarly) /\ Down' = Down
    BY <1>11 DEF Peer!RingTimeoutOverlaps, Peer!legVars, Peer!iceVars, Peer!trickle, Peer!audioVars, PeerInv, PeerPoints, PeerTyped, PeerPlaces, PeerFlags, PeerIce, PeerEarly, Down
  <2>2. PeerTyped' /\ PeerPoints' /\ (PeerEarly' => PeerEarly) /\ Down' = Down
    BY <2>5, <2>6, <2>7
  <2>3. PeerMessages'
    BY <1>00, <2>1, <2>2, PeerToldSame DEF PeerInv
  <2>4. PeerTrickle' /\ PeerAudio'
    BY <2>1 DEF PeerInv, PeerTrickle, PeerAudio
  <2> QED
    BY <2>2, <2>3, <2>4 DEF PeerInv
<1>12. CASE Peer!Answering
  <2>1. /\ UNCHANGED <<pcTold, pcClaimed, buffered, iceDone, gathered, gathering, drained, drainedDone,
                      restart, saved, restarts, producer, inFrames, pcKind>>
    BY <1>12 DEF Peer!Answering, Peer!Handles, Peer!legVars, Peer!iceVars, Peer!trickle, Peer!audioVars
  <2>0. PeerPlaces /\ PeerFlags /\ PeerIce /\ PeerKept /\ inFrames \in 0..PcFrames
    BY DEF PeerInv, PeerTyped
  <2>5. PeerTyped'
    <3>1. PeerPlaces'
      BY <2>0, <1>12 DEF Peer!Answering, Peer!Handles, Peer!legVars, Peer!iceVars, Peer!trickle, Peer!audioVars, PeerPlaces
    <3>2. PeerFlags'
      BY <2>0, <1>12 DEF Peer!Answering, Peer!Handles, Peer!legVars, Peer!iceVars, Peer!trickle, Peer!audioVars, PeerFlags
    <3>3. PeerIce'
      BY <1>0, <2>0, <1>12 DEF Peer!Answering, Peer!Handles, Peer!legVars, Peer!iceVars, Peer!trickle, Peer!audioVars, PeerIce
    <3>4. PeerKept'
      BY <2>0, <1>12 DEF Peer!Answering, Peer!Handles, Peer!legVars, Peer!iceVars, Peer!trickle, Peer!audioVars, PeerKept
    <3>5. inFrames' \in 0..PcFrames
      BY <2>0, <1>12 DEF Peer!Answering, Peer!Handles, Peer!legVars, Peer!iceVars, Peer!trickle, Peer!audioVars
    <3> QED
      BY <3>1, <3>2, <3>3, <3>4, <3>5 DEF PeerTyped
  <2>6. PeerPoints'
    BY <1>12 DEF Peer!Answering, Peer!Handles, Peer!legVars, Peer!iceVars, Peer!trickle, Peer!audioVars, PeerInv, PeerPoints, PeerTyped, PeerPlaces, PeerFlags, PeerIce
  <2>7. (PeerEarly' => PeerEarly) /\ Down' = Down
    BY <1>12 DEF Peer!Answering, Peer!Handles, Peer!legVars, Peer!iceVars, Peer!trickle, Peer!audioVars, PeerInv, PeerPoints, PeerTyped, PeerPlaces, PeerFlags, PeerIce, PeerEarly, Down
  <2>2. PeerTyped' /\ PeerPoints' /\ (PeerEarly' => PeerEarly) /\ Down' = Down
    BY <2>5, <2>6, <2>7
  <2>3. PeerMessages'
    BY <1>00, <2>1, <2>2, PeerToldSame DEF PeerInv
  <2>4. PeerTrickle' /\ PeerAudio'
    BY <2>1 DEF PeerInv, PeerTrickle, PeerAudio
  <2> QED
    BY <2>2, <2>3, <2>4 DEF PeerInv
<1>13. CASE Peer!Answer
  <2>1. /\ UNCHANGED <<pcTold, pcClaimed, buffered, iceDone, gathered, gathering, drained, drainedDone,
                      restart, saved, restarts, producer, inFrames, pcKind>>
    BY <1>13 DEF Peer!Answer, Peer!CleanUp, Peer!Hangup, Peer!Bye, Peer!legVars, Peer!iceVars, Peer!trickle, Peer!audioVars
  <2>0. PeerPlaces /\ PeerFlags /\ PeerIce /\ PeerKept /\ inFrames \in 0..PcFrames
    BY DEF PeerInv, PeerTyped
  <2>5. PeerTyped'
    <3>1. PeerPlaces'
      BY <2>0, <1>13 DEF Peer!Answer, Peer!CleanUp, Peer!Hangup, Peer!Bye, Peer!legVars, Peer!iceVars, Peer!trickle, Peer!audioVars, PeerPlaces
    <3>2. PeerFlags'
      BY <2>0, <1>13 DEF Peer!Answer, Peer!CleanUp, Peer!Hangup, Peer!Bye, Peer!legVars, Peer!iceVars, Peer!trickle, Peer!audioVars, PeerFlags
    <3>3. PeerIce'
      BY <1>0, <2>0, <1>13 DEF Peer!Answer, Peer!CleanUp, Peer!Hangup, Peer!Bye, Peer!legVars, Peer!iceVars, Peer!trickle, Peer!audioVars, PeerIce
    <3>4. PeerKept'
      BY <2>0, <1>13 DEF Peer!Answer, Peer!CleanUp, Peer!Hangup, Peer!Bye, Peer!legVars, Peer!iceVars, Peer!trickle, Peer!audioVars, PeerKept
    <3>5. inFrames' \in 0..PcFrames
      BY <2>0, <1>13 DEF Peer!Answer, Peer!CleanUp, Peer!Hangup, Peer!Bye, Peer!legVars, Peer!iceVars, Peer!trickle, Peer!audioVars
    <3> QED
      BY <3>1, <3>2, <3>3, <3>4, <3>5 DEF PeerTyped
  <2>6. PeerPoints'
    BY <1>13 DEF Peer!Answer, Peer!CleanUp, Peer!Hangup, Peer!Bye, Peer!legVars, Peer!iceVars, Peer!trickle, Peer!audioVars, PeerInv, PeerPoints, PeerTyped, PeerPlaces, PeerFlags, PeerIce
  <2>7. (PeerEarly' => PeerEarly) /\ Down' = Down
    BY <1>13 DEF Peer!Answer, Peer!CleanUp, Peer!Hangup, Peer!Bye, Peer!legVars, Peer!iceVars, Peer!trickle, Peer!audioVars, PeerInv, PeerPoints, PeerTyped, PeerPlaces, PeerFlags, PeerIce, PeerEarly, Down
  <2>2. PeerTyped' /\ PeerPoints' /\ (PeerEarly' => PeerEarly) /\ Down' = Down
    BY <2>5, <2>6, <2>7
  <2>3. PeerMessages'
    BY <1>00, <2>1, <2>2, PeerToldSame DEF PeerInv
  <2>4. PeerTrickle' /\ PeerAudio'
    BY <2>1 DEF PeerInv, PeerTrickle, PeerAudio
  <2> QED
    BY <2>2, <2>3, <2>4 DEF PeerInv
<1>14. CASE Peer!AnswerDone
  <2>1. /\ UNCHANGED <<pcTold, pcClaimed, buffered, iceDone, gathered, gathering, drained, drainedDone,
                      restart, saved, restarts, producer, inFrames, pcKind>>
    BY <1>14 DEF Peer!AnswerDone, Peer!Handles, Peer!legVars, Peer!iceVars, Peer!trickle, Peer!audioVars
  <2>0. PeerPlaces /\ PeerFlags /\ PeerIce /\ PeerKept /\ inFrames \in 0..PcFrames
    BY DEF PeerInv, PeerTyped
  <2>5. PeerTyped'
    <3>1. PeerPlaces'
      BY <2>0, <1>14 DEF Peer!AnswerDone, Peer!Handles, Peer!legVars, Peer!iceVars, Peer!trickle, Peer!audioVars, PeerPlaces
    <3>2. PeerFlags'
      BY <2>0, <1>14 DEF Peer!AnswerDone, Peer!Handles, Peer!legVars, Peer!iceVars, Peer!trickle, Peer!audioVars, PeerFlags
    <3>3. PeerIce'
      BY <1>0, <2>0, <1>14 DEF Peer!AnswerDone, Peer!Handles, Peer!legVars, Peer!iceVars, Peer!trickle, Peer!audioVars, PeerIce
    <3>4. PeerKept'
      BY <2>0, <1>14 DEF Peer!AnswerDone, Peer!Handles, Peer!legVars, Peer!iceVars, Peer!trickle, Peer!audioVars, PeerKept
    <3>5. inFrames' \in 0..PcFrames
      BY <2>0, <1>14 DEF Peer!AnswerDone, Peer!Handles, Peer!legVars, Peer!iceVars, Peer!trickle, Peer!audioVars
    <3> QED
      BY <3>1, <3>2, <3>3, <3>4, <3>5 DEF PeerTyped
  <2>6. PeerPoints'
    BY <1>14 DEF Peer!AnswerDone, Peer!Handles, Peer!legVars, Peer!iceVars, Peer!trickle, Peer!audioVars, PeerInv, PeerPoints, PeerTyped, PeerPlaces, PeerFlags, PeerIce
  <2>7. (PeerEarly' => PeerEarly) /\ Down' = Down
    BY <1>14 DEF Peer!AnswerDone, Peer!Handles, Peer!legVars, Peer!iceVars, Peer!trickle, Peer!audioVars, PeerInv, PeerPoints, PeerTyped, PeerPlaces, PeerFlags, PeerIce, PeerEarly, Down
  <2>2. PeerTyped' /\ PeerPoints' /\ (PeerEarly' => PeerEarly) /\ Down' = Down
    BY <2>5, <2>6, <2>7
  <2>3. PeerMessages'
    BY <1>00, <2>1, <2>2, PeerToldSame DEF PeerInv
  <2>4. PeerTrickle' /\ PeerAudio'
    BY <2>1 DEF PeerInv, PeerTrickle, PeerAudio
  <2> QED
    BY <2>2, <2>3, <2>4 DEF PeerInv
<1>15. CASE Peer!InviteAnswered
  <2>1. /\ UNCHANGED <<pcTold, pcClaimed, buffered, iceDone, gathered, gathering, drained, drainedDone,
                      restart, saved, restarts, producer, inFrames, pcKind>>
    BY <1>15 DEF Peer!InviteAnswered, Peer!Handles, Peer!legVars, Peer!iceVars, Peer!trickle, Peer!audioVars
  <2>0. PeerPlaces /\ PeerFlags /\ PeerIce /\ PeerKept /\ inFrames \in 0..PcFrames
    BY DEF PeerInv, PeerTyped
  <2>5. PeerTyped'
    <3>1. PeerPlaces'
      BY <2>0, <1>15 DEF Peer!InviteAnswered, Peer!Handles, Peer!legVars, Peer!iceVars, Peer!trickle, Peer!audioVars, PeerPlaces
    <3>2. PeerFlags'
      BY <2>0, <1>15 DEF Peer!InviteAnswered, Peer!Handles, Peer!legVars, Peer!iceVars, Peer!trickle, Peer!audioVars, PeerFlags
    <3>3. PeerIce'
      BY <1>0, <2>0, <1>15 DEF Peer!InviteAnswered, Peer!Handles, Peer!legVars, Peer!iceVars, Peer!trickle, Peer!audioVars, PeerIce
    <3>4. PeerKept'
      BY <2>0, <1>15 DEF Peer!InviteAnswered, Peer!Handles, Peer!legVars, Peer!iceVars, Peer!trickle, Peer!audioVars, PeerKept
    <3>5. inFrames' \in 0..PcFrames
      BY <2>0, <1>15 DEF Peer!InviteAnswered, Peer!Handles, Peer!legVars, Peer!iceVars, Peer!trickle, Peer!audioVars
    <3> QED
      BY <3>1, <3>2, <3>3, <3>4, <3>5 DEF PeerTyped
  <2>6. PeerPoints'
    BY <1>15 DEF Peer!InviteAnswered, Peer!Handles, Peer!legVars, Peer!iceVars, Peer!trickle, Peer!audioVars, PeerInv, PeerPoints, PeerTyped, PeerPlaces, PeerFlags, PeerIce
  <2>7. (PeerEarly' => PeerEarly) /\ Down' = Down
    BY <1>15 DEF Peer!InviteAnswered, Peer!Handles, Peer!legVars, Peer!iceVars, Peer!trickle, Peer!audioVars, PeerInv, PeerPoints, PeerTyped, PeerPlaces, PeerFlags, PeerIce, PeerEarly, Down
  <2>2. PeerTyped' /\ PeerPoints' /\ (PeerEarly' => PeerEarly) /\ Down' = Down
    BY <2>5, <2>6, <2>7
  <2>3. PeerMessages'
    BY <1>00, <2>1, <2>2, PeerToldSame DEF PeerInv
  <2>4. PeerTrickle' /\ PeerAudio'
    BY <2>1 DEF PeerInv, PeerTrickle, PeerAudio
  <2> QED
    BY <2>2, <2>3, <2>4 DEF PeerInv
<1>16. CASE \E ok \in BOOLEAN : Peer!InviteFails(ok)
  <2>1. /\ UNCHANGED <<pcTold, pcClaimed, buffered, iceDone, gathered, gathering, drained, drainedDone,
                      restart, saved, restarts, producer, inFrames, pcKind>>
    BY <1>16 DEF Peer!InviteFails, Peer!Handles, Peer!legVars, Peer!iceVars, Peer!trickle, Peer!audioVars
  <2>0. PeerPlaces /\ PeerFlags /\ PeerIce /\ PeerKept /\ inFrames \in 0..PcFrames
    BY DEF PeerInv, PeerTyped
  <2>5. PeerTyped'
    <3>1. PeerPlaces'
      BY <2>0, <1>16 DEF Peer!InviteFails, Peer!Handles, Peer!legVars, Peer!iceVars, Peer!trickle, Peer!audioVars, PeerPlaces
    <3>2. PeerFlags'
      BY <2>0, <1>16 DEF Peer!InviteFails, Peer!Handles, Peer!legVars, Peer!iceVars, Peer!trickle, Peer!audioVars, PeerFlags
    <3>3. PeerIce'
      BY <1>0, <2>0, <1>16 DEF Peer!InviteFails, Peer!Handles, Peer!legVars, Peer!iceVars, Peer!trickle, Peer!audioVars, PeerIce
    <3>4. PeerKept'
      BY <2>0, <1>16 DEF Peer!InviteFails, Peer!Handles, Peer!legVars, Peer!iceVars, Peer!trickle, Peer!audioVars, PeerKept
    <3>5. inFrames' \in 0..PcFrames
      BY <2>0, <1>16 DEF Peer!InviteFails, Peer!Handles, Peer!legVars, Peer!iceVars, Peer!trickle, Peer!audioVars
    <3> QED
      BY <3>1, <3>2, <3>3, <3>4, <3>5 DEF PeerTyped
  <2>6. PeerPoints'
    BY <1>16 DEF Peer!InviteFails, Peer!Handles, Peer!legVars, Peer!iceVars, Peer!trickle, Peer!audioVars, PeerInv, PeerPoints, PeerTyped, PeerPlaces, PeerFlags, PeerIce
  <2>7. (PeerEarly' => PeerEarly) /\ Down' = Down
    BY <1>16 DEF Peer!InviteFails, Peer!Handles, Peer!legVars, Peer!iceVars, Peer!trickle, Peer!audioVars, PeerInv, PeerPoints, PeerTyped, PeerPlaces, PeerFlags, PeerIce, PeerEarly, Down
  <2>2. PeerTyped' /\ PeerPoints' /\ (PeerEarly' => PeerEarly) /\ Down' = Down
    BY <2>5, <2>6, <2>7
  <2>3. PeerMessages'
    BY <1>00, <2>1, <2>2, PeerToldSame DEF PeerInv
  <2>4. PeerTrickle' /\ PeerAudio'
    BY <2>1 DEF PeerInv, PeerTrickle, PeerAudio
  <2> QED
    BY <2>2, <2>3, <2>4 DEF PeerInv
<1>17. CASE \E ok \in BOOLEAN : Peer!Connect(ok)
  <2>1. /\ UNCHANGED <<pcTold, pcClaimed, buffered, iceDone, gathered, gathering, drained, drainedDone,
                      restart, saved, restarts, producer, inFrames, pcKind>>
    BY <1>17 DEF Peer!Connect, Peer!BadAnswer, Peer!legVars, Peer!iceVars, Peer!trickle, Peer!audioVars
  <2>0. PeerPlaces /\ PeerFlags /\ PeerIce /\ PeerKept /\ inFrames \in 0..PcFrames
    BY DEF PeerInv, PeerTyped
  <2>5. PeerTyped'
    <3>1. PeerPlaces'
      BY <2>0, <1>17 DEF Peer!Connect, Peer!BadAnswer, Peer!legVars, Peer!iceVars, Peer!trickle, Peer!audioVars, PeerPlaces
    <3>2. PeerFlags'
      BY <2>0, <1>17 DEF Peer!Connect, Peer!BadAnswer, Peer!legVars, Peer!iceVars, Peer!trickle, Peer!audioVars, PeerFlags
    <3>3. PeerIce'
      BY <1>0, <2>0, <1>17 DEF Peer!Connect, Peer!BadAnswer, Peer!legVars, Peer!iceVars, Peer!trickle, Peer!audioVars, PeerIce
    <3>4. PeerKept'
      BY <2>0, <1>17 DEF Peer!Connect, Peer!BadAnswer, Peer!legVars, Peer!iceVars, Peer!trickle, Peer!audioVars, PeerKept
    <3>5. inFrames' \in 0..PcFrames
      BY <2>0, <1>17 DEF Peer!Connect, Peer!BadAnswer, Peer!legVars, Peer!iceVars, Peer!trickle, Peer!audioVars
    <3> QED
      BY <3>1, <3>2, <3>3, <3>4, <3>5 DEF PeerTyped
  <2>6. PeerPoints'
    BY <1>17 DEF Peer!Connect, Peer!BadAnswer, Peer!legVars, Peer!iceVars, Peer!trickle, Peer!audioVars, PeerInv, PeerPoints, PeerTyped, PeerPlaces, PeerFlags, PeerIce
  <2>7. (PeerEarly' => PeerEarly) /\ Down' = Down
    BY <1>17 DEF Peer!Connect, Peer!BadAnswer, Peer!legVars, Peer!iceVars, Peer!trickle, Peer!audioVars, PeerInv, PeerPoints, PeerTyped, PeerPlaces, PeerFlags, PeerIce, PeerEarly, Down
  <2>2. PeerTyped' /\ PeerPoints' /\ (PeerEarly' => PeerEarly) /\ Down' = Down
    BY <2>5, <2>6, <2>7
  <2>3. PeerMessages'
    BY <1>00, <2>1, <2>2, PeerToldSame DEF PeerInv
  <2>4. PeerTrickle' /\ PeerAudio'
    BY <2>1 DEF PeerInv, PeerTrickle, PeerAudio
  <2> QED
    BY <2>2, <2>3, <2>4 DEF PeerInv
<1>18. CASE Peer!DialogEnds
  <2>1. /\ UNCHANGED <<pcTold, pcClaimed, buffered, iceDone, gathered, gathering, drained, drainedDone,
                      restart, saved, restarts, producer, inFrames, pcKind>>
    BY <1>18 DEF Peer!DialogEnds, Peer!CleanUp, Peer!Hangup, Peer!Bye, Peer!legVars, Peer!iceVars, Peer!trickle, Peer!audioVars
  <2>0. PeerPlaces /\ PeerFlags /\ PeerIce /\ PeerKept /\ inFrames \in 0..PcFrames
    BY DEF PeerInv, PeerTyped
  <2>5. PeerTyped'
    <3>1. PeerPlaces'
      BY <2>0, <1>18 DEF Peer!DialogEnds, Peer!CleanUp, Peer!Hangup, Peer!Bye, Peer!legVars, Peer!iceVars, Peer!trickle, Peer!audioVars, PeerPlaces
    <3>2. PeerFlags'
      BY <2>0, <1>18 DEF Peer!DialogEnds, Peer!CleanUp, Peer!Hangup, Peer!Bye, Peer!legVars, Peer!iceVars, Peer!trickle, Peer!audioVars, PeerFlags
    <3>3. PeerIce'
      BY <1>0, <2>0, <1>18 DEF Peer!DialogEnds, Peer!CleanUp, Peer!Hangup, Peer!Bye, Peer!legVars, Peer!iceVars, Peer!trickle, Peer!audioVars, PeerIce
    <3>4. PeerKept'
      BY <2>0, <1>18 DEF Peer!DialogEnds, Peer!CleanUp, Peer!Hangup, Peer!Bye, Peer!legVars, Peer!iceVars, Peer!trickle, Peer!audioVars, PeerKept
    <3>5. inFrames' \in 0..PcFrames
      BY <2>0, <1>18 DEF Peer!DialogEnds, Peer!CleanUp, Peer!Hangup, Peer!Bye, Peer!legVars, Peer!iceVars, Peer!trickle, Peer!audioVars
    <3> QED
      BY <3>1, <3>2, <3>3, <3>4, <3>5 DEF PeerTyped
  <2>6. PeerPoints'
    BY <1>18 DEF Peer!DialogEnds, Peer!CleanUp, Peer!Hangup, Peer!Bye, Peer!legVars, Peer!iceVars, Peer!trickle, Peer!audioVars, PeerInv, PeerPoints, PeerTyped, PeerPlaces, PeerFlags, PeerIce
  <2>7. (PeerEarly' => PeerEarly) /\ Down' = Down
    BY <1>18 DEF Peer!DialogEnds, Peer!CleanUp, Peer!Hangup, Peer!Bye, Peer!legVars, Peer!iceVars, Peer!trickle, Peer!audioVars, PeerInv, PeerPoints, PeerTyped, PeerPlaces, PeerFlags, PeerIce, PeerEarly, Down
  <2>2. PeerTyped' /\ PeerPoints' /\ (PeerEarly' => PeerEarly) /\ Down' = Down
    BY <2>5, <2>6, <2>7
  <2>3. PeerMessages'
    BY <1>00, <2>1, <2>2, PeerToldSame DEF PeerInv
  <2>4. PeerTrickle' /\ PeerAudio'
    BY <2>1 DEF PeerInv, PeerTrickle, PeerAudio
  <2> QED
    BY <2>2, <2>3, <2>4 DEF PeerInv
<1>19. CASE Peer!DeletePublishes
  <2>1. /\ Peer!PublishDisconnect /\ UNCHANGED <<buffered, iceDone, gathered, gathering, drained,
              drainedDone, restart, saved, restarts, producer, inFrames, pcKind>>
    BY <1>19 DEF Peer!DeletePublishes, Peer!legVars, Peer!iceVars, Peer!trickle, Peer!audioVars
  <2>2. (PeerEarly' => PeerEarly) /\ Down' = Down /\ pcClaimed \in BOOLEAN
    BY <1>19 DEF Peer!DeletePublishes, Peer!legVars, Peer!iceVars, Peer!trickle, Peer!audioVars, PeerInv, PeerPoints, PeerTyped, PeerPlaces, PeerFlags, PeerIce, PeerEarly, Down
  <2>3. PeerMessages' /\ pcClaimed'
    BY <2>1, <2>2, PeerToldLast DEF PeerInv
  <2>4. PeerTrickle' /\ PeerAudio'
    BY <2>1 DEF PeerInv, PeerTrickle, PeerAudio
  <2>0. PeerPlaces /\ PeerFlags /\ PeerIce /\ PeerKept /\ inFrames \in 0..PcFrames
    BY DEF PeerInv, PeerTyped
  <2>6. PeerTyped'
    <3>1. PeerPlaces'
      BY <2>0, <1>19 DEF Peer!DeletePublishes, Peer!legVars, Peer!iceVars, Peer!trickle, Peer!audioVars, Peer!PublishDisconnect, PeerPlaces
    <3>2. PeerFlags'
      BY <2>0, <1>19 DEF Peer!DeletePublishes, Peer!legVars, Peer!iceVars, Peer!trickle, Peer!audioVars, Peer!PublishDisconnect, PeerFlags
    <3>3. PeerIce'
      BY <1>0, <2>0, <1>19 DEF Peer!DeletePublishes, Peer!legVars, Peer!iceVars, Peer!trickle, Peer!audioVars, Peer!PublishDisconnect, PeerIce
    <3>4. PeerKept'
      BY <2>0, <1>19 DEF Peer!DeletePublishes, Peer!legVars, Peer!iceVars, Peer!trickle, Peer!audioVars, Peer!PublishDisconnect, PeerKept
    <3>5. inFrames' \in 0..PcFrames
      BY <2>0, <1>19 DEF Peer!DeletePublishes, Peer!legVars, Peer!iceVars, Peer!trickle, Peer!audioVars, Peer!PublishDisconnect
    <3> QED
      BY <3>1, <3>2, <3>3, <3>4, <3>5 DEF PeerTyped
  <2>7. PeerPoints'
    BY <1>19 DEF Peer!DeletePublishes, Peer!legVars, Peer!iceVars, Peer!trickle, Peer!audioVars, PeerInv, PeerPoints, PeerTyped, PeerPlaces, PeerFlags, PeerIce, Peer!PublishDisconnect
  <2>5. PeerTyped' /\ PeerPoints'
    BY <2>6, <2>7
  <2> QED
    BY <2>3, <2>4, <2>5 DEF PeerInv
<1>20. CASE Peer!LostPublishes
  <2>1. /\ Peer!PublishDisconnect /\ UNCHANGED <<buffered, iceDone, gathered, gathering, drained,
              drainedDone, restart, saved, restarts, producer, inFrames, pcKind>>
    BY <1>20 DEF Peer!LostPublishes, Peer!legVars, Peer!iceVars, Peer!trickle, Peer!audioVars
  <2>2. (PeerEarly' => PeerEarly) /\ Down' = Down /\ pcClaimed \in BOOLEAN
    BY <1>20 DEF Peer!LostPublishes, Peer!legVars, Peer!iceVars, Peer!trickle, Peer!audioVars, PeerInv, PeerPoints, PeerTyped, PeerPlaces, PeerFlags, PeerIce, PeerEarly, Down
  <2>3. PeerMessages' /\ pcClaimed'
    BY <2>1, <2>2, PeerToldLast DEF PeerInv
  <2>4. PeerTrickle' /\ PeerAudio'
    BY <2>1 DEF PeerInv, PeerTrickle, PeerAudio
  <2>0. PeerPlaces /\ PeerFlags /\ PeerIce /\ PeerKept /\ inFrames \in 0..PcFrames
    BY DEF PeerInv, PeerTyped
  <2>6. PeerTyped'
    <3>1. PeerPlaces'
      BY <2>0, <1>20 DEF Peer!LostPublishes, Peer!legVars, Peer!iceVars, Peer!trickle, Peer!audioVars, Peer!PublishDisconnect, PeerPlaces
    <3>2. PeerFlags'
      BY <2>0, <1>20 DEF Peer!LostPublishes, Peer!legVars, Peer!iceVars, Peer!trickle, Peer!audioVars, Peer!PublishDisconnect, PeerFlags
    <3>3. PeerIce'
      BY <1>0, <2>0, <1>20 DEF Peer!LostPublishes, Peer!legVars, Peer!iceVars, Peer!trickle, Peer!audioVars, Peer!PublishDisconnect, PeerIce
    <3>4. PeerKept'
      BY <2>0, <1>20 DEF Peer!LostPublishes, Peer!legVars, Peer!iceVars, Peer!trickle, Peer!audioVars, Peer!PublishDisconnect, PeerKept
    <3>5. inFrames' \in 0..PcFrames
      BY <2>0, <1>20 DEF Peer!LostPublishes, Peer!legVars, Peer!iceVars, Peer!trickle, Peer!audioVars, Peer!PublishDisconnect
    <3> QED
      BY <3>1, <3>2, <3>3, <3>4, <3>5 DEF PeerTyped
  <2>7. PeerPoints'
    BY <1>20 DEF Peer!LostPublishes, Peer!legVars, Peer!iceVars, Peer!trickle, Peer!audioVars, PeerInv, PeerPoints, PeerTyped, PeerPlaces, PeerFlags, PeerIce, Peer!PublishDisconnect
  <2>5. PeerTyped' /\ PeerPoints'
    BY <2>6, <2>7
  <2> QED
    BY <2>3, <2>4, <2>5 DEF PeerInv
<1>21. CASE Peer!HandlerPublishes
  <2>1. /\ Peer!PublishDisconnect /\ UNCHANGED <<buffered, iceDone, gathered, gathering, drained,
              drainedDone, restart, saved, restarts, producer, inFrames, pcKind>>
    BY <1>21 DEF Peer!HandlerPublishes, Peer!Handles, Peer!legVars, Peer!iceVars, Peer!trickle, Peer!audioVars
  <2>2. (PeerEarly' => PeerEarly) /\ Down' = Down /\ pcClaimed \in BOOLEAN
    BY <1>21 DEF Peer!HandlerPublishes, Peer!Handles, Peer!legVars, Peer!iceVars, Peer!trickle, Peer!audioVars, PeerInv, PeerPoints, PeerTyped, PeerPlaces, PeerFlags, PeerIce, PeerEarly, Down
  <2>3. PeerMessages' /\ pcClaimed'
    BY <2>1, <2>2, PeerToldLast DEF PeerInv
  <2>4. PeerTrickle' /\ PeerAudio'
    BY <2>1 DEF PeerInv, PeerTrickle, PeerAudio
  <2>0. PeerPlaces /\ PeerFlags /\ PeerIce /\ PeerKept /\ inFrames \in 0..PcFrames
    BY DEF PeerInv, PeerTyped
  <2>6. PeerTyped'
    <3>1. PeerPlaces'
      BY <2>0, <1>21 DEF Peer!HandlerPublishes, Peer!Handles, Peer!legVars, Peer!iceVars, Peer!trickle, Peer!audioVars, Peer!PublishDisconnect, PeerPlaces
    <3>2. PeerFlags'
      BY <2>0, <1>21 DEF Peer!HandlerPublishes, Peer!Handles, Peer!legVars, Peer!iceVars, Peer!trickle, Peer!audioVars, Peer!PublishDisconnect, PeerFlags
    <3>3. PeerIce'
      BY <1>0, <2>0, <1>21 DEF Peer!HandlerPublishes, Peer!Handles, Peer!legVars, Peer!iceVars, Peer!trickle, Peer!audioVars, Peer!PublishDisconnect, PeerIce
    <3>4. PeerKept'
      BY <2>0, <1>21 DEF Peer!HandlerPublishes, Peer!Handles, Peer!legVars, Peer!iceVars, Peer!trickle, Peer!audioVars, Peer!PublishDisconnect, PeerKept
    <3>5. inFrames' \in 0..PcFrames
      BY <2>0, <1>21 DEF Peer!HandlerPublishes, Peer!Handles, Peer!legVars, Peer!iceVars, Peer!trickle, Peer!audioVars, Peer!PublishDisconnect
    <3> QED
      BY <3>1, <3>2, <3>3, <3>4, <3>5 DEF PeerTyped
  <2>7. PeerPoints'
    BY <1>21 DEF Peer!HandlerPublishes, Peer!Handles, Peer!legVars, Peer!iceVars, Peer!trickle, Peer!audioVars, PeerInv, PeerPoints, PeerTyped, PeerPlaces, PeerFlags, PeerIce, Peer!PublishDisconnect
  <2>5. PeerTyped' /\ PeerPoints'
    BY <2>6, <2>7
  <2> QED
    BY <2>3, <2>4, <2>5 DEF PeerInv
<1>22. CASE Peer!TellConnected
  <2>1. /\ pcTold' = Append(pcTold, "connected") /\ UNCHANGED <<pcClaimed, buffered, iceDone, gathered,
              gathering, drained, drainedDone, restart, saved, restarts, producer, inFrames, pcKind>>
    BY <1>22 DEF Peer!TellConnected, Peer!Handles, Peer!legVars, Peer!iceVars, Peer!trickle, Peer!audioVars
  <2>0. PeerPlaces /\ PeerFlags /\ PeerIce /\ PeerKept /\ inFrames \in 0..PcFrames
    BY DEF PeerInv, PeerTyped
  <2>5. PeerTyped'
    <3>1. PeerPlaces'
      BY <2>0, <1>22 DEF Peer!TellConnected, Peer!Handles, Peer!legVars, Peer!iceVars, Peer!trickle, Peer!audioVars, PeerPlaces
    <3>2. PeerFlags'
      BY <2>0, <1>22 DEF Peer!TellConnected, Peer!Handles, Peer!legVars, Peer!iceVars, Peer!trickle, Peer!audioVars, PeerFlags
    <3>3. PeerIce'
      BY <1>0, <2>0, <1>22 DEF Peer!TellConnected, Peer!Handles, Peer!legVars, Peer!iceVars, Peer!trickle, Peer!audioVars, PeerIce
    <3>4. PeerKept'
      BY <2>0, <1>22 DEF Peer!TellConnected, Peer!Handles, Peer!legVars, Peer!iceVars, Peer!trickle, Peer!audioVars, PeerKept
    <3>5. inFrames' \in 0..PcFrames
      BY <2>0, <1>22 DEF Peer!TellConnected, Peer!Handles, Peer!legVars, Peer!iceVars, Peer!trickle, Peer!audioVars
    <3> QED
      BY <3>1, <3>2, <3>3, <3>4, <3>5 DEF PeerTyped
  <2>2. ~pcClaimed /\ PeerEarly /\ ~PeerEarly' /\ Down' = Down /\ PeerPoints'
    BY <1>22 DEF Peer!TellConnected, Peer!Handles, Peer!legVars, Peer!iceVars, Peer!trickle, Peer!audioVars, PeerInv, PeerPoints, PeerTyped, PeerPlaces, PeerFlags, PeerIce, PeerEarly, Down
  <2>3. PeerMessages'
    <3>1. Messages(pcTold, FALSE, TRUE) /\ Alternates(pcTold, Down) /\ pcTold \in Seq(Words)
      BY <2>2 DEF PeerInv, PeerMessages, Messages
    <3>2. Messages(pcTold', FALSE, FALSE)
      BY <2>1, <3>1, ToldConnected
    <3>3. Alternates(pcTold', Down)
      BY <2>1, <3>1, AlternatesElse
    <3> QED
      BY <2>1, <2>2, <3>2, <3>3 DEF PeerMessages, Messages
  <2>4. PeerTrickle' /\ PeerAudio'
    BY <2>1 DEF PeerInv, PeerTrickle, PeerAudio
  <2> QED
    BY <2>2, <2>3, <2>4, <2>5 DEF PeerInv
<1>23. CASE Peer!CallbackPublishes
  <2>1. /\ pcTold' = Append(pcTold, callback) /\ callback # "none" /\ callback' = "none"
        /\ UNCHANGED <<pcClaimed, buffered, iceDone, gathered, gathering, drained, drainedDone,
                      restart, saved, restarts, producer, inFrames, pcKind, ice, media>>
    BY <1>23 DEF Peer!CallbackPublishes, Peer!legVars, Peer!iceVars, Peer!trickle, Peer!audioVars
  <2>0. PeerPlaces /\ PeerFlags /\ PeerIce /\ PeerKept /\ inFrames \in 0..PcFrames
    BY DEF PeerInv, PeerTyped
  <2>6. PeerTyped'
    <3>1. PeerPlaces'
      BY <2>0, <1>23 DEF Peer!CallbackPublishes, Peer!legVars, Peer!iceVars, Peer!trickle, Peer!audioVars, PeerPlaces
    <3>2. PeerFlags'
      BY <2>0, <1>23 DEF Peer!CallbackPublishes, Peer!legVars, Peer!iceVars, Peer!trickle, Peer!audioVars, PeerFlags
    <3>3. PeerIce'
      BY <1>0, <2>0, <1>23 DEF Peer!CallbackPublishes, Peer!legVars, Peer!iceVars, Peer!trickle, Peer!audioVars, PeerIce
    <3>4. PeerKept'
      BY <2>0, <1>23 DEF Peer!CallbackPublishes, Peer!legVars, Peer!iceVars, Peer!trickle, Peer!audioVars, PeerKept
    <3>5. inFrames' \in 0..PcFrames
      BY <2>0, <1>23 DEF Peer!CallbackPublishes, Peer!legVars, Peer!iceVars, Peer!trickle, Peer!audioVars
    <3> QED
      BY <3>1, <3>2, <3>3, <3>4, <3>5 DEF PeerTyped
  <2>2. ~pcClaimed /\ PeerPoints' /\ pcKind = "webrtc"
    BY <1>23 DEF Peer!CallbackPublishes, Peer!legVars, Peer!iceVars, Peer!trickle, Peer!audioVars, PeerInv, PeerPoints, PeerTyped, PeerPlaces, PeerFlags, PeerIce
  <2>3. Messages(pcTold, FALSE, PeerEarly) /\ Alternates(pcTold, Down) /\ pcTold \in Seq(Words)
    BY <2>2 DEF PeerInv, PeerMessages, Messages
  <2>4. PeerMessages'
    <3>1. CASE callback = "connected"
      <4>1. PeerEarly /\ ~PeerEarly' /\ Down' = Down
        BY <2>1, <2>2, <3>1 DEF PeerInv, PeerPoints, PeerTyped, PeerPlaces, PeerFlags, PeerIce, PeerEarly, Down
      <4>2. Messages(pcTold, FALSE, TRUE)
        BY <2>3, <4>1 DEF Messages
      <4>3. Messages(pcTold', FALSE, FALSE) /\ Alternates(pcTold', Down)
        BY <2>1, <2>3, <3>1, <4>2, ToldConnected, AlternatesElse
      <4> QED
        BY <2>1, <2>2, <4>1, <4>3 DEF PeerMessages, Messages
    <3>2. CASE callback \in {"interrupted", "restored"}
      <4>1. /\ (PeerEarly' <=> PeerEarly) /\ Down \in BOOLEAN /\ Down' = ~Down
            /\ callback = (IF Down THEN "restored" ELSE "interrupted")
        BY <2>1, <2>2, <3>2 DEF PeerInv, PeerPoints, PeerTyped, PeerPlaces, PeerFlags, PeerIce, PeerEarly, Down
      <4>2. callback \in Words /\ callback \notin {"connected", "disconnected"}
        BY <3>2 DEF Words
      <4>3. Messages(pcTold', FALSE, PeerEarly)
        BY <2>1, <2>3, <4>2, ToldElse
      <4>4. Alternates(pcTold', ~Down)
        BY <2>1, <2>3, <3>2, <4>1, AlternatesFlap
      <4> QED
        BY <2>1, <2>2, <4>1, <4>3, <4>4 DEF PeerMessages, Messages
    <3> QED
      BY <2>1, <3>1, <3>2 DEF PeerInv, PeerTyped, PeerPlaces, PeerFlags, PeerIce
  <2>5. PeerTrickle' /\ PeerAudio'
    BY <2>1 DEF PeerInv, PeerTrickle, PeerAudio
  <2> QED
    BY <2>2, <2>4, <2>5, <2>6 DEF PeerInv
<1>24. CASE \E c \in {c1} : Peer!Gather(c)
  <2>1. UNCHANGED <<pcKind, media, call, state, present, answerCh, caller, remover, lost, pcClaimed,
                    ice, callback, flaps, pcTold, producer, inFrames>>
    BY <1>24 DEF Peer!Gather, Peer!Quiescent, Peer!legVars, Peer!iceVars, Peer!trickle, Peer!audioVars
  <2>0. PeerPlaces /\ PeerFlags /\ PeerIce /\ PeerKept /\ inFrames \in 0..PcFrames
    BY DEF PeerInv, PeerTyped
  <2>4. PeerTyped'
    <3>1. PeerPlaces'
      BY <2>0, <1>24 DEF Peer!Gather, Peer!Quiescent, Peer!legVars, Peer!iceVars, Peer!trickle, Peer!audioVars, PeerPlaces
    <3>2. PeerFlags'
      BY <2>0, <1>24 DEF Peer!Gather, Peer!Quiescent, Peer!legVars, Peer!iceVars, Peer!trickle, Peer!audioVars, PeerFlags
    <3>3. PeerIce'
      BY <1>0, <2>0, <1>24 DEF Peer!Gather, Peer!Quiescent, Peer!legVars, Peer!iceVars, Peer!trickle, Peer!audioVars, PeerIce
    <3>4. PeerKept'
      BY <2>0, <1>24 DEF Peer!Gather, Peer!Quiescent, Peer!legVars, Peer!iceVars, Peer!trickle, Peer!audioVars, PeerKept
    <3>5. inFrames' \in 0..PcFrames
      BY <2>0, <1>24 DEF Peer!Gather, Peer!Quiescent, Peer!legVars, Peer!iceVars, Peer!trickle, Peer!audioVars
    <3> QED
      BY <3>1, <3>2, <3>3, <3>4, <3>5 DEF PeerTyped
  <2>5. PeerTrickle'
    BY <1>24 DEF Peer!Gather, Peer!Quiescent, Peer!legVars, Peer!iceVars, Peer!trickle, Peer!audioVars, PeerInv, PeerTyped, PeerPlaces, PeerKept, PeerTrickle
  <2>2. PeerTyped' /\ PeerTrickle'
    BY <2>4, <2>5
  <2>3. PeerPoints' /\ PeerAudio' /\ PeerMessages'
    BY <2>1 DEF PeerInv, PeerPoints, PeerAudio, PeerMessages, PeerEarly, Down
  <2> QED
    BY <2>2, <2>3 DEF PeerInv
<1>25. CASE Peer!GatherDone
  <2>1. UNCHANGED <<pcKind, media, call, state, present, answerCh, caller, remover, lost, pcClaimed,
                    ice, callback, flaps, pcTold, producer, inFrames>>
    BY <1>25 DEF Peer!GatherDone, Peer!Quiescent, Peer!legVars, Peer!iceVars, Peer!trickle, Peer!audioVars
  <2>0. PeerPlaces /\ PeerFlags /\ PeerIce /\ PeerKept /\ inFrames \in 0..PcFrames
    BY DEF PeerInv, PeerTyped
  <2>4. PeerTyped'
    <3>1. PeerPlaces'
      BY <2>0, <1>25 DEF Peer!GatherDone, Peer!Quiescent, Peer!legVars, Peer!iceVars, Peer!trickle, Peer!audioVars, PeerPlaces
    <3>2. PeerFlags'
      BY <2>0, <1>25 DEF Peer!GatherDone, Peer!Quiescent, Peer!legVars, Peer!iceVars, Peer!trickle, Peer!audioVars, PeerFlags
    <3>3. PeerIce'
      BY <1>0, <2>0, <1>25 DEF Peer!GatherDone, Peer!Quiescent, Peer!legVars, Peer!iceVars, Peer!trickle, Peer!audioVars, PeerIce
    <3>4. PeerKept'
      BY <2>0, <1>25 DEF Peer!GatherDone, Peer!Quiescent, Peer!legVars, Peer!iceVars, Peer!trickle, Peer!audioVars, PeerKept
    <3>5. inFrames' \in 0..PcFrames
      BY <2>0, <1>25 DEF Peer!GatherDone, Peer!Quiescent, Peer!legVars, Peer!iceVars, Peer!trickle, Peer!audioVars
    <3> QED
      BY <3>1, <3>2, <3>3, <3>4, <3>5 DEF PeerTyped
  <2>5. PeerTrickle'
    BY <1>25 DEF Peer!GatherDone, Peer!Quiescent, Peer!legVars, Peer!iceVars, Peer!trickle, Peer!audioVars, PeerInv, PeerTyped, PeerPlaces, PeerKept, PeerTrickle
  <2>2. PeerTyped' /\ PeerTrickle'
    BY <2>4, <2>5
  <2>3. PeerPoints' /\ PeerAudio' /\ PeerMessages'
    BY <2>1 DEF PeerInv, PeerPoints, PeerAudio, PeerMessages, PeerEarly, Down
  <2> QED
    BY <2>2, <2>3 DEF PeerInv
<1>26. CASE Peer!DrainLocalCandidates
  <2>1. UNCHANGED <<pcKind, media, call, state, present, answerCh, caller, remover, lost, pcClaimed,
                    ice, callback, flaps, pcTold, producer, inFrames>>
    BY <1>26 DEF Peer!DrainLocalCandidates, Peer!Quiescent, Peer!legVars, Peer!iceVars, Peer!trickle, Peer!audioVars
  <2>0. PeerPlaces /\ PeerFlags /\ PeerIce /\ PeerKept /\ inFrames \in 0..PcFrames
    BY DEF PeerInv, PeerTyped
  <2>4. PeerTyped'
    <3>1. PeerPlaces'
      BY <2>0, <1>26 DEF Peer!DrainLocalCandidates, Peer!Quiescent, Peer!legVars, Peer!iceVars, Peer!trickle, Peer!audioVars, PeerPlaces
    <3>2. PeerFlags'
      BY <2>0, <1>26 DEF Peer!DrainLocalCandidates, Peer!Quiescent, Peer!legVars, Peer!iceVars, Peer!trickle, Peer!audioVars, PeerFlags
    <3>3. PeerIce'
      BY <1>0, <2>0, <1>26 DEF Peer!DrainLocalCandidates, Peer!Quiescent, Peer!legVars, Peer!iceVars, Peer!trickle, Peer!audioVars, PeerIce
    <3>4. PeerKept'
      BY <2>0, <1>26 DEF Peer!DrainLocalCandidates, Peer!Quiescent, Peer!legVars, Peer!iceVars, Peer!trickle, Peer!audioVars, PeerKept
    <3>5. inFrames' \in 0..PcFrames
      BY <2>0, <1>26 DEF Peer!DrainLocalCandidates, Peer!Quiescent, Peer!legVars, Peer!iceVars, Peer!trickle, Peer!audioVars
    <3> QED
      BY <3>1, <3>2, <3>3, <3>4, <3>5 DEF PeerTyped
  <2>5. PeerTrickle'
    BY <1>26 DEF Peer!DrainLocalCandidates, Peer!Quiescent, Peer!legVars, Peer!iceVars, Peer!trickle, Peer!audioVars, PeerInv, PeerTyped, PeerPlaces, PeerKept, PeerTrickle
  <2>2. PeerTyped' /\ PeerTrickle'
    BY <2>4, <2>5
  <2>3. PeerPoints' /\ PeerAudio' /\ PeerMessages'
    BY <2>1 DEF PeerInv, PeerPoints, PeerAudio, PeerMessages, PeerEarly, Down
  <2> QED
    BY <2>2, <2>3 DEF PeerInv
<1>27. CASE Peer!RestartBegins
  <2>1. UNCHANGED <<pcKind, media, call, state, present, answerCh, caller, remover, lost, pcClaimed,
                    ice, callback, flaps, pcTold, producer, inFrames>>
    BY <1>27 DEF Peer!RestartBegins, Peer!legVars, Peer!iceVars, Peer!trickle, Peer!audioVars
  <2>0. PeerPlaces /\ PeerFlags /\ PeerIce /\ PeerKept /\ inFrames \in 0..PcFrames
    BY DEF PeerInv, PeerTyped
  <2>4. PeerTyped'
    <3>1. PeerPlaces'
      BY <2>0, <1>27 DEF Peer!RestartBegins, Peer!legVars, Peer!iceVars, Peer!trickle, Peer!audioVars, PeerPlaces
    <3>2. PeerFlags'
      BY <2>0, <1>27 DEF Peer!RestartBegins, Peer!legVars, Peer!iceVars, Peer!trickle, Peer!audioVars, PeerFlags
    <3>3. PeerIce'
      BY <1>0, <2>0, <1>27 DEF Peer!RestartBegins, Peer!legVars, Peer!iceVars, Peer!trickle, Peer!audioVars, PeerIce
    <3>4. PeerKept'
      BY <2>0, <1>27 DEF Peer!RestartBegins, Peer!legVars, Peer!iceVars, Peer!trickle, Peer!audioVars, PeerKept
    <3>5. inFrames' \in 0..PcFrames
      BY <2>0, <1>27 DEF Peer!RestartBegins, Peer!legVars, Peer!iceVars, Peer!trickle, Peer!audioVars
    <3> QED
      BY <3>1, <3>2, <3>3, <3>4, <3>5 DEF PeerTyped
  <2>5. PeerTrickle'
    BY <1>27 DEF Peer!RestartBegins, Peer!legVars, Peer!iceVars, Peer!trickle, Peer!audioVars, PeerInv, PeerTyped, PeerPlaces, PeerKept, PeerTrickle
  <2>2. PeerTyped' /\ PeerTrickle'
    BY <2>4, <2>5
  <2>3. PeerPoints' /\ PeerAudio' /\ PeerMessages'
    BY <2>1 DEF PeerInv, PeerPoints, PeerAudio, PeerMessages, PeerEarly, Down
  <2> QED
    BY <2>2, <2>3 DEF PeerInv
<1>28. CASE Peer!RestartFails
  <2>1. UNCHANGED <<pcKind, media, call, state, present, answerCh, caller, remover, lost, pcClaimed,
                    ice, callback, flaps, pcTold, producer, inFrames>>
    BY <1>28 DEF Peer!RestartFails, Peer!Restored, Peer!legVars, Peer!iceVars, Peer!trickle, Peer!audioVars
  <2>0. PeerPlaces /\ PeerFlags /\ PeerIce /\ PeerKept /\ inFrames \in 0..PcFrames
    BY DEF PeerInv, PeerTyped
  <2>4. PeerTyped'
    <3>1. PeerPlaces'
      BY <2>0, <1>28 DEF Peer!RestartFails, Peer!Restored, Peer!legVars, Peer!iceVars, Peer!trickle, Peer!audioVars, PeerPlaces
    <3>2. PeerFlags'
      BY <2>0, <1>28 DEF Peer!RestartFails, Peer!Restored, Peer!legVars, Peer!iceVars, Peer!trickle, Peer!audioVars, PeerFlags
    <3>3. PeerIce'
      BY <1>0, <2>0, <1>28 DEF Peer!RestartFails, Peer!Restored, Peer!legVars, Peer!iceVars, Peer!trickle, Peer!audioVars, PeerIce
    <3>4. PeerKept'
      BY <2>0, <1>28 DEF Peer!RestartFails, Peer!Restored, Peer!legVars, Peer!iceVars, Peer!trickle, Peer!audioVars, PeerKept, PeerInv, PeerTrickle
    <3>5. inFrames' \in 0..PcFrames
      BY <2>0, <1>28 DEF Peer!RestartFails, Peer!Restored, Peer!legVars, Peer!iceVars, Peer!trickle, Peer!audioVars
    <3> QED
      BY <3>1, <3>2, <3>3, <3>4, <3>5 DEF PeerTyped
  <2>5. PeerTrickle'
    BY <1>28 DEF Peer!RestartFails, Peer!Restored, Peer!legVars, Peer!iceVars, Peer!trickle, Peer!audioVars, PeerInv, PeerTyped, PeerPlaces, PeerKept, PeerTrickle
  <2>2. PeerTyped' /\ PeerTrickle'
    BY <2>4, <2>5
  <2>3. PeerPoints' /\ PeerAudio' /\ PeerMessages'
    BY <2>1 DEF PeerInv, PeerPoints, PeerAudio, PeerMessages, PeerEarly, Down
  <2> QED
    BY <2>2, <2>3 DEF PeerInv
<1>29. CASE Peer!RestartApplies
  <2>1. UNCHANGED <<pcKind, media, call, state, present, answerCh, caller, remover, lost, pcClaimed,
                    ice, callback, flaps, pcTold, producer, inFrames>>
    BY <1>29 DEF Peer!RestartApplies, Peer!legVars, Peer!iceVars, Peer!trickle, Peer!audioVars
  <2>0. PeerPlaces /\ PeerFlags /\ PeerIce /\ PeerKept /\ inFrames \in 0..PcFrames
    BY DEF PeerInv, PeerTyped
  <2>4. PeerTyped'
    <3>1. PeerPlaces'
      BY <2>0, <1>29 DEF Peer!RestartApplies, Peer!legVars, Peer!iceVars, Peer!trickle, Peer!audioVars, PeerPlaces
    <3>2. PeerFlags'
      BY <2>0, <1>29 DEF Peer!RestartApplies, Peer!legVars, Peer!iceVars, Peer!trickle, Peer!audioVars, PeerFlags
    <3>3. PeerIce'
      BY <1>0, <2>0, <1>29 DEF Peer!RestartApplies, Peer!legVars, Peer!iceVars, Peer!trickle, Peer!audioVars, PeerIce
    <3>4. PeerKept'
      BY <2>0, <1>29 DEF Peer!RestartApplies, Peer!legVars, Peer!iceVars, Peer!trickle, Peer!audioVars, PeerKept
    <3>5. inFrames' \in 0..PcFrames
      BY <2>0, <1>29 DEF Peer!RestartApplies, Peer!legVars, Peer!iceVars, Peer!trickle, Peer!audioVars
    <3> QED
      BY <3>1, <3>2, <3>3, <3>4, <3>5 DEF PeerTyped
  <2>5. PeerTrickle'
    BY <1>29 DEF Peer!RestartApplies, Peer!legVars, Peer!iceVars, Peer!trickle, Peer!audioVars, PeerInv, PeerTyped, PeerPlaces, PeerKept, PeerTrickle
  <2>2. PeerTyped' /\ PeerTrickle'
    BY <2>4, <2>5
  <2>3. PeerPoints' /\ PeerAudio' /\ PeerMessages'
    BY <2>1 DEF PeerInv, PeerPoints, PeerAudio, PeerMessages, PeerEarly, Down
  <2> QED
    BY <2>2, <2>3 DEF PeerInv
<1>30. CASE Peer!ReadFrame
  <2>1. UNCHANGED <<pcKind, media, call, state, present, answerCh, caller, remover, lost, pcClaimed,
                    ice, callback, flaps, pcTold, buffered, iceDone, gathered, gathering, drained,
                    drainedDone, restart, saved, restarts>>
    BY <1>30 DEF Peer!ReadFrame, Peer!legVars, Peer!iceVars, Peer!trickle, Peer!audioVars
  <2>2. inFrames' \in 0..PcFrames /\ PeerAudio'
    BY <1>0, <1>30 DEF Peer!ReadFrame, Peer!legVars, Peer!iceVars, Peer!trickle, Peer!audioVars, PeerInv, PeerTyped, PeerAudio
  <2>4. PeerMessages'
    BY <2>1 DEF PeerInv, PeerMessages, PeerEarly, Down
  <2>5. PeerTyped' /\ PeerPoints' /\ PeerTrickle'
    BY <2>1, <2>2 DEF PeerInv, PeerTyped, PeerPlaces, PeerFlags, PeerIce, PeerKept, PeerPoints, PeerTrickle
  <2>3. PeerTyped' /\ PeerPoints' /\ PeerTrickle' /\ PeerMessages'
    BY <2>4, <2>5
  <2> QED
    BY <2>2, <2>3 DEF PeerInv
<1>31. CASE \E t \in {t1} : Peer!Receive(t)
  <2>1. UNCHANGED <<pcKind, media, call, state, present, answerCh, caller, remover, lost, pcClaimed,
                    ice, callback, flaps, pcTold, buffered, iceDone, gathered, gathering, drained,
                    drainedDone, restart, saved, restarts>>
    BY <1>31 DEF Peer!Receive, Peer!Steps, Peer!legVars, Peer!iceVars, Peer!trickle, Peer!audioVars
  <2>2. inFrames' \in 0..PcFrames /\ PeerAudio'
    BY <1>0, <1>31 DEF Peer!Receive, Peer!Steps, Peer!legVars, Peer!iceVars, Peer!trickle, Peer!audioVars, PeerInv, PeerTyped, PeerAudio
  <2>4. PeerMessages'
    BY <2>1 DEF PeerInv, PeerMessages, PeerEarly, Down
  <2>5. PeerTyped' /\ PeerPoints' /\ PeerTrickle'
    BY <2>1, <2>2 DEF PeerInv, PeerTyped, PeerPlaces, PeerFlags, PeerIce, PeerKept, PeerPoints, PeerTrickle
  <2>3. PeerTyped' /\ PeerPoints' /\ PeerTrickle' /\ PeerMessages'
    BY <2>4, <2>5
  <2> QED
    BY <2>2, <2>3 DEF PeerInv
<1>32. CASE \E t \in {t1} : Peer!MakeRoom(t)
  <2>1. UNCHANGED <<pcKind, media, call, state, present, answerCh, caller, remover, lost, pcClaimed,
                    ice, callback, flaps, pcTold, buffered, iceDone, gathered, gathering, drained,
                    drainedDone, restart, saved, restarts>>
    BY <1>32 DEF Peer!MakeRoom, Peer!Steps, Peer!DropOldest, Peer!legVars, Peer!iceVars, Peer!trickle, Peer!audioVars
  <2>2. inFrames' \in 0..PcFrames /\ PeerAudio'
    BY <1>0, <1>32 DEF Peer!MakeRoom, Peer!Steps, Peer!DropOldest, Peer!legVars, Peer!iceVars, Peer!trickle, Peer!audioVars, PeerInv, PeerTyped, PeerAudio
  <2>4. PeerMessages'
    BY <2>1 DEF PeerInv, PeerMessages, PeerEarly, Down
  <2>5. PeerTyped' /\ PeerPoints' /\ PeerTrickle'
    BY <2>1, <2>2 DEF PeerInv, PeerTyped, PeerPlaces, PeerFlags, PeerIce, PeerKept, PeerPoints, PeerTrickle
  <2>3. PeerTyped' /\ PeerPoints' /\ PeerTrickle' /\ PeerMessages'
    BY <2>4, <2>5
  <2> QED
    BY <2>2, <2>3 DEF PeerInv
<1>33. CASE \E t \in {t1} : Peer!Push(t)
  <2>1. UNCHANGED <<pcKind, media, call, state, present, answerCh, caller, remover, lost, pcClaimed,
                    ice, callback, flaps, pcTold, buffered, iceDone, gathered, gathering, drained,
                    drainedDone, restart, saved, restarts>>
    BY <1>33 DEF Peer!Push, Peer!Steps, Peer!legVars, Peer!iceVars, Peer!trickle, Peer!audioVars
  <2>2. inFrames' \in 0..PcFrames /\ PeerAudio'
    BY <1>0, <1>33 DEF Peer!Push, Peer!Steps, Peer!legVars, Peer!iceVars, Peer!trickle, Peer!audioVars, PeerInv, PeerTyped, PeerAudio
  <2>4. PeerMessages'
    BY <2>1 DEF PeerInv, PeerMessages, PeerEarly, Down
  <2>5. PeerTyped' /\ PeerPoints' /\ PeerTrickle'
    BY <2>1, <2>2 DEF PeerInv, PeerTyped, PeerPlaces, PeerFlags, PeerIce, PeerKept, PeerPoints, PeerTrickle
  <2>3. PeerTyped' /\ PeerPoints' /\ PeerTrickle' /\ PeerMessages'
    BY <2>4, <2>5
  <2> QED
    BY <2>2, <2>3 DEF PeerInv
<1> QED
  BY <1>1, <1>2, <1>3, <1>4, <1>5, <1>6, <1>7, <1>8, <1>9, <1>10, <1>11, <1>12, <1>13, <1>14, <1>15, <1>16, <1>17, <1>18, <1>19, <1>20, <1>21, <1>22, <1>23, <1>24, <1>25, <1>26, <1>27, <1>28, <1>29, <1>30, <1>31, <1>32, <1>33
  DEF Peer!Next, Peer!Deleter, Peer!Callbacks, Peer!Handler, Peer!Trickle, Peer!Audio

-----------------------------------------------------------------------------
(* What the three invariants say of a leg.                                     *)

LEMMA LiveKitSound == LiveKitInv => LiveKitRoom!TypeOK /\ LiveKitRoom!LegsAreFound
<1> SUFFICES ASSUME LiveKitInv PROVE LiveKitRoom!TypeOK /\ LiveKitRoom!LegsAreFound
  OBVIOUS
<1>1. LiveKitRoom!TypeOK
  BY DEF LiveKitInv
<1>2. ASSUME NEW t \in {t1}
      PROVE  /\ partLeg[t] = "live" => t \in index \cup taken \/ track[t] = "added"
             /\ track[t] \in {"fired", "added", "indexed"} =>
                   pending[[u \in {t1} |-> lkPeer][t]] # t
  BY LiveKitNames DEF LiveKitInv
<1> QED
  BY <1>1, <1>2 DEF LiveKitRoom!LegsAreFound

LEMMA SameSize ==
    \A S : Socket!Cardinality(S) = Cardinality(S) /\ Peer!Cardinality(S) = Cardinality(S)
  BY DEF Socket!Cardinality, Peer!Cardinality, Cardinality

LEMMA SocketSound == SocketInv => Socket!TypeOK /\ Socket!ToldInOrder /\ Socket!LeavesNothing
<1> SUFFICES ASSUME SocketInv PROVE Socket!TypeOK /\ Socket!ToldInOrder /\ Socket!LeavesNothing
  OBVIOUS
<1>1. Socket!TypeOK /\ wsClaimed \in BOOLEAN /\ Messages(wsTold, wsClaimed, SocketEarly)
  BY DEF SocketInv, Socket!TypeOK
<1>2. /\ Socket!Count("connected") <= 1
      /\ Socket!Count("disconnected") = (IF wsClaimed THEN 1 ELSE 0)
  BY <1>1, ToldCounts, SameSize DEF Socket!Count
<1>3. Socket!ToldInOrder
  BY <1>1, <1>2 DEF SocketInv, Socket!ToldInOrder, Messages
<1>4. Socket!LeavesNothing
  BY <1>2 DEF SocketInv, Socket!LeavesNothing, Socket!Over
<1> QED
  BY <1>1, <1>3, <1>4

LEMMA PeerSound ==
    PeerInv => Peer!TypeOK /\ Peer!ToldInOrder /\ Peer!CandidatesAreKept /\ Peer!NeverBlocks
<1> SUFFICES ASSUME PeerInv
             PROVE  Peer!TypeOK /\ Peer!ToldInOrder /\ Peer!CandidatesAreKept /\ Peer!NeverBlocks
  OBVIOUS
<1>1. Peer!TypeOK
  BY DEF PeerInv, PeerTyped, PeerPlaces, PeerFlags, PeerIce, PeerKept, Peer!TypeOK
<1>2. Peer!CandidatesAreKept
  BY DEF PeerInv, PeerTrickle, Peer!CandidatesAreKept
<1>3. Peer!NeverBlocks
  BY DEF PeerInv, PeerAudio, Peer!NeverBlocks
<1>4. /\ pcClaimed \in BOOLEAN /\ Messages(pcTold, pcClaimed, PeerEarly)
      /\ Alternates(pcTold, Down)
  BY DEF PeerInv, PeerTyped, PeerFlags, PeerMessages
<1>5. /\ DOMAIN pcTold = 1..Len(pcTold) /\ Len(pcTold) \in Nat /\ pcTold \in Seq(Words)
  <2>1. pcTold \in Seq(Words)
    BY <1>4 DEF Messages
  <2> QED
    BY <2>1, LenProperties
<1>6. \A e \in {"connected", "disconnected"} :
         Peer!Cardinality({i \in DOMAIN pcTold : pcTold[i] = e}) <= 1
  <2>1. /\ Cardinality({i \in DOMAIN pcTold : pcTold[i] = "connected"}) <= 1
        /\ Cardinality({i \in DOMAIN pcTold : pcTold[i] = "disconnected"}) <= 1
    <3>1. /\ Cardinality({i \in DOMAIN pcTold : pcTold[i] = "connected"}) <= 1
          /\ Cardinality({i \in DOMAIN pcTold : pcTold[i] = "disconnected"})
                = (IF pcClaimed THEN 1 ELSE 0)
      BY <1>4, ToldCounts
    <3>2. (IF pcClaimed THEN 1 ELSE 0) <= 1
      OBVIOUS
    <3> QED
      BY <3>1, <3>2
  <2> QED
    BY <2>1, SameSize
<1>7. \A i \in DOMAIN pcTold : pcTold[i] = "disconnected" => i = Len(pcTold)
  BY <1>4, <1>5 DEF Messages
<1>8. ASSUME NEW i \in DOMAIN pcTold, NEW j \in DOMAIN pcTold, i < j, pcTold[i] = pcTold[j]
      PROVE  \E k \in i..j : pcTold[k] \in {"interrupted", "restored"} \ {pcTold[i]}
  <2>1. i \in 1..Len(pcTold) /\ j \in 1..Len(pcTold) /\ i \in Nat /\ j \in Nat
    BY <1>5
  <2>2. pcTold[i] \notin {"ringing", "connected", "disconnected"}
    <3>1. pcTold[i] # "ringing"
      BY <1>4, <2>1 DEF Alternates
    <3>2. pcTold[i] # "connected"
      BY <1>4, <1>8, <2>1 DEF Messages
    <3>3. pcTold[i] # "disconnected"
      BY <1>4, <1>8, <2>1 DEF Messages
    <3> QED
      BY <3>1, <3>2, <3>3
  <2>3. pcTold[i] \in {"interrupted", "restored"}
    BY <1>5, <2>1, <2>2 DEF Words
  <2>4. PICK k \in 1..Len(pcTold) :
           k > i /\ k < j /\ pcTold[k] \in {"interrupted", "restored"} \ {pcTold[i]}
    BY <1>4, <1>8, <2>1, <2>3 DEF Alternates
  <2>5. k \in i..j
    BY <1>5, <2>1, <2>4
  <2> QED
    BY <2>4, <2>5
<1>9. Peer!ToldInOrder
  BY <1>6, <1>7, <1>8 DEF Peer!ToldInOrder
<1> QED
  BY <1>1, <1>2, <1>3, <1>9

LegsInv == LiveKitInv /\ SocketInv /\ PeerInv

LEMMA LiveKitStill == LiveKitInv /\ UNCHANGED liveKitVars => LiveKitInv'
  BY DEF LiveKitInv, liveKitVars, LiveKitRoom!TypeOK

LEMMA SocketStill == SocketInv /\ UNCHANGED socketVars => SocketInv'
  BY DEF SocketInv, socketVars, Socket!TypeOK, SocketEarly, Messages

LEMMA PeerStill == PeerInv /\ UNCHANGED peerVars => PeerInv'
<1> SUFFICES ASSUME PeerInv, UNCHANGED peerVars PROVE PeerInv'
  OBVIOUS
<1>1. PeerTyped' /\ PeerPoints' /\ PeerTrickle' /\ PeerAudio'
  BY DEF PeerInv, peerVars, PeerTyped, PeerPlaces, PeerFlags, PeerIce, PeerKept, PeerPoints, PeerTrickle,
         PeerAudio
<1>2. PeerMessages'
  BY DEF PeerInv, peerVars, PeerMessages, PeerEarly, Down
<1> QED
  BY <1>1, <1>2 DEF PeerInv

LEMMA LegsStep ==
    LegsInv /\ [Next]_<<active, liveKitVars, siprecVars, socketVars, playoutVars, peerVars, sourceVars>>
        => LegsInv'
<1> SUFFICES ASSUME LegsInv,
                    LiveKitRoom!Next \/ UNCHANGED liveKitVars,
                    Socket!Next \/ UNCHANGED socketVars,
                    Peer!Next \/ UNCHANGED peerVars
             PROVE  LegsInv'
  BY DEF Next
<1> QED
  BY LiveKitSteps, LiveKitStill, SocketSteps, SocketStill, PeerSteps, PeerStill DEF LegsInv

LEMMA LegsInit == Init => LegsInv
  BY LiveKitInits, SocketInits, PeerInits DEF Init, LegsInv

LEMMA LegsSound == LegsInv => LegsAreSound
  BY LiveKitSound, SocketSound, PeerSound DEF LegsInv, LegsAreSound

(* In every behaviour of a leg of LiveKit, of a socket or of a peer            *)
(* connection, at every bound on its messages: whoever has to end it finds it, *)
(* it is told connected and disconnected once at most and disconnected last,   *)
(* an interruption and its end alternate, and one that is over leaves nothing  *)
(* (livekit_leg.go, transport.go, ws_leg.go, webrtc.go, whatsapp.go).          *)
THEOREM LegsStaySound == Spec => []LegsAreSound
<1>1. Spec => [](LegsInv)
  BY LegsInit, LegsStep, PTL DEF Spec
<1> QED
  BY <1>1, LegsSound, PTL
=============================================================================
