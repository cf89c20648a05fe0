---------------------------- MODULE EventsProofs ----------------------------
(***************************************************************************)
(* The event bus for any publishers, workers, connections and legs, any    *)
(* capacities and any number of attempts: types, one webhook and one       *)
(* outcome per event (the queue and the workers implement EventFeed), the  *)
(* last event of a leg goes to its leg's webhook, and no connection misses *)
(* an event unawares.                                                      *)
(***************************************************************************)
EXTENDS Events, SequenceTheorems, TLAPS

(* The publisher still owes its event to the webhooks.                       *)
Carries(p) ==
    \/ pub[p].pc = "snapshot"
    \/ pub[p].pc \in {"call", "enqueue", "drop"} /\ "webhook" \in pub[p].todo

(* A publisher is at its latest event, and knows what it is about to do.     *)
PubsMatch ==
    /\ \A p \in Pubs : pub[p].pc # "idle" =>
          /\ pub[p].e \in 1..Len(events) /\ events[pub[p].e].by = p
          /\ \A f \in 1..Len(events) : events[f].by = p => f <= pub[p].e
    /\ \A p \in Pubs : pub[p].pc = "enqueue" => "webhook" \in pub[p].todo /\ pub[p].target \in Targets
    /\ \A p \in Pubs : pub[p].pc = "drop" => pub[p].target \in Clients
    /\ \A p \in Pubs : pub[p].pc = "clear" => events[pub[p].e].last

(* A delivery is in one place: with its publisher, once in the queue, in the *)
(* hands of one worker, or it has an outcome.                                *)
JobsMatch ==
    /\ Len(events) <= MaxEvents
    /\ \A e \in EventIDs : fate[e] # "open" =>
          e <= Len(events) /\ ~Queued(e) /\ \A p \in Pubs : Carries(p) => pub[p].e # e
    /\ \A i \in 1..Len(queue) :
          /\ queue[i] <= Len(events)
          /\ \A j \in 1..Len(queue) : queue[i] = queue[j] => i = j
          /\ \A w \in Workers : worker[w].e # queue[i]
          /\ \A p \in Pubs : Carries(p) => pub[p].e # queue[i]
    /\ \A w \in Workers : Busy(w) =>
          /\ worker[w].e <= Len(events) /\ worker[w].failed < Attempts
          /\ posts[worker[w].e] <= worker[w].failed
          /\ \A v \in Workers : worker[v].e = worker[w].e => v = w
          /\ \A p \in Pubs : Carries(p) => pub[p].e # worker[w].e
    /\ \A e \in EventIDs : fate[e] = "open" /\ (\A w \in Workers : worker[w].e # e) => posts[e] = 0

Owed(e) == events[e].last /\ events[e].hooked

(* The route of a leg stays until its last event was dispatched.             *)
RoutesMatch ==
    /\ \A e \in 1..Len(events) : events[e].last =>
          /\ events[e].leg \in reported
          /\ \A f \in 1..Len(events) : events[f].last /\ events[f].leg = events[e].leg => f = e
    /\ \A p \in Pubs : Carries(p) /\ Owed(pub[p].e) => events[pub[p].e].leg \in legHooks
    /\ \A p \in Pubs : pub[p].pc = "enqueue" /\ Owed(pub[p].e) => pub[p].target = "leg"
    /\ \A e \in EventIDs : sentTo[e] # "none" => e <= Len(events)

(* What became of an event that a connection was offered.                    *)
Has(seq, e) == \E i \in 1..Len(seq) : seq[i] = e
Held(c, e) ==
    \/ e \in client[c].told \cup client[c].notice \cup client[c].dropped
    \/ e = client[c].hand \/ Has(client[c].got, e)
Earlier(e, x) == e < x /\ events[e].by = events[x].by

Known(c) ==
    /\ \A i \in 1..Len(client[c].got) : client[c].got[i] <= Len(events)
    /\ \A i \in 1..Len(client[c].buf) : client[c].buf[i] <= Len(events)
    /\ client[c].hand <= Len(events) /\ \A e \in offered[c] : e <= Len(events)
    /\ client[c].pc \in {"off", "idle", "swap"} => client[c].notice = {}
    /\ client[c].pc \in {"off", "idle"} => client[c].hand = 0
    /\ client[c].pc \in {"swap", "write"} => client[c].hand # 0

(* Every event that was offered is somewhere on its way, and before an event *)
(* comes up in the buffer or in hand, what came earlier was or will be told. *)
Accounted(c) ==
    \A e \in offered[c] :
        \/ Held(c, e) \/ Has(client[c].buf, e)
        \/ \E p \in Pubs : pub[p].pc = "drop" /\ pub[p].target = c /\ pub[p].e = e

BufferInOrder(c) ==
    \A i \in 1..Len(client[c].buf) : \A e \in offered[c] : Earlier(e, client[c].buf[i]) =>
        Held(c, e) \/ \E j \in 1..(i - 1) : client[c].buf[j] = e

HandInOrder(c) ==
    /\ client[c].pc = "swap" => \A e \in offered[c] : Earlier(e, client[c].hand) =>
          e \in client[c].told \cup client[c].dropped \/ Has(client[c].got, e)
    /\ client[c].pc = "write" => \A e \in offered[c] : Earlier(e, client[c].hand) =>
          e \in client[c].told \cup client[c].notice \/ Has(client[c].got, e)

GotInOrder(c) ==
    \A i \in 1..Len(client[c].got) : \A e \in offered[c] : Earlier(e, client[c].got[i]) =>
        e \in client[c].told \/ \E j \in 1..i : client[c].got[j] = e

StreamMatches(c) ==
    Known(c) /\ Accounted(c) /\ BufferInOrder(c) /\ HandInOrder(c) /\ GotInOrder(c)

IInv ==
    /\ TypeOK /\ PubsMatch /\ JobsMatch /\ RoutesMatch /\ LastEventIsRouted
    /\ \A c \in Clients : StreamMatches(c)

-----------------------------------------------------------------------------
(* What Append and Tail do to a sequence, by index.                          *)
LEMMA AppendFacts ==
    ASSUME NEW S, NEW s \in Seq(S), NEW x \in S
    PROVE  /\ Append(s, x) \in Seq(S) /\ Len(Append(s, x)) = Len(s) + 1
           /\ Append(s, x)[Len(s) + 1] = x
           /\ \A i \in 1..Len(s) : Append(s, x)[i] = s[i]
  BY SMT

LEMMA TailFacts ==
    ASSUME NEW S, NEW s \in Seq(S), s # <<>>
    PROVE  /\ Tail(s) \in Seq(S) /\ Head(s) = s[1] /\ s[1] \in S
           /\ Len(s) \in Nat \ {0} /\ Len(Tail(s)) = Len(s) - 1
           /\ \A i \in 1..Len(s) - 1 : Tail(s)[i] = s[i + 1]
<1>1. Len(s) \in Nat \ {0} /\ Tail(s) \in Seq(S) /\ Len(Tail(s)) = Len(s) - 1
      /\ \A i \in 1..Len(s) - 1 : Tail(s)[i] = s[i + 1]
  BY EmptySeq, HeadTailProperties
<1>2. Head(s) = s[1] /\ s[1] \in S
  BY <1>1, HeadTailProperties
<1>3. QED
  BY <1>1, <1>2

LEMMA InitIInv == Init => IInv
<1> SUFFICES ASSUME Init PROVE IInv
  OBVIOUS
<1> USE EventsAssumption DEF EventsAssumption, Init
<1>1. TypeOK
  <2>1. Idle \in Publishers /\ NoJob \in Jobs /\ Offline \in Connections /\ Offline.buf = <<>>
    BY DEF Idle, NoJob, Offline, Publishers, Jobs, Connections, Targets
  <2>2. /\ events \in Seq([by : Pubs, leg : Legs, last : BOOLEAN, hooked : BOOLEAN])
        /\ queue \in Seq(EventIDs) /\ Len(queue) <= QueueCap
    BY SMT
  <2>3. pub \in [Pubs -> Publishers] /\ worker \in [Workers -> Jobs]
    BY <2>1
  <2>4. /\ client \in [Clients -> Connections]
        /\ \A c \in Clients : Len(client[c].buf) <= BufCap
    BY <2>1
  <2>5. posts \in [EventIDs -> 0..Attempts] /\ sentTo \in [EventIDs -> Targets]
        /\ offered \in [Clients -> SUBSET EventIDs]
    BY DEF Targets
  <2>6. fate \in [EventIDs -> {"open", "unrouted", "dropped", "abandoned",
                              "success", "exhausted", "error"}]
    OBVIOUS
  <2>7. QED
    BY <2>2, <2>3, <2>4, <2>5, <2>6 DEF TypeOK
<1>2. PubsMatch /\ RoutesMatch /\ LastEventIsRouted
  BY DEF PubsMatch, RoutesMatch, Idle, Carries, LastEventIsRouted
<1>3. JobsMatch
  BY DEF JobsMatch, Idle, Carries, NoJob, Busy, EventIDs
<1>4. ASSUME NEW c \in Clients PROVE StreamMatches(c)
  BY DEF StreamMatches, Known, Accounted, BufferInOrder, HandInOrder, GotInOrder, Offline, Held, Has
<1>5. QED
  BY <1>1, <1>2, <1>3, <1>4 DEF IInv

-----------------------------------------------------------------------------
(* Types.                                                                    *)

(* What the invariant says of who takes the step.                            *)
LEMMA PublisherFacts ==
  ASSUME IInv, NEW p \in Pubs
  PROVE  /\ pub[p] \in Publishers
         /\ pub[p].pc # "idle" => pub[p].e \in EventIDs /\ pub[p].e \in 1..Len(events)
         /\ pub[p].pc = "enqueue" => pub[p].target \in Targets
         /\ pub[p].pc = "drop" => pub[p].target \in Clients
  BY EventsAssumption DEF EventsAssumption, IInv, TypeOK, PubsMatch, JobsMatch, EventIDs

LEMMA WorkerFacts ==
  ASSUME IInv, NEW w \in Workers, Busy(w)
  PROVE  /\ worker[w].e \in EventIDs /\ worker[w].failed + 1 \in 0..Attempts
         /\ posts[worker[w].e] + 1 \in 0..Attempts
<1>1. worker[w].e \in EventIDs /\ worker[w].failed \in 0..Attempts
  BY DEF IInv, TypeOK, Jobs, EventIDs, Busy
<1>2. posts[worker[w].e] \in 0..Attempts
  BY <1>1 DEF IInv, TypeOK
<1>3. QED
  BY <1>1, <1>2, EventsAssumption DEF EventsAssumption, IInv, JobsMatch

LEMMA PublisherTypes ==
  ASSUME IInv, NEW p \in Pubs, PublisherStep(p)
  PROVE  TypeOK'
<1>a. pub \in [Pubs -> Publishers] /\ client \in [Clients -> Connections]
  BY DEF IInv, TypeOK
<1>b. ASSUME pub' \in [Pubs -> Publishers], UNCHANGED <<events, webhookVars, clientVars>>
      PROVE  TypeOK'
  BY <1>b DEF IInv, TypeOK, webhookVars, clientVars
<1>c. Idle \in Publishers
  BY EventsAssumption DEF EventsAssumption, Idle, Publishers, Targets
<1>1. ASSUME NEW l \in Legs, NEW last \in BOOLEAN, Publish(p, l, last) PROVE TypeOK'
  <2>1. events' \in Seq([by : Pubs, leg : Legs, last : BOOLEAN, hooked : BOOLEAN])
    BY <1>1 DEF Publish, IInv, TypeOK
  <2>2. Len(events) + 1 \in 0..MaxEvents
    BY <1>1, EventsAssumption DEF EventsAssumption, Publish, IInv, TypeOK
  <2>3. pub' \in [Pubs -> Publishers]
    BY <1>1, <1>a, <2>2 DEF Publish, Idle, Publishers, Targets
  <2>4. QED
    BY <1>1, <2>1, <2>3 DEF Publish, clientVars, IInv, TypeOK
<1>2. CASE Snapshot(p)
  <2>1. pub' \in [Pubs -> Publishers]
    BY <1>a, <1>2 DEF Snapshot, Publishers
  <2>2. QED
    BY <1>2, <1>b, <2>1 DEF Snapshot
<1>3. CASE Return(p)
  <2>1. pub' \in [Pubs -> Publishers]
    BY <1>a, <1>c, <1>3 DEF Return, Publishers
  <2>2. QED
    BY <1>3, <1>b, <2>1 DEF Return
<1>4. CASE ClearLegWebhook(p)
  <2>1. pub' \in [Pubs -> Publishers]
    BY <1>a, <1>c, <1>4 DEF ClearLegWebhook
  <2>2. QED
    BY <1>4, <2>1 DEF ClearLegWebhook, clientVars, IInv, TypeOK
<1>5. CASE Dispatch(p)
  <2>1. pub[p].e \in EventIDs
    BY <1>5, PublisherFacts DEF Dispatch
  <2>2. pub' \in [Pubs -> Publishers]
    BY <1>a, <1>5 DEF Dispatch, Called, Target, Publishers, Targets
  <2>3. fate' \in [EventIDs -> {"open", "unrouted", "dropped", "abandoned",
                              "success", "exhausted", "error"}]
    BY <1>5, <2>1 DEF Dispatch, Ends, IInv, TypeOK
  <2>4. QED
    BY <1>5, <2>2, <2>3 DEF Dispatch, clientVars, IInv, TypeOK
<1>6. CASE Enqueue(p)
  <2>1. pub[p].e \in EventIDs /\ pub[p].target \in Targets
    BY <1>6, PublisherFacts DEF Enqueue
  <2>2. pub' \in [Pubs -> Publishers]
    BY <1>a, <1>6 DEF Enqueue, Called, Publishers
  <2>3. queue \in Seq(EventIDs) /\ Len(queue) <= QueueCap
    BY DEF IInv, TypeOK
  <2>4. queue' \in Seq(EventIDs) /\ Len(queue') <= QueueCap
    <3>1. CASE UNCHANGED queue
      BY <2>3, <3>1
    <3>2. CASE QueueHasRoom /\ queue' = Append(queue, pub[p].e)
      BY <2>1, <2>3, <3>2, EventsAssumption, AppendFacts DEF EventsAssumption, QueueHasRoom
    <3>3. QED
      BY <1>6, <3>1, <3>2 DEF Enqueue
  <2>5. sentTo' \in [EventIDs -> Targets]
        /\ fate' \in [EventIDs -> {"open", "unrouted", "dropped", "abandoned",
                              "success", "exhausted", "error"}]
    BY <1>6, <2>1 DEF Enqueue, Ends, IInv, TypeOK
  <2>6. QED
    BY <1>6, <2>2, <2>4, <2>5 DEF Enqueue, clientVars, IInv, TypeOK
<1>7. ASSUME NEW c \in Clients, Offer(p, c) PROVE TypeOK'
  <2>1. pub[p].e \in EventIDs
    BY <1>7, PublisherFacts DEF Offer
  <2>2. pub' \in [Pubs -> Publishers]
    <3> DEFINE q(pc, to) == [pub[p] EXCEPT !.pc = pc, !.todo = pub[p].todo \ {c}, !.target = to]
    <3>1. pub[p] \in Publishers
      BY <1>a
    <3>2. q("call", pub[p].target) \in Publishers /\ q("drop", c) \in Publishers
      BY <3>1 DEF Publishers
    <3>3. pub' \in {[pub EXCEPT ![p] = q("call", pub[p].target)], [pub EXCEPT ![p] = q("drop", c)]}
      BY <1>a, <3>1, <1>7 DEF Offer, Called, Publishers
    <3>4. QED
      BY <1>a, <3>2, <3>3
  <2>3. client[c].buf \in Seq(EventIDs) /\ \A d \in Clients : Len(client[d].buf) <= BufCap
    BY <1>a DEF IInv, TypeOK, Connections
  <2>4. CASE Len(client[c].buf) < BufCap
    <3>1. /\ Append(client[c].buf, pub[p].e) \in Seq(EventIDs)
          /\ Len(Append(client[c].buf, pub[p].e)) <= BufCap
      BY <2>1, <2>3, <2>4, EventsAssumption, AppendFacts DEF EventsAssumption
    <3>2. client' = [client EXCEPT ![c] = [client[c] EXCEPT !.buf = Append(client[c].buf, pub[p].e)]]
      BY <1>7, <2>4 DEF Offer
    <3>3. [client[c] EXCEPT !.buf = Append(client[c].buf, pub[p].e)] \in Connections
      BY <1>a, <3>1 DEF Connections
    <3>4. /\ client' \in [Clients -> Connections]
          /\ \A d \in Clients : Len(client'[d].buf) <= BufCap
      BY <1>a, <2>3, <3>1, <3>2, <3>3 DEF Connections
    <3>5. QED
      BY <1>7, <2>1, <2>2, <3>4 DEF Offer, ClientOnly, webhookVars, IInv, TypeOK
  <2>5. CASE UNCHANGED client
    BY <1>7, <2>1, <2>2, <2>5 DEF Offer, ClientOnly, webhookVars, IInv, TypeOK
  <2>6. QED
    BY <1>7, <2>4, <2>5 DEF Offer
<1>8. CASE CountDrop(p)
  <2>1. pub[p].e \in EventIDs /\ pub[p].target \in Clients
    BY <1>8, PublisherFacts DEF CountDrop
  <2>2. pub' \in [Pubs -> Publishers]
    BY <1>a, <1>8 DEF CountDrop, Publishers, Targets
  <2>3. /\ client' \in [Clients -> Connections]
        /\ \A d \in Clients : client'[d].buf = client[d].buf
    <3> DEFINE c == pub[p].target
               r == [client[c] EXCEPT !.dropped = client[c].dropped \cup {pub[p].e}]
    <3>1. client' = [client EXCEPT ![c] = r]
      BY <1>8 DEF CountDrop
    <3>2. r \in Connections /\ r.buf = client[c].buf
      BY <1>a, <2>1 DEF Connections
    <3>3. QED
      BY <1>a, <2>1, <3>1, <3>2
  <2>4. QED
    BY <1>8, <2>2, <2>3 DEF CountDrop, ClientOnly, webhookVars, IInv, TypeOK
<1>9. QED
  BY <1>1, <1>2, <1>3, <1>4, <1>5, <1>6, <1>7, <1>8 DEF PublisherStep

LEMMA WorkerTypes ==
  ASSUME IInv, NEW w \in Workers, WorkerStep(w)
  PROVE  TypeOK'
<1>a. worker \in [Workers -> Jobs] /\ NoJob \in Jobs
  BY EventsAssumption DEF EventsAssumption, IInv, TypeOK, Jobs, NoJob
<1>b. UNCHANGED WorkerOnly
  BY DEF WorkerStep, TakeJob, Quit, PostSucceeds, PostFails, CannotPost
<1>1. CASE TakeJob(w)
  <2>1. queue \in Seq(EventIDs) /\ queue # <<>> /\ Len(queue) <= QueueCap
    BY <1>1 DEF TakeJob, IInv, TypeOK
  <2>2. /\ Tail(queue) \in Seq(EventIDs) /\ Head(queue) \in EventIDs
        /\ Len(Tail(queue)) <= QueueCap
    BY <2>1, TailFacts, EventsAssumption DEF EventsAssumption
  <2>3. worker' \in [Workers -> Jobs]
    BY <1>a, <1>1, <2>2 DEF TakeJob, Jobs, NoJob, EventIDs
  <2>4. QED
    BY <1>1, <1>b, <2>2, <2>3 DEF TakeJob, WorkerOnly, clientVars, IInv, TypeOK
<1>2. CASE Quit(w)
  <2>1. worker' \in [Workers -> Jobs]
    BY <1>a, <1>2, EventsAssumption DEF EventsAssumption, Quit, Jobs, NoJob
  <2>2. QED
    BY <1>2, <1>b, <2>1 DEF Quit, WorkerOnly, clientVars, IInv, TypeOK
<1>4. CASE PostSucceeds(w)
  <2>1. /\ worker' \in [Workers -> Jobs] /\ posts' \in [EventIDs -> 0..Attempts]
        /\ fate' \in [EventIDs -> {"open", "unrouted", "dropped", "abandoned",
                              "success", "exhausted", "error"}]
    BY <1>a, <1>4, WorkerFacts DEF PostSucceeds, Ends, IInv, TypeOK
  <2>2. QED
    BY <1>4, <1>b, <2>1 DEF PostSucceeds, WorkerOnly, clientVars, IInv, TypeOK
<1>5. CASE PostFails(w)
  <2>1. posts' \in [EventIDs -> 0..Attempts]
    BY <1>5, WorkerFacts DEF PostFails, IInv, TypeOK
  <2>2. worker' \in [Workers -> Jobs]
    BY <1>a, <1>5, WorkerFacts DEF PostFails, Jobs
  <2>3. fate' \in [EventIDs -> {"open", "unrouted", "dropped", "abandoned",
                              "success", "exhausted", "error"}]
    BY <1>5, WorkerFacts DEF PostFails, Ends, IInv, TypeOK
  <2>4. QED
    BY <1>5, <1>b, <2>1, <2>2, <2>3 DEF PostFails, WorkerOnly, clientVars, IInv, TypeOK
<1>6. CASE CannotPost(w)
  <2>1. worker' \in [Workers -> Jobs]
        /\ fate' \in [EventIDs -> {"open", "unrouted", "dropped", "abandoned",
                              "success", "exhausted", "error"}]
    BY <1>a, <1>6, WorkerFacts DEF CannotPost, Ends, IInv, TypeOK
  <2>2. QED
    BY <1>6, <1>b, <2>1 DEF CannotPost, WorkerOnly, clientVars, IInv, TypeOK
<1>7. QED
  BY <1>1, <1>2, <1>4, <1>5, <1>6 DEF WorkerStep

LEMMA ClientTypes ==
  ASSUME IInv, NEW c \in Clients, ClientStep(c)
  PROVE  TypeOK'
<1>a. client \in [Clients -> Connections] /\ client[c] \in Connections /\ Len(client[c].buf) <= BufCap
  BY DEF IInv, TypeOK
<1>b. ASSUME NEW r \in Connections, client' = [client EXCEPT ![c] = r], Len(r.buf) <= BufCap
      PROVE  TypeOK'
  <2>1. /\ client' \in [Clients -> Connections]
        /\ \A d \in Clients : Len(client'[d].buf) <= BufCap
    BY <1>a, <1>b DEF IInv, TypeOK
  <2>2. UNCHANGED <<ClientOnly, pub, offered>>
    BY DEF ClientStep, Subscribe, SendLoopTakes, SwapDropped, SendLoopWrites, WriteFails,
           Disconnect, Unsubscribe, SendLoopEnds
  <2>3. QED
    BY <2>1, <2>2 DEF ClientOnly, webhookVars, IInv, TypeOK
<1>1. CASE Subscribe(c)
  <2> DEFINE r == [client[c] EXCEPT !.pc = "idle", !.subscribed = TRUE]
  <2>1. r \in Connections /\ r.buf = client[c].buf
    BY <1>a DEF Connections
  <2>2. client' = [client EXCEPT ![c] = r]
    BY <1>1 DEF Subscribe
  <2>3. QED
    BY <1>a, <1>b, <2>1, <2>2
<1>2. CASE SendLoopTakes(c)
  <2> DEFINE r == [client[c] EXCEPT !.pc = "swap", !.hand = Head(client[c].buf),
                                    !.buf = Tail(client[c].buf)]
  <2>0. client[c].buf \in Seq(EventIDs) /\ client[c].buf # <<>>
    BY <1>a, <1>2 DEF Connections, SendLoopTakes
  <2>1. /\ Tail(client[c].buf) \in Seq(EventIDs) /\ Head(client[c].buf) \in EventIDs
        /\ Len(Tail(client[c].buf)) <= BufCap
    BY <1>a, <2>0, TailFacts, EventsAssumption DEF EventsAssumption
  <2>2. r \in Connections /\ r.buf = Tail(client[c].buf)
    <3>1. Head(client[c].buf) \in 0..MaxEvents
      BY <2>1 DEF EventIDs
    <3>2. QED
      BY <1>a, <2>1, <3>1 DEF Connections
  <2>3. client' = [client EXCEPT ![c] = r]
    BY <1>2 DEF SendLoopTakes
  <2>4. QED
    BY <1>b, <2>1, <2>2, <2>3
<1>3. CASE SwapDropped(c)
  <2> DEFINE r == [client[c] EXCEPT !.pc = "write", !.notice = client[c].dropped, !.dropped = {}]
  <2>1. r \in Connections /\ r.buf = client[c].buf
    BY <1>a DEF Connections
  <2>2. client' = [client EXCEPT ![c] = r]
    BY <1>3 DEF SwapDropped
  <2>3. QED
    BY <1>a, <1>b, <2>1, <2>2
<1>4. CASE SendLoopWrites(c)
  <2> DEFINE r == [client[c] EXCEPT !.pc = "idle", !.hand = 0, !.notice = {},
                                    !.told = client[c].told \cup client[c].notice,
                                    !.got = Append(client[c].got, client[c].hand)]
  <2>1. client[c].hand \in EventIDs /\ client[c].got \in Seq(EventIDs)
    <3>1. client[c].hand # 0
      BY <1>4 DEF SendLoopWrites, At, StreamMatches, Known, IInv
    <3>2. QED
      BY <1>a, <3>1 DEF Connections, EventIDs
  <2>2. r \in Connections /\ r.buf = client[c].buf
    <3>1. Append(client[c].got, client[c].hand) \in Seq(EventIDs) /\ 0 \in 0..MaxEvents
      BY <2>1, AppendFacts, EventsAssumption DEF EventsAssumption
    <3>2. QED
      BY <1>a, <3>1 DEF Connections
  <2>3. client' = [client EXCEPT ![c] = r]
    BY <1>4 DEF SendLoopWrites
  <2>4. QED
    BY <1>a, <1>b, <2>2, <2>3
<1>5. CASE WriteFails(c)
  <2>1. PICK heard \in {{}, client[c].notice} :
          client' = [client EXCEPT ![c].pc = "gone", ![c].told = @ \cup heard]
    BY <1>5 DEF WriteFails
  <2> DEFINE r == [client[c] EXCEPT !.pc = "gone", !.told = client[c].told \cup heard]
  <2>2. r \in Connections /\ r.buf = client[c].buf
    BY <1>a DEF Connections
  <2>3. client' = [client EXCEPT ![c] = r]
    BY <2>1
  <2>4. QED
    BY <1>a, <1>b, <2>2, <2>3
<1>6. CASE Disconnect(c) \/ Unsubscribe(c) \/ SendLoopEnds(c)
  <2>1. PICK r \in {[client[c] EXCEPT !.done = TRUE], [client[c] EXCEPT !.subscribed = FALSE],
                    [client[c] EXCEPT !.pc = "gone"]} : client' = [client EXCEPT ![c] = r]
    BY <1>6 DEF Disconnect, Unsubscribe, SendLoopEnds
  <2>2. r \in Connections /\ r.buf = client[c].buf
    BY <1>a DEF Connections
  <2>3. QED
    BY <1>a, <1>b, <2>1, <2>2
<1>7. QED
  BY <1>1, <1>2, <1>3, <1>4, <1>5, <1>6 DEF ClientStep

-----------------------------------------------------------------------------
(* Publishers.                                                               *)

(* A publisher's step leaves the others where they are.                      *)
LEMMA OnePublisher ==
  ASSUME IInv, NEW p \in Pubs, PublisherStep(p), NEW q \in Pubs, q # p
  PROVE  pub'[q] = pub[q]
<1>1. pub \in [Pubs -> Publishers]
  BY DEF IInv, TypeOK
<1>2. QED
  BY <1>1 DEF PublisherStep, Publish, Snapshot, Return, ClearLegWebhook, Dispatch, Enqueue, Called,
        Offer, CountDrop

(* Publish appends one event, with the next number, to those there are.      *)
LEMMA PublishFacts ==
  ASSUME IInv, NEW p \in Pubs, NEW l \in Legs, NEW last \in BOOLEAN, Publish(p, l, last)
  PROVE  /\ Len(events) \in Nat /\ Len(events) + 1 \in EventIDs /\ Len(events') = Len(events) + 1
         /\ \A i \in 1..Len(events) : events'[i] = events[i]
         /\ events'[Len(events) + 1]
               = [by |-> p, leg |-> l, last |-> last, hooked |-> l \in legHooks]
         /\ pub'[p] = [pc |-> "snapshot", e |-> Len(events) + 1, todo |-> {}, target |-> "none"]
<1> DEFINE r == [by |-> p, leg |-> l, last |-> last, hooked |-> l \in legHooks]
<1>1. events \in Seq([by : Pubs, leg : Legs, last : BOOLEAN, hooked : BOOLEAN])
      /\ pub \in [Pubs -> Publishers] /\ Len(events) < MaxEvents /\ events' = Append(events, r)
  BY DEF IInv, TypeOK, Publish
<1>2. r \in [by : Pubs, leg : Legs, last : BOOLEAN, hooked : BOOLEAN]
  OBVIOUS
<1>3. /\ Len(events') = Len(events) + 1 /\ events'[Len(events) + 1] = r
      /\ \A i \in 1..Len(events) : events'[i] = events[i]
  BY <1>1, <1>2, AppendFacts
<1>4. Len(events) \in Nat /\ Len(events) + 1 \in EventIDs
  BY <1>1, EventsAssumption DEF EventsAssumption, EventIDs
<1>5. pub'[p] = [pc |-> "snapshot", e |-> Len(events) + 1, todo |-> {}, target |-> "none"]
  BY <1>1 DEF Publish, Idle
<1>6. QED
  BY <1>3, <1>4, <1>5

(* The other steps of a publisher publish nothing, and where it is after     *)
(* them, seen from where it was.                                             *)
LEMMA OtherStepFacts ==
  ASSUME IInv, NEW p \in Pubs, PublisherStep(p),
         ~ \E l \in Legs, last \in BOOLEAN : Publish(p, l, last)
  PROVE  /\ UNCHANGED events /\ pub[p].pc # "idle"
         /\ pub'[p].pc # "idle" => pub'[p].e = pub[p].e
         /\ pub'[p].pc = "enqueue" => "webhook" \in pub'[p].todo /\ pub'[p].target \in Targets
         /\ pub'[p].pc = "drop" => pub'[p].target \in Clients
         /\ pub'[p].pc = "clear" => events[pub[p].e].last
<1>1. pub \in [Pubs -> Publishers] /\ pub[p] \in Publishers
  BY DEF IInv, TypeOK
<1>2. CASE Snapshot(p)
  BY <1>1, <1>2 DEF Snapshot, Publishers
<1>3. CASE Return(p)
  BY <1>1, <1>3 DEF Return, Publishers, Idle
<1>4. CASE ClearLegWebhook(p)
  BY <1>1, <1>4 DEF ClearLegWebhook, Publishers, Idle
<1>5. CASE Dispatch(p)
  <2>1. UNCHANGED events /\ pub[p].pc = "call" /\ "webhook" \in pub[p].todo
    BY <1>5 DEF Dispatch
  <2>2. pub'[p] = [pub[p] EXCEPT !.pc = "call", !.todo = pub[p].todo \ {"webhook"}]
        \/ pub'[p] = [pub[p] EXCEPT !.pc = "enqueue", !.target = Target(pub[p].e)]
    BY <1>1, <1>5 DEF Dispatch, Called
  <2>3. Target(pub[p].e) \in Targets
    BY DEF Target, Targets
  <2>4. QED
    BY <1>1, <2>1, <2>2, <2>3 DEF Publishers
<1>6. CASE Enqueue(p)
  BY <1>1, <1>6 DEF Enqueue, Called, Publishers
<1>7. ASSUME NEW c \in Clients, Offer(p, c)
      PROVE  /\ UNCHANGED events /\ pub[p].pc = "call" /\ pub'[p].e = pub[p].e
             /\ \/ pub'[p].pc = "call"
                \/ pub'[p].pc = "drop" /\ pub'[p].target \in Clients
  BY <1>1, <1>7 DEF Offer, Called, ClientOnly, Publishers
<1>8. CASE CountDrop(p)
  BY <1>1, <1>8 DEF CountDrop, ClientOnly, Publishers
<1>9. QED
  BY <1>2, <1>3, <1>4, <1>5, <1>6, <1>7, <1>8 DEF PublisherStep

LEMMA PublisherPubs ==
  ASSUME IInv, NEW p \in Pubs, PublisherStep(p)
  PROVE  PubsMatch'
<1>1. PubsMatch /\ Len(events) \in Nat
  BY DEF IInv, TypeOK
<1>2. ASSUME NEW l \in Legs, NEW last \in BOOLEAN, Publish(p, l, last)
      PROVE  PubsMatch'
  <2>1. \A q \in Pubs : q # p => pub'[q] = pub[q]
    BY OnePublisher
  <2>2. /\ Len(events') = Len(events) + 1 /\ events'[Len(events) + 1].by = p
        /\ \A i \in 1..Len(events) : events'[i] = events[i]
        /\ pub'[p].pc = "snapshot" /\ pub'[p].e = Len(events) + 1
    <3>1. /\ Len(events') = Len(events) + 1 /\ \A i \in 1..Len(events) : events'[i] = events[i]
          /\ events'[Len(events) + 1]
                = [by |-> p, leg |-> l, last |-> last, hooked |-> l \in legHooks]
          /\ pub'[p] = [pc |-> "snapshot", e |-> Len(events) + 1, todo |-> {}, target |-> "none"]
      BY <1>2, PublishFacts
    <3>2. QED
      BY <3>1
  <2>3. ASSUME NEW q \in Pubs, pub'[q].pc # "idle"
        PROVE  /\ pub'[q].e \in 1..Len(events') /\ events'[pub'[q].e].by = q
               /\ \A f \in 1..Len(events') : events'[f].by = q => f <= pub'[q].e
    BY <1>1, <2>1, <2>2, <2>3 DEF PubsMatch
  <2>4. ASSUME NEW q \in Pubs, pub'[q].pc = "clear"
        PROVE  events'[pub'[q].e].last
    BY <1>1, <2>1, <2>2, <2>4 DEF PubsMatch
  <2>5. QED
    BY <1>1, <2>1, <2>2, <2>3, <2>4 DEF PubsMatch
<1>3. CASE ~ \E l \in Legs, last \in BOOLEAN : Publish(p, l, last)
  <2>1. \A q \in Pubs : q # p => pub'[q] = pub[q]
    BY OnePublisher
  <2>2. QED
    BY <1>1, <1>3, <2>1, OtherStepFacts DEF PubsMatch
<1>4. QED
  BY <1>2, <1>3

(* A publisher's event that is still owed is nowhere else.                   *)
LEMMA CarrierFacts ==
  ASSUME IInv, NEW p \in Pubs, Carries(p)
  PROVE  /\ pub[p].e \in EventIDs /\ pub[p].e <= Len(events) /\ fate[pub[p].e] = "open"
         /\ \A i \in 1..Len(queue) : queue[i] # pub[p].e
         /\ \A w \in Workers : worker[w].e # pub[p].e
         /\ \A q \in Pubs : Carries(q) /\ pub[q].e = pub[p].e => q = p
<1>1. /\ \A q \in Pubs : Carries(q) => pub[q].pc # "idle"
      /\ \A q \in Pubs : pub[q].pc # "idle" =>
            pub[q].e \in EventIDs /\ pub[q].e \in 1..Len(events) /\ events[pub[q].e].by = q
  BY PublisherFacts DEF IInv, PubsMatch, Carries
<1>2. /\ pub[p].e \in EventIDs /\ pub[p].e <= Len(events)
      /\ \A q \in Pubs : Carries(q) /\ pub[q].e = pub[p].e => q = p
  BY <1>1
<1>3. fate[pub[p].e] = "open"
  BY <1>2 DEF IInv, JobsMatch
<1>4. \A w \in Workers : worker[w].e # pub[p].e
  <2>1. pub[p].e # 0
    BY <1>2 DEF EventIDs
  <2>2. QED
    BY <2>1 DEF IInv, JobsMatch, Busy
<1>5. QED
  BY <1>2, <1>3, <1>4 DEF IInv, JobsMatch

LEMMA PublisherJobs ==
  ASSUME IInv, NEW p \in Pubs, PublisherStep(p)
  PROVE  JobsMatch'
<1> DEFINE e == pub[p].e
<1>a. /\ JobsMatch /\ Len(events) \in Nat /\ pub[p] \in Publishers
      /\ \A q \in Pubs : q # p => pub'[q] = pub[q]
  BY OnePublisher DEF IInv, TypeOK
<1>b. \A q \in Pubs : q # p => (Carries(q)' <=> Carries(q))
  BY <1>a DEF Carries
<1>1. ASSUME NEW l \in Legs, NEW last \in BOOLEAN, Publish(p, l, last)
      PROVE  JobsMatch'
  <2>1. /\ Len(events') = Len(events) + 1 /\ Len(events) + 1 \in EventIDs
        /\ pub'[p].e = Len(events) + 1
    <3>1. /\ Len(events') = Len(events) + 1 /\ Len(events) + 1 \in EventIDs
          /\ pub'[p] = [pc |-> "snapshot", e |-> Len(events) + 1, todo |-> {}, target |-> "none"]
      BY <1>1, PublishFacts
    <3>2. QED
      BY <3>1
  <2>2. UNCHANGED <<queue, worker, fate, posts>>
    BY <1>1 DEF Publish
  <2>3. \A x : Queued(x)' <=> Queued(x)
    BY <2>2 DEF Queued
  <2>4. ASSUME NEW x \in EventIDs, x <= Len(events), \A q \in Pubs : Carries(q) => pub[q].e # x
        PROVE  \A q \in Pubs : Carries(q)' => pub'[q].e # x
    BY <1>a, <1>b, <2>1, <2>4 DEF EventIDs
  <2>5. \A i \in 1..Len(queue) : queue[i] \in EventIDs
    BY DEF IInv, TypeOK
  <2>6. \A w \in Workers : Busy(w) => worker[w].e \in EventIDs
    BY WorkerFacts
  <2>7. Len(events') <= MaxEvents
    BY <2>1, EventsAssumption DEF EventsAssumption, EventIDs
  <2>8. ASSUME NEW x \in EventIDs, fate'[x] # "open"
        PROVE  x <= Len(events') /\ ~Queued(x)' /\ \A q \in Pubs : Carries(q)' => pub'[q].e # x
    BY <1>a, <2>1, <2>2, <2>3, <2>4, <2>8 DEF JobsMatch, EventIDs
  <2>9. ASSUME NEW i \in 1..Len(queue)
        PROVE  /\ queue[i] <= Len(events')
               /\ \A j \in 1..Len(queue) : queue[i] = queue[j] => i = j
               /\ \A w \in Workers : worker[w].e # queue[i]
               /\ \A q \in Pubs : Carries(q)' => pub'[q].e # queue[i]
    BY <1>a, <2>1, <2>4, <2>5 DEF JobsMatch, EventIDs
  <2>10. ASSUME NEW w \in Workers, Busy(w)
         PROVE  /\ worker[w].e <= Len(events') /\ worker[w].failed < Attempts
                /\ posts[worker[w].e] <= worker[w].failed
                /\ \A v \in Workers : worker[v].e = worker[w].e => v = w
                /\ \A q \in Pubs : Carries(q)' => pub'[q].e # worker[w].e
    BY <1>a, <2>1, <2>4, <2>6, <2>10 DEF JobsMatch, EventIDs
  <2>11. QED
    BY <1>a, <2>2, <2>7, <2>8, <2>9, <2>10 DEF JobsMatch, Busy
<1>2. ASSUME UNCHANGED <<events, queue, worker, fate, posts>>, Carries(p)' => Carries(p) /\ pub'[p].e = e
      PROVE  JobsMatch'
  <2>1. \A x : Queued(x)' <=> Queued(x)
    BY <1>2 DEF Queued
  <2>2. ASSUME NEW x, \A q \in Pubs : Carries(q) => pub[q].e # x
        PROVE  \A q \in Pubs : Carries(q)' => pub'[q].e # x
    BY <1>a, <1>b, <1>2, <2>2
  <2>3. QED
    BY <1>a, <1>2, <2>1, <2>2 DEF JobsMatch, Busy
<1>3. ASSUME UNCHANGED <<events, queue, worker, posts>>, Carries(p), ~Carries(p)',
             NEW how, how # "open", Ends(e, how)
      PROVE  JobsMatch'
  <2>1. \A x : Queued(x)' <=> Queued(x)
    BY <1>3 DEF Queued
  <2>2. ASSUME NEW x, \A q \in Pubs : Carries(q) => pub[q].e # x
        PROVE  \A q \in Pubs : Carries(q)' => pub'[q].e # x
    BY <1>a, <1>b, <1>3, <2>2
  <2>3. /\ e \in EventIDs /\ e <= Len(events) /\ ~Queued(e)
        /\ \A q \in Pubs : Carries(q)' => pub'[q].e # e
    BY <1>a, <1>b, <1>3, CarrierFacts DEF Queued, Contains
  <2>4. fate' = [fate EXCEPT ![e] = how] /\ fate \in [EventIDs -> {"open", "unrouted", "dropped",
              "abandoned", "success", "exhausted", "error"}]
    BY <1>3 DEF Ends, IInv, TypeOK
  <2>5. ASSUME NEW x \in EventIDs, fate'[x] # "open"
        PROVE  x <= Len(events) /\ ~Queued(x) /\ \A q \in Pubs : Carries(q)' => pub'[q].e # x
    BY <1>a, <2>2, <2>3, <2>4, <2>5 DEF JobsMatch
  <2>6. ASSUME NEW x \in EventIDs, fate'[x] = "open" PROVE fate[x] = "open"
    BY <1>3, <2>4, <2>6
  <2>7. QED
    BY <1>a, <1>3, <2>1, <2>2, <2>5, <2>6 DEF JobsMatch, Busy
<1>4. CASE Snapshot(p)
  BY <1>2, <1>4, <1>a DEF Snapshot, webhookVars, Carries, IInv, TypeOK
<1>5. CASE Return(p)
  <2>1. pub'[p].pc \in {"clear", "idle"}
    BY <1>5, <1>a DEF Return, Idle, IInv, TypeOK, Publishers
  <2>2. ~Carries(p)'
    BY <2>1 DEF Carries
  <2>3. QED
    BY <1>2, <1>5, <2>2 DEF Return, webhookVars
<1>6. CASE ClearLegWebhook(p)
  BY <1>2, <1>6 DEF ClearLegWebhook, Carries, Idle, IInv, TypeOK
<1>7. CASE Dispatch(p)
  <2>1. Carries(p) /\ UNCHANGED <<events, queue, worker, posts>> /\ pub \in [Pubs -> Publishers]
    BY <1>7 DEF Dispatch, Carries, IInv, TypeOK
  <2>2. CASE Target(e) = "none"
    <3>1. Called(p, "webhook") /\ Ends(e, "unrouted") /\ pub[p].pc = "call"
      BY <1>7, <2>2 DEF Dispatch
    <3>2. ~Carries(p)'
      BY <1>a, <2>1, <3>1 DEF Carries, Called, Publishers
    <3>3. QED
      BY <1>3, <2>1, <3>1, <3>2
  <2>3. CASE Target(e) # "none"
    <3>1. pub' = [pub EXCEPT ![p].pc = "enqueue", ![p].target = Target(e)] /\ UNCHANGED fate
      BY <1>7, <2>3 DEF Dispatch
    <3>2. pub'[p].e = e
      BY <1>a, <2>1, <3>1 DEF Publishers
    <3>3. QED
      BY <1>2, <2>1, <3>1, <3>2
  <2>4. QED
    BY <2>2, <2>3
<1>8. CASE Enqueue(p)
  <2>1. /\ Carries(p) /\ UNCHANGED <<events, worker, posts>> /\ pub \in [Pubs -> Publishers]
        /\ Called(p, "webhook")
    BY <1>8 DEF Enqueue, Carries, IInv, PubsMatch, TypeOK
  <2>2. ~Carries(p)'
    BY <1>a, <2>1 DEF Carries, Called, Publishers
  <2>3. CASE \E how \in {"abandoned", "dropped"} : Ends(e, how) /\ UNCHANGED queue
    BY <1>3, <2>1, <2>2, <2>3
  <2>4. CASE queue' = Append(queue, e) /\ UNCHANGED fate
    <3>1. /\ e \in EventIDs /\ e <= Len(events) /\ fate[e] = "open"
          /\ \A i \in 1..Len(queue) : queue[i] # e
          /\ \A w \in Workers : worker[w].e # e
          /\ \A q \in Pubs : Carries(q)' => pub'[q].e # e
      BY <1>a, <1>b, <2>1, <2>2, CarrierFacts
    <3>2. queue \in Seq(EventIDs) /\ Len(queue) \in Nat
      BY DEF IInv, TypeOK
    <3>3. /\ Len(queue') = Len(queue) + 1 /\ queue'[Len(queue) + 1] = e
          /\ \A i \in 1..Len(queue) : queue'[i] = queue[i]
      BY <2>4, <3>1, <3>2, AppendFacts
    <3>4. ASSUME NEW x, \A q \in Pubs : Carries(q) => pub[q].e # x
          PROVE  \A q \in Pubs : Carries(q)' => pub'[q].e # x
      BY <1>a, <1>b, <2>2, <3>4
    <3>5. ASSUME NEW x \in EventIDs, fate'[x] # "open"
          PROVE  x <= Len(events) /\ ~Queued(x)' /\ \A q \in Pubs : Carries(q)' => pub'[q].e # x
      <4>1. x # e /\ x <= Len(events) /\ ~Queued(x) /\ \A q \in Pubs : Carries(q) => pub[q].e # x
        BY <1>a, <2>4, <3>1, <3>5 DEF JobsMatch
      <4>2. ~Queued(x)'
        BY <2>1, <3>2, <3>3, <4>1 DEF Queued, Contains
      <4>3. QED
        BY <3>4, <4>1, <4>2
    <3>6. ASSUME NEW i \in 1..Len(queue')
          PROVE  /\ queue'[i] <= Len(events)
                 /\ \A j \in 1..Len(queue') : queue'[i] = queue'[j] => i = j
                 /\ \A w \in Workers : worker[w].e # queue'[i]
                 /\ \A q \in Pubs : Carries(q)' => pub'[q].e # queue'[i]
      <4>1. CASE i = Len(queue) + 1
        BY <1>a, <3>1, <3>2, <3>3, <4>1
      <4>2. CASE i \in 1..Len(queue)
        <5>1. /\ queue'[i] = queue[i] /\ queue[i] <= Len(events)
              /\ \A w \in Workers : worker[w].e # queue[i]
              /\ \A q \in Pubs : Carries(q) => pub[q].e # queue[i]
              /\ \A j \in 1..Len(queue) : queue[i] = queue[j] => i = j
          BY <1>a, <3>3, <4>2 DEF JobsMatch
        <5>2. \A j \in 1..Len(queue') : queue'[i] = queue'[j] => i = j
          BY <3>1, <3>2, <3>3, <4>2, <5>1
        <5>3. QED
          BY <3>4, <5>1, <5>2
      <4>3. QED
        BY <3>2, <3>3, <4>1, <4>2
    <3>7. ASSUME NEW w \in Workers, Busy(w)
          PROVE  \A q \in Pubs : Carries(q)' => pub'[q].e # worker[w].e
      BY <1>a, <3>4, <3>7 DEF JobsMatch
    <3>8. QED
      BY <1>a, <2>1, <2>4, <3>5, <3>6, <3>7 DEF JobsMatch, Busy
  <2>5. QED
    BY <1>8, <2>3, <2>4 DEF Enqueue
<1>9. ASSUME NEW c \in Clients, Offer(p, c) PROVE JobsMatch'
  <2>1. /\ pub'[p].e = e /\ pub[p].pc = "call" /\ pub'[p].todo = pub[p].todo \ {c}
        /\ pub'[p].pc \in {"call", "drop"}
    BY <1>9, <1>a DEF Offer, Called, IInv, TypeOK, Publishers
  <2>2. UNCHANGED <<events, queue, worker, fate, posts>>
    BY <1>9 DEF Offer, ClientOnly, webhookVars
  <2>3. Carries(p)' => Carries(p)
    BY <2>1 DEF Carries
  <2>4. QED
    BY <1>2, <2>1, <2>2, <2>3
<1>10. CASE CountDrop(p)
  <2>1. pub'[p].e = e /\ pub[p].pc = "drop" /\ pub'[p].todo = pub[p].todo /\ pub'[p].pc = "call"
    BY <1>10, <1>a DEF CountDrop, IInv, TypeOK, Publishers
  <2>2. UNCHANGED <<events, queue, worker, fate, posts>>
    BY <1>10 DEF CountDrop, ClientOnly, webhookVars
  <2>3. Carries(p)' => Carries(p)
    BY <2>1 DEF Carries
  <2>4. QED
    BY <1>2, <2>1, <2>2, <2>3
<1>11. QED
  BY <1>1, <1>4, <1>5, <1>6, <1>7, <1>8, <1>9, <1>10 DEF PublisherStep

LEMMA WorkerJobs ==
  ASSUME IInv, NEW w \in Workers, WorkerStep(w)
  PROVE  JobsMatch'
<1> DEFINE e == worker[w].e
<1>a. /\ JobsMatch /\ Len(events) \in Nat /\ worker \in [Workers -> Jobs]
      /\ queue \in Seq(EventIDs) /\ Len(queue) \in Nat
      /\ fate \in [EventIDs -> {"open", "unrouted", "dropped", "abandoned",
                                "success", "exhausted", "error"}]
      /\ posts \in [EventIDs -> 0..Attempts]
  BY DEF IInv, TypeOK
<1>b. UNCHANGED <<events, pub>> /\ \A q : Carries(q)' <=> Carries(q)
  BY DEF WorkerStep, TakeJob, Quit, PostSucceeds, PostFails, CannotPost, WorkerOnly, Carries
<1>1. CASE TakeJob(w)
  <2>1. /\ queue # <<>> /\ queue' = Tail(queue) /\ UNCHANGED <<fate, posts>> /\ e = 0
        /\ worker' = [worker EXCEPT ![w] = [e |-> Head(queue), failed |-> 0]]
    <3>1. [NoJob EXCEPT !.e = Head(queue)] = [e |-> Head(queue), failed |-> 0] /\ NoJob.e = 0
      BY DEF NoJob
    <3>2. QED
      BY <1>1, <3>1 DEF TakeJob
  <2>2. /\ Head(queue) = queue[1] /\ queue[1] \in EventIDs
        /\ Len(queue) \in Nat \ {0} /\ Len(queue') = Len(queue) - 1
        /\ \A i \in 1..Len(queue) - 1 : queue'[i] = queue[i + 1]
    BY <1>a, <2>1, TailFacts
  <2>3. /\ worker'[w].e = queue[1] /\ worker'[w].failed = 0
        /\ \A v \in Workers : v # w => worker'[v] = worker[v]
    BY <1>a, <2>1, <2>2
  <2>4. /\ queue[1] <= Len(events)
        /\ \A j \in 1..Len(queue) : queue[1] = queue[j] => 1 = j
        /\ \A v \in Workers : worker[v].e # queue[1]
        /\ \A q \in Pubs : Carries(q) => pub[q].e # queue[1]
    BY <1>a, <2>2 DEF JobsMatch
  <2>5. posts[queue[1]] = 0
    <3>1. Queued(queue[1])
      BY <2>2 DEF Queued, Contains
    <3>2. QED
      BY <1>a, <2>2, <2>4, <3>1 DEF JobsMatch
  <2>6. ASSUME NEW x, ~Queued(x) PROVE ~Queued(x)'
    BY <2>2, <2>3, <2>6 DEF Queued, Contains
  <2>7. ASSUME NEW i \in 1..Len(queue')
        PROVE  /\ queue'[i] <= Len(events)
               /\ \A j \in 1..Len(queue') : queue'[i] = queue'[j] => i = j
               /\ \A v \in Workers : worker'[v].e # queue'[i]
               /\ \A q \in Pubs : Carries(q) => pub[q].e # queue'[i]
    <3>1. i + 1 \in 1..Len(queue) /\ queue'[i] = queue[i + 1]
      BY <2>2
    <3>2. \A j \in 1..Len(queue') : queue'[i] = queue'[j] => i = j
      BY <1>a, <2>2, <3>1 DEF JobsMatch
    <3>3. \A v \in Workers : worker'[v].e # queue'[i]
      <4>1. queue[1] # queue[i + 1]
        BY <2>4, <3>1
      <4>2. \A v \in Workers : worker[v].e # queue[i + 1]
        BY <1>a, <3>1 DEF JobsMatch
      <4>3. QED
        BY <2>3, <3>1, <4>1, <4>2
    <3>4. QED
      BY <1>a, <3>1, <3>2, <3>3 DEF JobsMatch
  <2>8. ASSUME NEW v \in Workers, Busy(v)'
        PROVE  /\ worker'[v].e <= Len(events) /\ worker'[v].failed < Attempts
               /\ posts[worker'[v].e] <= worker'[v].failed
               /\ \A u \in Workers : worker'[u].e = worker'[v].e => u = v
               /\ \A q \in Pubs : Carries(q) => pub[q].e # worker'[v].e
    <3>1. CASE v = w
      BY <2>3, <2>4, <2>5, <3>1, EventsAssumption DEF EventsAssumption
    <3>2. CASE v # w
      <4>1. worker'[v] = worker[v] /\ Busy(v) /\ worker[v].e # queue[1]
        BY <2>3, <2>4, <2>8, <3>2 DEF Busy
      <4>2. /\ worker[v].e <= Len(events) /\ worker[v].failed < Attempts
            /\ posts[worker[v].e] <= worker[v].failed
            /\ \A u \in Workers : worker[u].e = worker[v].e => u = v
            /\ \A q \in Pubs : Carries(q) => pub[q].e # worker[v].e
        BY <1>a, <4>1 DEF JobsMatch
      <4>3. QED
        BY <2>3, <4>1, <4>2
    <3>3. QED
      BY <3>1, <3>2
  <2>9. ASSUME NEW x \in EventIDs, fate[x] = "open", \A v \in Workers : worker'[v].e # x
        PROVE  posts[x] = 0
    BY <1>a, <2>1, <2>3, <2>9 DEF JobsMatch, EventIDs
  <2>10. QED
    BY <1>a, <1>b, <2>1, <2>6, <2>7, <2>8, <2>9 DEF JobsMatch
<1>2. CASE Quit(w)
  <2>1. /\ UNCHANGED <<queue, fate, posts>> /\ e = 0
        /\ worker' = [worker EXCEPT ![w] = [e |-> 0, failed |-> Attempts]]
    <3>1. [NoJob EXCEPT !.failed = Attempts] = [e |-> 0, failed |-> Attempts] /\ NoJob.e = 0
      BY DEF NoJob
    <3>2. QED
      BY <1>2, <3>1 DEF Quit
  <2>2. /\ worker'[w].e = 0
        /\ \A v \in Workers : worker'[v].e = worker[v].e
        /\ \A v \in Workers : v # w => worker'[v] = worker[v]
    BY <1>a, <2>1
  <2>3. \A x : Queued(x)' <=> Queued(x)
    BY <2>1, <2>2 DEF Queued
  <2>4. QED
    BY <1>a, <1>b, <2>1, <2>2, <2>3 DEF JobsMatch, Busy
<1>3. ASSUME Busy(w), UNCHANGED queue, worker' = [worker EXCEPT ![w] = NoJob],
             NEW how, how # "open", Ends(e, how), \A x \in EventIDs : x # e => posts'[x] = posts[x]
      PROVE  JobsMatch'
  <2>1. /\ worker'[w].e = 0 /\ \A v \in Workers : v # w => worker'[v] = worker[v]
        /\ e \in EventIDs /\ fate' = [fate EXCEPT ![e] = how]
    BY <1>a, <1>3, WorkerFacts DEF NoJob, Ends
  <2>2. /\ e <= Len(events)
        /\ \A v \in Workers : worker[v].e = e => v = w
        /\ \A q \in Pubs : Carries(q) => pub[q].e # e
        /\ \A i \in 1..Len(queue) : queue[i] # e
    BY <1>a, <1>3 DEF JobsMatch
  <2>3. ASSUME NEW x \in EventIDs, ~Queued(x) \/ x = e PROVE ~Queued(x)'
    <3>1. \A v \in Workers : worker'[v].e # x
      BY <2>1, <2>2, <2>3 DEF Queued, EventIDs
    <3>2. QED
      BY <1>3, <2>2, <2>3, <3>1 DEF Queued, Contains
  <2>4. ASSUME NEW x \in EventIDs, fate'[x] # "open"
        PROVE  x <= Len(events) /\ ~Queued(x)' /\ \A q \in Pubs : Carries(q) => pub[q].e # x
    BY <1>a, <2>1, <2>2, <2>3, <2>4 DEF JobsMatch
  <2>5. ASSUME NEW i \in 1..Len(queue)
        PROVE  \A v \in Workers : worker'[v].e # queue[i]
    <3>1. queue[i] # 0
      BY <1>a DEF EventIDs
    <3>2. \A v \in Workers : worker[v].e # queue[i]
      BY <1>a DEF JobsMatch
    <3>3. QED
      BY <2>1, <3>1, <3>2
  <2>6. ASSUME NEW v \in Workers, Busy(v)'
        PROVE  /\ v # w /\ worker'[v] = worker[v] /\ Busy(v) /\ worker[v].e # e
               /\ worker[v].e \in EventIDs /\ posts'[worker[v].e] = posts[worker[v].e]
    <3>1. v # w /\ worker'[v] = worker[v] /\ Busy(v)
      BY <2>1, <2>6 DEF Busy
    <3>2. QED
      BY <1>3, <2>2, <3>1, WorkerFacts
  <2>7. ASSUME NEW v \in Workers, Busy(v)'
        PROVE  \A u \in Workers : worker'[u].e = worker'[v].e => u = v
    BY <1>a, <2>1, <2>6, <2>7 DEF JobsMatch, Busy
  <2>8. ASSUME NEW x \in EventIDs, fate'[x] = "open", \A v \in Workers : worker'[v].e # x
        PROVE  posts'[x] = 0
    BY <1>3, <1>a, <2>1, <2>8 DEF JobsMatch
  <2>9. QED
    BY <1>a, <1>b, <1>3, <2>4, <2>5, <2>6, <2>7, <2>8 DEF JobsMatch
<1>4. CASE PostSucceeds(w)
  <2>1. /\ Busy(w) /\ UNCHANGED queue /\ worker' = [worker EXCEPT ![w] = NoJob]
        /\ Ends(e, "success") /\ posts' = [posts EXCEPT ![e] = posts[e] + 1]
    BY <1>4 DEF PostSucceeds
  <2>2. QED
    BY <1>a, <1>3, <2>1
<1>5. CASE PostFails(w)
  <2>1. /\ Busy(w) /\ UNCHANGED queue
        /\ posts' \in {posts, [posts EXCEPT ![e] = posts[e] + 1]}
    BY <1>5 DEF PostFails
  <2>2. \A x \in EventIDs : x # e => posts'[x] = posts[x]
    BY <1>a, <2>1
  <2>3. CASE worker' = [worker EXCEPT ![w] = NoJob] /\ Ends(e, "exhausted")
    BY <1>3, <2>1, <2>2, <2>3
  <2>4. CASE /\ worker[w].failed + 1 < Attempts /\ UNCHANGED fate
             /\ worker' = [worker EXCEPT ![w].failed = @ + 1]
    <3>1. /\ worker'[w].e = e /\ worker'[w].failed = worker[w].failed + 1
          /\ \A v \in Workers : v # w => worker'[v] = worker[v]
          /\ worker[w].failed \in Nat
      BY <1>a, <2>4 DEF Jobs
    <3>2. \A v \in Workers : worker'[v].e = worker[v].e
      BY <3>1
    <3>3. \A x : Queued(x)' <=> Queued(x)
      BY <2>1, <3>2 DEF Queued
    <3>4. e \in EventIDs /\ posts'[e] <= worker'[w].failed
      <4>1. e \in EventIDs /\ posts[e] <= worker[w].failed /\ posts[e] \in Nat
        BY <1>a, <2>1, WorkerFacts DEF JobsMatch
      <4>2. posts'[e] \in {posts[e], posts[e] + 1}
        BY <1>a, <2>1, <4>1
      <4>3. QED
        BY <3>1, <4>1, <4>2
    <3>5. ASSUME NEW v \in Workers, Busy(v)'
          PROVE  worker'[v].failed < Attempts /\ posts'[worker'[v].e] <= worker'[v].failed
      <4>1. CASE v = w
        BY <2>4, <3>1, <3>4, <4>1
      <4>2. CASE v # w
        <5>1. Busy(v) /\ worker'[v] = worker[v] /\ worker[v].e # e
          BY <1>a, <2>1, <3>1, <3>5, <4>2 DEF Busy, JobsMatch
        <5>2. worker[v].e \in EventIDs
          BY <5>1, WorkerFacts
        <5>3. QED
          BY <1>a, <2>2, <5>1, <5>2 DEF JobsMatch
      <4>3. QED
        BY <4>1, <4>2
    <3>6. ASSUME NEW x \in EventIDs, fate[x] = "open", \A v \in Workers : worker'[v].e # x
          PROVE  posts'[x] = 0
      BY <1>a, <2>2, <3>2, <3>6 DEF JobsMatch
    <3>7. QED
      BY <1>a, <1>b, <2>1, <2>4, <3>2, <3>3, <3>5, <3>6 DEF JobsMatch, Busy
  <2>5. QED
    BY <1>5, <2>3, <2>4 DEF PostFails
<1>6. CASE CannotPost(w)
  <2>1. /\ Busy(w) /\ UNCHANGED <<queue, posts>> /\ worker' = [worker EXCEPT ![w] = NoJob]
        /\ Ends(e, "error")
    BY <1>6 DEF CannotPost
  <2>2. QED
    BY <1>3, <2>1
<1>7. QED
  BY <1>1, <1>2, <1>4, <1>5, <1>6 DEF WorkerStep

Routed == RoutesMatch /\ LastEventIsRouted

LEMMA PublisherRoutes ==
  ASSUME IInv, NEW p \in Pubs, PublisherStep(p)
  PROVE  Routed'
<1> DEFINE e == pub[p].e
<1>a. /\ RoutesMatch /\ LastEventIsRouted /\ Len(events) \in Nat
      /\ pub \in [Pubs -> Publishers] /\ pub[p] \in Publishers
      /\ \A q \in Pubs : q # p => pub'[q] = pub[q]
      /\ sentTo \in [EventIDs -> Targets]
  BY OnePublisher DEF IInv, TypeOK
<1>c. MaxEvents \in Nat /\ \A x \in 1..Len(events) : x \in EventIDs
  <2>1. Len(events) <= MaxEvents
    BY DEF IInv, JobsMatch
  <2>2. QED
    BY <1>a, <2>1, EventsAssumption DEF EventsAssumption, EventIDs
<1>b. /\ \A q \in Pubs : q # p => (Carries(q)' <=> Carries(q))
      /\ \A q \in Pubs : Carries(q) \/ pub[q].pc \in {"enqueue", "clear"} => pub[q].pc # "idle"
      /\ \A q \in Pubs : pub[q].pc # "idle" => pub[q].e \in 1..Len(events) /\ events[pub[q].e].by = q
  BY <1>a DEF Carries, IInv, PubsMatch
<1>1. ASSUME NEW l \in Legs, NEW last \in BOOLEAN, Publish(p, l, last)
      PROVE  Routed'
  <2> DEFINE new == Len(events) + 1
  <2>1. /\ Len(events') = new /\ new \in EventIDs
        /\ \A i \in 1..Len(events) : events'[i] = events[i]
        /\ pub'[p].pc = "snapshot" /\ pub'[p].e = new
        /\ events'[new].leg = l /\ (events'[new].last <=> last)
        /\ (events'[new].hooked <=> l \in legHooks)
    <3>1. /\ Len(events') = new /\ new \in EventIDs
          /\ \A i \in 1..Len(events) : events'[i] = events[i]
          /\ events'[new] = [by |-> p, leg |-> l, last |-> last, hooked |-> l \in legHooks]
          /\ pub'[p] = [pc |-> "snapshot", e |-> new, todo |-> {}, target |-> "none"]
      BY <1>1, PublishFacts
    <3>2. events'[new].last = last /\ events'[new].hooked = (l \in legHooks)
      BY <3>1
    <3>3. (events'[new].last <=> last) /\ (events'[new].hooked <=> l \in legHooks)
      BY <3>2
    <3>4. events'[new].leg = l /\ pub'[p].pc = "snapshot" /\ pub'[p].e = new
      BY <3>1
    <3>5. QED
      BY <3>1, <3>3, <3>4
  <2>2. /\ UNCHANGED <<legHooks, sentTo>>
        /\ last => l \notin reported
        /\ reported' = IF last THEN reported \cup {l} ELSE reported
    BY <1>1 DEF Publish
  <2>3. ASSUME NEW x \in 1..Len(events'), events'[x].last
        PROVE  /\ events'[x].leg \in reported'
               /\ \A f \in 1..Len(events') : events'[f].last /\ events'[f].leg = events'[x].leg => f = x
    <3>0. /\ \A y \in 1..Len(events) : events[y].last => events[y].leg \in reported
          /\ \A y, z \in 1..Len(events) :
                events[y].last /\ events[z].last /\ events[z].leg = events[y].leg => z = y
      BY <1>a DEF RoutesMatch
    <3>1. \A y \in 1..Len(events) : (events'[y].last <=> events[y].last) /\ events'[y].leg = events[y].leg
      BY <2>1
    <3>2. 1..Len(events') = 1..Len(events) \cup {new}
      BY <1>a, <2>1
    <3>3. events'[x].leg \in reported'
      BY <2>1, <2>2, <2>3, <3>0, <3>1, <3>2
    <3>4. ASSUME NEW f \in 1..Len(events'), events'[f].last, events'[f].leg = events'[x].leg
          PROVE  f = x
      <4>1. CASE f = new /\ x # new
        <5>1. last /\ events[x].leg = l /\ l \in reported
          BY <2>1, <2>3, <3>0, <3>1, <3>2, <3>4, <4>1
        <5>2. QED
          BY <2>2, <5>1
      <4>2. CASE f # new /\ x = new
        <5>1. last /\ events[f].leg = l /\ l \in reported
          BY <2>1, <2>3, <3>0, <3>1, <3>2, <3>4, <4>2
        <5>2. QED
          BY <2>2, <5>1
      <4>3. CASE f # new /\ x # new
        BY <2>3, <3>0, <3>1, <3>2, <3>4, <4>3
      <4>4. QED
        BY <4>1, <4>2, <4>3
    <3>5. QED
      BY <3>3, <3>4
  <2>4. \A x \in 1..Len(events) : Owed(x)' <=> Owed(x)
    BY <2>1 DEF Owed
  <2>5. ASSUME NEW q \in Pubs, Carries(q)', Owed(pub[q].e)'
        PROVE  events'[pub'[q].e].leg \in legHooks'
    <3>1. CASE q = p
      <4>1. events'[new].hooked /\ pub'[q].e = new
        BY <2>1, <2>5, <3>1 DEF Owed
      <4>2. l \in legHooks
        BY <2>1, <4>1
      <4>3. QED
        BY <2>1, <2>2, <4>1, <4>2
    <3>2. CASE q # p
      <4>1. pub'[q] = pub[q] /\ Carries(q) /\ pub[q].e \in 1..Len(events)
        BY <1>a, <1>b, <2>5, <3>2
      <4>2. Owed(pub[q].e) /\ events'[pub[q].e] = events[pub[q].e]
        BY <2>1, <2>5, <4>1 DEF Owed
      <4>3. events[pub[q].e].leg \in legHooks
        BY <1>a, <4>1, <4>2 DEF RoutesMatch
      <4>4. QED
        BY <2>2, <4>1, <4>2, <4>3
    <3>3. QED
      BY <3>1, <3>2
  <2>6. ASSUME NEW q \in Pubs, pub'[q].pc = "enqueue", Owed(pub[q].e)'
        PROVE  pub'[q].target = "leg"
    BY <1>a, <1>b, <2>1, <2>4, <2>6 DEF RoutesMatch
  <2>7. \A x \in EventIDs : sentTo'[x] # "none" => x <= Len(events')
    <3>1. \A x \in EventIDs : sentTo[x] # "none" => x <= Len(events)
      BY <1>a DEF RoutesMatch
    <3>2. QED
      <4>1. ASSUME NEW x \in EventIDs, sentTo'[x] # "none" PROVE x <= Len(events')
        <5>1. x <= Len(events) /\ x \in Nat
          BY <1>c, <2>2, <3>1, <4>1 DEF EventIDs
        <5>2. QED
          BY <1>a, <2>1, <5>1
      <4>2. QED
        BY <4>1
  <2>8. \A x \in 1..Len(events') :
            events'[x].last /\ events'[x].hooked => sentTo'[x] \in {"none", "leg"}
    <3>1. sentTo[new] = "none"
      BY <1>a, <2>1 DEF RoutesMatch
    <3>2. \A x \in 1..Len(events) : sentTo'[x] = sentTo[x] /\ (Owed(x)' <=> Owed(x))
      <4>1. sentTo' = sentTo
        BY <2>2
      <4>2. QED
        BY <2>4, <4>1
    <3>3. \A x \in 1..Len(events) : Owed(x)' => sentTo'[x] \in {"none", "leg"}
      BY <1>a, <3>2 DEF LastEventIsRouted, Owed
    <3>4. 1..Len(events') = 1..Len(events) \cup {new}
      BY <1>a, <2>1
    <3>5. QED
      <4>1. sentTo'[new] = "none"
        BY <2>2, <3>1
      <4>2. \A x \in 1..Len(events') : Owed(x)' => sentTo'[x] \in {"none", "leg"}
        BY <3>3, <3>4, <4>1
      <4>3. QED
        BY <4>2 DEF Owed
  <2>9. QED
    BY <2>2, <2>3, <2>5, <2>6, <2>7, <2>8 DEF Routed, RoutesMatch, LastEventIsRouted
<1>2. ASSUME UNCHANGED <<events, reported, legHooks, sentTo>>, Carries(p)' => Carries(p) /\ pub'[p].e = e,
             pub'[p].pc = "enqueue" => Carries(p) /\ pub'[p].e = e /\ pub'[p].target = Target(e)
      PROVE  Routed'
  <2>1. \A x : Owed(x)' <=> Owed(x)
    BY <1>2 DEF Owed
  <2>2. Carries(p) /\ Owed(e) => Target(e) = "leg"
    BY <1>a DEF RoutesMatch, Target
  <2>3. QED
    BY <1>a, <1>b, <1>2, <2>1, <2>2 DEF Routed, RoutesMatch, LastEventIsRouted
<1>3. CASE Snapshot(p)
  <2>1. /\ UNCHANGED <<events, reported, legHooks, sentTo>> /\ Carries(p)
        /\ pub'[p].e = e /\ pub'[p].pc = "call"
    BY <1>3, <1>a DEF Snapshot, webhookVars, Carries, Publishers
  <2>2. QED
    BY <1>2, <2>1
<1>4. CASE Return(p)
  <2>1. pub'[p].pc \in {"clear", "idle"} /\ UNCHANGED <<events, reported, legHooks, sentTo>>
    BY <1>4, <1>a DEF Return, Idle, webhookVars, Publishers
  <2>2. ~Carries(p)' /\ pub'[p].pc # "enqueue"
    BY <2>1 DEF Carries
  <2>3. QED
    BY <1>2, <2>1, <2>2
<1>5. CASE ClearLegWebhook(p)
  <2>1. /\ UNCHANGED <<events, reported, sentTo>> /\ legHooks' = legHooks \ {events[e].leg}
        /\ pub'[p].pc = "idle" /\ pub[p].pc = "clear"
    BY <1>5, <1>a DEF ClearLegWebhook, Idle
  <2>2. ~Carries(p)' /\ e \in 1..Len(events) /\ events[e].last
    BY <1>b, <2>1 DEF Carries, IInv, PubsMatch
  <2>3. \A x : Owed(x)' <=> Owed(x)
    BY <2>1 DEF Owed
  <2>4. ASSUME NEW q \in Pubs, Carries(q)', Owed(pub[q].e)'
        PROVE  events'[pub'[q].e].leg \in legHooks'
    <3>1. q # p /\ pub'[q] = pub[q] /\ Carries(q) /\ Owed(pub[q].e)
      BY <1>a, <1>b, <2>2, <2>3, <2>4
    <3>2. /\ pub[q].e \in 1..Len(events) /\ events[pub[q].e].by = q /\ events[e].by = p
          /\ events[pub[q].e].last /\ events[pub[q].e].leg \in legHooks
      BY <1>a, <1>b, <2>1, <3>1 DEF RoutesMatch, Owed
    <3>3. events[pub[q].e].leg # events[e].leg
      BY <1>a, <2>2, <3>1, <3>2 DEF RoutesMatch
    <3>4. QED
      BY <2>1, <3>1, <3>2, <3>3
  <2>5. ASSUME NEW q \in Pubs, pub'[q].pc = "enqueue", Owed(pub[q].e)'
        PROVE  pub'[q].target = "leg"
    BY <1>a, <2>1, <2>3, <2>5 DEF RoutesMatch
  <2>6. QED
    BY <1>a, <2>1, <2>4, <2>5 DEF Routed, RoutesMatch, LastEventIsRouted
<1>6. CASE Dispatch(p)
  <2>1. UNCHANGED <<events, reported, legHooks, sentTo>> /\ Carries(p)
    BY <1>6 DEF Dispatch, Carries
  <2>2. CASE Target(e) = "none"
    <3>1. Called(p, "webhook")
      BY <1>6, <2>2 DEF Dispatch
    <3>2. pub'[p].pc = "call" /\ pub'[p].todo = pub[p].todo \ {"webhook"}
      BY <1>a, <3>1 DEF Called, Publishers
    <3>3. ~Carries(p)' /\ pub'[p].pc # "enqueue"
      BY <3>2 DEF Carries
    <3>4. QED
      BY <1>2, <2>1, <3>3
  <2>3. CASE Target(e) # "none"
    <3>1. pub' = [pub EXCEPT ![p].pc = "enqueue", ![p].target = Target(e)]
      BY <1>6, <2>3 DEF Dispatch
    <3>2. pub'[p].e = e /\ pub'[p].target = Target(e)
      BY <1>a, <3>1 DEF Publishers
    <3>3. QED
      BY <1>2, <2>1, <3>2
  <2>4. QED
    BY <2>2, <2>3
<1>7. CASE Enqueue(p)
  <2>1. /\ UNCHANGED <<events, reported, legHooks>> /\ Called(p, "webhook") /\ pub[p].pc = "enqueue"
        /\ sentTo' \in {sentTo, [sentTo EXCEPT ![e] = pub[p].target]}
    BY <1>7 DEF Enqueue
  <2>2. pub'[p].pc = "call" /\ pub'[p].todo = pub[p].todo \ {"webhook"}
    BY <1>a, <2>1 DEF Called, Publishers
  <2>3. ~Carries(p)' /\ pub'[p].pc # "enqueue"
    BY <2>2 DEF Carries
  <2>4. \A x : Owed(x)' <=> Owed(x)
    BY <2>1 DEF Owed
  <2>5. e \in 1..Len(events) /\ (Owed(e) => pub[p].target = "leg")
    BY <1>a, <1>b, <2>1 DEF RoutesMatch
  <2>6. ASSUME NEW x \in EventIDs, sentTo'[x] # "none" PROVE x <= Len(events)
    BY <1>a, <2>1, <2>5, <2>6 DEF RoutesMatch
  <2>7. ASSUME NEW x \in 1..Len(events), Owed(x) PROVE sentTo'[x] \in {"none", "leg"}
    <3>1. sentTo[x] \in {"none", "leg"} /\ x \in EventIDs
      BY <1>a, <1>c, <2>7 DEF LastEventIsRouted, Owed
    <3>2. QED
      BY <1>a, <2>1, <2>5, <2>7, <3>1
  <2>8. /\ \A q \in Pubs : Carries(q)' => Carries(q) /\ pub'[q] = pub[q]
        /\ \A q \in Pubs : pub'[q].pc = "enqueue" => pub'[q] = pub[q]
    BY <1>a, <1>b, <2>3
  <2>9. LastEventIsRouted'
    BY <2>1, <2>7 DEF LastEventIsRouted, Owed
  <2>10. QED
    BY <1>a, <2>1, <2>4, <2>6, <2>8, <2>9 DEF Routed, RoutesMatch
<1>8. ASSUME NEW c \in Clients, Offer(p, c) PROVE Routed'
  <2>1. /\ pub'[p].e = e /\ pub[p].pc = "call" /\ pub'[p].todo = pub[p].todo \ {c}
        /\ pub'[p].pc \in {"call", "drop"} /\ UNCHANGED <<events, reported, legHooks, sentTo>>
    BY <1>8, <1>a DEF Offer, Called, ClientOnly, webhookVars, Publishers
  <2>2. Carries(p)' => Carries(p)
    BY <2>1 DEF Carries
  <2>3. QED
    BY <1>2, <2>1, <2>2
<1>9. CASE CountDrop(p)
  <2>1. /\ pub'[p].e = e /\ pub[p].pc = "drop" /\ pub'[p].todo = pub[p].todo /\ pub'[p].pc = "call"
        /\ UNCHANGED <<events, reported, legHooks, sentTo>>
    BY <1>9, <1>a DEF CountDrop, ClientOnly, webhookVars, Publishers
  <2>2. Carries(p)' => Carries(p)
    BY <2>1 DEF Carries
  <2>3. QED
    BY <1>2, <2>1, <2>2
<1>10. QED
  BY <1>1, <1>3, <1>4, <1>5, <1>6, <1>7, <1>8, <1>9 DEF PublisherStep

-----------------------------------------------------------------------------
(* The event stream.                                                         *)

LEMMA ConnectionFacts ==
  ASSUME IInv, NEW c \in Clients
  PROVE  /\ client \in [Clients -> Connections] /\ client[c] \in Connections
         /\ client[c].buf \in Seq(EventIDs) /\ Len(client[c].buf) \in Nat
         /\ client[c].got \in Seq(EventIDs) /\ Len(client[c].got) \in Nat
         /\ client[c].hand \in Nat /\ Len(events) \in Nat
         /\ offered \in [Clients -> SUBSET EventIDs] /\ offered[c] \subseteq EventIDs
         /\ \A e \in EventIDs : e \in Nat \ {0}
<1>1. client \in [Clients -> Connections] /\ client[c] \in Connections
  BY DEF IInv, TypeOK
<1>2. /\ client[c].buf \in Seq(EventIDs) /\ client[c].got \in Seq(EventIDs)
      /\ client[c].hand \in 0..MaxEvents
  BY <1>1 DEF Connections
<1>3. /\ Len(events) \in Nat
      /\ offered \in [Clients -> SUBSET EventIDs] /\ offered[c] \subseteq EventIDs
  BY DEF IInv, TypeOK
<1>4. QED
  BY <1>1, <1>2, <1>3, EventsAssumption DEF EventsAssumption, EventIDs

(* A step that neither touches the connection nor forgets a drop still to be *)
(* counted, and at most adds an event, keeps what is known of the stream.    *)
LEMMA StreamFrame ==
  ASSUME IInv, NEW c \in Clients, client'[c] = client[c], offered'[c] = offered[c],
         Len(events') \in Nat, Len(events) <= Len(events'),
         \A i \in 1..Len(events) : events'[i].by = events[i].by,
         \A q \in Pubs : pub[q].pc = "drop" /\ pub[q].target = c =>
            pub'[q].pc = "drop" /\ pub'[q].target = c /\ pub'[q].e = pub[q].e
  PROVE  StreamMatches(c)'
<1>a. StreamMatches(c)
  BY DEF IInv
<1>b. /\ client[c].buf \in Seq(EventIDs) /\ client[c].got \in Seq(EventIDs)
      /\ client[c].hand \in Nat /\ Len(events) \in Nat /\ offered[c] \subseteq EventIDs
      /\ \A e \in EventIDs : e \in Nat \ {0}
  BY ConnectionFacts
<1>1. Known(c)'
  BY <1>a, <1>b DEF StreamMatches, Known
<1>2. \A e : Held(c, e)' <=> Held(c, e)
  BY DEF Held, Has
<1>3. Accounted(c)'
  BY <1>a, <1>2 DEF StreamMatches, Accounted, Has
<1>4. ASSUME NEW e \in offered[c], NEW x \in Nat, x <= Len(events),
             e < x, events'[e].by = events'[x].by
      PROVE  Earlier(e, x)
  <2>1. e \in 1..Len(events) /\ x \in 1..Len(events)
    BY <1>a, <1>b, <1>4 DEF StreamMatches, Known
  <2>2. QED
    BY <1>4, <2>1 DEF Earlier
<1>5. ASSUME NEW i \in 1..Len(client[c].buf), NEW e \in offered[c],
             e < client[c].buf[i], events'[e].by = events'[client[c].buf[i]].by
      PROVE  Held(c, e)' \/ \E j \in 1..(i - 1) : client[c].buf[j] = e
  <2>1. client[c].buf[i] \in Nat /\ client[c].buf[i] <= Len(events)
    BY <1>a, <1>b DEF StreamMatches, Known
  <2>2. Earlier(e, client[c].buf[i])
    BY <1>4, <1>5, <2>1
  <2>3. QED
    BY <1>a, <1>2, <2>2 DEF StreamMatches, BufferInOrder
<1>6. ASSUME NEW e \in offered[c], e < client[c].hand, events'[e].by = events'[client[c].hand].by
      PROVE  Earlier(e, client[c].hand)
  <2>1. client[c].hand <= Len(events)
    BY <1>a DEF StreamMatches, Known
  <2>2. QED
    BY <1>b, <1>4, <1>6, <2>1
<1>7. ASSUME NEW i \in 1..Len(client[c].got), NEW e \in offered[c],
             e < client[c].got[i], events'[e].by = events'[client[c].got[i]].by
      PROVE  e \in client[c].told \/ \E j \in 1..i : client[c].got[j] = e
  <2>1. client[c].got[i] \in Nat /\ client[c].got[i] <= Len(events)
    BY <1>a, <1>b DEF StreamMatches, Known
  <2>2. Earlier(e, client[c].got[i])
    BY <1>4, <1>7, <2>1
  <2>3. QED
    BY <1>a, <2>2 DEF StreamMatches, GotInOrder
<1>8. BufferInOrder(c)'
  BY <1>5 DEF BufferInOrder, Earlier
<1>9. HandInOrder(c)'
  BY <1>a, <1>6 DEF StreamMatches, HandInOrder, Earlier, Has
<1>10. GotInOrder(c)'
  BY <1>7 DEF GotInOrder, Earlier
<1>11. QED
  BY <1>1, <1>3, <1>8, <1>9, <1>10 DEF StreamMatches

(* A publisher offers its latest event, so nothing that its connection has   *)
(* already came later.                                                       *)
LEMMA OfferStream ==
  ASSUME IInv, NEW p \in Pubs, NEW c \in Clients, Offer(p, c)
  PROVE  StreamMatches(c)'
<1> DEFINE x == pub[p].e
<1>a. StreamMatches(c)
  BY DEF IInv
<1>b. /\ client \in [Clients -> Connections] /\ client[c] \in Connections
      /\ client[c].buf \in Seq(EventIDs) /\ client[c].got \in Seq(EventIDs)
      /\ Len(client[c].buf) \in Nat /\ Len(client[c].got) \in Nat
      /\ client[c].hand \in Nat /\ Len(events) \in Nat /\ offered[c] \subseteq EventIDs
      /\ offered \in [Clients -> SUBSET EventIDs]
      /\ \A e \in EventIDs : e \in Nat \ {0}
  BY ConnectionFacts
<1>c. /\ pub[p].pc = "call" /\ x \in EventIDs /\ x \in 1..Len(events) /\ events[x].by = p
      /\ \A f \in 1..Len(events) : events[f].by = p => f <= x
      /\ \A q \in Pubs : pub[q].pc = "drop" => q # p /\ pub[q].e \in 1..Len(events)
                                                 /\ events[pub[q].e].by = q
      /\ pub \in [Pubs -> Publishers] /\ pub[p] \in Publishers
  BY PublisherFacts DEF Offer, IInv, TypeOK, PubsMatch
<1>d. UNCHANGED events /\ offered'[c] = offered[c] \cup {x} /\ \A q \in Pubs : q # p => pub'[q] = pub[q]
  BY <1>b, <1>c DEF Offer, ClientOnly, Called
<1>1. \A y \in Nat : y <= Len(events) => ~Earlier(x, y)
  BY <1>b, <1>c DEF Earlier
<1>2. /\ \A i \in 1..Len(client[c].buf) : ~Earlier(x, client[c].buf[i])
      /\ \A i \in 1..Len(client[c].got) : ~Earlier(x, client[c].got[i])
      /\ ~Earlier(x, client[c].hand)
  BY <1>a, <1>b, <1>1 DEF StreamMatches, Known
<1>3. ASSUME NEW e \in offered[c], Earlier(e, x)
      PROVE  Held(c, e) \/ Has(client[c].buf, e)
  <2>1. e \in 1..Len(events) /\ events[e].by = p
    BY <1>a, <1>b, <1>c, <1>3 DEF StreamMatches, Known, Earlier
  <2>2. ~ \E q \in Pubs : pub[q].pc = "drop" /\ pub[q].target = c /\ pub[q].e = e
    BY <1>c, <2>1
  <2>3. QED
    BY <1>a, <2>2 DEF StreamMatches, Accounted
<1>4. CASE /\ client' = [client EXCEPT ![c].buf = Append(@, x)]
           /\ Called(p, c)
  <2>1. client'[c] = [client[c] EXCEPT !.buf = Append(client[c].buf, x)]
    BY <1>b, <1>4
  <2>2. /\ client'[c].pc = client[c].pc /\ client'[c].hand = client[c].hand
        /\ client'[c].told = client[c].told /\ client'[c].got = client[c].got
        /\ client'[c].dropped = client[c].dropped /\ client'[c].notice = client[c].notice
        /\ client'[c].buf = Append(client[c].buf, x)
    BY <1>b, <2>1 DEF Connections
  <2>3. /\ Len(client'[c].buf) = Len(client[c].buf) + 1 /\ client'[c].buf[Len(client[c].buf) + 1] = x
        /\ \A i \in 1..Len(client[c].buf) : client'[c].buf[i] = client[c].buf[i]
    BY <1>b, <1>c, <2>2, AppendFacts
  <2>4. \A e : Held(c, e)' <=> Held(c, e)
    BY <2>2 DEF Held, Has
  <2>5. Known(c)'
    <3>1. \A i \in 1..Len(client'[c].buf) : client'[c].buf[i] <= Len(events)
      <4>1. \A i \in 1..Len(client[c].buf) : client[c].buf[i] <= Len(events)
        BY <1>a DEF StreamMatches, Known
      <4>2. 1..Len(client'[c].buf) = 1..Len(client[c].buf) \cup {Len(client[c].buf) + 1}
        BY <1>b, <2>3
      <4>3. x <= Len(events)
        BY <1>b, <1>c
      <4>4. QED
        BY <2>3, <4>1, <4>2, <4>3
    <3>2. QED
      BY <1>a, <1>c, <1>d, <2>2, <3>1 DEF StreamMatches, Known
  <2>6. ASSUME NEW e, Has(client[c].buf, e) \/ e = x PROVE Has(client'[c].buf, e)
    <3>1. 1..Len(client'[c].buf) = 1..Len(client[c].buf) \cup {Len(client[c].buf) + 1}
      BY <1>b, <2>3
    <3>2. CASE Has(client[c].buf, e)
      BY <2>3, <3>1, <3>2 DEF Has
    <3>3. CASE e = x
      BY <2>3, <3>1, <3>3 DEF Has
    <3>4. QED
      BY <2>6, <3>2, <3>3
  <2>7. Accounted(c)'
    <3>1. ASSUME NEW e \in offered[c]
          PROVE  \/ Held(c, e)' \/ Has(client'[c].buf, e)
                 \/ \E q \in Pubs : pub'[q].pc = "drop" /\ pub'[q].target = c /\ pub'[q].e = e
      BY <1>a, <1>c, <1>d, <2>4, <2>6 DEF StreamMatches, Accounted
    <3>2. QED
      BY <1>d, <2>6, <3>1 DEF Accounted
  <2>8. BufferInOrder(c)'
    <3>1. ASSUME NEW i \in 1..Len(client[c].buf), NEW e \in offered'[c], Earlier(e, client[c].buf[i])
          PROVE  Held(c, e)' \/ \E j \in 1..(i - 1) : client'[c].buf[j] = e
      <4>1. e \in offered[c]
        BY <1>d, <1>2, <3>1
      <4>2. Held(c, e) \/ \E j \in 1..(i - 1) : client[c].buf[j] = e
        BY <1>a, <3>1, <4>1 DEF StreamMatches, BufferInOrder
      <4>3. CASE Held(c, e)
        BY <2>4, <4>3
      <4>4. ASSUME NEW j \in 1..(i - 1), client[c].buf[j] = e
            PROVE  client'[c].buf[j] = e
        <5>1. j \in 1..Len(client[c].buf)
          BY <1>b
        <5>2. QED
          BY <2>3, <4>4, <5>1
      <4>5. QED
        BY <4>2, <4>3, <4>4
    <3>2. ASSUME NEW e \in offered'[c], Earlier(e, x)
          PROVE  Held(c, e)' \/ \E j \in 1..Len(client[c].buf) : client'[c].buf[j] = e
      <4>1. e \in offered[c]
        BY <1>c, <1>d, <3>2 DEF Earlier
      <4>2. QED
        BY <1>3, <2>3, <2>4, <3>2, <4>1 DEF Has
    <3>3. \A e, y : Earlier(e, y)' <=> Earlier(e, y)
      BY <1>d DEF Earlier
    <3>4. ASSUME NEW i \in 1..Len(client'[c].buf), NEW e \in offered'[c],
                 Earlier(e, client'[c].buf[i])
          PROVE  Held(c, e)' \/ \E j \in 1..(i - 1) : client'[c].buf[j] = e
      <4>1. CASE i \in 1..Len(client[c].buf)
        BY <2>3, <3>1, <3>4, <4>1
      <4>2. CASE i = Len(client[c].buf) + 1
        BY <1>b, <2>3, <3>2, <3>4, <4>2
      <4>3. QED
        BY <1>b, <2>3, <4>1, <4>2
    <3>5. QED
      BY <1>d, <3>4 DEF BufferInOrder, Earlier
  <2>9. HandInOrder(c)' /\ GotInOrder(c)'
    BY <1>a, <1>2, <1>d, <2>2 DEF StreamMatches, HandInOrder, GotInOrder, Earlier, Has
  <2>10. QED
    BY <2>5, <2>7, <2>8, <2>9 DEF StreamMatches
<1>5. CASE /\ pub' = [pub EXCEPT ![p].pc = "drop", ![p].todo = @ \ {c}, ![p].target = c]
           /\ UNCHANGED client
  <2>1. pub'[p].pc = "drop" /\ pub'[p].target = c /\ pub'[p].e = x
    BY <1>c, <1>5 DEF Publishers
  <2>2. \A e : Held(c, e)' <=> Held(c, e)
    BY <1>5 DEF Held, Has
  <2>3. Known(c)'
    BY <1>a, <1>c, <1>d, <1>5 DEF StreamMatches, Known
  <2>4. Accounted(c)'
    BY <1>a, <1>c, <1>d, <1>5, <2>1, <2>2 DEF StreamMatches, Accounted, Has
  <2>5. BufferInOrder(c)'
    BY <1>a, <1>2, <1>d, <1>5, <2>2 DEF StreamMatches, BufferInOrder, Earlier
  <2>6. HandInOrder(c)' /\ GotInOrder(c)'
    BY <1>a, <1>2, <1>d, <1>5 DEF StreamMatches, HandInOrder, GotInOrder, Earlier, Has
  <2>7. QED
    BY <2>3, <2>4, <2>5, <2>6 DEF StreamMatches
<1>6. QED
  BY <1>4, <1>5 DEF Offer

LEMMA CountDropStream ==
  ASSUME IInv, NEW p \in Pubs, NEW c \in Clients, CountDrop(p), pub[p].target = c
  PROVE  StreamMatches(c)'
<1> DEFINE x == pub[p].e
<1>a. StreamMatches(c)
  BY DEF IInv
<1>b. client \in [Clients -> Connections] /\ client[c] \in Connections
  BY ConnectionFacts
<1>c. /\ pub[p].pc = "drop" /\ UNCHANGED <<events, offered>>
      /\ client'[c] = [client[c] EXCEPT !.dropped = client[c].dropped \cup {x}]
      /\ \A q \in Pubs : q # p => pub'[q] = pub[q]
  BY <1>b DEF CountDrop, ClientOnly, IInv, TypeOK
<1>d. /\ client'[c].pc = client[c].pc /\ client'[c].hand = client[c].hand
      /\ client'[c].told = client[c].told /\ client'[c].got = client[c].got
      /\ client'[c].dropped = client[c].dropped \cup {x} /\ client'[c].notice = client[c].notice
      /\ client'[c].buf = client[c].buf
  BY <1>b, <1>c DEF Connections
<1>1. \A e : (Held(c, e) \/ e = x) => Held(c, e)'
  BY <1>d DEF Held, Has
<1>2. Known(c)'
  BY <1>a, <1>c, <1>d DEF StreamMatches, Known
<1>3. Accounted(c)'
  BY <1>a, <1>c, <1>d, <1>1 DEF StreamMatches, Accounted, Has
<1>4. BufferInOrder(c)'
  BY <1>a, <1>c, <1>d, <1>1 DEF StreamMatches, BufferInOrder, Earlier
<1>5. HandInOrder(c)' /\ GotInOrder(c)'
  BY <1>a, <1>c, <1>d DEF StreamMatches, HandInOrder, GotInOrder, Earlier, Has
<1>6. QED
  BY <1>2, <1>3, <1>4, <1>5 DEF StreamMatches

LEMMA PublisherStreams ==
  ASSUME IInv, NEW p \in Pubs, PublisherStep(p), NEW c \in Clients
  PROVE  StreamMatches(c)'
<1>a. /\ Len(events) \in Nat /\ \A q \in Pubs : q # p => pub'[q] = pub[q]
      /\ client \in [Clients -> Connections] /\ offered \in [Clients -> SUBSET EventIDs]
      /\ pub[p] \in Publishers /\ pub \in [Pubs -> Publishers]
  BY OnePublisher DEF IInv, TypeOK
<1>1. ASSUME client'[c] = client[c], offered'[c] = offered[c], UNCHANGED events,
             pub[p].pc = "drop" => pub[p].target # c
      PROVE  StreamMatches(c)'
  <2>1. \A q \in Pubs : pub[q].pc = "drop" /\ pub[q].target = c =>
            pub'[q].pc = "drop" /\ pub'[q].target = c /\ pub'[q].e = pub[q].e
    BY <1>a, <1>1
  <2>2. Len(events') \in Nat /\ Len(events) <= Len(events')
        /\ \A i \in 1..Len(events) : events'[i].by = events[i].by
    BY <1>a, <1>1
  <2>3. QED
    BY <1>1, <2>1, <2>2, StreamFrame
<1>2. ASSUME NEW l \in Legs, NEW last \in BOOLEAN, Publish(p, l, last)
      PROVE  StreamMatches(c)'
  <2>1. /\ Len(events') = Len(events) + 1
        /\ \A i \in 1..Len(events) : events'[i] = events[i]
    BY <1>2, PublishFacts
  <2>2. pub[p].pc # "drop" /\ UNCHANGED <<client, offered>>
    BY <1>2 DEF Publish, clientVars
  <2>3. \A q \in Pubs : pub[q].pc = "drop" /\ pub[q].target = c =>
            pub'[q].pc = "drop" /\ pub'[q].target = c /\ pub'[q].e = pub[q].e
    BY <1>a, <2>2
  <2>4. Len(events') \in Nat /\ Len(events) <= Len(events')
        /\ \A i \in 1..Len(events) : events'[i].by = events[i].by
    BY <1>a, <2>1
  <2>5. QED
    BY <2>2, <2>3, <2>4, StreamFrame
<1>3. CASE Snapshot(p) \/ Return(p) \/ ClearLegWebhook(p) \/ Dispatch(p) \/ Enqueue(p)
  <2>1. UNCHANGED <<events, client, offered>> /\ pub[p].pc # "drop"
    BY <1>3 DEF Snapshot, Return, ClearLegWebhook, Dispatch, Enqueue, clientVars
  <2>2. QED
    BY <1>1, <2>1
<1>4. ASSUME NEW d \in Clients, Offer(p, d) PROVE StreamMatches(c)'
  <2>1. CASE d = c
    BY <1>4, <2>1, OfferStream
  <2>2. CASE d # c
    <3>1. UNCHANGED events /\ client'[c] = client[c] /\ offered'[c] = offered[c] /\ pub[p].pc # "drop"
      BY <1>a, <1>4, <2>2 DEF Offer, ClientOnly
    <3>2. QED
      BY <1>1, <3>1
  <2>3. QED
    BY <2>1, <2>2
<1>5. CASE CountDrop(p)
  <2>1. CASE pub[p].target = c
    BY <1>5, <2>1, CountDropStream
  <2>2. CASE pub[p].target # c
    <3>1. UNCHANGED <<events, offered>> /\ client'[c] = client[c]
      BY <1>a, <1>5, <2>2 DEF CountDrop, ClientOnly
    <3>2. QED
      BY <1>1, <2>2, <3>1
  <2>3. QED
    BY <2>1, <2>2
<1>6. QED
  BY <1>2, <1>3, <1>4, <1>5 DEF PublisherStep

(* The send loop: nothing is told before what came earlier was.              *)
LEMMA SendLoopStreams ==
  ASSUME IInv, NEW c \in Clients, ClientStep(c)
  PROVE  StreamMatches(c)'
<1> DEFINE r == client[c]
           s == client'[c]
<1>a. Known(c) /\ Accounted(c) /\ BufferInOrder(c) /\ HandInOrder(c) /\ GotInOrder(c)
  BY DEF IInv, StreamMatches
<1>b. /\ client \in [Clients -> Connections] /\ r \in Connections
      /\ r.buf \in Seq(EventIDs) /\ Len(r.buf) \in Nat
      /\ r.got \in Seq(EventIDs) /\ Len(r.got) \in Nat
      /\ r.hand \in Nat /\ Len(events) \in Nat /\ offered[c] \subseteq EventIDs
      /\ \A e \in EventIDs : e \in Nat \ {0}
  BY ConnectionFacts
<1>c. UNCHANGED <<events, pub, offered>>
  BY DEF ClientStep, Subscribe, SendLoopTakes, SwapDropped, SendLoopWrites, WriteFails,
         Disconnect, Unsubscribe, SendLoopEnds, ClientOnly
<1>d. \A e, x : Earlier(e, x)' <=> Earlier(e, x)
  BY <1>c DEF Earlier
<1>1. CASE Subscribe(c) \/ Disconnect(c) \/ Unsubscribe(c) \/ SendLoopEnds(c)
  <2>1. /\ s.hand = r.hand /\ s.told = r.told /\ s.got = r.got /\ s.dropped = r.dropped
        /\ s.notice = r.notice /\ s.buf = r.buf
        /\ s.pc = r.pc \/ (s.pc = "idle" /\ r.pc = "off") \/ s.pc = "gone"
    BY <1>1, <1>b DEF Subscribe, Disconnect, Unsubscribe, SendLoopEnds, At, Connections
  <2>2. \A e : Held(c, e)' <=> Held(c, e)
    BY <2>1 DEF Held, Has
  <2>3. Known(c)' /\ Accounted(c)'
    BY <1>a, <1>c, <2>1, <2>2 DEF Known, Accounted, Has
  <2>4. BufferInOrder(c)' /\ HandInOrder(c)' /\ GotInOrder(c)'
    BY <1>a, <1>c, <2>1, <2>2 DEF BufferInOrder, HandInOrder, GotInOrder, Earlier, Has
  <2>5. QED
    BY <2>3, <2>4 DEF StreamMatches
<1>2. CASE SendLoopTakes(c)
  <2>1. r.pc = "idle" /\ r.buf # <<>> /\ r.hand = 0 /\ r.notice = {}
    BY <1>2, <1>a DEF SendLoopTakes, At, Known
  <2>2. /\ s.pc = "swap" /\ s.hand = Head(r.buf) /\ s.buf = Tail(r.buf) /\ s.told = r.told
        /\ s.got = r.got /\ s.dropped = r.dropped /\ s.notice = r.notice
    BY <1>2, <1>b DEF SendLoopTakes, Connections
  <2>3. /\ s.hand = r.buf[1] /\ s.hand \in EventIDs /\ 1 \in 1..Len(r.buf)
        /\ Len(r.buf) \in Nat \ {0} /\ Len(s.buf) = Len(r.buf) - 1
        /\ \A i \in 1..Len(r.buf) - 1 : s.buf[i] = r.buf[i + 1]
    BY <1>b, <2>1, <2>2, TailFacts
  <2>4. ASSUME NEW e \in offered[c], Held(c, e) PROVE Held(c, e)'
    BY <1>b, <2>1, <2>2, <2>4 DEF Held, Has
  <2>5. ASSUME NEW i \in 1..Len(r.buf), NEW e, r.buf[i] = e
        PROVE  e = s.hand \/ (i - 1 \in 1..Len(s.buf) /\ s.buf[i - 1] = e)
    <3>1. CASE i = 1
      BY <2>3, <2>5, <3>1
    <3>2. CASE i # 1
      <4>1. i - 1 \in 1..Len(r.buf) - 1 /\ (i - 1) + 1 = i
        BY <2>3, <3>2
      <4>2. QED
        BY <2>3, <2>5, <4>1
    <3>3. QED
      BY <3>1, <3>2
  <2>6. Known(c)'
    <3>1. \A i \in 1..Len(s.buf) : s.buf[i] <= Len(events)
      <4>1. ASSUME NEW i \in 1..Len(s.buf) PROVE i + 1 \in 1..Len(r.buf) /\ s.buf[i] = r.buf[i + 1]
        BY <2>3
      <4>2. QED
        BY <1>a, <4>1 DEF Known
    <3>2. s.hand <= Len(events) /\ s.hand # 0
      BY <1>a, <1>b, <2>3 DEF Known
    <3>3. QED
      BY <1>a, <1>c, <2>1, <2>2, <3>1, <3>2 DEF Known
  <2>7. Accounted(c)'
    <3>1. ASSUME NEW e \in offered[c], Has(r.buf, e) PROVE Held(c, e)' \/ Has(s.buf, e)
      BY <2>5, <3>1 DEF Held, Has
    <3>2. QED
      BY <1>a, <1>c, <2>4, <3>1 DEF Accounted, Has
  <2>8. BufferInOrder(c)'
    <3>1. ASSUME NEW i \in 1..Len(s.buf), NEW e \in offered[c], Earlier(e, s.buf[i])
          PROVE  Held(c, e)' \/ \E j \in 1..(i - 1) : s.buf[j] = e
      <4>1. i + 1 \in 1..Len(r.buf) /\ r.buf[i + 1] = s.buf[i]
        BY <2>3
      <4>2. Held(c, e) \/ \E j \in 1..((i + 1) - 1) : r.buf[j] = e
        BY <1>a, <3>1, <4>1 DEF BufferInOrder
      <4>3. ASSUME NEW j \in 1..((i + 1) - 1), r.buf[j] = e
            PROVE  e = s.hand \/ (j - 1 \in 1..(i - 1) /\ s.buf[j - 1] = e)
        <5>1. j \in 1..Len(r.buf)
          BY <2>3
        <5>2. e = s.hand \/ (j - 1 \in 1..Len(s.buf) /\ s.buf[j - 1] = e)
          BY <2>5, <4>3, <5>1
        <5>3. QED
          BY <2>3, <5>2
      <4>4. QED
        BY <2>4, <4>2, <4>3 DEF Held
    <3>2. QED
      BY <1>c, <1>d, <3>1 DEF BufferInOrder, Earlier
  <2>9. ASSUME NEW e \in offered[c], Earlier(e, s.hand)
        PROVE  e \in s.told \cup s.dropped \/ Has(s.got, e)
    <3>1. Held(c, e)
      BY <1>a, <2>3, <2>9 DEF BufferInOrder
    <3>2. e # 0
      BY <1>b
    <3>3. QED
      BY <2>1, <2>2, <3>1, <3>2 DEF Held
  <2>10. HandInOrder(c)'
    BY <1>c, <2>2, <2>9 DEF HandInOrder, Earlier, Has
  <2>11. GotInOrder(c)'
    BY <1>a, <1>c, <2>2 DEF GotInOrder, Earlier
  <2>12. QED
    BY <2>6, <2>7, <2>8, <2>10, <2>11 DEF StreamMatches
<1>3. CASE SwapDropped(c)
  <2>1. /\ r.pc = "swap" /\ r.notice = {} /\ r.hand # 0 /\ s.pc = "write" /\ s.hand = r.hand
        /\ s.buf = r.buf /\ s.told = r.told /\ s.got = r.got
        /\ s.notice = r.dropped /\ s.dropped = {}
    BY <1>3, <1>a, <1>b DEF SwapDropped, At, Known, Connections
  <2>2. \A e : Held(c, e)' <=> Held(c, e)
    BY <2>1 DEF Held, Has
  <2>3. Known(c)' /\ Accounted(c)'
    BY <1>a, <1>c, <2>1, <2>2 DEF Known, Accounted, Has
  <2>4. BufferInOrder(c)' /\ HandInOrder(c)' /\ GotInOrder(c)'
    BY <1>a, <1>c, <2>1, <2>2 DEF BufferInOrder, HandInOrder, GotInOrder, Earlier, Has
  <2>5. QED
    BY <2>3, <2>4 DEF StreamMatches
<1>4. CASE SendLoopWrites(c)
  <2>1. /\ r.pc = "write" /\ r.hand \in EventIDs /\ s.pc = "idle" /\ s.hand = 0 /\ s.notice = {}
        /\ s.told = r.told \cup r.notice /\ s.dropped = r.dropped /\ s.buf = r.buf
        /\ s.got = Append(r.got, r.hand)
    <3>1. r.pc = "write" /\ r.hand # 0
      BY <1>4, <1>a DEF SendLoopWrites, At, Known
    <3>2. r.hand \in EventIDs
      BY <1>b, <3>1 DEF Connections, EventIDs
    <3>3. QED
      BY <1>4, <1>b, <3>1, <3>2 DEF SendLoopWrites, Connections
  <2>2. /\ Len(s.got) = Len(r.got) + 1 /\ s.got[Len(r.got) + 1] = r.hand
        /\ \A i \in 1..Len(r.got) : s.got[i] = r.got[i]
    BY <1>b, <2>1, AppendFacts
  <2>3. 1..Len(s.got) = 1..Len(r.got) \cup {Len(r.got) + 1}
    BY <1>b, <2>2
  <2>4. \A e : Has(r.got, e) \/ e = r.hand => Has(s.got, e)
    BY <2>2, <2>3 DEF Has
  <2>5. \A e : Held(c, e) => Held(c, e)'
    BY <2>1, <2>4 DEF Held
  <2>6. Known(c)'
    <3>1. \A i \in 1..Len(s.got) : s.got[i] <= Len(events)
      BY <1>a, <2>2, <2>3 DEF Known
    <3>2. QED
      BY <1>a, <1>b, <1>c, <2>1, <3>1 DEF Known
  <2>7. Accounted(c)'
    BY <1>a, <1>c, <2>1, <2>5 DEF Accounted, Has
  <2>8. BufferInOrder(c)' /\ HandInOrder(c)'
    BY <1>a, <1>c, <2>1, <2>5 DEF BufferInOrder, HandInOrder, Earlier
  <2>9. ASSUME NEW i \in 1..Len(s.got), NEW e \in offered[c], Earlier(e, s.got[i])
        PROVE  e \in s.told \/ \E j \in 1..i : s.got[j] = e
    <3>1. CASE i \in 1..Len(r.got)
      <4>1. e \in r.told \/ \E j \in 1..i : r.got[j] = e
        BY <1>a, <2>2, <2>9, <3>1 DEF GotInOrder
      <4>2. \A j \in 1..i : j \in 1..Len(r.got)
        BY <1>b, <3>1
      <4>3. QED
        BY <2>1, <2>2, <4>1, <4>2
    <3>2. CASE i = Len(r.got) + 1
      <4>1. e \in r.told \cup r.notice \/ Has(r.got, e)
        BY <1>a, <2>1, <2>2, <2>9, <3>2 DEF HandInOrder
      <4>2. \A j \in 1..Len(r.got) : j \in 1..i
        BY <1>b, <3>2
      <4>3. QED
        BY <2>1, <2>2, <4>1, <4>2 DEF Has
    <3>3. QED
      BY <2>3, <3>1, <3>2
  <2>10. GotInOrder(c)'
    BY <1>c, <1>d, <2>9 DEF GotInOrder, Earlier
  <2>11. QED
    BY <2>6, <2>7, <2>8, <2>10 DEF StreamMatches
<1>5. CASE WriteFails(c)
  <2>1. PICK heard \in {{}, r.notice} :
          client' = [client EXCEPT ![c].pc = "gone", ![c].told = @ \cup heard]
    BY <1>5 DEF WriteFails
  <2>2. /\ s.pc = "gone" /\ s.hand = r.hand /\ s.told = r.told \cup heard /\ s.got = r.got
        /\ s.dropped = r.dropped /\ s.notice = r.notice /\ s.buf = r.buf
    BY <1>b, <2>1 DEF Connections
  <2>3. \A e : Held(c, e) => Held(c, e)'
    BY <2>2 DEF Held, Has
  <2>4. Known(c)' /\ Accounted(c)'
    BY <1>a, <1>c, <2>2, <2>3 DEF Known, Accounted, Has
  <2>5. BufferInOrder(c)' /\ HandInOrder(c)' /\ GotInOrder(c)'
    BY <1>a, <1>c, <2>2, <2>3 DEF BufferInOrder, HandInOrder, GotInOrder, Earlier, Has
  <2>6. QED
    BY <2>4, <2>5 DEF StreamMatches
<1>6. QED
  BY <1>1, <1>2, <1>3, <1>4, <1>5 DEF ClientStep

-----------------------------------------------------------------------------
(* The step, and what holds of the specification.                            *)

LEMMA StutterIInv ==
  ASSUME IInv, UNCHANGED <<events, pub, legHooks, reported, queue, worker, fate, posts, sentTo, clientVars>>,
         roomHook' \in BOOLEAN, global' \in BOOLEAN, stopped' \in BOOLEAN
  PROVE  IInv'
<1>1. TypeOK'
  BY DEF IInv, TypeOK, clientVars
<1>2. PubsMatch'
  BY DEF IInv, PubsMatch
<1>3. JobsMatch'
  BY DEF IInv, JobsMatch, Queued, Carries, Busy
<1>4. RoutesMatch' /\ LastEventIsRouted'
  BY DEF IInv, RoutesMatch, LastEventIsRouted, Carries, Owed
<1>5. ASSUME NEW c \in Clients PROVE StreamMatches(c)'
  BY StreamFrame, ConnectionFacts DEF clientVars
<1>6. QED
  BY <1>1, <1>2, <1>3, <1>4, <1>5 DEF IInv

LEMMA NextIInv == IInv /\ [Next]_vars => IInv'
<1> SUFFICES ASSUME IInv, [Next]_vars PROVE IInv'
  OBVIOUS
<1>1. ASSUME NEW p \in Pubs, PublisherStep(p) PROVE IInv'
  BY <1>1, PublisherTypes, PublisherPubs, PublisherJobs, PublisherRoutes, PublisherStreams
     DEF IInv, Routed
<1>2. ASSUME NEW w \in Workers, WorkerStep(w) PROVE IInv'
  <2>1. UNCHANGED WorkerOnly
    BY <1>2 DEF WorkerStep, TakeJob, Quit, PostSucceeds, PostFails, CannotPost
  <2>2. PubsMatch' /\ RoutesMatch' /\ LastEventIsRouted'
    BY <2>1 DEF WorkerOnly, IInv, PubsMatch, RoutesMatch, LastEventIsRouted, Carries, Owed
  <2>3. ASSUME NEW c \in Clients PROVE StreamMatches(c)'
    BY <2>1, StreamFrame, ConnectionFacts DEF WorkerOnly, clientVars
  <2>4. QED
    BY <1>2, <2>2, <2>3, WorkerTypes, WorkerJobs DEF IInv
<1>3. ASSUME NEW c \in Clients, ClientStep(c) PROVE IInv'
  <2>1. UNCHANGED <<events, pub, webhookVars, offered>> /\ \A d \in Clients : d # c => client'[d] = client[d]
    <3>1. client \in [Clients -> Connections]
      BY DEF IInv, TypeOK
    <3>2. QED
      BY <1>3, <3>1 DEF ClientStep, Subscribe, SendLoopTakes, SwapDropped, SendLoopWrites, WriteFails,
         Disconnect, Unsubscribe, SendLoopEnds, ClientOnly
  <2>2. PubsMatch' /\ RoutesMatch' /\ LastEventIsRouted'
    BY <2>1 DEF webhookVars, IInv, PubsMatch, RoutesMatch, LastEventIsRouted, Carries, Owed
  <2>3. JobsMatch'
    BY <2>1 DEF webhookVars, IInv, JobsMatch, Queued, Carries, Busy
  <2>4. ASSUME NEW d \in Clients PROVE StreamMatches(d)'
    <3>1. CASE d = c
      BY <1>3, <3>1, SendLoopStreams
    <3>2. CASE d # c
      BY <2>1, <3>2, StreamFrame, ConnectionFacts
    <3>3. QED
      BY <3>1, <3>2
  <2>5. QED
    BY <1>3, <2>2, <2>3, <2>4, ClientTypes DEF IInv
<1>4. CASE ClearRoomWebhook \/ Stop \/ UNCHANGED vars
  <2>1. roomHook \in BOOLEAN /\ global \in BOOLEAN /\ stopped \in BOOLEAN
    BY DEF IInv, TypeOK
  <2>2. QED
    BY <1>4, <2>1, StutterIInv DEF ClearRoomWebhook, Stop, vars, webhookVars
<1>5. QED
  BY <1>1, <1>2, <1>3, <1>4 DEF Next

THEOREM EventsInvariant == Spec => []IInv
<1>1. QED
  BY InitIInv, NextIInv, PTL DEF Spec

(* Every variable keeps its type and the two channels their capacity,        *)
(* whatever publishers, workers and connections do (bus.go, webhook.go,      *)
(* ws_events.go).                                                            *)
THEOREM EventTypes == Spec => []TypeOK
<1>1. IInv => TypeOK
  BY DEF IInv
<1>2. QED
  BY <1>1, EventsInvariant, PTL

(* The last event of a leg goes to its leg's webhook, and no connection sees *)
(* an event of a goroutine before it got, or was told it lost, what that     *)
(* goroutine published earlier (legs.go, publishDisconnect; API.md, the      *)
(* notification before the next delivered event).                            *)
THEOREM DeliverySoundness == Spec => []DeliveryIsSound
<1>1. ASSUME IInv PROVE NoSilentGap
  <2>1. \A c \in Clients : client[c].got \in Seq(EventIDs)
    BY ConnectionFacts, <1>1
  <2>2. \A c \in Clients : DOMAIN client[c].got = 1..Len(client[c].got)
    BY <2>1
  <2>3. QED
    BY <1>1, <2>2 DEF IInv, StreamMatches, GotInOrder, Earlier, NoSilentGap
<1>2. IInv => DeliveryIsSound
  BY <1>1 DEF IInv, DeliveryIsSound
<1>3. QED
  BY <1>2, EventsInvariant, PTL

-----------------------------------------------------------------------------
(* The queue and the workers implement EventFeed.                            *)

(* Where an event stands, before a step and after it.                        *)
LEMMA StatusIs ==
  ASSUME NEW e
  PROVE  /\ Status(e) = IF e > Len(events) THEN "unborn"
                         ELSE IF fate[e] # "open" THEN fate[e]
                         ELSE IF Queued(e) THEN "accepted" ELSE "published"
         /\ Status(e)' = IF e > Len(events') THEN "unborn"
                          ELSE IF fate'[e] # "open" THEN fate'[e]
                          ELSE IF Queued(e)' THEN "accepted" ELSE "published"
  BY DEF Status, Queued

(* One event moves in the feed when only its status changes.                 *)
LEMMA OneMoves ==
  ASSUME NEW e \in EventIDs, \A x \in EventIDs : x # e => Status(x)' = Status(x)
  PROVE  Feed!Move(e, Status(e), Status(e)')
<1> DEFINE st == [x \in EventIDs |-> Status(x)]
<1>1. st' = [st EXCEPT ![e] = Status(e)']
  OBVIOUS
<1>2. st[e] = Status(e)
  OBVIOUS
<1>3. QED
  BY <1>1, <1>2 DEF Feed!Move

LEMMA NoneMoves ==
  ASSUME \A x \in EventIDs : Status(x)' = Status(x), UNCHANGED posts
  PROVE  UNCHANGED Feed!fvars
BY DEF Feed!fvars

(* The status of an event that is queued, or still with its publisher.       *)
LEMMA StatusFacts ==
  ASSUME IInv, NEW e \in EventIDs
  PROVE  /\ Queued(e) => Status(e) = "accepted"
         /\ \A p \in Pubs : Carries(p) /\ pub[p].e = e => Status(e) = "published" /\ ~Queued(e)
<1>1. Len(events) \in Nat /\ e \in Nat \ {0}
  BY EventsAssumption DEF EventsAssumption, IInv, TypeOK, EventIDs
<1>2. ASSUME Queued(e) PROVE Status(e) = "accepted"
  <2>1. fate[e] = "open"
    BY <1>2 DEF IInv, JobsMatch
  <2>2. e <= Len(events)
    <3>1. CASE \E i \in 1..Len(queue) : queue[i] = e
      BY <3>1 DEF IInv, JobsMatch
    <3>2. CASE \E w \in Workers : worker[w].e = e
      BY <1>1, <3>2 DEF IInv, JobsMatch, Busy
    <3>3. QED
      BY <1>2, <3>1, <3>2 DEF Queued, Contains
  <2>3. QED
    BY <1>1, <1>2, <2>1, <2>2, StatusIs
<1>3. ASSUME NEW p \in Pubs, Carries(p), pub[p].e = e PROVE Status(e) = "published" /\ ~Queued(e)
  <2>1. e <= Len(events) /\ fate[e] = "open" /\ ~Queued(e)
    BY <1>3, CarrierFacts DEF Queued, Contains
  <2>2. QED
    BY <1>1, <2>1, StatusIs
<1>4. QED
  BY <1>2, <1>3

LEMMA PublisherFeeds ==
  ASSUME IInv, NEW p \in Pubs, PublisherStep(p)
  PROVE  [Feed!Next]_(Feed!fvars)
<1>0. PICK e : e = pub[p].e
  OBVIOUS
<1>a. /\ Len(events) \in Nat /\ \A x \in EventIDs : x \in Nat \ {0}
      /\ pub[p] \in Publishers /\ pub \in [Pubs -> Publishers]
      /\ fate \in [EventIDs -> {"open", "unrouted", "dropped", "abandoned",
                                "success", "exhausted", "error"}]
  BY EventsAssumption DEF EventsAssumption, IInv, TypeOK, EventIDs
<1>1. ASSUME NEW l \in Legs, NEW last \in BOOLEAN, Publish(p, l, last)
      PROVE  Feed!Next
  <2>0. PICK new : new = Len(events) + 1
    OBVIOUS
  <2>1. new \in EventIDs /\ Len(events') = new /\ UNCHANGED <<queue, worker, fate, posts>>
    BY <1>0, <2>0, <1>1, PublishFacts DEF Publish
  <2>2. ~(new <= Len(events)) /\ fate[new] = "open" /\ Status(new) = "unborn"
    BY <1>0, <2>0, <1>a, <2>1, StatusIs DEF IInv, JobsMatch
  <2>3. ~Queued(new)
    BY <2>1, <2>2, StatusFacts
  <2>4. \A x \in EventIDs : Queued(x)' <=> Queued(x)
    BY <2>1 DEF Queued
  <2>5. Status(new)' = "published"
    BY <1>a, <2>1, <2>2, <2>3, <2>4, StatusIs
  <2>6. \A x \in EventIDs : x # new => Status(x)' = Status(x)
    BY <1>0, <2>0, <1>a, <2>1, <2>4, StatusIs
  <2>7. Feed!Move(new, "unborn", "published")
    BY <2>1, <2>2, <2>5, <2>6, OneMoves
  <2>8. QED
    BY <2>1, <2>7 DEF Feed!Next, Feed!Publish
<1>2. ASSUME UNCHANGED <<events, queue, worker, fate, posts>> PROVE UNCHANGED Feed!fvars
  <2>1. \A x \in EventIDs : Status(x)' = Status(x)
    BY <1>2 DEF Status, Queued
  <2>2. QED
    BY <1>2, <2>1, NoneMoves
<1>3. ASSUME UNCHANGED <<events, queue, worker, posts>>, Carries(p), NEW how \in Feed!GivenUp, Ends(e, how)
      PROVE  Feed!Next
  <2>1. e \in EventIDs /\ e <= Len(events) /\ Status(e) = "published"
    BY <1>0, <1>3, CarrierFacts, StatusFacts
  <2>2. fate'[e] = how /\ how # "open" /\ \A x \in EventIDs : x # e => fate'[x] = fate[x]
    BY <1>a, <1>3, <2>1 DEF Ends, Feed!GivenUp
  <2>3. \A x : Queued(x)' <=> Queued(x)
    BY <1>3 DEF Queued
  <2>4. Status(e)' = how
    BY <1>a, <1>3, <2>1, <2>2, StatusIs
  <2>5. \A x \in EventIDs : x # e => Status(x)' = Status(x)
    BY <1>3, <2>2, <2>3, StatusIs
  <2>6. Feed!Move(e, "published", how)
    BY <2>1, <2>4, <2>5, OneMoves
  <2>7. QED
    BY <1>3, <2>1, <2>6 DEF Feed!Next, Feed!GiveUp
<1>4. CASE Snapshot(p) \/ Return(p) \/ ClearLegWebhook(p)
  <2>1. UNCHANGED <<events, queue, worker, fate, posts>>
    BY <1>4 DEF Snapshot, Return, ClearLegWebhook, webhookVars
  <2>2. QED
    BY <1>2, <2>1
<1>5. CASE Dispatch(p)
  <2>1. UNCHANGED <<events, queue, worker, posts>> /\ Carries(p)
    BY <1>5 DEF Dispatch, Carries
  <2>2. CASE Target(e) = "none"
    BY <1>0, <1>3, <1>5, <2>1, <2>2 DEF Dispatch, Feed!GivenUp
  <2>3. CASE Target(e) # "none"
    BY <1>0, <1>2, <1>5, <2>1, <2>3 DEF Dispatch
  <2>4. QED
    BY <2>2, <2>3
<1>6. CASE Enqueue(p)
  <2>1. Carries(p) /\ UNCHANGED <<events, worker, posts>>
    BY <1>6 DEF Enqueue, Carries, IInv, PubsMatch
  <2>2. CASE \E how \in {"abandoned", "dropped"} : Ends(e, how) /\ UNCHANGED queue
    <3>1. PICK how \in Feed!GivenUp : Ends(e, how) /\ UNCHANGED queue
      BY <2>2 DEF Feed!GivenUp
    <3>2. QED
      BY <1>3, <2>1, <3>1
  <2>3. CASE queue' = Append(queue, e) /\ UNCHANGED fate
    <3>1. e \in EventIDs /\ e <= Len(events) /\ Status(e) = "published" /\ fate[e] = "open"
      BY <1>0, <2>1, CarrierFacts, StatusFacts
    <3>2. queue \in Seq(EventIDs) /\ Len(queue) \in Nat
      BY DEF IInv, TypeOK
    <3>3. /\ Len(queue') = Len(queue) + 1 /\ queue'[Len(queue) + 1] = e
          /\ \A i \in 1..Len(queue) : queue'[i] = queue[i]
          /\ 1..Len(queue') = 1..Len(queue) \cup {Len(queue) + 1}
      BY <2>3, <3>1, <3>2, AppendFacts
    <3>4. \A x : Contains(queue', x) <=> Contains(queue, x) \/ x = e
      BY <3>3 DEF Contains
    <3>5. Status(e)' = "accepted"
      BY <1>a, <2>1, <2>3, <3>1, <3>4 DEF Status, Queued
    <3>6. \A x \in EventIDs : x # e => Status(x)' = Status(x)
      BY <2>1, <2>3, <3>4 DEF Status, Queued
    <3>7. Feed!Move(e, "published", "accepted")
      BY <3>1, <3>5, <3>6, OneMoves
    <3>8. QED
      BY <2>1, <3>1, <3>7 DEF Feed!Next, Feed!Accept
  <2>4. QED
    BY <1>0, <1>6, <2>2, <2>3 DEF Enqueue
<1>7. CASE (\E c \in Clients : Offer(p, c)) \/ CountDrop(p)
  <2>1. UNCHANGED <<events, queue, worker, fate, posts>>
    BY <1>7 DEF Offer, CountDrop, ClientOnly, webhookVars
  <2>2. QED
    BY <1>2, <2>1
<1>8. QED
  BY <1>1, <1>4, <1>5, <1>6, <1>7 DEF PublisherStep

LEMMA WorkerFeeds ==
  ASSUME IInv, NEW w \in Workers, WorkerStep(w)
  PROVE  [Feed!Next]_(Feed!fvars)
<1>0. PICK e : e = worker[w].e
  OBVIOUS
<1>a. /\ Len(events) \in Nat /\ \A x \in EventIDs : x \in Nat \ {0}
      /\ worker \in [Workers -> Jobs] /\ queue \in Seq(EventIDs)
      /\ fate \in [EventIDs -> {"open", "unrouted", "dropped", "abandoned",
                                "success", "exhausted", "error"}]
      /\ posts \in [EventIDs -> 0..Attempts]
  BY EventsAssumption DEF EventsAssumption, IInv, TypeOK, EventIDs
<1>b. UNCHANGED events
  BY DEF WorkerStep, TakeJob, Quit, PostSucceeds, PostFails, CannotPost, WorkerOnly
<1>c. ASSUME Busy(w)
      PROVE  /\ e \in EventIDs /\ Status(e) = "accepted" /\ e <= Len(events)
             /\ posts[e] < Attempts /\ \A v \in Workers : worker[v].e = e => v = w
             /\ \A i \in 1..Len(queue) : queue[i] # e
  <2>1. e \in EventIDs /\ posts[e] \in Nat
    BY <1>0, <1>a, <1>c, WorkerFacts
  <2>2. Status(e) = "accepted"
    BY <1>0, <1>c, <2>1, StatusFacts DEF Queued
  <2>3. /\ e <= Len(events) /\ worker[w].failed < Attempts /\ posts[e] <= worker[w].failed
        /\ \A v \in Workers : worker[v].e = e => v = w
        /\ \A i \in 1..Len(queue) : queue[i] # e
    BY <1>0, <1>c DEF IInv, JobsMatch
  <2>4. posts[e] < Attempts
    BY <1>a, <2>1, <2>3, EventsAssumption DEF EventsAssumption, Jobs
  <2>5. QED
    BY <2>1, <2>2, <2>3, <2>4
<1>1. ASSUME \A x \in EventIDs : Queued(x)' <=> Queued(x), UNCHANGED fate
      PROVE  \A x \in EventIDs : Status(x)' = Status(x)
  BY <1>b, <1>1, StatusIs
<1>2. CASE TakeJob(w)
  <2>1. /\ queue # <<>> /\ queue' = Tail(queue) /\ UNCHANGED <<fate, posts>> /\ e = 0
        /\ worker'[w].e = Head(queue) /\ \A v \in Workers : v # w => worker'[v] = worker[v]
    <3>1. [NoJob EXCEPT !.e = Head(queue)].e = Head(queue) /\ NoJob.e = 0
      BY DEF NoJob
    <3>2. QED
      BY <1>0, <1>a, <1>2, <3>1 DEF TakeJob
  <2>2. /\ Head(queue) = queue[1] /\ Len(queue) \in Nat \ {0} /\ Len(queue') = Len(queue) - 1
        /\ \A i \in 1..Len(queue) - 1 : queue'[i] = queue[i + 1]
    BY <1>a, <2>1, TailFacts
  <2>3. \A x : Contains(queue, x) <=> Contains(queue', x) \/ x = queue[1]
    <3>1. ASSUME NEW x, Contains(queue, x) PROVE Contains(queue', x) \/ x = queue[1]
      <4>1. PICK i \in 1..Len(queue) : queue[i] = x
        BY <3>1 DEF Contains
      <4>2. CASE i = 1
        BY <4>1, <4>2
      <4>3. CASE i # 1
        <5>1. i - 1 \in 1..Len(queue) - 1 /\ (i - 1) + 1 = i
          BY <2>2, <4>3
        <5>2. queue'[i - 1] = x /\ i - 1 \in 1..Len(queue')
          BY <2>2, <4>1, <5>1
        <5>3. QED
          BY <5>2 DEF Contains
      <4>4. QED
        BY <4>2, <4>3
    <3>2. ASSUME NEW x, Contains(queue', x) PROVE Contains(queue, x)
      <4>1. PICK i \in 1..Len(queue') : queue'[i] = x
        BY <3>2 DEF Contains
      <4>2. i + 1 \in 1..Len(queue) /\ queue[i + 1] = x
        BY <2>2, <4>1
      <4>3. QED
        BY <4>2 DEF Contains
    <3>3. Contains(queue, queue[1])
      BY <2>2 DEF Contains
    <3>4. QED
      BY <3>1, <3>2, <3>3
  <2>4. ASSUME NEW x \in EventIDs PROVE Queued(x)' <=> Queued(x)
    <3>1. x # 0
      BY <1>a
    <3>2. QED
      BY <1>0, <2>1, <2>2, <2>3, <3>1 DEF Queued
  <2>5. QED
    BY <1>1, <2>1, <2>4, NoneMoves
<1>3. CASE Quit(w)
  <2>1. UNCHANGED <<queue, fate, posts>> /\ \A v \in Workers : worker'[v].e = worker[v].e
    <3>1. [NoJob EXCEPT !.failed = Attempts].e = 0 /\ NoJob.e = 0
      BY DEF NoJob
    <3>2. QED
      BY <1>a, <1>3, <3>1 DEF Quit
  <2>2. \A x \in EventIDs : Queued(x)' <=> Queued(x)
    BY <2>1 DEF Queued
  <2>3. QED
    BY <1>1, <2>1, <2>2, NoneMoves
<1>4. ASSUME Busy(w), UNCHANGED queue, worker' = [worker EXCEPT ![w] = NoJob],
             NEW how \in Feed!Outcomes, Ends(e, how)
      PROVE  Feed!Move(e, "accepted", how)
  <2>1. /\ worker'[w].e = 0 /\ \A v \in Workers : v # w => worker'[v] = worker[v]
        /\ fate'[e] = how /\ how # "open" /\ \A x \in EventIDs : x # e => fate'[x] = fate[x]
    BY <1>a, <1>c, <1>4 DEF NoJob, Ends, Feed!Outcomes
  <2>2. Status(e)' = how
    BY <1>a, <1>b, <1>c, <1>4, <2>1, StatusIs
  <2>3. ASSUME NEW x \in EventIDs, x # e PROVE Status(x)' = Status(x)
    <3>1. \A v \in Workers : worker'[v].e = x <=> worker[v].e = x
      BY <1>0, <1>a, <2>1, <2>3
    <3>2. Queued(x)' <=> Queued(x)
      BY <1>4, <3>1 DEF Queued
    <3>3. QED
      BY <1>b, <2>1, <2>3, <3>2, StatusIs
  <2>4. QED
    BY <1>4, <1>c, <2>2, <2>3, OneMoves
<1>5. CASE PostSucceeds(w)
  <2>1. /\ Busy(w) /\ UNCHANGED queue /\ worker' = [worker EXCEPT ![w] = NoJob]
        /\ Ends(e, "success") /\ posts' = [posts EXCEPT ![e] = posts[e] + 1]
    BY <1>0, <1>5 DEF PostSucceeds
  <2>2. Feed!Move(e, "accepted", "success")
    BY <1>4, <2>1 DEF Feed!Outcomes
  <2>3. Feed!Received(e) /\ e \in EventIDs
    BY <1>c, <2>1 DEF Feed!Received
  <2>4. QED
    BY <2>2, <2>3 DEF Feed!Next, Feed!Deliver
<1>6. CASE PostFails(w)
  <2>1. /\ Busy(w) /\ UNCHANGED queue /\ e \in EventIDs /\ Status(e) = "accepted"
        /\ posts' = posts \/ Feed!Received(e)
    BY <1>0, <1>c, <1>6 DEF PostFails, Feed!Received
  <2>2. CASE worker' = [worker EXCEPT ![w] = NoJob] /\ Ends(e, "exhausted")
    <3>1. Feed!Move(e, "accepted", "exhausted")
      BY <1>4, <2>1, <2>2 DEF Feed!Outcomes
    <3>2. Feed!Fail(e) \/ Feed!PostUnanswered(e)
      BY <2>1, <3>1 DEF Feed!Fail, Feed!PostUnanswered, Feed!Move
    <3>3. QED
      BY <2>1, <3>2 DEF Feed!Next
  <2>3. CASE worker' = [worker EXCEPT ![w].failed = @ + 1] /\ UNCHANGED fate
    <3>1. \A v \in Workers : worker'[v].e = worker[v].e
      BY <1>a, <2>3 DEF Jobs
    <3>2. \A x \in EventIDs : Queued(x)' <=> Queued(x)
      BY <2>1, <3>1 DEF Queued
    <3>3. \A x \in EventIDs : Status(x)' = Status(x)
      BY <1>1, <2>3, <3>2
    <3>4. CASE posts' = posts
      BY <3>3, <3>4, NoneMoves
    <3>5. CASE Feed!Received(e)
      <4>1. [x \in EventIDs |-> Status(x)]' = [x \in EventIDs |-> Status(x)]
        BY <3>3
      <4>2. Feed!PostUnanswered(e)
        BY <2>1, <3>5, <4>1 DEF Feed!PostUnanswered
      <4>3. QED
        BY <2>1, <4>2 DEF Feed!Next
    <3>6. QED
      BY <2>1, <3>4, <3>5
  <2>4. QED
    BY <1>0, <1>6, <2>2, <2>3 DEF PostFails
<1>7. CASE CannotPost(w)
  <2>1. /\ Busy(w) /\ UNCHANGED <<queue, posts>> /\ worker' = [worker EXCEPT ![w] = NoJob]
        /\ Ends(e, "error")
    BY <1>0, <1>7 DEF CannotPost
  <2>2. Feed!Move(e, "accepted", "error") /\ e \in EventIDs
    BY <1>c, <1>4, <2>1 DEF Feed!Outcomes
  <2>3. QED
    BY <2>1, <2>2 DEF Feed!Next, Feed!Fail
<1>8. QED
  BY <1>2, <1>3, <1>5, <1>6, <1>7 DEF WorkerStep

(* An event goes to one webhook or is given up at once, is posted Attempts   *)
(* times at most and has one outcome, after which it is never posted again   *)
(* (webhook.go, enqueue and deliver; API.md, "Delivery").                    *)
THEOREM FeedRefinement == Spec => KeepsFeed
<1>1. Init => Feed!Init
  <2> SUFFICES ASSUME Init PROVE Feed!Init
    OBVIOUS
  <2>1. Len(events) = 0 /\ \A e \in EventIDs : e > 0
    BY EventsAssumption DEF EventsAssumption, Init, EventIDs
  <2>2. \A e \in EventIDs : Status(e) = "unborn"
    BY <2>1, StatusIs
  <2>3. QED
    BY <2>2 DEF Init, Feed!Init
<1>2. IInv /\ [Next]_vars => [Feed!Next]_(Feed!fvars)
  <2> SUFFICES ASSUME IInv, [Next]_vars PROVE [Feed!Next]_(Feed!fvars)
    OBVIOUS
  <2>1. CASE (\E p \in Pubs : PublisherStep(p)) \/ (\E w \in Workers : WorkerStep(w))
    BY <2>1, PublisherFeeds, WorkerFeeds
  <2>2. CASE (\E c \in Clients : ClientStep(c)) \/ ClearRoomWebhook \/ Stop \/ UNCHANGED vars
    <3>1. UNCHANGED <<events, queue, worker, fate, posts>>
      BY <2>2 DEF ClientStep, Subscribe, SendLoopTakes, SwapDropped, SendLoopWrites, WriteFails,
         Disconnect, Unsubscribe, SendLoopEnds, ClientOnly, ClearRoomWebhook, Stop, vars, webhookVars
    <3>2. \A x \in EventIDs : Status(x)' = Status(x)
      BY <3>1 DEF Status, Queued
    <3>3. QED
      BY <3>1, <3>2, NoneMoves
  <2>3. QED
    BY <2>1, <2>2 DEF Next
<1>3. QED
  BY <1>1, <1>2, EventsInvariant, PTL DEF Spec, KeepsFeed, Feed!Spec
=============================================================================
