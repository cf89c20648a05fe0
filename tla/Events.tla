------------------------------- MODULE Events -------------------------------
(***************************************************************************)
(* The event bus and its subscribers: the webhook registry with its        *)
(* bounded queue and its delivery workers (internal/events/bus.go,         *)
(* webhook.go) and the event stream's clients (internal/api/ws_events.go). *)
(* Publish runs its handlers on the publisher's goroutine, one after the   *)
(* other and in any order; several publishers overlap.  An event is its    *)
(* serial number.  A client's counter of dropped events is modelled by the *)
(* set of the events it counts.                                            *)
(***************************************************************************)
EXTENDS Naturals, Sequences, FiniteSets, SequencesExt

CONSTANTS Pubs, Workers, Clients, Legs,
          QueueCap,    \* capacity of workCh
          BufCap,      \* VSI_EVENT_BUFFER_SIZE
          Attempts,    \* deliver's attempts
          MaxEvents    \* bound: events published

ASSUME EventsAssumption ==
    /\ QueueCap \in Nat \ {0} /\ BufCap \in Nat \ {0}
    /\ Attempts \in Nat \ {0} /\ MaxEvents \in Nat
    /\ "webhook" \notin Clients

VARIABLES
    events,    \* the events published: by whom, of which leg, its last one,
               \* and whether the leg had a webhook then
    pub,       \* per publisher, where it stands in Publish
    legHooks,  \* legs with a webhook (legWebhooks)
    roomHook,  \* does the legs' room have a webhook (roomWebhooks)
    global,    \* is WEBHOOK_URL set (globalWebhook)
    reported,  \* legs whose leg.disconnected was claimed
    queue,     \* the deliveries waiting in workCh: event and target
    worker,    \* per worker, the delivery in hand and the attempts it failed
    stopped,   \* stopCh is closed
    fate,      \* per event, how it ended for the webhooks
    posts,     \* per event, how often its webhook received it
    sentTo,    \* per event, the target it was queued for
    client,    \* per event-stream connection, its channel and its send loop
    offered    \* per connection, the events that were offered to it

webhookVars == <<legHooks, roomHook, global, reported, queue, worker, stopped, fate, posts, sentTo>>
clientVars  == <<client, offered>>
vars == <<events, pub, webhookVars, clientVars>>

EventIDs == 1..MaxEvents
Targets  == {"none", "leg", "room", "global"}

Idle    == [pc |-> "idle", e |-> 0, todo |-> {}, target |-> "none"]
NoJob   == [e |-> 0, failed |-> 0]
Offline == [pc |-> "off", subscribed |-> FALSE, done |-> FALSE, buf |-> <<>>, dropped |-> {},
            hand |-> 0, notice |-> {}, told |-> {}, got |-> <<>>]

Init ==
    /\ events = <<>>
    /\ pub = [p \in Pubs |-> Idle]
    /\ legHooks \in SUBSET Legs /\ roomHook \in BOOLEAN /\ global \in BOOLEAN
    /\ reported = {}
    /\ queue = <<>>
    /\ worker = [w \in Workers |-> NoJob]
    /\ stopped = FALSE
    /\ fate = [e \in EventIDs |-> "open"]
    /\ posts = [e \in EventIDs |-> 0]
    /\ sentTo = [e \in EventIDs |-> "none"]
    /\ client = [c \in Clients |-> Offline]
    /\ offered = [c \in Clients |-> {}]

----------------------------------------------------------------------------
(* Bus.Publish: the event gets its ID; leg.disconnected is claimed first. *)
Publish(p, l, last) ==
    /\ pub[p].pc = "idle" /\ Len(events) < MaxEvents
    /\ last => l \notin reported
    /\ reported' = IF last THEN reported \cup {l} ELSE reported
    /\ events' = Append(events, [by |-> p, leg |-> l, last |-> last,
                                  hooked |-> l \in legHooks])
    /\ pub' = [pub EXCEPT ![p] = [Idle EXCEPT !.pc = "snapshot", !.e = Len(events) + 1]]
    /\ UNCHANGED <<legHooks, roomHook, global, queue, worker, stopped, fate, posts, sentTo, clientVars>>

MutClearFirst(p) ==   \* mutant: the route goes before the handlers are called
    /\ pub[p].pc = "snapshot"
    /\ pub' = [pub EXCEPT ![p].pc = "call",
                          ![p].todo = {"webhook"} \cup {c \in Clients : client[c].subscribed}]
    /\ legHooks' = IF events[pub[p].e].last THEN legHooks \ {events[pub[p].e].leg} ELSE legHooks
    /\ UNCHANGED <<events, roomHook, global, reported, queue, worker, stopped, fate, posts, sentTo,
                   clientVars>>

(* The handlers are copied under the bus's lock and called after it. *)
Snapshot(p) ==
    /\ pub[p].pc = "snapshot"
    /\ pub' = [pub EXCEPT ![p].pc = "call",
                          ![p].todo = {"webhook"} \cup {c \in Clients : client[c].subscribed}]
    /\ UNCHANGED <<events, webhookVars, clientVars>>

(* The handlers have returned; after leg.disconnected the leg's route goes. *)
Return(p) ==
    /\ pub[p].pc = "call" /\ pub[p].todo = {}
    /\ pub' = [pub EXCEPT ![p] = IF events[pub[p].e].last THEN [pub[p] EXCEPT !.pc = "clear"]
                                                        ELSE Idle]
    /\ UNCHANGED <<events, webhookVars, clientVars>>

ClearLegWebhook(p) ==
    /\ pub[p].pc = "clear"
    /\ legHooks' = legHooks \ {events[pub[p].e].leg}
    /\ pub' = [pub EXCEPT ![p] = Idle]
    /\ UNCHANGED <<events, roomHook, global, reported, queue, worker, stopped, fate, posts, sentTo,
                   clientVars>>

(* The room is deleted. *)
ClearRoomWebhook ==
    /\ roomHook /\ roomHook' = FALSE
    /\ UNCHANGED <<events, pub, legHooks, global, reported, queue, worker, stopped, fate, posts, sentTo,
                   clientVars>>

----------------------------------------------------------------------------
(* WebhookRegistry.dispatch: the leg's webhook, else the room's, else the   *)
(* global one, looked up under the registry's lock.                         *)
Target(e) ==
    IF events[e].leg \in legHooks THEN "leg"
    ELSE IF roomHook THEN "room"
    ELSE IF global THEN "global" ELSE "none"

Called(p, h) == pub' = [pub EXCEPT ![p].pc = "call", ![p].todo = @ \ {h}]

Ends(e, how) == fate' = [fate EXCEPT ![e] = how]

Dispatch(p) ==
    /\ pub[p].pc = "call" /\ "webhook" \in pub[p].todo
    /\ LET e == pub[p].e IN
       IF Target(e) = "none"
       THEN Called(p, "webhook") /\ Ends(e, "unrouted")
       ELSE /\ pub' = [pub EXCEPT ![p].pc = "enqueue", ![p].target = Target(e)]
            /\ UNCHANGED fate
    /\ UNCHANGED <<events, legHooks, roomHook, global, reported, queue, worker, stopped, posts, sentTo,
                   clientVars>>

MutQueueHasRoom == Len(queue) <= QueueCap   \* mutant

QueueHasRoom == Len(queue) < QueueCap

(* enqueue never blocks: without room or once stopped the event is given up. *)
Enqueue(p) ==
    /\ pub[p].pc = "enqueue"
    /\ LET e == pub[p].e IN
       \/ /\ QueueHasRoom
          /\ queue' = Append(queue, e)
          /\ sentTo' = [sentTo EXCEPT ![e] = pub[p].target]
          /\ UNCHANGED fate
       \/ stopped /\ Ends(e, "abandoned") /\ UNCHANGED <<queue, sentTo>>
       \/ /\ ~QueueHasRoom /\ ~stopped
          /\ Ends(e, "dropped") /\ UNCHANGED <<queue, sentTo>>
    /\ Called(p, "webhook")
    /\ UNCHANGED <<events, legHooks, roomHook, global, reported, worker, stopped, posts, clientVars>>

WorkerOnly == <<events, pub, legHooks, roomHook, global, reported, stopped, sentTo, clientVars>>

MutTakeLeavesJob(w) ==   \* mutant: the delivery stays in the queue
    /\ worker[w] = NoJob /\ queue # <<>>
    /\ worker' = [worker EXCEPT ![w] = [NoJob EXCEPT !.e = Head(queue)]]
    /\ UNCHANGED <<queue, WorkerOnly, fate, posts>>

(* worker: the next delivery off the channel. *)
TakeJob(w) ==
    /\ worker[w] = NoJob /\ queue # <<>>
    /\ worker' = [worker EXCEPT ![w] = [NoJob EXCEPT !.e = Head(queue)]]
    /\ queue' = Tail(queue)
    /\ UNCHANGED <<WorkerOnly, fate, posts>>

(* A worker that is idle when the registry is stopped may return. *)
Quit(w) ==
    /\ worker[w] = NoJob /\ stopped
    /\ worker' = [worker EXCEPT ![w] = [NoJob EXCEPT !.failed = Attempts]]
    /\ UNCHANGED <<queue, WorkerOnly, fate, posts>>

MutNeverRetries(w) == worker[w].e # 0 /\ worker[w].failed = 0   \* mutant

Busy(w) == worker[w].e # 0

(* deliver: the webhook answered with a 2xx. *)
PostSucceeds(w) ==
    /\ Busy(w)
    /\ posts' = [posts EXCEPT ![worker[w].e] = @ + 1]
    /\ Ends(worker[w].e, "success")
    /\ worker' = [worker EXCEPT ![w] = NoJob]
    /\ UNCHANGED <<queue, WorkerOnly>>

(* An error, a timeout or another status: it may have been received or not. *)
PostFails(w) ==
    /\ Busy(w)
    /\ posts' \in {posts, [posts EXCEPT ![worker[w].e] = @ + 1]}
    /\ IF worker[w].failed + 1 < Attempts
       THEN worker' = [worker EXCEPT ![w].failed = @ + 1] /\ UNCHANGED fate
       ELSE worker' = [worker EXCEPT ![w] = NoJob] /\ Ends(worker[w].e, "exhausted")
    /\ UNCHANGED <<queue, WorkerOnly>>

(* The event cannot be encoded, or its webhook's URL is not one. *)
CannotPost(w) ==
    /\ Busy(w) /\ worker[w].failed = 0
    /\ worker' = [worker EXCEPT ![w] = NoJob]
    /\ Ends(worker[w].e, "error")
    /\ UNCHANGED <<queue, WorkerOnly, posts>>

Stop ==
    /\ ~stopped /\ stopped' = TRUE
    /\ UNCHANGED <<events, pub, legHooks, roomHook, global, reported, queue, worker, fate, posts, sentTo,
                   clientVars>>

----------------------------------------------------------------------------
(* The event stream.  The subscriber runs on the publisher's goroutine: it  *)
(* sends to the connection's channel or, when that is full, counts a drop.  *)
ClientOnly == <<events, webhookVars>>

Offer(p, c) ==
    /\ pub[p].pc = "call" /\ c \in pub[p].todo
    /\ offered' = [offered EXCEPT ![c] = @ \cup {pub[p].e}]
    /\ IF Len(client[c].buf) < BufCap
       THEN /\ client' = [client EXCEPT ![c].buf = Append(@, pub[p].e)]
            /\ Called(p, c)
       ELSE /\ pub' = [pub EXCEPT ![p].pc = "drop", ![p].todo = @ \ {c}, ![p].target = c]
            /\ UNCHANGED client
    /\ UNCHANGED ClientOnly

CountDrop(p) ==
    /\ pub[p].pc = "drop"
    /\ client' = [client EXCEPT ![pub[p].target].dropped = @ \cup {pub[p].e}]
    /\ pub' = [pub EXCEPT ![p].pc = "call", ![p].target = "none"]
    /\ UNCHANGED <<ClientOnly, offered>>

At(c, pc) == client[c].pc = pc

Subscribe(c) ==
    /\ At(c, "off")
    /\ client' = [client EXCEPT ![c].pc = "idle", ![c].subscribed = TRUE]
    /\ UNCHANGED <<ClientOnly, pub, offered>>

SendLoopTakes(c) ==
    /\ At(c, "idle") /\ client[c].buf # <<>>
    /\ client' = [client EXCEPT ![c].pc = "swap", ![c].hand = Head(client[c].buf),
                                ![c].buf = Tail(@)]
    /\ UNCHANGED <<ClientOnly, pub, offered>>

MutNoticeOfMany(c) ==   \* mutant: a single dropped event is not worth a notice
    /\ At(c, "swap")
    /\ client' = [client EXCEPT ![c].pc = "write", ![c].dropped = {},
            ![c].notice = IF Cardinality(client[c].dropped) > 1 THEN client[c].dropped ELSE {}]
    /\ UNCHANGED <<ClientOnly, pub, offered>>

(* dropped.Swap(0): what was counted so far goes into one notice. *)
SwapDropped(c) ==
    /\ At(c, "swap")
    /\ client' = [client EXCEPT ![c].pc = "write", ![c].notice = client[c].dropped,
                                ![c].dropped = {}]
    /\ UNCHANGED <<ClientOnly, pub, offered>>

(* The notice, if there is one, is written before the event. *)
SendLoopWrites(c) ==
    /\ At(c, "write")
    /\ client' = [client EXCEPT ![c].pc = "idle", ![c].hand = 0, ![c].notice = {},
                                ![c].told = @ \cup client[c].notice,
                                ![c].got = Append(@, client[c].hand)]
    /\ UNCHANGED <<ClientOnly, pub, offered>>

(* A failed write is latched and closes the connection. *)
WriteFails(c) ==
    /\ At(c, "write")
    /\ \E heard \in {{}, client[c].notice} :
          client' = [client EXCEPT ![c].pc = "gone", ![c].told = @ \cup heard]
    /\ UNCHANGED <<ClientOnly, pub, offered>>

(* The receive loop ends and closes done; the deferred unsubscribe runs after. *)
Disconnect(c) ==
    /\ client[c].subscribed /\ ~client[c].done
    /\ client' = [client EXCEPT ![c].done = TRUE]
    /\ UNCHANGED <<ClientOnly, pub, offered>>

Unsubscribe(c) ==
    /\ client[c].subscribed /\ client[c].done
    /\ client' = [client EXCEPT ![c].subscribed = FALSE]
    /\ UNCHANGED <<ClientOnly, pub, offered>>

SendLoopEnds(c) ==
    /\ At(c, "idle") /\ client[c].done
    /\ client' = [client EXCEPT ![c].pc = "gone"]
    /\ UNCHANGED <<ClientOnly, pub, offered>>

----------------------------------------------------------------------------
PublisherStep(p) ==
    \/ \E l \in Legs, last \in BOOLEAN : Publish(p, l, last)
    \/ Snapshot(p) \/ Return(p) \/ ClearLegWebhook(p) \/ Dispatch(p) \/ Enqueue(p)
    \/ \E c \in Clients : Offer(p, c)
    \/ CountDrop(p)

WorkerStep(w) ==
    TakeJob(w) \/ Quit(w) \/ PostSucceeds(w) \/ PostFails(w) \/ CannotPost(w)

ClientStep(c) ==
    \/ Subscribe(c) \/ SendLoopTakes(c) \/ SwapDropped(c)
    \/ SendLoopWrites(c) \/ WriteFails(c) \/ Disconnect(c) \/ Unsubscribe(c)
    \/ SendLoopEnds(c)

Next ==
    \/ \E p \in Pubs : PublisherStep(p)
    \/ \E w \in Workers : WorkerStep(w)
    \/ \E c \in Clients : ClientStep(c)
    \/ ClearRoomWebhook \/ Stop

Spec == Init /\ [][Next]_vars

(* Workers wait for nothing but a delivery; each attempt has a timeout. *)
Fairness ==
    \A w \in Workers :
        WF_vars(TakeJob(w) \/ PostSucceeds(w) \/ PostFails(w) \/ CannotPost(w))

FairSpec == Spec /\ Fairness

----------------------------------------------------------------------------
Publishers == [pc : {"idle", "snapshot", "call", "enqueue", "drop", "clear"},
               e : 0..MaxEvents, todo : SUBSET ({"webhook"} \cup Clients),
               target : Targets \cup Clients]
Jobs == [e : 0..MaxEvents, failed : 0..Attempts]
Connections == [pc : {"off", "idle", "swap", "write", "gone"}, subscribed : BOOLEAN,
                done : BOOLEAN, buf : Seq(EventIDs), dropped : SUBSET EventIDs,
                hand : 0..MaxEvents, notice : SUBSET EventIDs, told : SUBSET EventIDs,
                got : Seq(EventIDs)]

(* Every variable keeps its type, and the two channels their capacity. *)
TypeOK ==
    /\ events \in Seq([by : Pubs, leg : Legs, last : BOOLEAN, hooked : BOOLEAN])
    /\ pub \in [Pubs -> Publishers]
    /\ legHooks \subseteq Legs /\ roomHook \in BOOLEAN /\ global \in BOOLEAN
    /\ reported \subseteq Legs
    /\ queue \in Seq(EventIDs) /\ Len(queue) <= QueueCap
    /\ worker \in [Workers -> Jobs]
    /\ stopped \in BOOLEAN
    /\ fate \in [EventIDs -> {"open", "unrouted", "dropped", "abandoned",
                              "success", "exhausted", "error"}]
    /\ posts \in [EventIDs -> 0..Attempts]
    /\ sentTo \in [EventIDs -> Targets]
    /\ client \in [Clients -> Connections]
    /\ \A c \in Clients : Len(client[c].buf) <= BufCap
    /\ offered \in [Clients -> SUBSET EventIDs]

Queued(e) == Contains(queue, e) \/ \E w \in Workers : worker[w].e = e

Status(e) ==
    IF e > Len(events) THEN "unborn"
    ELSE IF fate[e] # "open" THEN fate[e]
    ELSE IF Queued(e) THEN "accepted" ELSE "published"

(* An event has one webhook and one outcome, and is posted Attempts times   *)
(* at most, whatever overlaps: the queue and the workers implement          *)
(* EventFeed (webhook.go, deliver's comment; API.md, "Delivery").           *)
Feed == INSTANCE EventFeed WITH MaxPosts <- Attempts,
            status <- [e \in EventIDs |-> Status(e)], posts <- posts
KeepsFeed == Feed!Spec

(* leg.disconnected goes to its leg's webhook: the route is cleared only    *)
(* once the event was dispatched (legs.go, publishDisconnect).              *)
LastEventIsRouted ==
    \A e \in 1..Len(events) :
        events[e].last /\ events[e].hooked => sentTo[e] \in {"none", "leg"}

(* A connection receives the events of one goroutine in the order it        *)
(* published them, and has been told of a loss before it sees a later event *)
(* of that goroutine (API.md: "a notification before the next successfully  *)
(* delivered event").                                                       *)
NoSilentGap ==
    \A c \in Clients : \A i \in DOMAIN client[c].got : \A e \in offered[c] :
        LET later == client[c].got[i]
        IN  e < later /\ events[e].by = events[later].by
                => \/ e \in client[c].told
                   \/ \E j \in 1..i : client[c].got[j] = e

(* Nobody misses the last event of a leg, or any event unawares (legs.go,    *)
(* ws_events.go).                                                            *)
DeliveryIsSound == LastEventIsRouted /\ NoSilentGap

(* What was queued gets an outcome, unless the registry is stopped. *)
AcceptedSettles == \A e \in EventIDs : Status(e) = "accepted" ~> (Status(e) # "accepted" \/ stopped)
=============================================================================
