\* Two publishers, two workers and one connection; the queue and the
\* connection's channel hold one event.
SPECIFICATION MCFairSpec
CONSTANTS
    p1 = p1  p2 = p2  w1 = w1  w2 = w2  c1 = c1  l1 = l1
    Pubs = {p1, p2}
    Workers = {w1, w2}
    Clients = {c1}
    Legs = {l1}
    QueueCap = 1
    BufCap = 1
    Attempts = 2
    MaxEvents = 3
    WebhookEvents = 2
INVARIANTS TypeOK DeliveryIsSound
PROPERTIES KeepsFeed AcceptedSettles
CHECK_DEADLOCK FALSE
