----------------------------- MODULE EventFeed -----------------------------
(***************************************************************************)
(* What the event feed promises a webhook (API.md, "Delivery" and          *)
(* "Deduplication"): an event is queued for at most one webhook or given   *)
(* up at once; a queued event is posted to that webhook at most MaxPosts   *)
(* times, always the same event, and ends in one outcome, after which it   *)
(* is never posted again.                                                  *)
(***************************************************************************)
EXTENDS Naturals

CONSTANTS EventIDs, MaxPosts

VARIABLES status,  \* per event, where it stands
          posts    \* per event, how often its webhook received it

fvars == <<status, posts>>

GivenUp  == {"unrouted", "dropped", "abandoned"}
Outcomes == {"success", "exhausted", "error"}

Init ==
    /\ status = [e \in EventIDs |-> "unborn"]
    /\ posts = [e \in EventIDs |-> 0]

Move(e, from, to) == status[e] = from /\ status' = [status EXCEPT ![e] = to]

Received(e) ==
    /\ posts[e] < MaxPosts
    /\ posts' = [posts EXCEPT ![e] = @ + 1]

Publish(e) == Move(e, "unborn", "published") /\ UNCHANGED posts
GiveUp(e)  == (\E s \in GivenUp : Move(e, "published", s)) /\ UNCHANGED posts
Accept(e)  == Move(e, "published", "accepted") /\ UNCHANGED posts

(* The webhook received it, but nobody knows: the answer was lost. *)
PostUnanswered(e) ==
    /\ status[e] = "accepted"
    /\ Received(e)
    /\ status' \in {status, [status EXCEPT ![e] = "exhausted"]}

Deliver(e) == Move(e, "accepted", "success") /\ Received(e)
Fail(e)    == (\E s \in {"exhausted", "error"} : Move(e, "accepted", s)) /\ UNCHANGED posts

Next == \E e \in EventIDs :
            \/ Publish(e) \/ GiveUp(e) \/ Accept(e)
            \/ PostUnanswered(e) \/ Deliver(e) \/ Fail(e)

Spec == Init /\ [][Next]_fvars
=============================================================================
