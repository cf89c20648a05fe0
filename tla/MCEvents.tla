------------------------------ MODULE MCEvents ------------------------------
(***************************************************************************)
(* An instance of Events for TLC in two halves, which share the bus only:  *)
(* events that go to webhooks while no connection is open, and events that *)
(* go to connections and to no webhook.                                    *)
(***************************************************************************)
EXTENDS Events

CONSTANT WebhookEvents   \* bound: events published in the first half

VARIABLE half

MCInit ==
    /\ Init
    /\ half \in {"webhooks", "stream"}
    /\ IF half = "stream" THEN ~global /\ ~roomHook /\ legHooks = {}
                          ELSE roomHook /\ legHooks = Legs

MCNext ==
    /\ Next /\ UNCHANGED half
    /\ IF half = "stream" THEN ~stopped' ELSE client' = client /\ Len(events') <= WebhookEvents

MCSpec == MCInit /\ [][MCNext]_<<vars, half>>
MCFairSpec == MCSpec /\ Fairness
=============================================================================
