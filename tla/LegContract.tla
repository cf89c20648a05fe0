---------------------------- MODULE LegContract ----------------------------
(***************************************************************************)
(* What a leg promises the application (API.md, "Custom data" and the leg  *)
(* events): it is announced once its route - the per-leg webhook and the   *)
(* custom data its events carry - is attached, leg.disconnected is published*)
(* at most once and while the route is there, and only then is the route   *)
(* released, for good.                                                     *)
(***************************************************************************)
VARIABLE phase

Phases == {"new", "routed", "reported", "released"}

Init == phase = "new"

Attach  == phase = "new" /\ phase' = "routed"
Report  == phase = "routed" /\ phase' = "reported"
Release == phase = "reported" /\ phase' = "released"

Next == Attach \/ Report \/ Release

Spec == Init /\ [][Next]_phase
=============================================================================
