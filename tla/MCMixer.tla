------------------------------ MODULE MCMixer ------------------------------
(***************************************************************************)
(* Instances of Mixer for TLC.  With one role and one row, a leg that has  *)
(* the role hears its peers of that role only and one without hears all.   *)
(* Parts, channels, legs and callers are interchangeable and no property   *)
(* is a liveness property.                                                 *)
(***************************************************************************)
EXTENDS Mixer, TLC

TheRoles == {"agent"}
AgentsApart == [r \in TheRoles |-> TheRoles]
TheMatrices == {NoRows, AgentsApart}
TheScenarios ==
    {{"add", "remove", "mute"}, {"add", "rebuild", "mute"},
     {"add", "remove", "rebuild", "routing"},
     {"add", "remove", "rebuild", "source", "panic"}}

Symmetry ==
    Permutations(Legs) \cup Permutations(Sources) \cup Permutations(Parts)
        \cup Permutations(Chans) \cup Permutations(Callers)
=============================================================================
