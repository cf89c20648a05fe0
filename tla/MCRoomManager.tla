--------------------------- MODULE MCRoomManager ---------------------------
(***************************************************************************)
(* Instances of RoomManager for TLC.  IDs, pointers, legs, bridges and     *)
(* goroutines are interchangeable in Init, in Next and in every property   *)
(* checked here, none of which is a liveness property.  In a behaviour     *)
(* operations overlap at will and the rooms have legs, or they overlap at  *)
(* will and the rooms have bridges, or they are orderly and the rooms have *)
(* both: the state space of all of it at a time is out of reach.           *)
(***************************************************************************)
EXTENDS RoomManager, TLC

VARIABLE has   \* what the rooms are used for in this behaviour

MCInit ==
    /\ Init
    /\ has \in {"legs", "bridges", "both"}
    /\ orderly <=> has = "both"

Deleted == {o \in Rooms : idOf[o] # None} \ Live

\* Bounds: one deleted room where there are legs, one bridge and one instance
\* beside them, and one direction where the question is which bridges exist.
MCNext ==
    /\ UNCHANGED has
    /\ \/ /\ has = "legs" /\ Next
          /\ bridges' = bridges /\ Cardinality(Deleted') <= 1
       \/ /\ has = "bridges" /\ Next
          /\ \A p \in Procs : task'[p].leg = None /\ task'[p].dir # "a_to_b"
       \/ /\ has = "both" /\ Next
          /\ lastPart' <= 1
          /\ Cardinality(Deleted') <= 1
          /\ Cardinality({b \in BridgeIDs : bridges'[b] # None
                                \/ \E p \in Procs : task'[p].br = b}) <= 1

MCSpec == MCInit /\ [][MCNext]_<<vars, has>>

Symmetry ==
    Permutations(RoomIDs) \cup Permutations(Rooms) \cup Permutations(Legs)
        \cup Permutations(BridgeIDs) \cup Permutations(Procs)
=============================================================================
