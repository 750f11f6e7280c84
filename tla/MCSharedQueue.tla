--------------------------- MODULE MCSharedQueue ----------------------------
(* Bound and symmetry for the TLC runs of SharedQueue: handles are         *)
(* interchangeable, and so are producers and writers among themselves.     *)
EXTENDS SharedQueue, TLC

ThriceEach == [p \in Producers |-> 3]

Symmetry == Permutations(Handles) \cup Permutations(Producers) \cup Permutations(Consumers)
=============================================================================
