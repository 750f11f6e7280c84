--------------------------- MODULE MCStatusReport ---------------------------
(* Constants for the TLC run of StatusReport: the connection of WEB is w1, *)
(* of GATEWAY g1; those of WEBSOCKET are interchangeable.                  *)
EXTENDS StatusReport, TLC

CONSTANTS w1, g1

ServerOf ==
  [c \in Cons |-> IF c = w1 THEN WEB ELSE GATEWAY]
Symmetry == Permutations(WsCons)
=============================================================================
