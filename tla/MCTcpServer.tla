---------------------------- MODULE MCTcpServer -----------------------------
(* Constants for the TLC runs of TcpServer: all the connections share a    *)
(* serial and are interchangeable.                                         *)
EXTENDS TcpServer, TLC

CONSTANTS a1, a2, a3, a4, k1

OneKey == [x \in Cons |-> k1]

Symmetry == Permutations(Cons)
=============================================================================
