--------------------------- MODULE MCHandlerPool ----------------------------
(* Constants for the TLC run of HandlerPool: one serial, connections that  *)
(* are interchangeable.                                                    *)
EXTENDS HandlerPool, TLC

CONSTANT s1

OneSerial == [c \in Cons |-> s1]

Symmetry == Permutations(Cons)
=============================================================================
