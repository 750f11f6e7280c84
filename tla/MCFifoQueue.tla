---------------------------- MODULE MCFifoQueue -----------------------------
(* Constants for the TLC runs of FifoQueue: two writers of one serial (an  *)
(* old connection's and its successor's), and two goroutines that forward  *)
(* data to it, the first one twice.                                        *)
EXTENDS FifoQueue

CONSTANTS p1, p2, c1, c2, s1

OneSerial == [c \in Consumers |-> s1]
TwiceAndOnce == [p \in Producers |-> IF p = p1 THEN 2 ELSE 1]
=============================================================================
