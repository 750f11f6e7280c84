------------------------------ MODULE MCRelay -------------------------------
(* Constants for the TLC run of Relay: GATEWAY with a connection and its   *)
(* successor, another TCP server, WS, and UDP.                             *)
EXTENDS Relay, TLC

CONSTANTS GATEWAY, WEB, WS, g1, g2, w1, x1, u1

ServesDef ==
  [w \in Writers |-> IF w \in Cons THEN GATEWAY ELSE IF w = x1 THEN WS ELSE WEB]

ToBroadCastDef ==
  [r \in Readers |-> IF r \in Cons THEN <<WEB, WS>> ELSE <<GATEWAY>>]

Symmetry == Permutations(Cons)
=============================================================================
