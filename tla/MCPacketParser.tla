-------------------------- MODULE MCPacketParser ---------------------------
(* Constants for the TLC runs of PacketParser.  The buffer of 1024 bytes   *)
(* becomes one of 12, the heartbeat has three bytes, and the packets reach *)
(* from a sixth of the buffer to more than half of it.  The loop may turn  *)
(* once more than half the buffer has bytes, so that one which does not    *)
(* end shows.                                                              *)
EXTENDS PacketParser

Beat == <<65, 76, 69>>                             \* ALE
A == <<123, 97, 125>>                             \* {a}
B == <<123, 98, 125>>                             \* {b}
Spaced == <<32, 123, 98, 125, 32, 32>>            \* {b} between spaces
Nested == <<123, 123, 125, 125>>                  \* {{}}
Half == <<123, 97, 97, 97, 98, 125>>              \* {aaab}
TooLong == <<123, 97, 97, 97, 97, 98, 125>>       \* {aaaab}

Twice == <<123, 125, 123, 125>>                    \* {}{}

AllMessages == {Beat, A, Spaced, Nested, Twice, Half, TooLong}
ShortMessages == {Beat, A, B}

(* The hypotheses of the theorems about what clients send.                 *)
ASSUME TextsSent == TidyTexts /\ PaddedTexts
=============================================================================
