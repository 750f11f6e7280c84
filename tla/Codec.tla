------------------------------- MODULE Codec --------------------------------
(***************************************************************************)
(* The encryption of new/main.go (CryptEntity) and new/mix_base64.go:      *)
(* spaces up to a multiple of three bytes, base64, and the four characters *)
(* of each group in another order.                                         *)
(*                                                                         *)
(* A byte is a number below 256.  A base64 character is the number below   *)
(* 64 it stands for: which letter StdEncoding prints for it makes no       *)
(* difference here.  Pad is '=', which this code never writes, but its     *)
(* peers may ("the other side may send a string with ==", mix_base64.go).  *)
(***************************************************************************)
EXTENDS Naturals, Sequences

Byte == 0 .. 255
Space == 32

Sextet == 0 .. 63
Pad == 64
Char == Sextet \cup {Pad}

(* The bytes that StdEncoding adds up in a group of three.                 *)
EncodeGroup(a, b, c) ==
  <<a \div 4, 16 * (a % 4) + (b \div 16), 4 * (b % 16) + (c \div 64), c % 64>>

DecodeGroup(s, t, u, v) ==
  <<4 * s + (t \div 16), 16 * (t % 16) + (u \div 4), 64 * (u % 4) + v>>

(* base64.StdEncoding.Encode of a multiple of three bytes.                 *)
Encode(bytes) ==
  [i \in 1 .. 4 * (Len(bytes) \div 3) |->
     LET g == 3 * ((i - 1) \div 4) IN
     EncodeGroup(bytes[g + 1], bytes[g + 2], bytes[g + 3])[1 + ((i - 1) % 4)]]

(* base64.StdEncoding.Decode ends with the first group that is padded:     *)
(* what comes after it is an error, which DeCrypt does not look at.        *)
Padded(chars) ==
  {g \in 1 .. Len(chars) \div 4 : chars[4 * g] = Pad}

FirstPadded(chars) ==
  CHOOSE g \in Padded(chars) : \A h \in Padded(chars) : g <= h

DecodedLen(chars) ==
  IF Padded(chars) = {} THEN 3 * (Len(chars) \div 4)
  ELSE LET g == FirstPadded(chars) IN
       3 * g - (IF chars[4 * g - 1] = Pad THEN 2 ELSE 1)

Decode(chars) ==
  LET sextet(i) == chars[i] % Pad IN
  [i \in 1 .. DecodedLen(chars) |->
     LET g == 4 * ((i - 1) \div 3) IN
     DecodeGroup(sextet(g + 1), sextet(g + 2), sextet(g + 3), sextet(g + 4))
       [1 + ((i - 1) % 3)]]

-----------------------------------------------------------------------------
(* Where the character at place i of a group comes from: MixFour swaps the *)
(* third and the fourth, then the first and the third; DeMixFour undoes    *)
(* it.  What does not fill a group stays.                                  *)
MixedFrom == <<4, 2, 1, 3>>
DeMixedFrom == <<3, 2, 4, 1>>

Permute(from, chars) ==
  [i \in 1 .. Len(chars) |->
     IF i <= 4 * (Len(chars) \div 4)
     THEN chars[4 * ((i - 1) \div 4) + from[1 + ((i - 1) % 4)]]
     ELSE chars[i]]

MixFour(chars) == Permute(MixedFrom, chars)

(* Mutated form of DeMixFour: the two swaps in the order of MixFour.       *)
DeMixSameOrder(chars) == Permute(MixedFrom, chars)

DeMixFour(chars) == Permute(DeMixedFrom, chars)

-----------------------------------------------------------------------------
(* CryptEntity.EncryPt: spaces up to a multiple of three.  It refuses what *)
(* does not fit into the destination.                                      *)
PadLen(n) == (3 - (n % 3)) % 3

WithSpaces(bytes) == bytes \o [i \in 1 .. PadLen(Len(bytes)) |-> Space]

CipherLen(n) == (4 * (n + PadLen(n))) \div 3

EncryPt(bytes, room) ==
  IF CipherLen(Len(bytes)) > room THEN <<>>
  ELSE MixFour(Encode(WithSpaces(bytes)))

(* CryptEntity.DeCrypt: the characters that do not fill a group are left.  *)
Whole(chars) == SubSeq(chars, 1, Len(chars) - (Len(chars) % 4))

LeftOver(chars) == SubSeq(chars, Len(chars) - (Len(chars) % 4) + 1, Len(chars))

DeCrypt(chars) == Decode(DeMixFour(Whole(chars)))

(* What a peer that pads with '=' writes.                                  *)
PeerEncode(bytes) ==
  LET k == PadLen(Len(bytes))
      padded == Encode(bytes \o [i \in 1 .. k |-> 0])
  IN MixFour([i \in 1 .. Len(padded) |->
                IF i > Len(padded) - k THEN Pad ELSE padded[i]])
=============================================================================
