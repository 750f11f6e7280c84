---------------------------- MODULE CodecProofs -----------------------------
(***************************************************************************)
(* Proofs about the encryption and the parser.  What EncryPt makes of any  *)
(* sequence of bytes, DeCrypt turns back into it and the spaces behind     *)
(* it; what Parser encrypts again always fits into the buffer it came      *)
(* from; its loops over the text do what they are for, whatever the text;  *)
(* and the reader's loop ends and leaves no packet behind.  For clients    *)
(* that keep to the readme, no packet is lost, doubled or reordered on the *)
(* way, and without encryption the process ends only when the buffer is    *)
(* full of what stood between the packets and of one packet, twice.        *)
(*                                                                         *)
(* Induction over the bytes is by OneByOne, for a set of numbers, and a    *)
(* recursive definition is some function that follows from value to value  *)
(* (RecursionExists).                                                      *)
(***************************************************************************)
EXTENDS PacketParser, FiniteSetTheorems, TLAPS

(* Where a number lies among groups of four, and among groups of three.    *)
LEMMA FourPlaces ==
  ASSUME NEW g \in Nat, NEW k \in 1 .. 4
  PROVE  /\ (4 * g + k - 1) \div 4 = g
         /\ (4 * g + k - 1) % 4 = k - 1
OBVIOUS

LEMMA ThreePlaces ==
  ASSUME NEW g \in Nat, NEW k \in 1 .. 3
  PROVE  /\ (3 * g + k - 1) \div 3 = g
         /\ (3 * g + k - 1) % 3 = k - 1
OBVIOUS

LEMMA FourSplit ==
  ASSUME NEW i \in Nat \ {0}
  PROVE  \E g \in Nat, k \in 1 .. 4 : i = 4 * g + k
<1>. /\ (i - 1) \div 4 \in Nat /\ 1 + ((i - 1) % 4) \in 1 .. 4
     /\ i = 4 * ((i - 1) \div 4) + (1 + ((i - 1) % 4))
  OBVIOUS
<1>. QED
  OBVIOUS

LEMMA ThreeSplit ==
  ASSUME NEW i \in Nat \ {0}
  PROVE  \E g \in Nat, k \in 1 .. 3 : i = 3 * g + k
<1>. /\ (i - 1) \div 3 \in Nat /\ 1 + ((i - 1) % 3) \in 1 .. 3
     /\ i = 3 * ((i - 1) \div 3) + (1 + ((i - 1) % 3))
  OBVIOUS
<1>. QED
  OBVIOUS

-----------------------------------------------------------------------------
(* Place k of group g lies in a group that is full, and a permutation of   *)
(* four takes from the same group what comes there.                        *)
Grouped(s, g, k) == 4 * g + k <= 4 * (Len(s) \div 4)

Moved(from, s, g, k) == Permute(from, s)[4 * g + k] = s[4 * g + from[k]]

LEMMA PermuteAt ==
  ASSUME NEW S, NEW s \in Seq(S), NEW from \in [1 .. 4 -> 1 .. 4],
         NEW g \in Nat, NEW k \in 1 .. 4, Grouped(s, g, k)
  PROVE  Moved(from, s, g, k)
<1> USE DEF Grouped, Moved
<1>1. /\ 4 * g + k \in 1 .. Len(s)
  OBVIOUS
<1>2. /\ (4 * g + k - 1) \div 4 = g /\ 1 + ((4 * g + k - 1) % 4) = k
  BY FourPlaces
<1>3. /\ Permute(from, s)[4 * g + k]
           = s[4 * ((4 * g + k - 1) \div 4) + from[1 + ((4 * g + k - 1) % 4)]]
  BY <1>1 DEF Permute
<1>. QED
  BY <1>2, <1>3

LEMMA PermuteType ==
  ASSUME NEW S, NEW s \in Seq(S), NEW from \in [1 .. 4 -> 1 .. 4]
  PROVE  /\ Permute(from, s) \in Seq(S)
         /\ Len(Permute(from, s)) = Len(s)
         /\ DOMAIN Permute(from, s) = 1 .. Len(s)
<1>1. ASSUME NEW i \in 1 .. Len(s)
      PROVE  Permute(from, s)[i] \in S
  <2>1. CASE i <= 4 * (Len(s) \div 4)
    <3>1. PICK g \in Nat, k \in 1 .. 4 : i = 4 * g + k
      <4>. i \in Nat \ {0}
        OBVIOUS
      <4>. QED
        BY FourSplit
    <3>2. Permute(from, s)[i] = s[4 * g + from[k]]
      <4>1. Grouped(s, g, k)
        BY <2>1, <3>1 DEF Grouped
      <4>2. Moved(from, s, g, k)
        BY <4>1, PermuteAt
      <4>3. QED
        BY <3>1, <4>2 DEF Moved
    <3>3. 4 * g + from[k] \in 1 .. Len(s)
      <4>1. from[k] \in 1 .. 4
        OBVIOUS
      <4>. QED
        BY <2>1, <3>1, <4>1
    <3>. QED
      BY <3>2, <3>3
  <2>2. CASE ~(i <= 4 * (Len(s) \div 4))
    BY <2>2 DEF Permute
  <2>. QED
    BY <2>1, <2>2
<1>2. DOMAIN Permute(from, s) = 1 .. Len(s)
  BY DEF Permute
<1>3. Permute(from, s) \in [1 .. Len(s) -> S]
  BY <1>1, <1>2 DEF Permute
<1>. QED
  BY <1>2, <1>3

LEMMA FromType ==
  MixedFrom \in [1 .. 4 -> 1 .. 4] /\ DeMixedFrom \in [1 .. 4 -> 1 .. 4]
BY DEF MixedFrom, DeMixedFrom

LEMMA DeMixedUndoes ==
  ASSUME NEW k \in 1 .. 4
  PROVE  MixedFrom[DeMixedFrom[k]] = k
BY DEF MixedFrom, DeMixedFrom

(* DeMixFour puts every character back where it was before MixFour, for    *)
(* any length, also one that is not a multiple of four.                    *)
THEOREM MixingUndone ==
  ASSUME NEW S, NEW s \in Seq(S)
  PROVE  DeMixFour(MixFour(s)) = s
<1>1. /\ MixFour(s) \in Seq(S) /\ Len(MixFour(s)) = Len(s)
  BY FromType, PermuteType DEF MixFour
<1>2. /\ DeMixFour(MixFour(s)) \in Seq(S) /\ Len(DeMixFour(MixFour(s))) = Len(s)
  BY <1>1, FromType, PermuteType DEF DeMixFour
<1>3. ASSUME NEW i \in 1 .. Len(s)
      PROVE  DeMixFour(MixFour(s))[i] = s[i]
  <2>1. CASE i <= 4 * (Len(s) \div 4)
    <3>1. PICK g \in Nat, k \in 1 .. 4 : i = 4 * g + k
      <4>. i \in Nat \ {0}
        OBVIOUS
      <4>. QED
        BY FourSplit
    <3>2. DeMixedFrom[k] \in 1 .. 4
      BY FromType
    <3>3. 4 * g + DeMixedFrom[k] <= 4 * (Len(s) \div 4)
      <4>1. PICK q \in Nat : q = Len(s) \div 4
        OBVIOUS
      <4>2. 4 * g + k <= 4 * q
        BY <2>1, <3>1, <4>1
      <4>3. g + 1 <= q
        BY <4>2
      <4>4. QED
        BY <3>2, <4>1, <4>3
    <3>4. DeMixFour(MixFour(s))[i] = MixFour(s)[4 * g + DeMixedFrom[k]]
      <4>1. PICK x \in Seq(S) : x = MixFour(s)
        BY <1>1
      <4>2. Grouped(x, g, k)
        BY <1>1, <2>1, <3>1, <4>1 DEF Grouped
      <4>3. Moved(DeMixedFrom, x, g, k)
        BY <4>2, FromType, PermuteAt
      <4>4. QED
        BY <3>1, <4>1, <4>3 DEF DeMixFour, Moved
    <3>5. MixFour(s)[4 * g + DeMixedFrom[k]] = s[4 * g + MixedFrom[DeMixedFrom[k]]]
      <4>1. PICK j \in 1 .. 4 : j = DeMixedFrom[k]
        BY <3>2
      <4>2. Grouped(s, g, j)
        BY <3>3, <4>1 DEF Grouped
      <4>3. Moved(MixedFrom, s, g, j)
        BY <4>2, FromType, PermuteAt
      <4>4. QED
        BY <4>1, <4>3 DEF MixFour, Moved
    <3>. QED
      BY <3>1, <3>4, <3>5, DeMixedUndoes
  <2>2. CASE ~(i <= 4 * (Len(s) \div 4))
    BY <1>1, <2>2 DEF DeMixFour, MixFour, Permute
  <2>. QED
    BY <2>1, <2>2
<1>. QED
  BY <1>2, <1>3

-----------------------------------------------------------------------------
(* One group of base64: four sextets, and the three bytes come back.       *)
LEMMA GroupType ==
  ASSUME NEW a \in Byte, NEW b \in Byte, NEW c \in Byte
  PROVE  EncodeGroup(a, b, c) \in [1 .. 4 -> Sextet]
<1>1. /\ a \div 4 \in Sextet
      /\ 16 * (a % 4) + (b \div 16) \in Sextet
      /\ 4 * (b % 16) + (c \div 64) \in Sextet
      /\ c % 64 \in Sextet
  BY DEF Byte, Sextet
<1>. QED
  BY <1>1 DEF EncodeGroup

LEMMA GroupUndone ==
  ASSUME NEW a \in Byte, NEW b \in Byte, NEW c \in Byte
  PROVE  DecodeGroup(a \div 4, 16 * (a % 4) + (b \div 16),
                     4 * (b % 16) + (c \div 64), c % 64) = <<a, b, c>>
<1>1. 4 * (a \div 4) + ((16 * (a % 4) + (b \div 16)) \div 16) = a
  BY DEF Byte
<1>2. 16 * ((16 * (a % 4) + (b \div 16)) % 16)
        + ((4 * (b % 16) + (c \div 64)) \div 4) = b
  BY DEF Byte
<1>3. 64 * ((4 * (b % 16) + (c \div 64)) % 4) + (c % 64) = c
  BY DEF Byte
<1>. QED
  BY <1>1, <1>2, <1>3 DEF DecodeGroup

LEMMA EncodeAt ==
  ASSUME NEW w \in Seq(Byte), NEW g \in Nat, NEW k \in 1 .. 4,
         g < Len(w) \div 3
  PROVE  /\ 4 * g + k \in 1 .. 4 * (Len(w) \div 3)
         /\ Encode(w)[4 * g + k]
              = EncodeGroup(w[3 * g + 1], w[3 * g + 2], w[3 * g + 3])[k]
         /\ w[3 * g + 1] \in Byte /\ w[3 * g + 2] \in Byte /\ w[3 * g + 3] \in Byte
<1>1. 4 * g + k \in 1 .. 4 * (Len(w) \div 3)
  OBVIOUS
<1>2. /\ (4 * g + k - 1) \div 4 = g /\ 1 + ((4 * g + k - 1) % 4) = k
  BY FourPlaces
<1>3. /\ 3 * g + 1 \in 1 .. Len(w) /\ 3 * g + 2 \in 1 .. Len(w)
      /\ 3 * g + 3 \in 1 .. Len(w)
  OBVIOUS
<1>4. Encode(w)[4 * g + k]
        = EncodeGroup(w[3 * ((4 * g + k - 1) \div 4) + 1], w[3 * ((4 * g + k - 1) \div 4) + 2],
                      w[3 * ((4 * g + k - 1) \div 4) + 3])[1 + ((4 * g + k - 1) % 4)]
  BY <1>1 DEF Encode
<1>5. w[3 * g + 1] \in Byte /\ w[3 * g + 2] \in Byte /\ w[3 * g + 3] \in Byte
  BY <1>3
<1>. QED
  BY <1>1, <1>2, <1>4, <1>5

LEMMA EncodeType ==
  ASSUME NEW w \in Seq(Byte)
  PROVE  /\ Encode(w) \in Seq(Sextet)
         /\ Len(Encode(w)) = 4 * (Len(w) \div 3)
<1>1. ASSUME NEW i \in 1 .. 4 * (Len(w) \div 3)
      PROVE  Encode(w)[i] \in Sextet
  <2>1. PICK g \in Nat, k \in 1 .. 4 : i = 4 * g + k
    <3>. i \in Nat \ {0}
      OBVIOUS
    <3>. QED
      BY FourSplit
  <2>2. g < Len(w) \div 3
    BY <2>1
  <2>3. w[3 * g + 1] \in Byte /\ w[3 * g + 2] \in Byte /\ w[3 * g + 3] \in Byte
    BY <2>2, EncodeAt
  <2>4. EncodeGroup(w[3 * g + 1], w[3 * g + 2], w[3 * g + 3]) \in [1 .. 4 -> Sextet]
    BY <2>3, GroupType
  <2>5. Encode(w)[i] = EncodeGroup(w[3 * g + 1], w[3 * g + 2], w[3 * g + 3])[k]
    BY <2>1, <2>2, EncodeAt
  <2>. QED
    BY <2>4, <2>5
<1>2. DOMAIN Encode(w) = 1 .. 4 * (Len(w) \div 3)
  BY DEF Encode
<1>3. Encode(w) \in [1 .. 4 * (Len(w) \div 3) -> Sextet]
  BY <1>1, <1>2 DEF Encode
<1>. QED
  BY <1>2, <1>3

(* Decode undoes Encode where there is no padding.                         *)
LEMMA DecodeUndoes ==
  ASSUME NEW w \in Seq(Byte), Len(w) % 3 = 0
  PROVE  Decode(Encode(w)) = w
<1>. DEFINE e == Encode(w)
            n == Len(w) \div 3
<1>1. /\ e \in Seq(Sextet) /\ Len(e) = 4 * n /\ n \in Nat /\ Len(w) = 3 * n
  BY EncodeType
<1>2. Padded(e) = {}
  <2>1. ASSUME NEW g \in 1 .. Len(e) \div 4
        PROVE  e[4 * g] \in Sextet
    <3>1. 4 * g \in 1 .. Len(e)
      BY <1>1
    <3>. QED
      BY <1>1, <3>1
  <2>. HIDE DEF e
  <2>2. Pad \notin Sextet
    BY DEF Sextet, Pad
  <2>3. \A g \in 1 .. Len(e) \div 4 : e[4 * g] # Pad
    BY <2>1, <2>2
  <2>. QED
    BY <2>3 DEF Padded
<1>3. DecodedLen(e) = Len(w)
  <2>1. Len(e) \div 4 = n
    BY <1>1
  <2>. QED
    BY <1>1, <1>2, <2>1 DEF DecodedLen
<1>4. ASSUME NEW i \in 1 .. Len(w)
      PROVE  Decode(e)[i] = w[i]
  <2>1. PICK g \in Nat, k \in 1 .. 3 : i = 3 * g + k
    <3>. i \in Nat \ {0}
      OBVIOUS
    <3>. QED
      BY ThreeSplit
  <2>2. /\ (i - 1) \div 3 = g /\ 1 + ((i - 1) % 3) = k
    BY <2>1, ThreePlaces
  <2>3. g < Len(w) \div 3
    BY <1>1, <2>1
  <2>. DEFINE a == w[3 * g + 1]
              b == w[3 * g + 2]
              c == w[3 * g + 3]
  <2>4. a \in Byte /\ b \in Byte /\ c \in Byte
    BY <2>3, EncodeAt
  <2>5. \A j \in 1 .. 4 : /\ e[4 * g + j] = EncodeGroup(a, b, c)[j]
                          /\ e[4 * g + j] % Pad = e[4 * g + j]
    <3>. SUFFICES ASSUME NEW j \in 1 .. 4
                  PROVE  /\ e[4 * g + j] = EncodeGroup(a, b, c)[j]
                         /\ e[4 * g + j] % Pad = e[4 * g + j]
      OBVIOUS
    <3>1. e[4 * g + j] = EncodeGroup(a, b, c)[j]
      BY <2>3, EncodeAt
    <3>2. EncodeGroup(a, b, c) \in [1 .. 4 -> Sextet]
      BY <2>4, GroupType
    <3>. HIDE DEF a, b, c, e
    <3>3. EncodeGroup(a, b, c)[j] \in Sextet
      BY <3>2
    <3>4. e[4 * g + j] \in 0 .. 63
      BY <3>1, <3>3 DEF Sextet
    <3>5. \A x \in 0 .. 63 : x % 64 = x
      OBVIOUS
    <3>. QED
      BY <3>1, <3>4, <3>5 DEF Pad
  <2>6. /\ e[4 * g + 1] % Pad = a \div 4
        /\ e[4 * g + 2] % Pad = 16 * (a % 4) + (b \div 16)
        /\ e[4 * g + 3] % Pad = 4 * (b % 16) + (c \div 64)
        /\ e[4 * g + 4] % Pad = c % 64
    BY <2>5 DEF EncodeGroup
  <2>7. Decode(e)[i] = <<a, b, c>>[k]
    <3>. HIDE DEF e, a, b, c
    <3>1. i \in 1 .. DecodedLen(e)
      BY <1>3
    <3>2. Decode(e)[i] = DecodeGroup(e[4 * g + 1] % Pad, e[4 * g + 2] % Pad,
                                     e[4 * g + 3] % Pad, e[4 * g + 4] % Pad)[k]
      BY <2>2, <3>1 DEF Decode
    <3>. QED
      BY <2>4, <2>6, <3>2, GroupUndone
  <2>. QED
    BY <2>1, <2>7
<1>5. DOMAIN Decode(e) = 1 .. Len(w)
  BY <1>3 DEF Decode
<1>6. w \in [1 .. Len(w) -> Byte]
  OBVIOUS
<1>7. Decode(e) = [i \in 1 .. Len(w) |-> Decode(e)[i]]
  BY <1>3 DEF Decode
<1>. QED
  BY <1>4, <1>6, <1>7

-----------------------------------------------------------------------------
LEMMA PadLenRange ==
  ASSUME NEW n \in Nat
  PROVE  /\ PadLen(n) \in 0 .. 2
         /\ (n + PadLen(n)) % 3 = 0
BY DEF PadLen

LEMMA PadLenNat ==
  ASSUME NEW n \in Nat
  PROVE  PadLen(n) \in Nat /\ (n + PadLen(n)) % 3 = 0 /\ n + PadLen(n) \in Nat
BY DEF PadLen

LEMMA CipherLenNat ==
  ASSUME NEW n \in Nat
  PROVE  CipherLen(n) \in Nat
<1>1. n + PadLen(n) \in Nat
  BY PadLenNat
<1>. QED
  BY <1>1 DEF CipherLen

LEMMA WithSpacesType ==
  ASSUME NEW bytes \in Seq(Byte)
  PROVE  /\ WithSpaces(bytes) \in Seq(Byte)
         /\ Len(WithSpaces(bytes)) = Len(bytes) + PadLen(Len(bytes))
         /\ Len(WithSpaces(bytes)) % 3 = 0
<1>0. Len(bytes) \in Nat
  OBVIOUS
<1>1. PadLen(Len(bytes)) \in Nat /\ (Len(bytes) + PadLen(Len(bytes))) % 3 = 0
  <2>1. PICK n \in Nat : n = Len(bytes)
    BY <1>0
  <2>2. PadLen(n) \in Nat /\ (n + PadLen(n)) % 3 = 0
    BY PadLenNat, Zenon
  <2>. QED
    BY <2>1, <2>2, Zenon
<1>. DEFINE k == PadLen(Len(bytes))
            spaces == [i \in 1 .. k |-> Space]
<1>. HIDE DEF k
<1>2. spaces \in Seq(Byte) /\ Len(spaces) = k
  <2>1. Space \in Byte
    BY DEF Space, Byte
  <2>2. k \in Nat
    BY <1>1 DEF k
  <2>3. spaces \in [1 .. k -> Byte]
    BY <2>1
  <2>. QED
    BY <2>2, <2>3
<1>3. WithSpaces(bytes) = bytes \o spaces
  BY DEF WithSpaces, k
<1>. HIDE DEF spaces
<1>. QED
  BY <1>1, <1>2, <1>3 DEF k

(* DeCrypt gives back what EncryPt was given, with at most two spaces more *)
(* at the end, for any bytes and whatever their number.                    *)
THEOREM EncryptionUndone ==
  ASSUME NEW bytes \in Seq(Byte), NEW room \in Nat, CipherLen(Len(bytes)) <= room
  PROVE  DeCrypt(EncryPt(bytes, room)) = WithSpaces(bytes)
<1>. DEFINE w == WithSpaces(bytes)
            e == Encode(w)
            x == MixFour(e)
<1>1. w \in Seq(Byte) /\ Len(w) % 3 = 0
  BY WithSpacesType
<1>2. e \in Seq(Sextet) /\ Len(e) % 4 = 0
  <2>1. e \in Seq(Sextet) /\ Len(e) = 4 * (Len(w) \div 3)
    BY <1>1, EncodeType
  <2>. QED
    BY <1>1, <2>1
<1>3. EncryPt(bytes, room) = x
  <2>. CipherLen(Len(bytes)) \in Nat
    BY CipherLenNat
  <2>. QED
    BY DEF EncryPt
<1>4. x \in Seq(Sextet) /\ Len(x) % 4 = 0 /\ DeMixFour(x) = e
  BY <1>2, FromType, PermuteType, MixingUndone DEF MixFour
<1>5. Whole(x) = x
  <2>. HIDE DEF x
  <2>1. Len(x) - (Len(x) % 4) = Len(x)
    BY <1>4
  <2>. QED
    BY <1>4, <2>1 DEF Whole
<1>6. Decode(e) = w
  BY <1>1, DecodeUndoes
<1>. QED
  BY <1>3, <1>4, <1>5, <1>6 DEF DeCrypt

-----------------------------------------------------------------------------
(* A set of numbers that is not empty has a least one.                     *)
LEMMA LeastNatural ==
  ASSUME NEW S \in SUBSET Nat, S # {}
  PROVE  \E x \in S : \A y \in S : x <= y
<1>1. PICK x \in S : \A y \in S : ~(<<y, x>> \in OpToRel(<, Nat))
  BY NatLessThanWellFounded, WFMin
<1>2. ASSUME NEW y \in S, y < x PROVE FALSE
  <2>1. <<y, x>> \in Nat \X Nat /\ <<y, x>>[1] = y /\ <<y, x>>[2] = x
    OBVIOUS
  <2>2. <<y, x>> \in OpToRel(<, Nat)
    BY <1>2, <2>1 DEF OpToRel
  <2>3. QED
    BY <1>1, <2>2
<1>3. QED
  BY <1>2

LEMMA FirstPaddedType ==
  ASSUME NEW chars \in Seq(Char), Padded(chars) # {}
  PROVE  FirstPadded(chars) \in 1 .. Len(chars) \div 4
<1>1. Padded(chars) \subseteq Nat
  BY DEF Padded
<1>2. \E g \in Padded(chars) : \A h \in Padded(chars) : g <= h
  BY <1>1, LeastNatural
<1>3. FirstPadded(chars) \in Padded(chars)
  BY <1>2 DEF FirstPadded
<1>. QED
  BY <1>3 DEF Padded

LEMMA DecodedLenBound ==
  ASSUME NEW chars \in Seq(Char)
  PROVE  DecodedLen(chars) \in Int /\ DecodedLen(chars) <= 3 * (Len(chars) \div 4)
<1>1. CASE Padded(chars) = {}
  BY <1>1 DEF DecodedLen
<1>2. CASE Padded(chars) # {}
  <2>1. FirstPadded(chars) \in 1 .. Len(chars) \div 4
    BY <1>2, FirstPaddedType
  <2>. QED
    BY <1>2, <2>1 DEF DecodedLen
<1>. QED
  BY <1>1, <1>2

(* Whatever part of the decrypted buffer is encrypted again fits, with the *)
(* characters that were left over behind it, into the place the characters *)
(* had before: Parser never writes beyond the piece, although it does not  *)
(* look whether EncryPt refused.                                           *)
THEOREM EncryptedAgainFits ==
  ASSUME NEW chars \in Seq(Char), NEW n \in Nat,
         n <= DecodedLen(DeMixFour(Whole(chars)))
  PROVE  CipherLen(n) + Len(LeftOver(chars)) <= Len(chars)
<1>. DEFINE r == Len(chars) % 4
            whole == Whole(chars)
<1>1. /\ r \in 0 .. 3 /\ Len(chars) - r \in Nat /\ (Len(chars) - r) % 4 = 0
      /\ Len(chars) \in Nat
  OBVIOUS
<1>2. whole \in Seq(Char) /\ Len(whole) = Len(chars) - r
  <2>1. whole = SubSeq(chars, 1, Len(chars) - r)
    BY DEF Whole
  <2>. HIDE DEF r, whole
  <2>2. Len(chars) - r <= Len(chars)
    BY <1>1
  <2>. QED
    BY <1>1, <2>1, <2>2
<1>3. Len(LeftOver(chars)) = r
  BY <1>1 DEF LeftOver
<1>4. DeMixFour(whole) \in Seq(Char) /\ Len(DeMixFour(whole)) = Len(whole)
  BY <1>2, FromType, PermuteType DEF DeMixFour
<1>5. n <= 3 * ((Len(chars) - r) \div 4)
  <2>1. /\ DecodedLen(DeMixFour(whole)) \in Int
        /\ DecodedLen(DeMixFour(whole)) <= 3 * (Len(DeMixFour(whole)) \div 4)
    BY <1>4, DecodedLenBound
  <2>. QED
    BY <1>2, <1>4, <2>1
<1>6. CipherLen(n) <= Len(chars) - r
  <2>1. PICK q \in Nat : Len(chars) - r = 4 * q
    BY <1>1
  <2>2. n <= 3 * q
    BY <1>5, <2>1
  <2>3. n + PadLen(n) <= 3 * q
    BY <2>2 DEF PadLen
  <2>4. n + PadLen(n) \in Nat
    BY PadLenNat
  <2>5. \A m \in Nat : m <= 3 * q => (4 * m) \div 3 <= 4 * q
    OBVIOUS
  <2>. QED
    BY <2>1, <2>3, <2>4, <2>5 DEF CipherLen
<1>7. CipherLen(n) \in Nat
  BY CipherLenNat
<1>. HIDE DEF r
<1>. QED
  BY <1>1, <1>3, <1>6, <1>7

-----------------------------------------------------------------------------
(* A set that holds 0, and with each number the next, is all of 0 .. N.    *)
LEMMA OneByOne ==
  ASSUME NEW N \in Nat, NEW P \in SUBSET (0 .. N), 0 \in P,
         \A i \in 1 .. N : i - 1 \in P => i \in P
  PROVE  P = 0 .. N
<1> DEFINE Bad == (0 .. N) \ P
<1>1. Bad = {}
  <2> SUFFICES ASSUME Bad # {} PROVE FALSE
    OBVIOUS
  <2>1. Bad \in SUBSET Nat
    OBVIOUS
  <2>2. PICK n \in Bad : \A m \in Bad : n <= m
    BY <2>1, LeastNatural
  <2>3. n \in 1 .. N /\ n - 1 \in 0 .. N /\ ~(n <= n - 1)
    OBVIOUS
  <2>4. n - 1 \in P
    BY <2>2, <2>3
  <2>5. QED
    BY <2>3, <2>4
<1>2. QED
  BY <1>1

(* A function on 0 .. N given by its first value and by how each value     *)
(* follows from the one before.                                            *)
Follows(f, N, base, step) ==
  f[0] = base /\ \A i \in 1 .. N : f[i] = step[<<f[i - 1], i>>]

LEMMA RecursionExists ==
  ASSUME NEW N \in Nat, NEW S, NEW base \in S, NEW step \in [S \X (1 .. N) -> S]
  PROVE  \E f \in [0 .. N -> S] : Follows(f, N, base, step)
<1> USE DEF Follows
<1> DEFINE Upto(n) == \E f \in [0 .. n -> S] : Follows(f, n, base, step)
           P == {n \in 0 .. N : Upto(n)}
<1>1. Upto(0)
  <2>1. PICK f \in [0 .. 0 -> S] : f[0] = base
    <3>1. [i \in 0 .. 0 |-> base] \in [0 .. 0 -> S] /\ [i \in 0 .. 0 |-> base][0] = base
      OBVIOUS
    <3>2. QED
      BY <3>1
  <2>2. 1 .. 0 = {}
    OBVIOUS
  <2>3. \A i \in 1 .. 0 : f[i] = step[<<f[i - 1], i>>]
    BY <2>2
  <2>4. QED
    BY <2>1, <2>3
<1>2. ASSUME NEW n \in 0 .. N, n # 0, Upto(n - 1) PROVE Upto(n)
  <2>1. PICK f \in [0 .. n - 1 -> S] :
               f[0] = base /\ \A i \in 1 .. n - 1 : f[i] = step[<<f[i - 1], i>>]
    BY <1>2
  <2>2. <<f[n - 1], n>> \in S \X (1 .. N)
    BY <1>2
  <2>3. step[<<f[n - 1], n>>] \in S
    BY <2>2
  <2> DEFINE value == step[<<f[n - 1], n>>]
             g == [i \in 0 .. n |-> IF i = n THEN value ELSE f[i]]
  <2> HIDE DEF value
  <2>4. g \in [0 .. n -> S]
    <3>1. value \in S
      BY <2>3 DEF value
    <3>2. \A i \in 0 .. n : i # n => i \in 0 .. n - 1
      BY <1>2
    <3>3. QED
      BY <3>1, <3>2
  <2>5. \A i \in 0 .. n - 1 : g[i] = f[i]
    BY <1>2
  <2>9. g[n] = value
    BY <1>2
  <2> HIDE DEF g
  <2>6. g[n] = step[<<g[n - 1], n>>]
    <3>1. n - 1 \in 0 .. n - 1
      BY <1>2
    <3>2. g[n - 1] = f[n - 1]
      BY <2>5, <3>1
    <3>3. QED
      BY <2>9, <3>2 DEF value
  <2>7. ASSUME NEW i \in 1 .. n PROVE g[i] = step[<<g[i - 1], i>>]
    <3>1. CASE i = n
      BY <2>6, <3>1
    <3>2. CASE i # n
      <4>1. i \in 1 .. n - 1 /\ i \in 0 .. n - 1 /\ i - 1 \in 0 .. n - 1
        BY <1>2, <3>2
      <4>2. g[i] = f[i] /\ g[i - 1] = f[i - 1]
        BY <2>5, <4>1
      <4>3. QED
        BY <2>1, <4>1, <4>2
    <3>3. QED
      BY <3>1, <3>2
  <2>10. g[0] = base
    <3>1. 0 \in 0 .. n - 1
      BY <1>2
    <3>2. QED
      BY <2>1, <2>5, <3>1
  <2>8. QED
    BY <2>4, <2>7, <2>10
<1>3. 0 \in P
  BY <1>1
<1>4. ASSUME NEW n \in 1 .. N, n - 1 \in P PROVE n \in P
  <2>1. n \in 0 .. N /\ n # 0
    OBVIOUS
  <2>2. Upto(n - 1)
    BY <1>4
  <2>3. Upto(n)
    BY <1>2, <2>1, <2>2
  <2>4. QED
    BY <2>1, <2>3
<1>5. P \in SUBSET (0 .. N)
  OBVIOUS
<1> HIDE DEF P
<1>6. P = 0 .. N
  BY <1>3, <1>4, <1>5, OneByOne
<1>7. N \in P
  BY <1>6
<1>8. QED
  BY <1>7 DEF P

-----------------------------------------------------------------------------
(* The pieces of a buffer, and what decryption makes of them.              *)
LEMMA SubSeqType ==
  ASSUME NEW S, NEW s \in Seq(S), NEW n \in 0 .. Len(s), NEW m \in 1 .. n + 1
  PROVE  SubSeq(s, m, n) \in Seq(S) /\ Len(SubSeq(s, m, n)) = n - m + 1
<1>1. CASE m <= n
  BY <1>1
<1>2. CASE m = n + 1
  BY <1>2
<1>3. QED
  BY <1>1, <1>2

LEMMA PairType ==
  ASSUME NEW S, NEW s \in Seq(S), NEW i \in 1 .. Len(s), i + 1 \in 1 .. Len(s)
  PROVE  SubSeq(s, i, i + 1) = <<s[i], s[i + 1]>>
<1>1. i + 1 \in 0 .. Len(s) /\ i \in 1 .. (i + 1) + 1
  OBVIOUS
<1>2. PICK t \in Seq(S) : t = SubSeq(s, i, i + 1) /\ Len(t) = (i + 1) - i + 1
  BY <1>1, SubSeqType
<1>3. Len(t) = 2
  BY <1>2
<1>4. t[1] = s[i] /\ t[2] = s[i + 1]
  BY <1>2
<1>5. t = <<t[1], t[2]>>
  BY <1>3
<1>6. QED
  BY <1>2, <1>4, <1>5, Zenon

LEMMA ConcatType ==
  ASSUME NEW S, NEW s \in Seq(S), NEW t \in Seq(S)
  PROVE  s \o t \in Seq(S) /\ Len(s \o t) = Len(s) + Len(t)
OBVIOUS

LEMMA WholeType ==
  ASSUME NEW chars \in Seq(Char)
  PROVE  /\ Whole(chars) \in Seq(Char)
         /\ Len(Whole(chars)) = Len(chars) - (Len(chars) % 4)
         /\ LeftOver(chars) \in Seq(Char)
         /\ Len(LeftOver(chars)) = Len(chars) % 4
<1>1. PICK k \in Nat : k = Len(chars) - (Len(chars) % 4) /\ k <= Len(chars)
  <2>1. PICK n \in Nat : n = Len(chars)
    OBVIOUS
  <2>2. n - (n % 4) \in Nat /\ n - (n % 4) <= n
    OBVIOUS
  <2>3. QED
    BY <2>1, <2>2
<1>2. Whole(chars) = SubSeq(chars, 1, k) /\ LeftOver(chars) = SubSeq(chars, k + 1, Len(chars))
  BY <1>1 DEF Whole, LeftOver
<1>3. PICK n \in Nat : n = Len(chars)
  OBVIOUS
<1>4. Whole(chars) \in Seq(Char) /\ Len(Whole(chars)) = k
  <2>1. k \in 0 .. Len(chars) /\ 1 \in 1 .. k + 1 /\ k - 1 + 1 = k
    BY <1>1, <1>3
  <2>2. QED
    BY <1>2, <2>1, SubSeqType
<1>5. LeftOver(chars) \in Seq(Char) /\ Len(LeftOver(chars)) = n - k
  <2>1. n \in 0 .. Len(chars) /\ k + 1 \in 1 .. n + 1 /\ n - (k + 1) + 1 = n - k
    BY <1>1, <1>3
  <2>2. QED
    BY <1>2, <1>3, <2>1, SubSeqType
<1>6. n - k = n % 4
  BY <1>1, <1>3
<1>7. QED
  BY <1>1, <1>3, <1>4, <1>5, <1>6

LEMMA DecodeType ==
  ASSUME NEW chars \in Seq(Char)
  PROVE  /\ Decode(chars) \in Seq(Byte)
         /\ DecodedLen(chars) \in Nat
         /\ Len(Decode(chars)) = DecodedLen(chars)
<1>1. DecodedLen(chars) \in Nat
  <2>1. CASE Padded(chars) = {}
    BY <2>1 DEF DecodedLen
  <2>2. CASE Padded(chars) # {}
    <3>1. FirstPadded(chars) \in 1 .. Len(chars) \div 4
      BY <2>2, FirstPaddedType
    <3>2. QED
      BY <2>2, <3>1 DEF DecodedLen
  <2>3. QED
    BY <2>1, <2>2
<1>2. ASSUME NEW i \in 1 .. DecodedLen(chars) PROVE Decode(chars)[i] \in Byte
  <2>1. PICK g \in Nat, k \in 1 .. 3 : i = 3 * g + k
    <3>1. i \in Nat \ {0}
      BY <1>1
    <3>2. QED
      BY <3>1, ThreeSplit
  <2>2. (i - 1) \div 3 = g /\ 1 + ((i - 1) % 3) = k
    BY <2>1, ThreePlaces
  <2>3. g < Len(chars) \div 4
    <3>1. i <= 3 * (Len(chars) \div 4)
      BY <1>1, DecodedLenBound
    <3>2. QED
      BY <2>1, <3>1
  <2>4. \A j \in 1 .. 4 : chars[4 * g + j] % Pad \in Sextet
    <3>1. \A j \in 1 .. 4 : chars[4 * g + j] \in Char
      BY <2>3
    <3>2. \A c \in Char : c % Pad \in Sextet
      BY DEF Char, Sextet, Pad
    <3>3. QED
      BY <3>1, <3>2
  <2>5. Decode(chars)[i] =
          DecodeGroup(chars[4 * g + 1] % Pad, chars[4 * g + 2] % Pad,
                      chars[4 * g + 3] % Pad, chars[4 * g + 4] % Pad)[k]
    BY <2>2 DEF Decode
  <2>6. ASSUME NEW s \in Sextet, NEW t \in Sextet, NEW u \in Sextet, NEW v \in Sextet
        PROVE  DecodeGroup(s, t, u, v)[k] \in Byte
    <3>1. /\ 4 * s + (t \div 16) \in Byte
          /\ 16 * (t % 16) + (u \div 4) \in Byte
          /\ 64 * (u % 4) + v \in Byte
      BY DEF Sextet, Byte
    <3>2. QED
      BY <3>1 DEF DecodeGroup
  <2>7. QED
    BY <2>4, <2>5, <2>6
<1>3. DOMAIN Decode(chars) = 1 .. DecodedLen(chars)
  BY DEF Decode
<1>4. Decode(chars) = [i \in 1 .. DecodedLen(chars) |-> Decode(chars)[i]]
  BY DEF Decode
<1>5. Decode(chars) \in [1 .. DecodedLen(chars) -> Byte]
  BY <1>2, <1>4
<1>6. QED
  BY <1>1, <1>3, <1>5

LEMMA DeCryptType ==
  ASSUME NEW chars \in Seq(Char)
  PROVE  /\ DeCrypt(chars) \in Seq(Byte)
         /\ Len(DeCrypt(chars)) = DecodedLen(DeMixFour(Whole(chars)))
<1>1. PICK t \in Seq(Char) : t = DeMixFour(Whole(chars))
  BY WholeType, FromType, PermuteType DEF DeMixFour
<1>2. QED
  BY <1>1, DecodeType DEF DeCrypt

(* What EncryPt writes, which may be nothing.                              *)
LEMMA EncryPtType ==
  ASSUME NEW bytes \in Seq(Byte), NEW room
  PROVE  /\ EncryPt(bytes, room) \in Seq(Char)
         /\ EncryPt(bytes, room) = <<>> \/ Len(EncryPt(bytes, room)) = CipherLen(Len(bytes))
<1>1. PICK w \in Seq(Byte) :
        w = WithSpaces(bytes) /\ Len(w) = Len(bytes) + PadLen(Len(bytes)) /\ Len(w) % 3 = 0
  BY WithSpacesType
<1>2. PICK e \in Seq(Sextet) : e = Encode(w) /\ Len(e) = 4 * (Len(w) \div 3)
  BY EncodeType
<1>3. MixFour(e) \in Seq(Sextet) /\ Len(MixFour(e)) = Len(e)
  BY FromType, PermuteType DEF MixFour
<1>4. Len(e) = CipherLen(Len(bytes))
  <2>1. PICK q \in Nat : Len(w) = 3 * q
    BY <1>1
  <2>2. Len(e) = 4 * q /\ (4 * Len(w)) \div 3 = 4 * q
    BY <1>2, <2>1
  <2>3. QED
    BY <1>1, <2>2 DEF CipherLen
<1>5. PICK x \in Seq(Sextet) : x = MixFour(e) /\ Len(x) = CipherLen(Len(bytes))
  BY <1>3, <1>4
<1>6. x \in Seq(Char)
  BY DEF Char
<1>7. EncryPt(bytes, room) = x \/ EncryPt(bytes, room) = <<>>
  BY <1>1, <1>2, <1>5, Zenon DEF EncryPt
<1>9. <<>> \in Seq(Char)
  OBVIOUS
<1>8. QED
  BY <1>5, <1>6, <1>7, <1>9, Zenon

LEMMA PeerEncodeType ==
  ASSUME NEW bytes \in Seq(Byte)
  PROVE  PeerEncode(bytes) \in Seq(Char)
<1>1. PICK k \in 0 .. 2 : k = PadLen(Len(bytes)) /\ (Len(bytes) + k) % 3 = 0
  <2>1. PICK n \in Nat : n = Len(bytes)
    OBVIOUS
  <2>2. PadLen(n) \in 0 .. 2 /\ (n + PadLen(n)) % 3 = 0
    BY PadLenRange
  <2>3. QED
    BY <2>1, <2>2, Zenon
<1>2. [i \in 1 .. k |-> 0] \in Seq(Byte)
  <2>1. k \in Nat /\ 0 \in Byte
    BY DEF Byte
  <2>2. [i \in 1 .. k |-> 0] \in [1 .. k -> Byte]
    BY <2>1
  <2>3. QED
    BY <2>1, <2>2
<1>3. PICK w \in Seq(Byte) : w = bytes \o [i \in 1 .. k |-> 0]
  BY <1>2, ConcatType
<1>4. PICK e \in Seq(Sextet) : e = Encode(w)
  BY EncodeType
<1> DEFINE marked == [i \in 1 .. Len(e) |-> IF i > Len(e) - k THEN Pad ELSE e[i]]
<1>5. marked \in Seq(Char)
  <2>1. \A i \in 1 .. Len(e) : e[i] \in Char /\ Pad \in Char
    BY DEF Char
  <2>2. marked \in [1 .. Len(e) -> Char]
    BY <2>1
  <2>3. Len(e) \in Nat
    OBVIOUS
  <2>4. QED
    BY <2>2, <2>3
<1>6. PeerEncode(bytes) = MixFour(marked)
  BY <1>1, <1>3, <1>4, Zenon DEF PeerEncode
<1> HIDE DEF marked
<1>7. QED
  BY <1>5, <1>6, FromType, PermuteType DEF MixFour

-----------------------------------------------------------------------------
(* What Parser does to the plain text.                                     *)
LEMMA MinOf ==
  ASSUME NEW S \in SUBSET Nat, S # {}
  PROVE  Min(S) \in S
BY LeastNatural DEF Min

LEMMA TrimLeftType ==
  ASSUME NEW s \in Seq(Byte)
  PROVE  TrimLeft(s) \in Seq(Byte) /\ Len(TrimLeft(s)) <= Len(s)
<1> DEFINE I == {i \in 1 .. Len(s) : s[i] # Space}
<1>1. CASE I = {}
  <2>1. TrimLeft(s) = <<>>
    BY <1>1, Zenon DEF TrimLeft, SelectInSeq
  <2>2. <<>> \in Seq(Byte) /\ Len(<<>>) <= Len(s)
    OBVIOUS
  <2>3. QED
    BY <2>1, <2>2
<1>2. CASE I # {}
  <2>1. I \in SUBSET Nat
    OBVIOUS
  <2>2. PICK first \in 1 .. Len(s) : first = Min(I)
    BY <1>2, <2>1, MinOf
  <2>3. first # 0
    OBVIOUS
  <2>4. SelectInSeq(s, LAMBDA b : b # Space) = first
    BY <1>2, <2>2, Zenon DEF SelectInSeq
  <2>5. TrimLeft(s) = SubSeq(s, first, Len(s))
    BY <2>3, <2>4, Zenon DEF TrimLeft
  <2>6. PICK n \in Nat : n = Len(s) /\ first <= n /\ n \in 0 .. Len(s) /\ first \in 1 .. n + 1
    OBVIOUS
  <2>7. SubSeq(s, first, n) \in Seq(Byte) /\ Len(SubSeq(s, first, n)) = n - first + 1
    BY <2>6, SubSeqType
  <2>8. QED
    BY <2>5, <2>6, <2>7
<1>3. QED
  BY <1>1, <1>2

(* A heartbeat is taken out whole.                                         *)
LEMMA RemoveBeatType ==
  ASSUME NEW s \in Seq(Byte)
  PROVE  /\ ~HasBeat(s) => RemoveBeat(s) = s
         /\ HasBeat(s) => /\ RemoveBeat(s) \in Seq(Byte)
                          /\ Len(RemoveBeat(s)) = Len(s) - Len(Alive)
                          /\ Len(Alive) <= Len(s)
<1>1. ~HasBeat(s) => RemoveBeat(s) = s
  BY Zenon DEF RemoveBeat
<1>2. ASSUME HasBeat(s)
      PROVE  /\ RemoveBeat(s) \in Seq(Byte)
             /\ Len(RemoveBeat(s)) = Len(s) - Len(Alive)
             /\ Len(Alive) <= Len(s)
  <2>1. PICK n \in Nat, a \in Nat \ {0} : n = Len(s) /\ a = Len(Alive)
    BY ParserAssumption DEF ParserAssumption
  <2> DEFINE at == {i \in 1 .. n - a + 1 : SubSeq(s, i, i + a - 1) = Alive}
  <2>2. BeatAt(s) = IF at = {} THEN 0 ELSE Min(at)
    BY <2>1, Zenon DEF BeatAt
  <2>3. at # {}
    BY <1>2, <2>2, Zenon DEF HasBeat
  <2>4. at \in SUBSET Nat
    OBVIOUS
  <2>5. PICK i \in 1 .. n - a + 1 : i = BeatAt(s)
    BY <2>2, <2>3, <2>4, MinOf
  <2>6. /\ a <= n /\ i - 1 \in 0 .. Len(s) /\ 1 \in 1 .. i - 1 + 1
        /\ n \in 0 .. Len(s) /\ i + a \in 1 .. n + 1
    BY <2>1, <2>5
  <2>7. RemoveBeat(s) = SubSeq(s, 1, i - 1) \o <<>> \o SubSeq(s, i + a, n)
    BY <1>2, <2>1, <2>5, Zenon DEF RemoveBeat, ReplaceSubSeqAt
  <2>8. SubSeq(s, 1, i - 1) \in Seq(Byte) /\ Len(SubSeq(s, 1, i - 1)) = i - 1 - 1 + 1
    BY <2>6, SubSeqType
  <2>9. /\ SubSeq(s, i + a, n) \in Seq(Byte)
        /\ Len(SubSeq(s, i + a, n)) = n - (i + a) + 1
    BY <2>6, SubSeqType
  <2> HIDE DEF at
  <2>10. /\ RemoveBeat(s) \in Seq(Byte)
         /\ Len(RemoveBeat(s)) = (i - 1 - 1 + 1) + (n - (i + a) + 1)
    <3>1. PICK p \in Seq(Byte) : p = SubSeq(s, 1, i - 1) /\ Len(p) = i - 1 - 1 + 1
      BY <2>8
    <3>2. PICK q \in Seq(Byte) : q = SubSeq(s, i + a, n) /\ Len(q) = n - (i + a) + 1
      BY <2>9
    <3>3. p \o <<>> = p
      OBVIOUS
    <3>4. RemoveBeat(s) = p \o q
      BY <2>7, <3>1, <3>2, <3>3, Zenon
    <3>5. QED
      BY <3>1, <3>2, <3>4, ConcatType
  <2>11. QED
    BY <2>1, <2>6, <2>10
<1>3. QED
  BY <1>1, <1>2

(* The loop of Parser takes every heartbeat out, and what it leaves is     *)
(* shorter by a whole one if there was any (new/main.go:404-410).          *)
THEOREM HeartbeatsGo ==
  ASSUME NEW s \in Seq(Byte)
  PROVE  /\ WithoutBeats(s) \in Seq(Byte)
         /\ Len(WithoutBeats(s)) <= Len(s)
         /\ HasBeat(s) => Len(WithoutBeats(s)) + Len(Alive) <= Len(s)
         /\ ~HasBeat(WithoutBeats(s))
<1>1. PICK N \in Nat, a \in Nat \ {0} : N = Len(s) /\ a = Len(Alive)
  BY ParserAssumption DEF ParserAssumption
<1> DEFINE after == CHOOSE g : g = [n \in 0 .. Len(s) |-> IF n = 0 THEN s ELSE RemoveBeat(g[n - 1])]
<1>2. after = [n \in 0 .. Len(s) |-> IF n = 0 THEN s ELSE RemoveBeat(after[n - 1])]
  <2> DEFINE step == [p \in Seq(Byte) \X (1 .. N) |-> RemoveBeat(p[1])]
  <2>1. step \in [Seq(Byte) \X (1 .. N) -> Seq(Byte)]
    BY RemoveBeatType
  <2>2. \A t \in Seq(Byte), i \in 1 .. N : step[<<t, i>>] = RemoveBeat(t)
    OBVIOUS
  <2> HIDE DEF step
  <2>3. PICK f \in [0 .. N -> Seq(Byte)] : Follows(f, N, s, step)
    BY <1>1, <2>1, RecursionExists
  <2>4. ASSUME NEW i \in 0 .. N PROVE f[i] = IF i = 0 THEN s ELSE RemoveBeat(f[i - 1])
    <3>1. CASE i = 0
      BY <2>3, <3>1 DEF Follows
    <3>2. CASE i # 0
      <4>1. i \in 1 .. N /\ f[i - 1] \in Seq(Byte)
        BY <3>2
      <4>2. QED
        BY <2>2, <2>3, <3>2, <4>1 DEF Follows
    <3>3. QED
      BY <3>1, <3>2
  <2>5. f = [n \in 0 .. Len(s) |-> IF n = 0 THEN s ELSE RemoveBeat(f[n - 1])]
    BY <1>1, <2>4
  <2>6. QED
    BY <2>5
<1>3. WithoutBeats(s) = after[N]
  BY <1>1, Zenon DEF WithoutBeats
<1> HIDE DEF after
<1> DEFINE Fine(i) == /\ after[i] \in Seq(Byte) /\ Len(after[i]) <= N
                      /\ HasBeat(s) /\ i # 0 => Len(after[i]) + a <= N
                      /\ HasBeat(after[i]) => Len(after[i]) + i <= N
           P == {i \in 0 .. N : Fine(i)}
<1>4. after[0] = s /\ \A i \in 1 .. N : after[i] = RemoveBeat(after[i - 1])
  BY <1>1, <1>2
<1>5. Fine(0)
  BY <1>1, <1>4
<1>6. ASSUME NEW i \in 1 .. N, Fine(i - 1) PROVE Fine(i)
  <2>1. PICK t \in Seq(Byte) : t = after[i - 1]
    BY <1>6
  <2>2. /\ Len(t) \in Nat /\ Len(t) <= N
        /\ HasBeat(s) /\ i - 1 # 0 => Len(t) + a <= N
        /\ HasBeat(t) => Len(t) + (i - 1) <= N
    BY <1>6, <2>1
  <2>3. CASE HasBeat(t)
    <3>1. /\ RemoveBeat(t) \in Seq(Byte) /\ Len(RemoveBeat(t)) = Len(t) - a
          /\ after[i] = RemoveBeat(t)
      BY <1>1, <1>4, <2>1, <2>3, RemoveBeatType
    <3>2. QED
      BY <2>2, <2>3, <3>1
  <2>4. CASE ~HasBeat(t)
    <3>1. after[i] = t
      BY <1>4, <2>1, <2>4, RemoveBeatType
    <3>2. HasBeat(s) => i - 1 # 0
      BY <1>4, <2>1, <2>4
    <3>3. QED
      BY <2>2, <2>4, <3>1, <3>2
  <2>5. QED
    BY <2>3, <2>4
<1>7. Fine(N)
  <2>1. 0 \in P /\ P \in SUBSET (0 .. N)
    BY <1>5
  <2>2. \A i \in 1 .. N : i - 1 \in P => i \in P
    BY <1>6
  <2> HIDE DEF P
  <2>3. N \in P
    BY <2>1, <2>2, OneByOne
  <2>4. QED
    BY <2>3 DEF P
<1>8. PICK r \in Seq(Byte) : r = WithoutBeats(s) /\ r = after[N]
  BY <1>3, <1>7
<1>9. Len(r) <= N /\ Len(r) \in Nat /\ (HasBeat(r) => Len(r) + N <= N)
  BY <1>7, <1>8
<1>10. HasBeat(s) => Len(r) + a <= N
  <2>1. HasBeat(s) => N # 0
    BY <1>1, RemoveBeatType
  <2>2. QED
    BY <1>7, <1>8, <2>1
<1>11. ~HasBeat(r)
  <2> SUFFICES ASSUME HasBeat(r) PROVE FALSE
    OBVIOUS
  <2>1. a <= Len(r)
    BY <1>1, RemoveBeatType
  <2>2. QED
    BY <1>9, <2>1
<1>12. QED
  BY <1>1, <1>8, <1>9, <1>10, <1>11

-----------------------------------------------------------------------------
(* The states of checkMayJson's loop: what it found begins with '{' and    *)
(* ends with '}'.                                                          *)
Scanned(s) ==
  {r \in [from : 0 .. Len(s), to : 0 .. Len(s), num : Int] :
     /\ r.from > 0 => s[r.from] = Open
     /\ r.to > 0 => s[r.to] = Close}

LEMMA LookType ==
  ASSUME NEW s \in Seq(Byte), NEW r \in Scanned(s), NEW i \in 1 .. Len(s)
  PROVE  Look(r, s[i], i) \in Scanned(s)
<1> USE DEF Scanned
<1>1. CASE Balanced(r)
  BY <1>1 DEF Look
<1>2. CASE ~Balanced(r)
  <2> DEFINE num == CASE s[i] = Open -> r.num + 1
                      [] s[i] = Close -> r.num - 1
                      [] OTHER -> r.num
  <2>1. num \in Int
    OBVIOUS
  <2>2. Look(r, s[i], i) = [from |-> IF s[i] = Open /\ r.from = 0 THEN i ELSE r.from,
                            to |-> IF s[i] = Close THEN i ELSE r.to, num |-> num]
    BY <1>2, Zenon DEF Look
  <2> HIDE DEF num
  <2>3. QED
    BY <2>1, <2>2
<1>3. QED
  BY <1>1, <1>2

(* The loop of checkMayJson, state by state.                               *)
LEMMA JsonScan ==
  ASSUME NEW s \in Seq(Byte)
  PROVE  \E f :
           /\ f[0] = [from |-> 0, to |-> 0, num |-> 0]
           /\ \A i \in 1 .. Len(s) : f[i] = Look(f[i - 1], s[i], i)
           /\ \A i \in 0 .. Len(s) : f[i] \in Scanned(s)
           /\ checkMayJson(s) = [from |-> IF f[Len(s)].from > f[Len(s)].to THEN 0
                                          ELSE f[Len(s)].from,
                                 to |-> f[Len(s)].to]
<1>1. PICK N \in Nat : N = Len(s)
  OBVIOUS
<1> DEFINE none == [from |-> 0, to |-> 0, num |-> 0]
           scan == CHOOSE g : g = [i \in 0 .. Len(s) |->
                     IF i = 0 THEN [from |-> 0, to |-> 0, num |-> 0]
                     ELSE Look(g[i - 1], s[i], i)]
<1>2. none \in Scanned(s)
  BY DEF Scanned
<1>3. scan = [i \in 0 .. Len(s) |-> IF i = 0 THEN [from |-> 0, to |-> 0, num |-> 0]
                                    ELSE Look(scan[i - 1], s[i], i)]
  <2> DEFINE step == [p \in Scanned(s) \X (1 .. N) |-> Look(p[1], s[p[2]], p[2])]
  <2> HIDE DEF none
  <2>1. step \in [Scanned(s) \X (1 .. N) -> Scanned(s)]
    BY <1>1, LookType
  <2>2. \A r \in Scanned(s), i \in 1 .. N : step[<<r, i>>] = Look(r, s[i], i)
    OBVIOUS
  <2> HIDE DEF step
  <2>3. PICK f \in [0 .. N -> Scanned(s)] : Follows(f, N, none, step)
    BY <1>1, <1>2, <2>1, RecursionExists
  <2>4. ASSUME NEW i \in 0 .. N
        PROVE  f[i] = IF i = 0 THEN none ELSE Look(f[i - 1], s[i], i)
    <3>1. CASE i = 0
      BY <2>3, <3>1 DEF Follows
    <3>2. CASE i # 0
      <4>1. i \in 1 .. N /\ f[i - 1] \in Scanned(s)
        BY <3>2
      <4>2. QED
        BY <2>2, <2>3, <3>2, <4>1 DEF Follows
    <3>3. QED
      BY <3>1, <3>2
  <2>5. f = [i \in 0 .. Len(s) |-> IF i = 0 THEN [from |-> 0, to |-> 0, num |-> 0]
                                   ELSE Look(f[i - 1], s[i], i)]
    BY <1>1, <2>4 DEF none
  <2>6. QED
    BY <2>5
<1>4. checkMayJson(s) = [from |-> IF scan[Len(s)].from > scan[Len(s)].to THEN 0
                                  ELSE scan[Len(s)].from,
                         to |-> scan[Len(s)].to]
  BY DEF checkMayJson
<1> HIDE DEF scan
<1>5. scan[0] = none /\ \A i \in 1 .. Len(s) : scan[i] = Look(scan[i - 1], s[i], i)
  <2>1. \A i \in 0 .. N : scan[i] = IF i = 0 THEN none ELSE Look(scan[i - 1], s[i], i)
    BY <1>1, <1>3
  <2>2. QED
    BY <1>1, <2>1
<1> HIDE DEF none
<1>6. \A i \in 0 .. N : scan[i] \in Scanned(s)
  <2> DEFINE P == {i \in 0 .. N : scan[i] \in Scanned(s)}
  <2>1. 0 \in P /\ P \in SUBSET (0 .. N)
    BY <1>2, <1>5
  <2>2. \A i \in 1 .. N : i - 1 \in P => i \in P
    BY <1>1, <1>5, LookType
  <2> HIDE DEF P
  <2>3. P = 0 .. N
    BY <2>1, <2>2, OneByOne
  <2>4. QED
    BY <2>3 DEF P
<1>7. QED
  BY <1>1, <1>4, <1>5, <1>6 DEF none

(* What checkMayJson finds begins with '{' and ends with '}'.              *)
THEOREM FoundIsBracketed ==
  ASSUME NEW s \in Seq(Byte), Found(checkMayJson(s))
  PROVE  LET p == checkMayJson(s) IN
         /\ p.from \in 1 .. Len(s) /\ p.to \in 1 .. Len(s) /\ p.from < p.to
         /\ s[p.from] = Open /\ s[p.to] = Close
<1>1. PICK N \in Nat : N = Len(s)
  OBVIOUS
<1>2. PICK r \in Scanned(s) :
        checkMayJson(s) = [from |-> IF r.from > r.to THEN 0 ELSE r.from, to |-> r.to]
  BY <1>1, JsonScan
<1>3. /\ r.from \in 0 .. N /\ r.to \in 0 .. N
      /\ r.from > 0 => s[r.from] = Open
      /\ r.to > 0 => s[r.to] = Close
  BY <1>1 DEF Scanned
<1>4. /\ checkMayJson(s).from = r.from /\ checkMayJson(s).to = r.to
      /\ r.from > 0 /\ r.from <= r.to
  BY <1>2, <1>3 DEF Found
<1>5. r.from # r.to
  BY <1>3, <1>4 DEF Open, Close
<1>6. QED
  BY <1>1, <1>3, <1>4, <1>5

(* Taking a packet out leaves as many bytes fewer as it has.               *)
LEMMA ShiftType ==
  ASSUME NEW s \in Seq(Byte), NEW p, p.from \in 1 .. Len(s), p.to \in 1 .. Len(s),
         p.from < p.to
  PROVE  /\ Shift(s, p) \in Seq(Byte)
         /\ Len(Shift(s, p)) + Size(p) = Len(s)
         /\ Size(p) \in Nat /\ Size(p) >= 2
<1>1. PICK N \in Nat, n \in Nat : N = Len(s) /\ n = Size(p) /\ n >= 2 /\ n <= N
  BY DEF Size
<1>2. N - n \in Nat
  BY <1>1
<1>3. ASSUME NEW i \in 1 .. N - n
      PROVE  (IF p.from <= i /\ i <= p.to THEN s[i + n] ELSE s[i]) \in Byte
  BY <1>1
<1>4. Shift(s, p) \in [1 .. N - n -> Byte] /\ DOMAIN Shift(s, p) = 1 .. N - n
  BY <1>1, <1>3 DEF Shift
<1>5. Shift(s, p) \in Seq(Byte) /\ Len(Shift(s, p)) = N - n
  BY <1>2, <1>4
<1>6. QED
  BY <1>1, <1>5

(* Three bytes fewer, four characters fewer.                               *)
LEMMA EncryptedAgainShrinks ==
  ASSUME NEW chars \in Seq(Char), NEW n \in Nat,
         n + 3 <= DecodedLen(DeMixFour(Whole(chars)))
  PROVE  CipherLen(n) + Len(LeftOver(chars)) + 4 <= Len(chars)
<1>1. PICK m \in Nat : m = n + 3
  OBVIOUS
<1>2. CipherLen(m) + Len(LeftOver(chars)) <= Len(chars)
  BY <1>1, EncryptedAgainFits
<1>3. CipherLen(m) = CipherLen(n) + 4
  <2>1. PadLen(m) = PadLen(n)
    BY <1>1 DEF PadLen
  <2>2. PICK q \in Nat, k \in Nat : q = PadLen(n) /\ k = n + q
    BY PadLenNat
  <2>3. m + PadLen(m) = k + 3 /\ n + PadLen(n) = k
    BY <1>1, <2>1, <2>2
  <2>4. (4 * (k + 3)) \div 3 = (4 * k) \div 3 + 4
    OBVIOUS
  <2>5. QED
    <3>1. CipherLen(m) = (4 * (k + 3)) \div 3
      BY <2>3, Zenon DEF CipherLen
    <3>2. CipherLen(n) = (4 * k) \div 3
      BY <2>3, Zenon DEF CipherLen
    <3>3. QED
      BY <2>4, <3>1, <3>2, Zenon
<1>4. CipherLen(n) \in Nat /\ Len(LeftOver(chars)) \in Nat /\ Len(chars) \in Nat
  <2>1. PICK kept \in Seq(Char) : kept = LeftOver(chars)
    BY WholeType
  <2>2. Len(kept) \in Nat /\ Len(chars) \in Nat
    OBVIOUS
  <2>3. CipherLen(n) \in Nat
    BY CipherLenNat
  <2>4. QED
    BY <2>1, <2>2, <2>3, Zenon
<1>5. QED
  BY <1>2, <1>3, <1>4

-----------------------------------------------------------------------------
(* What travels: characters with encryption, bytes without.                *)
Unit == IF crypt THEN Char ELSE Byte

LEMMA PlainType ==
  ASSUME TypeOK
  PROVE  /\ Plain(buf) \in Seq(Byte)
         /\ crypt => Len(Plain(buf)) <= DecodedLen(DeMixFour(Whole(buf)))
<1>1. CASE crypt
  <2>1. buf \in Seq(Char)
    BY <1>1 DEF TypeOK
  <2>2. PICK t \in Seq(Byte) : /\ t = DeCrypt(buf)
                               /\ Len(t) = DecodedLen(DeMixFour(Whole(buf)))
    BY <2>1, DeCryptType
  <2>3. TrimLeft(t) \in Seq(Byte) /\ Len(TrimLeft(t)) <= Len(t)
    BY TrimLeftType
  <2>4. QED
    BY <1>1, <2>2, <2>3 DEF Plain
<1>2. CASE ~crypt
  BY <1>2 DEF Plain, TypeOK
<1>3. QED
  BY <1>1, <1>2

(* What is written back takes no more room than there was.  If k bytes are *)
(* gone, there is more room: with encryption, for three of them.           *)
LEMMA StoredType ==
  ASSUME TypeOK, NEW rest \in Seq(Byte), NEW k \in Nat,
         Len(rest) + k <= Len(Plain(buf))
  PROVE  /\ Stored(rest) \in Seq(Unit)
         /\ Len(Stored(rest)) <= Len(buf)
         /\ k > 2 \/ (k = 2 /\ ~crypt) => Len(Stored(rest)) + 2 <= Len(buf)
<1>1. CASE crypt
  <2>1. buf \in Seq(Char) /\ Len(buf) \in Nat
    BY <1>1 DEF TypeOK
  <2>2. PICK kept \in Seq(Char) : kept = LeftOver(buf) /\ kept = Kept(buf)
    BY <1>1, <2>1, WholeType DEF Kept
  <2>3. PICK n \in Nat : n = Len(rest)
    OBVIOUS
  <2>4. PICK d \in Nat : d = DecodedLen(DeMixFour(Whole(buf))) /\ n + k <= d
    <3>1. DecodedLen(DeMixFour(Whole(buf))) = Len(DeCrypt(buf)) /\ DeCrypt(buf) \in Seq(Byte)
      BY <2>1, DeCryptType
    <3>2. PICK d \in Nat : d = DecodedLen(DeMixFour(Whole(buf)))
      BY <3>1
    <3>3. Len(Plain(buf)) \in Nat /\ Len(Plain(buf)) <= d
      BY <1>1, <3>2, PlainType
    <3>4. QED
      BY <2>3, <3>2, <3>3
  <2>5. PICK e \in Seq(Char) : /\ e = IF rest # <<>> THEN EncryPt(rest, BufSize) ELSE rest
                               /\ Len(e) <= CipherLen(n)
    <3>0. CipherLen(n) \in Nat
      BY <2>3, CipherLenNat
    <3>1. CASE rest = <<>>
      <4>1. <<>> \in Seq(Char) /\ Len(<<>>) <= CipherLen(n)
        BY <3>0
      <4>2. (IF rest # <<>> THEN EncryPt(rest, BufSize) ELSE rest) = <<>>
        BY <3>1, Zenon
      <4>3. QED
        BY <4>1, <4>2, Zenon
    <3>2. CASE rest # <<>>
      <4>1. /\ EncryPt(rest, BufSize) \in Seq(Char)
            /\ EncryPt(rest, BufSize) = <<>> \/ Len(EncryPt(rest, BufSize)) = CipherLen(n)
        BY <2>3, EncryPtType
      <4>2. QED
        BY <3>0, <3>2, <4>1
    <3>3. QED
      BY <3>1, <3>2
  <2>6. Stored(rest) = e \o kept
    BY <1>1, <2>2, <2>5, Zenon DEF Stored
  <2>7. Stored(rest) \in Seq(Char) /\ Len(Stored(rest)) = Len(e) + Len(kept)
    BY <2>6, ConcatType
  <2>8. CipherLen(n) + Len(kept) <= Len(buf) /\ CipherLen(n) \in Nat
    <3>1. n <= DecodedLen(DeMixFour(Whole(buf)))
      BY <2>4
    <3>2. QED
      BY <2>1, <2>2, <3>1, EncryptedAgainFits, CipherLenNat
  <2>9. k > 2 => CipherLen(n) + Len(kept) + 4 <= Len(buf)
    <3>1. ASSUME k > 2 PROVE n + 3 <= DecodedLen(DeMixFour(Whole(buf)))
      BY <2>4, <3>1
    <3>2. QED
      BY <2>1, <2>2, <3>1, EncryptedAgainShrinks
  <2>10. Len(e) \in Nat /\ Len(kept) \in Nat
    OBVIOUS
  <2>11. QED
    BY <1>1, <2>1, <2>5, <2>7, <2>8, <2>9, <2>10 DEF Unit
<1>2. CASE ~crypt
  <2>1. Plain(buf) = buf /\ buf \in Seq(Byte)
    BY <1>2 DEF Plain, TypeOK
  <2>2. rest \o <<>> = rest
    OBVIOUS
  <2>3. Stored(rest) = rest
    BY <1>2, <2>2, Zenon DEF Stored, Kept
  <2>4. QED
    BY <1>2, <2>1, <2>3 DEF Unit
<1>3. QED
  BY <1>1, <1>2

-----------------------------------------------------------------------------
(* Where the reader waits, the loop has not turned yet.                    *)
Rests == stage = "read" => turns = 0

(* What one call of Parser takes: a packet of two bytes at least, or every *)
(* heartbeat, or nothing.                                                  *)
LEMMA BodyType ==
  ASSUME TypeOK, NEW body, body = WithoutBeats(Plain(buf))
  PROVE  /\ body \in Seq(Byte)
         /\ Len(body) <= Len(Plain(buf))
         /\ HasBeat(Plain(buf)) => Len(body) + Len(Alive) <= Len(Plain(buf))
BY PlainType, HeartbeatsGo

LEMMA NothingStep ==
  ASSUME TypeOK, ParseNothing
  PROVE  /\ buf' \in Seq(Unit) /\ Len(buf') <= Len(buf)
         /\ Len(Alive) > 2 /\ stage' = "parse" => Len(buf') + 2 <= Len(buf)
<1>1. PICK body \in Seq(Byte) :
        /\ body = WithoutBeats(Plain(buf)) /\ Len(body) <= Len(Plain(buf))
        /\ HasBeat(Plain(buf)) => Len(body) + Len(Alive) <= Len(Plain(buf))
  BY BodyType
<1>2. buf' = Stored(body) /\ (stage' = "parse" => HasBeat(Plain(buf)))
  BY <1>1 DEF ParseNothing, Turn, Again
<1>3. 0 \in Nat /\ Len(body) + 0 <= Len(Plain(buf))
  BY <1>1
<1>4. Stored(body) \in Seq(Unit) /\ Len(Stored(body)) <= Len(buf)
  BY <1>3, StoredType
<1>5. ASSUME Len(Alive) > 2, HasBeat(Plain(buf)) PROVE Len(Stored(body)) + 2 <= Len(buf)
  <2>1. PICK a \in Nat : a = Len(Alive)
    BY ParserAssumption DEF ParserAssumption
  <2>2. Len(body) + a <= Len(Plain(buf)) /\ a > 2
    BY <1>1, <1>5, <2>1
  <2>3. QED
    BY <2>2, StoredType
<1>6. QED
  BY <1>2, <1>4, <1>5

LEMMA PacketStep ==
  ASSUME TypeOK, ParsePacket
  PROVE  /\ buf' \in Seq(Unit) /\ Len(buf') <= Len(buf)
         /\ out' \in Seq(Seq(Byte))
         /\ \A i \in 1 .. Len(out) : out'[i] = out[i]
         /\ Len(out') = Len(out) + 1
         /\ \/ Len(buf') + 2 <= Len(buf)
            \/ crypt /\ out'[Len(out')] = EmptyPacket
<1>1. PICK body \in Seq(Byte) :
        body = WithoutBeats(Plain(buf)) /\ Len(body) <= Len(Plain(buf))
  BY BodyType
<1>2. PICK p : p = checkMayJson(body)
  OBVIOUS
<1>3. /\ Found(p) /\ buf' = Stored(Shift(body, p))
      /\ out' = Append(out, SubSeq(body, p.from, p.to))
  BY <1>1, <1>2 DEF ParsePacket
<1>4. /\ p.from \in 1 .. Len(body) /\ p.to \in 1 .. Len(body) /\ p.from < p.to
      /\ body[p.from] = Open /\ body[p.to] = Close
  BY <1>2, <1>3, FoundIsBracketed
<1>5. PICK rest \in Seq(Byte), n \in Nat :
        rest = Shift(body, p) /\ n = Size(p) /\ Len(rest) + n = Len(body) /\ n >= 2
  BY <1>4, ShiftType
<1>6. Len(rest) + n <= Len(Plain(buf))
  BY <1>1, <1>5
<1>7. /\ Stored(rest) \in Seq(Unit) /\ Len(Stored(rest)) <= Len(buf)
      /\ n > 2 \/ (n = 2 /\ ~crypt) => Len(Stored(rest)) + 2 <= Len(buf)
  BY <1>6, StoredType
<1>8. PICK packet \in Seq(Byte) :
        packet = SubSeq(body, p.from, p.to) /\ Len(packet) = p.to - p.from + 1
  <2>1. PICK a, b : a = p.from /\ b = p.to
    OBVIOUS
  <2>2. b \in 0 .. Len(body) /\ a \in 1 .. b + 1
    BY <1>4, <2>1
  <2>3. SubSeq(body, a, b) \in Seq(Byte) /\ Len(SubSeq(body, a, b)) = b - a + 1
    BY <2>2, SubSeqType
  <2>4. QED
    BY <2>1, <2>3, Zenon
<1>9. out \in Seq(Seq(Byte)) /\ out' = Append(out, packet)
  BY <1>3, <1>8 DEF TypeOK
<1>10. /\ out' \in Seq(Seq(Byte)) /\ Len(out') = Len(out) + 1
       /\ \A i \in 1 .. Len(out) : out'[i] = out[i]
       /\ out'[Len(out')] = packet
  BY <1>9
<1>11. n = 2 => packet = EmptyPacket
  <2> SUFFICES ASSUME n = 2 PROVE packet = EmptyPacket
    OBVIOUS
  <2>1. PICK i \in 1 .. Len(body) : i = p.from /\ p.to = i + 1
    BY <1>4, <1>5 DEF Size
  <2>2. packet = SubSeq(body, i, i + 1) /\ body[i] = Open /\ body[i + 1] = Close
    BY <1>4, <1>8, <2>1
  <2>3. packet = <<body[i], body[i + 1]>>
    <3>1. i + 1 \in 1 .. Len(body)
      BY <1>4, <2>1
    <3>2. QED
      BY <2>2, <3>1, PairType
  <2>4. QED
    BY <2>2, <2>3, Zenon DEF EmptyPacket
<1>12. QED
  BY <1>3, <1>5, <1>7, <1>10, <1>11, SMTT(30)

(* Sending, reading and parsing keep the type.                             *)
LEMMA ParserTypeStep ==
  ASSUME TypeOK, [Next]_vars
  PROVE  TypeOK'
<1>1. crypt \in BOOLEAN /\ BufSize \in Nat
  BY ParserAssumption DEF TypeOK, ParserAssumption
<1>2. ASSUME NEW m \in Messages, Send(m) PROVE TypeOK'
  <2>1. m \in Seq(Byte)
    BY ParserAssumption DEF ParserAssumption
  <2>2. PICK t \in Seq(Unit) : wire' = wire \o t
    <3>1. CASE ~crypt
      BY <1>2, <2>1, <3>1 DEF Send, Unit
    <3>2. CASE crypt
      BY <1>2, <2>1, <3>2, EncryPtType, PeerEncodeType DEF Send, Unit
    <3>3. QED
      BY <3>1, <3>2
  <2>3. wire \in Seq(Unit)
    BY DEF TypeOK, Unit
  <2>4. wire' \in Seq(Unit)
    BY <2>2, <2>3, ConcatType
  <2>5. sent' \in Seq(Messages) /\ Len(sent') <= MaxSent
    BY <1>2, ParserAssumption DEF TypeOK, Send, ParserAssumption
  <2>6. QED
    BY <1>2, <2>4, <2>5 DEF TypeOK, Send, Unit
<1>3. ASSUME Read PROVE TypeOK'
  <2>1. PICK kept : kept = IF Len(buf) >= BufSize THEN <<>> ELSE buf
    OBVIOUS
  <2>2. kept \in Seq(Unit) /\ Len(kept) \in Nat /\ Len(kept) <= BufSize
    <3>1. CASE kept = <<>>
      BY <1>1, <3>1
    <3>2. CASE kept = buf
      BY <3>2 DEF TypeOK, Unit
    <3>3. QED
      BY <2>1, <3>1, <3>2
  <2>3. wire \in Seq(Unit) /\ Len(wire) \in Nat
    BY DEF TypeOK, Unit
  <2>4. PICK n \in 1 .. Len(wire) : /\ n <= Room(kept)
                                    /\ buf' = kept \o SubSeq(wire, 1, n)
                                    /\ wire' = SubSeq(wire, n + 1, Len(wire))
    BY <1>3, <2>1, Zenon DEF Read
  <2>5. /\ n \in 0 .. Len(wire) /\ 1 \in 1 .. n + 1
        /\ Len(wire) \in 0 .. Len(wire) /\ n + 1 \in 1 .. Len(wire) + 1
    BY <2>3
  <2>6. PICK t \in Seq(Unit) : t = SubSeq(wire, 1, n) /\ Len(t) = n - 1 + 1
    <3>1. PICK w \in Seq(Unit) : w = wire
      BY <2>3
    <3>2. n \in 0 .. Len(w) /\ 1 \in 1 .. n + 1
      BY <2>5, <3>1, Zenon
    <3>3. SubSeq(w, 1, n) \in Seq(Unit) /\ Len(SubSeq(w, 1, n)) = n - 1 + 1
      BY <3>2, SubSeqType
    <3>4. QED
      BY <3>1, <3>3, Zenon
  <2>7. wire' \in Seq(Unit)
    <3>1. PICK w \in Seq(Unit), a \in Nat, b \in Nat :
            w = wire /\ a = n + 1 /\ b = Len(wire)
      BY <2>3
    <3>2. b \in 0 .. Len(w) /\ a \in 1 .. b + 1
      BY <2>5, <3>1, Zenon
    <3>3. SubSeq(w, a, b) \in Seq(Unit)
      BY <3>2, SubSeqType
    <3>4. QED
      BY <2>4, <3>1, <3>3, Zenon
  <2>8. buf' \in Seq(Unit) /\ Len(buf') = Len(kept) + n
    <3>1. kept \o t \in Seq(Unit) /\ Len(kept \o t) = Len(kept) + Len(t)
      BY <2>2, ConcatType
    <3>2. QED
      BY <2>4, <2>6, <3>1
  <2>9. Len(buf') <= BufSize
    BY <1>1, <2>2, <2>4, <2>8 DEF Room
  <2>10. spoiled' \in BOOLEAN
    BY <1>3, Zenon DEF Read, TypeOK
  <2>11. stage' = "parse" /\ UNCHANGED <<crypt, sent, out, turns>>
    BY <1>3, Zenon DEF Read
  <2>12. QED
    BY <2>7, <2>8, <2>9, <2>10, <2>11 DEF TypeOK, Unit
<1>4. ASSUME ParseNothing PROVE TypeOK'
  <2>1. buf' \in Seq(Unit) /\ Len(buf') <= Len(buf)
    BY <1>4, NothingStep
  <2>2. stage' \in {"read", "parse"} /\ turns' \in Nat
    <3>1. \/ stage' = "read" /\ turns' = 0
          \/ stage' = "parse" /\ turns' = turns + 1
      BY <1>4, Zenon DEF ParseNothing, Turn
    <3>2. QED
      BY <3>1 DEF TypeOK
  <2>3. spoiled' \in BOOLEAN
    BY <1>4, Zenon DEF ParseNothing, TypeOK, Truncates
  <2>4. UNCHANGED <<crypt, sent, wire, out>>
    BY <1>4 DEF ParseNothing
  <2>5. Len(buf') <= BufSize
    BY <1>1, <2>1 DEF TypeOK, Unit
  <2>6. QED
    BY <2>1, <2>2, <2>3, <2>4, <2>5 DEF TypeOK, Unit
<1>5. ASSUME ParsePacket PROVE TypeOK'
  <2>1. buf' \in Seq(Unit) /\ Len(buf') <= Len(buf) /\ out' \in Seq(Seq(Byte))
    BY <1>5, PacketStep
  <2>2. stage' \in {"read", "parse"} /\ turns' \in Nat
    <3>1. \/ stage' = "read" /\ turns' = 0
          \/ stage' = "parse" /\ turns' = turns + 1
      BY <1>5, Zenon DEF ParsePacket, Turn
    <3>2. QED
      BY <3>1 DEF TypeOK
  <2>3. spoiled' \in BOOLEAN
    BY <1>5, Zenon DEF ParsePacket, TypeOK, Truncates, Spoils
  <2>4. UNCHANGED <<crypt, sent, wire>>
    BY <1>5 DEF ParsePacket
  <2>5. Len(buf') <= BufSize
    BY <1>1, <2>1 DEF TypeOK, Unit
  <2>6. QED
    BY <2>1, <2>2, <2>3, <2>4, <2>5 DEF TypeOK, Unit
<1>6. ASSUME ParsePanics PROVE TypeOK'
  BY <1>6 DEF ParsePanics, TypeOK
<1>7. CASE UNCHANGED vars
  BY <1>7 DEF vars, TypeOK
<1>8. QED
  BY <1>2, <1>3, <1>4, <1>5, <1>6, <1>7 DEF Next, Parse

(* What the reader has in its buffer always fits into it, whatever the     *)
(* network delivers and whatever Parser encrypts again: the types of the   *)
(* state of createReadroutine and Parser (new/server_tcp.go:241-312,       *)
(* new/main.go:362-453).                                                   *)
THEOREM ParserTypeCorrect == Spec => []TypeOK
<1>1. Init => TypeOK
  <2> SUFFICES ASSUME Init PROVE TypeOK
    OBVIOUS
  <2>1. sent \in Seq(Messages) /\ Len(sent) <= MaxSent
    BY ParserAssumption DEF Init, ParserAssumption
  <2>2. wire \in Seq(Unit) /\ buf \in Seq(Unit) /\ Len(buf) <= BufSize
    BY ParserAssumption DEF Init, ParserAssumption
  <2>3. out \in Seq(Seq(Byte))
    BY DEF Init
  <2>4. QED
    BY <2>1, <2>2, <2>3 DEF Init, TypeOK, Unit
<1>2. QED
  BY <1>1, ParserTypeStep, PTL DEF Spec

(* A turn that is not the last has taken two bytes out of the buffer, or   *)
(* an empty object under encryption has been handed on.                    *)
EmptySeen == crypt /\ \E i \in 1 .. Len(out) : out[i] = EmptyPacket

Paid == EmptySeen \/ 2 * turns + Len(buf) <= BufSize

(* The loop around Parser ends after half as many turns as the buffer has  *)
(* bytes, for any stream and any cuts, unless an empty object is encrypted *)
(* (createReadroutine, new/server_tcp.go:261-311).  The heartbeat has      *)
(* three bytes or more; conf.xml has ALIVE.                                *)
THEOREM ParsingEnds ==
  ASSUME Len(Alive) > 2
  PROVE  Spec => []LoopEnds
<1>1. Init => Rests /\ Paid
  <2> SUFFICES ASSUME Init PROVE Rests /\ Paid
    OBVIOUS
  <2>1. turns = 0 /\ Len(buf) = 0
    BY DEF Init
  <2>2. QED
    BY <2>1, ParserAssumption DEF ParserAssumption, Rests, Paid
<1>2. TypeOK /\ Rests /\ Paid /\ [Next]_vars => Rests' /\ Paid'
  <2> SUFFICES ASSUME TypeOK, Rests, Paid, [Next]_vars PROVE Rests' /\ Paid'
    OBVIOUS
  <2>1. TypeOK'
    BY ParserTypeStep
  <2>2. /\ Len(buf) \in Nat /\ Len(buf') \in Nat /\ Len(buf') <= BufSize
        /\ BufSize \in Nat /\ turns \in Nat
    BY <2>1, ParserAssumption DEF TypeOK, ParserAssumption
  <2>3. ASSUME UNCHANGED <<crypt, out>>, EmptySeen PROVE EmptySeen'
    BY <2>3 DEF EmptySeen
  <2>4. CASE (\E m \in Messages : Send(m)) \/ UNCHANGED vars
    <3>1. UNCHANGED <<crypt, out, turns, buf, stage>>
      BY <2>4 DEF Send, vars
    <3>2. QED
      BY <2>3, <3>1 DEF Rests, Paid
  <2>5. CASE Read
    <3>1. stage = "read" /\ stage' = "parse" /\ turns' = turns
      BY <2>5, Zenon DEF Read
    <3>2. QED
      BY <2>2, <3>1 DEF Rests, Paid
  <2>6. CASE ParsePanics
    <3>1. stage' = "panicked" /\ UNCHANGED <<crypt, out, turns, buf>>
      BY <2>6 DEF ParsePanics
    <3>2. QED
      BY <2>3, <3>1 DEF Rests, Paid
  <2>7. ASSUME ParseNothing \/ ParsePacket
        PROVE  \/ stage' = "read" /\ turns' = 0
               \/ stage' = "parse" /\ turns' = turns + 1
    BY <2>7, Zenon DEF ParseNothing, ParsePacket, Turn
  <2>8. CASE ParseNothing
    <3>1. UNCHANGED <<crypt, out>>
      BY <2>8 DEF ParseNothing
    <3>2. stage' = "parse" => Len(buf') + 2 <= Len(buf)
      BY <2>8, NothingStep
    <3>3. QED
      BY <2>2, <2>3, <2>7, <2>8, <3>1, <3>2 DEF Rests, Paid
  <2>9. CASE ParsePacket
    <3>1. PICK n \in Nat : n = Len(out)
      BY DEF TypeOK
    <3>2. /\ \A i \in 1 .. n : out'[i] = out[i]
          /\ Len(out') = n + 1
          /\ \/ Len(buf') + 2 <= Len(buf)
             \/ crypt /\ out'[n + 1] = EmptyPacket
      BY <2>9, <3>1, PacketStep
    <3>3. crypt' = crypt
      BY <2>9 DEF ParsePacket
    <3>4. EmptySeen => EmptySeen'
      BY <3>1, <3>2, <3>3 DEF EmptySeen
    <3>5. crypt /\ out'[n + 1] = EmptyPacket => EmptySeen'
      BY <3>2, <3>3 DEF EmptySeen
    <3>6. QED
      BY <2>2, <2>7, <2>9, <3>2, <3>4, <3>5 DEF Rests, Paid
  <2>10. QED
    BY <2>4, <2>5, <2>6, <2>8, <2>9 DEF Next, Parse
<1>3. TypeOK /\ Paid => LoopEnds
  <2> SUFFICES ASSUME TypeOK, Paid PROVE LoopEnds
    OBVIOUS
  <2>1. Len(buf) \in Nat /\ BufSize \in Nat /\ turns \in Nat
    BY ParserAssumption DEF TypeOK, ParserAssumption
  <2>2. 2 * turns + Len(buf) <= BufSize => ~(turns > BufSize \div 2)
    BY <2>1
  <2>3. QED
    BY <2>2, Zenon DEF Paid, EmptySeen, LoopEnds
<1>4. QED
  BY <1>1, <1>2, <1>3, ParserTypeCorrect, PTL DEF Spec

-----------------------------------------------------------------------------
(* The states of the reference for checkMayJson, one by one.               *)
Collected ==
  [depth : Nat, packet : Seq(Byte), packets : Seq(Seq(Byte))]

NoPackets == [depth |-> 0, packet |-> <<>>, packets |-> <<>>]

LEMMA CollectType ==
  ASSUME NEW r \in Collected, NEW b \in Byte
  PROVE  Collect(r, b) \in Collected
<1>1. PICK more \in Seq(Byte) : more = Append(r.packet, b)
  <2>1. r.packet \in Seq(Byte)
    BY DEF Collected
  <2>2. PICK q \in Seq(Byte) : q = r.packet
    BY <2>1
  <2>3. Append(q, b) \in Seq(Byte)
    OBVIOUS
  <2>4. QED
    BY <2>2, <2>3
<1>2. CASE b = Space \/ (b # Open /\ r.depth = 0)
  BY <1>2 DEF Collect
<1>3. CASE ~(b = Space \/ (b # Open /\ r.depth = 0)) /\ b = Close /\ r.depth = 1
  <2>1. Collect(r, b) = [depth |-> 0, packet |-> <<>>, packets |-> Append(r.packets, more)]
    BY <1>1, <1>3, Zenon DEF Collect
  <2>2. Append(r.packets, more) \in Seq(Seq(Byte)) /\ <<>> \in Seq(Byte)
    <3>1. r.packets \in Seq(Seq(Byte))
      BY DEF Collected
    <3>2. QED
      BY <3>1
  <2>3. QED
    BY <2>1, <2>2 DEF Collected
<1>4. CASE ~(b = Space \/ (b # Open /\ r.depth = 0)) /\ ~(b = Close /\ r.depth = 1)
  <2> DEFINE depth == CASE b = Open -> r.depth + 1
                        [] b = Close -> r.depth - 1
                        [] OTHER -> r.depth
  <2>1. depth \in Nat
    <3>1. PICK d \in Nat : d = r.depth
      BY DEF Collected
    <3>2. b = Close => d # 0
      BY <1>4, <3>1 DEF Open, Close
    <3>3. depth = CASE b = Open -> d + 1 [] b = Close -> d - 1 [] OTHER -> d
      BY <3>1
    <3>4. QED
      BY <3>1, <3>2, <3>3 DEF Open, Close
  <2>2. Collect(r, b) = [depth |-> depth, packet |-> more, packets |-> r.packets]
    BY <1>1, <1>4, Zenon DEF Collect
  <2> HIDE DEF depth
  <2>3. QED
    BY <2>1, <2>2 DEF Collected
<1>5. QED
  BY <1>2, <1>3, <1>4

(* Scan reads one byte after the other.                                    *)
LEMMA ScanFacts ==
  ASSUME NEW s \in Seq(Byte)
  PROVE  /\ Scan(s)[0] = NoPackets
         /\ \A i \in 1 .. Len(s) : Scan(s)[i] = Collect(Scan(s)[i - 1], s[i])
         /\ \A i \in 0 .. Len(s) : Scan(s)[i] \in Collected
<1>1. PICK N \in Nat : N = Len(s)
  OBVIOUS
<1> DEFINE scan == CHOOSE g : g = [i \in 0 .. Len(s) |->
                     IF i = 0 THEN [depth |-> 0, packet |-> <<>>, packets |-> <<>>]
                     ELSE Collect(g[i - 1], s[i])]
<1>2. NoPackets \in Collected
  <2>1. <<>> \in Seq(Byte) /\ <<>> \in Seq(Seq(Byte)) /\ 0 \in Nat
    OBVIOUS
  <2>2. QED
    BY <2>1 DEF NoPackets, Collected
<1>3. scan = [i \in 0 .. Len(s) |->
                IF i = 0 THEN [depth |-> 0, packet |-> <<>>, packets |-> <<>>]
                ELSE Collect(scan[i - 1], s[i])]
  <2> DEFINE step == [p \in Collected \X (1 .. N) |-> Collect(p[1], s[p[2]])]
  <2>1. step \in [Collected \X (1 .. N) -> Collected]
    BY <1>1, CollectType
  <2>2. \A r \in Collected, i \in 1 .. N : step[<<r, i>>] = Collect(r, s[i])
    OBVIOUS
  <2> HIDE DEF step
  <2>3. PICK f \in [0 .. N -> Collected] : Follows(f, N, NoPackets, step)
    BY <1>1, <1>2, <2>1, RecursionExists
  <2>4. ASSUME NEW i \in 0 .. N
        PROVE  f[i] = IF i = 0 THEN NoPackets ELSE Collect(f[i - 1], s[i])
    <3>1. CASE i = 0
      BY <2>3, <3>1 DEF Follows
    <3>2. CASE i # 0
      <4>1. i \in 1 .. N /\ f[i - 1] \in Collected
        BY <3>2
      <4>2. QED
        BY <2>2, <2>3, <3>2, <4>1 DEF Follows
    <3>3. QED
      BY <3>1, <3>2
  <2>5. f = [i \in 0 .. Len(s) |->
               IF i = 0 THEN [depth |-> 0, packet |-> <<>>, packets |-> <<>>]
               ELSE Collect(f[i - 1], s[i])]
    BY <1>1, <2>4 DEF NoPackets
  <2>6. QED
    BY <2>5
<1>4. Scan(s) = scan
  BY Zenon DEF Scan
<1> HIDE DEF scan
<1>5. scan[0] = NoPackets /\ \A i \in 1 .. Len(s) : scan[i] = Collect(scan[i - 1], s[i])
  <2>1. \A i \in 0 .. N : scan[i] = IF i = 0 THEN NoPackets ELSE Collect(scan[i - 1], s[i])
    BY <1>1, <1>3 DEF NoPackets
  <2>2. QED
    BY <1>1, <2>1
<1>6. \A i \in 0 .. N : scan[i] \in Collected
  <2> DEFINE P == {i \in 0 .. N : scan[i] \in Collected}
  <2>1. 0 \in P /\ P \in SUBSET (0 .. N)
    BY <1>2, <1>5
  <2>2. \A i \in 1 .. N : i - 1 \in P => i \in P
    BY <1>1, <1>5, CollectType
  <2> HIDE DEF P
  <2>3. P = 0 .. N
    BY <2>1, <2>2, OneByOne
  <2>4. QED
    BY <2>3 DEF P
<1>7. QED
  BY <1>1, <1>4, <1>5, <1>6

LEMMA PacketScan ==
  ASSUME NEW s \in Seq(Byte)
  PROVE  \E f :
           /\ f[0] = NoPackets
           /\ \A i \in 1 .. Len(s) : f[i] = Collect(f[i - 1], s[i])
           /\ \A i \in 0 .. Len(s) : f[i] \in Collected
           /\ PacketsOf(s) = f[Len(s)].packets
<1>1. PacketsOf(s) = Scan(s)[Len(s)].packets
  BY DEF PacketsOf
<1>2. PICK f : f = Scan(s)
  OBVIOUS
<1>3. QED
  BY <1>1, <1>2, ScanFacts, Zenon

(* Where checkMayJson finds nothing, no packet is complete: the first '{'  *)
(* has no '}' behind it (new/main.go:331-359).                             *)
THEOREM NothingIsMissed ==
  ASSUME NEW s \in Seq(Byte), ~Found(checkMayJson(s))
  PROVE  PacketsOf(s) = <<>>
<1>1. PICK N \in Nat : N = Len(s)
  OBVIOUS
<1>2. PICK f : /\ f[0] = [from |-> 0, to |-> 0, num |-> 0]
               /\ \A i \in 1 .. N : f[i] = Look(f[i - 1], s[i], i)
               /\ \A i \in 0 .. N : f[i] \in Scanned(s)
               /\ checkMayJson(s) = [from |-> IF f[N].from > f[N].to THEN 0 ELSE f[N].from,
                                     to |-> f[N].to]
  BY <1>1, JsonScan
<1>3. PICK g : /\ g[0] = NoPackets
               /\ \A i \in 1 .. N : g[i] = Collect(g[i - 1], s[i])
               /\ \A i \in 0 .. N : g[i] \in Collected
               /\ PacketsOf(s) = g[N].packets
  BY <1>1, PacketScan
<1> DEFINE Fine(i) == /\ f[i].from <= i /\ f[i].to <= i
                      /\ \/ Balanced(f[i])
                         \/ /\ f[i].from = 0 => g[i].depth = 0
                            /\ g[i].packets # <<>> =>
                                 f[i].from > 0 /\ f[i].to > f[i].from
           P == {i \in 0 .. N : Fine(i)}
<1>4. Fine(0)
  BY <1>2, <1>3 DEF NoPackets
<1>5. ASSUME NEW i \in 1 .. N, Fine(i - 1) PROVE Fine(i)
  <2>1. PICK r \in Scanned(s), q \in Collected, b \in Byte :
               /\ r = f[i - 1] /\ q = g[i - 1] /\ b = s[i]
               /\ f[i] = Look(r, b, i) /\ g[i] = Collect(q, b)
    <3>1. i - 1 \in 0 .. N
      OBVIOUS
    <3>2. QED
      BY <1>1, <1>2, <1>3, <3>1
  <2>2. /\ r.from \in Nat /\ r.to \in Nat /\ q.depth \in Nat
        /\ r.from <= i - 1 /\ r.to <= i - 1
    BY <1>1, <1>5, <2>1 DEF Scanned, Collected
  <2>3. CASE Balanced(r)
    <3>1. f[i] = r
      BY <2>1, <2>3, Zenon DEF Look
    <3>2. Balanced(f[i])
      BY <2>3, <3>1, Zenon
    <3>3. QED
      BY <2>2, <3>1, <3>2
  <2>4. CASE ~Balanced(r)
    <3>1. /\ f[i].from = IF b = Open /\ r.from = 0 THEN i ELSE r.from
          /\ f[i].to = IF b = Close THEN i ELSE r.to
      BY <2>1, <2>4 DEF Look
    <3>2. /\ r.from = 0 => q.depth = 0
          /\ q.packets # <<>> => r.from > 0 /\ r.to > r.from
      BY <1>5, <2>1, <2>4, Zenon
    <3>3. f[i].from <= i /\ f[i].to <= i
      BY <2>2, <3>1
    <3>4. CASE b = Space \/ (b # Open /\ q.depth = 0)
      <4>1. g[i] = q
        BY <2>1, <3>4, Zenon DEF Collect
      <4>2. b # Open \/ b = Space
        BY <3>4, Zenon
      <4>3. b # Open
        BY <4>2 DEF Open, Space
      <4>4. QED
        BY <2>2, <3>1, <3>2, <3>3, <4>1, <4>3
    <3>5. CASE ~(b = Space \/ (b # Open /\ q.depth = 0))
      <4>1. f[i].from > 0
        BY <2>2, <3>1, <3>2, <3>5
      <4>2. CASE b = Close
        <5>1. f[i].to = i /\ f[i].from = r.from
          BY <3>1, <4>2 DEF Open, Close
        <5>2. QED
          BY <2>2, <3>3, <4>1, <5>1
      <4>3. CASE b # Close
        <5>1. g[i].packets = q.packets
          BY <2>1, <3>5, <4>3 DEF Collect
        <5>2. QED
          BY <2>2, <3>1, <3>2, <3>3, <4>1, <4>3, <5>1
      <4>4. QED
        BY <4>2, <4>3
    <3>6. QED
      BY <3>4, <3>5
  <2>5. QED
    BY <2>3, <2>4
<1>6. Fine(N)
  <2>1. 0 \in P /\ P \in SUBSET (0 .. N)
    BY <1>4
  <2>2. \A i \in 1 .. N : i - 1 \in P => i \in P
    BY <1>5
  <2> HIDE DEF P
  <2>3. N \in P
    BY <2>1, <2>2, OneByOne
  <2>4. QED
    BY <2>3 DEF P
<1>7. f[N].from \in Nat /\ f[N].to \in Nat
  BY <1>1, <1>2 DEF Scanned
<1>8. ~(f[N].from > 0 /\ f[N].to > f[N].from)
  BY <1>2, <1>7 DEF Found
<1>9. QED
  BY <1>3, <1>6, <1>8 DEF Balanced

-----------------------------------------------------------------------------
(* What the reader has written back, read again group by group.            *)

(* The spaces of EncryPt are no part of a packet.                          *)
LEMMA SpacesDontMatter ==
  ASSUME NEW rest \in Seq(Byte)
  PROVE  PacketsOf(WithSpaces(rest)) = PacketsOf(rest)
<1>1. PICK n \in Nat : n = Len(rest)
  OBVIOUS
<1>2. PadLen(n) \in Nat
  BY PadLenNat
<1>3. PICK w \in Seq(Byte) : w = WithSpaces(rest) /\ Len(w) = n + PadLen(n)
  BY <1>1, WithSpacesType
<1>4. PICK N \in Nat : N = n + PadLen(n)
  BY <1>2
<1>5. /\ \A i \in 1 .. n : w[i] = rest[i]
      /\ \A i \in 1 .. N : i > n => w[i] = Space
  <2>1. PICK k \in Nat : k = PadLen(n)
    BY <1>2
  <2>2. Space \in Byte
    BY DEF Space, Byte
  <2>3. PICK spaces \in Seq(Byte) : /\ spaces = [i \in 1 .. k |-> Space]
                                    /\ Len(spaces) = k
                                    /\ \A i \in 1 .. k : spaces[i] = Space
    <3>1. PICK sp : sp = [i \in 1 .. k |-> Space]
      OBVIOUS
    <3>2. sp \in [1 .. k -> Byte] /\ \A i \in 1 .. k : sp[i] = Space
      BY <2>2, <3>1
    <3>3. sp \in Seq(Byte) /\ Len(sp) = k
      BY <3>1, <3>2
    <3>4. QED
      BY <3>1, <3>2, <3>3, Zenon
  <2>4. w = rest \o spaces
    BY <1>1, <1>3, <2>1, <2>3 DEF WithSpaces
  <2>5. QED
    BY <1>1, <1>4, <2>1, <2>3, <2>4
<1>6. PICK f : /\ f[0] = NoPackets
               /\ \A i \in 1 .. n : f[i] = Collect(f[i - 1], rest[i])
               /\ PacketsOf(rest) = f[n].packets
  BY <1>1, PacketScan
<1>7. PICK g : /\ g[0] = NoPackets
               /\ \A i \in 1 .. N : g[i] = Collect(g[i - 1], w[i])
               /\ PacketsOf(w) = g[N].packets
  BY <1>3, <1>4, PacketScan
<1> DEFINE Same(i) == g[i] = f[IF i <= n THEN i ELSE n]
           P == {i \in 0 .. N : Same(i)}
<1>8. ASSUME NEW i \in 1 .. N, Same(i - 1) PROVE Same(i)
  <2>1. CASE i <= n
    <3>1. i - 1 <= n /\ i \in 1 .. n
      BY <1>1, <2>1
    <3>2. g[i - 1] = f[i - 1]
      BY <1>8, <3>1
    <3>3. g[i] = f[i]
      BY <1>5, <1>6, <1>7, <3>1, <3>2
    <3>4. QED
      BY <2>1, <3>3
  <2>2. CASE i > n
    <3>1. g[i - 1] = f[n]
      BY <1>1, <1>8, <2>2
    <3>2. Collect(g[i - 1], Space) = g[i - 1]
      BY Zenon DEF Collect
    <3>3. g[i] = f[n]
      BY <1>5, <1>7, <2>2, <3>1, <3>2
    <3>4. QED
      BY <1>1, <2>2, <3>3
  <2>3. QED
    BY <1>1, <2>1, <2>2
<1>9. P = 0 .. N
  <2>1. 0 \in P /\ P \in SUBSET (0 .. N)
    BY <1>1, <1>6, <1>7
  <2>2. \A i \in 1 .. N : i - 1 \in P => i \in P
    BY <1>8
  <2> HIDE DEF P
  <2>3. QED
    BY <2>1, <2>2, OneByOne
<1>10. g[N] = f[n]
  <2>1. N \in P /\ (N <= n => N = n)
    BY <1>1, <1>2, <1>4, <1>9
  <2>2. QED
    BY <1>1, <2>1
<1>11. QED
  BY <1>3, <1>6, <1>7, <1>10

(* The pieces of three a sequence is cut into, joined again.               *)
LEMMA PiecesJoin ==
  ASSUME NEW S, NEW w \in Seq(S), NEW q \in Nat \ {0}, Len(w) = 3 * q
  PROVE  FlattenSeq([g \in 1 .. q |-> SubSeq(w, 3 * g - 2, 3 * g)]) = w
<1>1. PICK c : c = [g \in 1 .. q |-> SubSeq(w, 3 * g - 2, 3 * g)]
  OBVIOUS
<1>2. Len(c) = q /\ \A g \in 1 .. q : c[g] = SubSeq(w, 3 * g - 2, 3 * g)
  BY <1>1
<1> DEFINE Sol(f) == f = [i \in 1 .. Len(c) |-> IF i = 1 THEN c[i] ELSE f[i - 1] \o c[i]]
           flat == CHOOSE f : Sol(f)
<1>3. FlattenSeq(c) = flat[Len(c)]
  BY <1>2 DEF FlattenSeq
<1>4. /\ SubSeq(w, 1, 3) = c[1]
      /\ \A g \in 2 .. q : SubSeq(w, 1, 3 * g) = SubSeq(w, 1, 3 * (g - 1)) \o c[g]
  <2>1. ASSUME NEW g \in 2 .. q
        PROVE  SubSeq(w, 1, 3 * g)
                 = SubSeq(w, 1, 3 * (g - 1)) \o SubSeq(w, 3 * g - 2, 3 * g)
    <3>1. PICK m \in Nat : m = 3 * (g - 1) /\ 3 * g - 2 = m + 1 /\ 3 * g = m + 3
                           /\ m + 3 <= Len(w)
      OBVIOUS
    <3>2. SubSeq(w, 1, m + 3) = SubSeq(w, 1, m) \o SubSeq(w, m + 1, m + 3)
      BY <3>1
    <3>3. QED
      BY <3>1, <3>2
  <2>2. ASSUME NEW g \in 2 .. q
        PROVE  SubSeq(w, 1, 3 * g) = SubSeq(w, 1, 3 * (g - 1)) \o c[g]
    <3>1. g \in 1 .. q
      OBVIOUS
    <3>2. QED
      BY <1>2, <2>1, <3>1, Zenon
  <2>3. 1 \in 1 .. q /\ 3 * 1 - 2 = 1 /\ 3 * 1 = 3
    OBVIOUS
  <2>4. SubSeq(w, 1, 3) = c[1]
    BY <1>2, <2>3
  <2>5. QED
    BY <2>2, <2>4
<1>5. Sol(flat)
  <2>1. PICK f : f = [g \in 1 .. q |-> SubSeq(w, 1, 3 * g)]
    OBVIOUS
  <2>2. ASSUME NEW i \in 1 .. q
        PROVE  f[i] = IF i = 1 THEN c[i] ELSE f[i - 1] \o c[i]
    <3>1. CASE i = 1
      BY <1>4, <2>1, <3>1
    <3>2. CASE i # 1
      <4>1. i \in 2 .. q /\ i - 1 \in 1 .. q
        BY <3>2
      <4>2. QED
        BY <1>4, <2>1, <3>2, <4>1
    <3>3. QED
      BY <3>1, <3>2
  <2>3. Sol(f)
    BY <1>2, <2>1, <2>2
  <2>4. QED
    BY <2>3
<1> HIDE DEF flat
<1> DEFINE P == {i \in 0 .. q : i = 0 \/ flat[i] = SubSeq(w, 1, 3 * i)}
<1>6. \A i \in 1 .. q : i - 1 \in P => i \in P
  <2> SUFFICES ASSUME NEW i \in 1 .. q, i - 1 \in P PROVE i \in P
    OBVIOUS
  <2>1. flat[i] = IF i = 1 THEN c[i] ELSE flat[i - 1] \o c[i]
    BY <1>2, <1>5
  <2>2. CASE i = 1
    BY <1>4, <2>1, <2>2
  <2>3. CASE i # 1
    <3>1. i \in 2 .. q /\ flat[i - 1] = SubSeq(w, 1, 3 * (i - 1))
      BY <2>3
    <3>2. flat[i] = SubSeq(w, 1, 3 * i)
      BY <1>4, <2>1, <2>3, <3>1, Zenon
    <3>3. QED
      BY <3>2
  <2>4. QED
    BY <2>2, <2>3
<1>7. 0 \in P /\ P \in SUBSET (0 .. q)
  OBVIOUS
<1>8. q \in P
  <2> HIDE DEF P
  <2>1. QED
    BY <1>6, <1>7, OneByOne
<1>9. flat[q] = SubSeq(w, 1, Len(w))
  BY <1>8
<1>10. QED
  BY <1>1, <1>2, <1>3, <1>9

(* A group of four characters, for itself, is the three bytes it encodes.  *)
LEMMA GroupDecrypts ==
  ASSUME NEW w \in Seq(Byte), NEW q \in Nat, Len(w) = 3 * q, NEW g \in 1 .. q
  PROVE  DeCrypt(SubSeq(MixFour(Encode(w)), 4 * g - 3, 4 * g))
           = SubSeq(w, 3 * g - 2, 3 * g)
<1>1. PICK h \in Nat : g = h + 1
  <2>1. g - 1 \in Nat /\ g = (g - 1) + 1
    OBVIOUS
  <2>2. QED
    BY <2>1
<1>2. PICK c \in Seq(Byte) : /\ c = SubSeq(w, 3 * g - 2, 3 * g)
                             /\ Len(c) = 3
                             /\ c[1] = w[3 * h + 1] /\ c[2] = w[3 * h + 2]
                             /\ c[3] = w[3 * h + 3]
  <2>1. 3 * g - 2 = 3 * h + 1 /\ 3 * g = 3 * h + 3 /\ 3 * h + 3 <= Len(w)
    BY <1>1
  <2>2. PICK m \in Nat : m = 3 * h /\ m + 3 <= Len(w)
    BY <2>1
  <2>3. SubSeq(w, m + 1, m + 3) \in Seq(Byte)
    BY <2>2
  <2>4. PICK c \in Seq(Byte) : c = SubSeq(w, m + 1, m + 3)
    BY <2>3
  <2>5. Len(c) = 3 /\ c[1] = w[m + 1] /\ c[2] = w[m + 2] /\ c[3] = w[m + 3]
    BY <2>2, <2>4
  <2>6. c = SubSeq(w, 3 * g - 2, 3 * g)
    BY <2>1, <2>2, <2>4
  <2>7. QED
    BY <2>2, <2>5, <2>6
<1>3. PICK e \in Seq(Sextet) : e = Encode(w) /\ Len(e) = 4 * q
  <2>1. Len(w) \div 3 = q
    OBVIOUS
  <2>2. QED
    BY <2>1, EncodeType
<1>4. PICK d \in Seq(Sextet) : d = Encode(c) /\ Len(d) = 4
  <2>1. 4 * (Len(c) \div 3) = 4
    BY <1>2
  <2>2. Encode(c) \in Seq(Sextet) /\ Len(Encode(c)) = 4 * (Len(c) \div 3)
    BY EncodeType, Zenon
  <2>3. QED
    BY <2>1, <2>2
<1>5. PICK x \in Seq(Sextet) : x = MixFour(e) /\ Len(x) = 4 * q
  BY <1>3, FromType, PermuteType DEF MixFour
<1>6. PICK y \in Seq(Sextet) : y = MixFour(d) /\ Len(y) = 4
  BY <1>4, FromType, PermuteType DEF MixFour
<1>7. ASSUME NEW k \in 1 .. 4 PROVE x[4 * h + k] = y[k]
  <2>1. PICK from \in [1 .. 4 -> 1 .. 4] : from = MixedFrom
    BY FromType
  <2>2. PICK j \in 1 .. 4 : j = from[k]
    OBVIOUS
  <2>3. x[4 * h + k] = e[4 * h + j]
    <3>1. Grouped(e, h, k)
      BY <1>1, <1>3 DEF Grouped
    <3>2. Moved(from, e, h, k)
      BY <3>1, PermuteAt
    <3>3. QED
      BY <1>5, <2>1, <2>2, <3>2 DEF MixFour, Moved
  <2>7. y[k] = d[j]
    <3>1. PICK z \in Nat : z = 0
      OBVIOUS
    <3>2. Grouped(d, z, k)
      BY <1>4, <3>1 DEF Grouped
    <3>3. Moved(from, d, z, k)
      BY <3>2, PermuteAt
    <3>4. Permute(from, d)[4 * z + k] = d[4 * z + from[k]]
      BY <3>3 DEF Moved
    <3>5. 4 * z + k = k /\ 4 * z + from[k] = j
      BY <2>2, <3>1
    <3>6. QED
      BY <1>6, <2>1, <3>4, <3>5 DEF MixFour
  <2>4. e[4 * h + j] = EncodeGroup(w[3 * h + 1], w[3 * h + 2], w[3 * h + 3])[j]
    <3>1. h < Len(w) \div 3
      BY <1>1
    <3>2. QED
      BY <1>3, <3>1, EncodeAt
  <2>5. d[j] = EncodeGroup(c[1], c[2], c[3])[j]
    <3>1. PICK z \in Nat : z = 0 /\ z < Len(c) \div 3
      BY <1>2
    <3>2. Encode(c)[4 * z + j]
            = EncodeGroup(c[3 * z + 1], c[3 * z + 2], c[3 * z + 3])[j]
      BY <3>1, EncodeAt
    <3>3. 4 * z + j = j /\ 3 * z + 1 = 1 /\ 3 * z + 2 = 2 /\ 3 * z + 3 = 3
      BY <3>1
    <3>4. QED
      BY <1>4, <3>2, <3>3
  <2>6. QED
    BY <1>2, <2>3, <2>4, <2>5, <2>7
<1>8. SubSeq(x, 4 * g - 3, 4 * g) = y
  <2>1. 4 * g - 3 = 4 * h + 1 /\ 4 * g = 4 * h + 4 /\ 4 * h + 4 <= Len(x)
    BY <1>1, <1>5
  <2>2. /\ SubSeq(x, 4 * h + 1, 4 * h + 4) \in Seq(Sextet)
        /\ Len(SubSeq(x, 4 * h + 1, 4 * h + 4)) = 4
        /\ \A k \in 1 .. 4 : SubSeq(x, 4 * h + 1, 4 * h + 4)[k] = x[4 * h + k]
    BY <2>1
  <2>3. PICK z \in Seq(Sextet) : z = SubSeq(x, 4 * h + 1, 4 * h + 4)
    BY <2>2
  <2>4. Len(z) = 4 /\ \A k \in 1 .. 4 : z[k] = y[k]
    BY <1>7, <2>2, <2>3
  <2>5. z = y
    <3>1. Len(z) = Len(y) /\ \A k \in 1 .. Len(z) : z[k] = y[k]
      BY <1>6, <2>4, Zenon
    <3>2. z \in [1 .. Len(z) -> Sextet]
      OBVIOUS
    <3>3. y \in [1 .. Len(y) -> Sextet]
      OBVIOUS
    <3>4. PICK D : D = 1 .. Len(z)
      OBVIOUS
    <3>5. z \in [D -> Sextet] /\ y \in [D -> Sextet] /\ \A k \in D : z[k] = y[k]
      BY <3>1, <3>2, <3>3, <3>4, Zenon
    <3>6. QED
      BY <3>5
  <2>6. QED
    BY <2>1, <2>3, <2>5
<1>9. DeCrypt(y) = c
  <2>1. CipherLen(3) = 4 /\ PadLen(3) = 0
    BY DEF CipherLen, PadLen
  <2>7. CipherLen(Len(c)) = 4 /\ PadLen(Len(c)) = 0
    BY <1>2, <2>1
  <2>8. [i \in 1 .. 0 |-> Space] = <<>> /\ c \o <<>> = c
    OBVIOUS
  <2>2. WithSpaces(c) = c
    BY <2>7, <2>8, Zenon DEF WithSpaces
  <2>3. EncryPt(c, 4) = y
    BY <1>4, <1>6, <2>2, <2>7 DEF EncryPt
  <2>4. CipherLen(Len(c)) <= 4 /\ 4 \in Nat
    BY <2>7
  <2>5. DeCrypt(EncryPt(c, 4)) = WithSpaces(c)
    BY <2>4, EncryptionUndone
  <2>6. QED
    BY <2>2, <2>3, <2>5
<1>10. QED
  BY <1>2, <1>3, <1>5, <1>8, <1>9

(* Characters that fill no group hold no text.                             *)
LEMMA NoGroup ==
  ASSUME NEW s \in Seq(Char), Len(s) < 4
  PROVE  ByGroups(s) = <<>>
<1>1. Len(s) \div 4 = 0
  OBVIOUS
<1>2. PICK c : c = [g \in 1 .. Len(s) \div 4 |-> DeCrypt(SubSeq(s, 4 * g - 3, 4 * g))]
  OBVIOUS
<1>3. c = <<>>
  BY <1>1, <1>2
<1>4. ByGroups(s) = FlattenSeq(c)
  BY <1>2, Zenon DEF ByGroups
<1>5. Len(<<>>) = 0
  OBVIOUS
<1>6. FlattenSeq(c) = <<>>
  BY <1>3, <1>5, Zenon DEF FlattenSeq
<1>7. QED
  BY <1>4, <1>6

(* What EncryPt writes is the text again, group by group, also with the    *)
(* characters behind it that DeCrypt had left.                             *)
LEMMA GroupsOfCipher ==
  ASSUME NEW bytes \in Seq(Byte) \ {<<>>}, NEW room \in Nat,
         CipherLen(Len(bytes)) <= room,
         NEW tail \in Seq(Char), Len(tail) < 4
  PROVE  ByGroups(EncryPt(bytes, room) \o tail) = WithSpaces(bytes)
<1>1. PICK n \in Nat \ {0} : n = Len(bytes)
  OBVIOUS
<1>2. PICK w \in Seq(Byte) : /\ w = WithSpaces(bytes) /\ Len(w) % 3 = 0
                             /\ Len(w) = n + PadLen(n)
  BY <1>1, WithSpacesType
<1>3. PICK q \in Nat \ {0} : Len(w) = 3 * q
  <2>1. PadLen(n) \in Nat
    BY PadLenNat
  <2>2. PICK m \in Nat \ {0} : m = Len(w) /\ m % 3 = 0
    BY <1>1, <1>2, <2>1
  <2>3. m \div 3 \in Nat \ {0} /\ m = 3 * (m \div 3)
    BY <2>2
  <2>4. QED
    BY <2>2, <2>3
<1>4. PICK x \in Seq(Sextet) : x = MixFour(Encode(w)) /\ Len(x) = 4 * q
  <2>1. PICK e \in Seq(Sextet) : e = Encode(w) /\ Len(e) = 4 * (Len(w) \div 3)
    BY EncodeType
  <2>2. Len(w) \div 3 = q
    BY <1>3
  <2>3. MixFour(e) \in Seq(Sextet) /\ Len(MixFour(e)) = Len(e)
    BY FromType, PermuteType DEF MixFour
  <2>4. QED
    BY <2>1, <2>2, <2>3
<1>5. EncryPt(bytes, room) = x
  <2>1. CipherLen(n) \in Nat
    BY CipherLenNat
  <2>2. ~(CipherLen(Len(bytes)) > room)
    BY <1>1, <2>1
  <2>3. QED
    BY <1>2, <1>4, <2>2, Zenon DEF EncryPt
<1>6. PICK s \in Seq(Char) : /\ s = x \o tail /\ Len(s) = 4 * q + Len(tail)
                             /\ \A i \in 1 .. 4 * q : s[i] = x[i]
  <2>1. x \in Seq(Char)
    BY DEF Char
  <2>2. x \o tail \in Seq(Char) /\ Len(x \o tail) = Len(x) + Len(tail)
    BY <2>1, ConcatType
  <2>3. \A i \in 1 .. Len(x) : (x \o tail)[i] = x[i]
    OBVIOUS
  <2>4. QED
    BY <1>4, <2>2, <2>3
<1>7. Len(s) \div 4 = q
  <2>1. PICK r \in Nat : r = Len(tail) /\ r < 4
    OBVIOUS
  <2>2. PICK k \in 1 .. 4 : k = r + 1
    BY <2>1
  <2>3. (4 * q + k - 1) \div 4 = q
    BY FourPlaces
  <2>4. 4 * q + k - 1 = Len(s)
    BY <1>6, <2>1, <2>2
  <2>5. QED
    BY <2>3, <2>4
<1>8. ASSUME NEW g \in 1 .. q
      PROVE  DeCrypt(SubSeq(s, 4 * g - 3, 4 * g)) = SubSeq(w, 3 * g - 2, 3 * g)
  <2>1. SubSeq(s, 4 * g - 3, 4 * g) = SubSeq(x, 4 * g - 3, 4 * g)
    <3>1. 4 * g - 3 \in Nat \ {0} /\ 4 * g \in Nat /\ 4 * g <= 4 * q
      OBVIOUS
    <3>2. \A i \in 4 * g - 3 .. 4 * g : s[i] = x[i]
      BY <1>6, <3>1
    <3>3. QED
      BY <1>4, <1>6, <3>1, <3>2
  <2>2. DeCrypt(SubSeq(x, 4 * g - 3, 4 * g)) = SubSeq(w, 3 * g - 2, 3 * g)
    BY <1>3, <1>4, GroupDecrypts
  <2>3. QED
    BY <2>1, <2>2
<1>9. ByGroups(s) = FlattenSeq([g \in 1 .. q |-> SubSeq(w, 3 * g - 2, 3 * g)])
  <2>1. [g \in 1 .. Len(s) \div 4 |-> DeCrypt(SubSeq(s, 4 * g - 3, 4 * g))]
          = [g \in 1 .. q |-> SubSeq(w, 3 * g - 2, 3 * g)]
    BY <1>7, <1>8
  <2>2. QED
    BY <2>1, Zenon DEF ByGroups
<1>10. ByGroups(s) = w
  BY <1>3, <1>9, PiecesJoin
<1>11. QED
  BY <1>2, <1>5, <1>6, <1>10

(* No packet is in no text.                                                *)
LEMMA NothingHasNone ==
  PacketsOf(<<>>) = <<>>
<1>1. PICK e \in Seq(Byte) : e = <<>> /\ Len(e) = 0
  <2>1. <<>> \in Seq(Byte) /\ Len(<<>>) = 0
    OBVIOUS
  <2>2. QED
    BY <2>1, Zenon
<1>2. PICK f : f[0] = NoPackets /\ PacketsOf(e) = f[Len(e)].packets
  BY PacketScan
<1>3. f[Len(e)] = NoPackets
  BY <1>1, <1>2
<1>4. QED
  BY <1>1, <1>2, <1>3 DEF NoPackets

(* The packets of what is written back to the buffer are those of the rest *)
(* that was written, with and without encryption.                          *)
LEMMA StoredKeepsPackets ==
  ASSUME TypeOK, NEW rest \in Seq(Byte), Len(rest) <= Len(Plain(buf))
  PROVE  PacketsOf(Text(Stored(rest))) = PacketsOf(rest)
<1>1. CASE crypt
  <2>1. buf \in Seq(Char) /\ Len(buf) \in Nat /\ Len(buf) <= BufSize
    BY <1>1 DEF TypeOK
  <2>2. PICK kept \in Seq(Char) : kept = LeftOver(buf) /\ kept = Kept(buf) /\ Len(kept) < 4
    BY <1>1, <2>1, WholeType DEF Kept
  <2>3. CASE rest = <<>>
    <3>1. <<>> \o kept = kept
      OBVIOUS
    <3>2. Stored(rest) = kept
      BY <2>2, <2>3, <3>1, Zenon DEF Stored
    <3>3. Text(Stored(rest)) = <<>>
      BY <1>1, <2>2, <3>2, NoGroup DEF Text
    <3>4. QED
      BY <2>3, <3>3
  <2>4. CASE rest # <<>>
    <3>1. CipherLen(Len(rest)) <= BufSize
      <4>1. PICK n \in Nat : n = Len(rest)
        OBVIOUS
      <4>2. PICK d \in Nat : d = DecodedLen(DeMixFour(Whole(buf)))
        BY <2>1, DeCryptType
      <4>3. Len(Plain(buf)) \in Nat /\ Len(Plain(buf)) <= d
        BY <1>1, <4>2, PlainType
      <4>4. n <= DecodedLen(DeMixFour(Whole(buf)))
        BY <4>1, <4>2, <4>3
      <4>5. CipherLen(n) + Len(kept) <= Len(buf) /\ CipherLen(n) \in Nat
        BY <2>1, <2>2, <4>4, EncryptedAgainFits, CipherLenNat
      <4>6. BufSize \in Nat /\ Len(kept) \in Nat
        BY ParserAssumption DEF ParserAssumption
      <4>7. QED
        BY <2>1, <4>1, <4>5, <4>6
    <3>2. Stored(rest) = EncryPt(rest, BufSize) \o kept
      BY <1>1, <2>2, <2>4, Zenon DEF Stored
    <3>3. BufSize \in Nat
      BY ParserAssumption DEF ParserAssumption
    <3>4. ByGroups(EncryPt(rest, BufSize) \o kept) = WithSpaces(rest)
      BY <2>2, <2>4, <3>1, <3>3, GroupsOfCipher
    <3>5. Text(Stored(rest)) = WithSpaces(rest)
      BY <1>1, <3>2, <3>4, Zenon DEF Text
    <3>6. QED
      BY <3>5, SpacesDontMatter
  <2>5. QED
    BY <2>3, <2>4
<1>2. CASE ~crypt
  <2>1. rest \o <<>> = rest
    OBVIOUS
  <2>2. Stored(rest) = rest
    BY <1>2, <2>1, Zenon DEF Stored, Kept
  <2>3. QED
    BY <1>2, <2>2, Zenon DEF Text
<1>3. QED
  BY <1>1, <1>2

(* A reader that waits for the network has no complete packet left in its  *)
(* buffer, however the network cut the bytes and whatever was taken out of *)
(* the buffer, damaged or not (new/server_tcp.go:268-300,                  *)
(* new/main.go:362-453).                                                   *)
THEOREM NoneEverWaits == Spec => []NoneWaits
<1>1. Init => NoneWaits
  <2> SUFFICES ASSUME Init PROVE NoneWaits
    OBVIOUS
  <2>1. buf = <<>>
    BY DEF Init
  <2>2. <<>> \in Seq(Char) /\ Len(<<>>) < 4
    OBVIOUS
  <2>3. ByGroups(<<>>) = <<>>
    BY <2>2, NoGroup
  <2>4. Text(buf) = <<>>
    BY <2>1, <2>3, Zenon DEF Text
  <2>5. QED
    BY <2>4, NothingHasNone, Zenon DEF NoneWaits
<1>2. TypeOK /\ NoneWaits /\ [Next]_vars => NoneWaits'
  <2> SUFFICES ASSUME TypeOK, NoneWaits, [Next]_vars PROVE NoneWaits'
    OBVIOUS
  <2>1. CASE (\E m \in Messages : Send(m)) \/ UNCHANGED vars
    <3>1. UNCHANGED <<crypt, buf, stage>>
      BY <2>1 DEF Send, vars
    <3>2. QED
      BY <3>1, Zenon DEF NoneWaits, Text
  <2>2. CASE Read
    <3>1. stage' = "parse"
      BY <2>2, Zenon DEF Read
    <3>2. QED
      BY <3>1 DEF NoneWaits
  <2>3. CASE ParsePanics
    <3>1. stage' = "panicked"
      BY <2>3, Zenon DEF ParsePanics
    <3>2. QED
      BY <3>1 DEF NoneWaits
  <2>4. CASE ParsePacket
    <3>1. stage' = "parse"
      BY <2>4, Zenon DEF ParsePacket, Turn, Again
    <3>2. QED
      BY <3>1 DEF NoneWaits
  <2>5. CASE ParseNothing
    <3>1. PICK body \in Seq(Byte) :
            body = WithoutBeats(Plain(buf)) /\ Len(body) <= Len(Plain(buf))
      BY BodyType
    <3>2. ~Found(checkMayJson(body)) /\ buf' = Stored(body) /\ crypt' = crypt
      BY <2>5, <3>1, Zenon DEF ParseNothing
    <3>3. PacketsOf(body) = <<>>
      BY <3>2, NothingIsMissed
    <3>4. PacketsOf(Text(Stored(body))) = <<>>
      BY <3>1, <3>3, StoredKeepsPackets
    <3>5. QED
      BY <3>2, <3>4, Zenon DEF NoneWaits, Text
  <2>6. QED
    BY <2>1, <2>2, <2>3, <2>4, <2>5 DEF Next, Parse
<1>3. QED
  BY <1>1, <1>2, ParserTypeCorrect, PTL DEF Spec

-----------------------------------------------------------------------------
(* What one byte does to the state of the reference, case by case.         *)
LEMMA CollectSkips ==
  ASSUME NEW r, NEW b, b = Space \/ (b # Open /\ r.depth = 0)
  PROVE  Collect(r, b) = r
BY Zenon DEF Collect

(* The bracket that closes a packet.                                       *)
LEMMA CollectCloses ==
  ASSUME NEW r, r.depth = 1
  PROVE  Collect(r, Close)
           = [depth |-> 0, packet |-> <<>>,
              packets |-> Append(r.packets, Append(r.packet, Close))]
<1>1. ~(Close = Space \/ (Close # Open /\ r.depth = 0))
  BY DEF Open, Close, Space
<1>2. QED
  BY <1>1, Zenon DEF Collect

(* A byte of a packet that does not close it.                              *)
LEMMA CollectGoesOn ==
  ASSUME NEW r, NEW b, ~(b = Space \/ (b # Open /\ r.depth = 0)),
         ~(b = Close /\ r.depth = 1)
  PROVE  Collect(r, b) =
           [depth |-> CASE b = Open -> r.depth + 1
                        [] b = Close -> r.depth - 1
                        [] OTHER -> r.depth,
            packet |-> Append(r.packet, b), packets |-> r.packets]
BY Zenon DEF Collect

(* Only brackets change the depth, by one.                                 *)
LEMMA CollectDepth ==
  ASSUME NEW r \in Collected, NEW b \in Byte
  PROVE  /\ b = Open => Collect(r, b).depth = r.depth + 1
         /\ b = Close /\ r.depth > 0 => Collect(r, b).depth = r.depth - 1
         /\ b # Open /\ b # Close => Collect(r, b).depth = r.depth
<1>1. PICK d \in Nat : d = r.depth
  BY DEF Collected
<1>2. CASE b = Space \/ (b # Open /\ d = 0)
  <2>1. Collect(r, b) = r
    BY <1>1, <1>2, CollectSkips
  <2>2. QED
    BY <1>1, <1>2, <2>1 DEF Open, Close, Space
<1>3. CASE b = Close /\ d = 1
  <2>1. PICK x : Collect(r, Close) = [depth |-> 0, packet |-> <<>>, packets |-> x]
    BY <1>1, <1>3, CollectCloses, Zenon
  <2>2. QED
    BY <1>1, <1>3, <2>1 DEF Open, Close
<1>4. CASE ~(b = Space \/ (b # Open /\ d = 0)) /\ ~(b = Close /\ d = 1)
  <2>1. Collect(r, b).depth = CASE b = Open -> d + 1
                                [] b = Close -> d - 1
                                [] OTHER -> d
    BY <1>1, <1>4, CollectGoesOn
  <2>2. QED
    BY <1>1, <2>1 DEF Open, Close
<1>5. QED
  BY <1>2, <1>3, <1>4

(* Outside packets there is no packet that is begun.                       *)
Settled(r) == r.depth = 0 => r.packet = <<>>

LEMMA CollectSettles ==
  ASSUME NEW r \in Collected, NEW b \in Byte, Settled(r)
  PROVE  Settled(Collect(r, b))
<1> USE DEF Settled
<1>1. PICK d \in Nat : d = r.depth
  BY DEF Collected
<1>2. CASE b = Space \/ (b # Open /\ d = 0)
  BY <1>1, <1>2, CollectSkips
<1>3. CASE b = Close /\ d = 1
  <2>1. PICK x : Collect(r, Close) = [depth |-> 0, packet |-> <<>>, packets |-> x]
    BY <1>1, <1>3, CollectCloses, Zenon
  <2>2. QED
    BY <1>3, <2>1
<1>4. CASE ~(b = Space \/ (b # Open /\ d = 0)) /\ ~(b = Close /\ d = 1)
  <2>1. Collect(r, b).depth = CASE b = Open -> d + 1
                                [] b = Close -> d - 1
                                [] OTHER -> d
    BY <1>1, <1>4, CollectGoesOn
  <2>2. Collect(r, b).depth # 0
    BY <1>1, <1>4, <2>1 DEF Open, Close
  <2>3. QED
    BY <2>2
<1>5. QED
  BY <1>2, <1>3, <1>4

(* No packet is begun outside brackets, all along a text.                  *)
LEMMA ScanSettles ==
  ASSUME NEW s \in Seq(Byte), NEW i \in 0 .. Len(s)
  PROVE  Settled(Scan(s)[i])
<1>1. PICK N \in Nat : N = Len(s)
  OBVIOUS
<1> DEFINE P == {j \in 0 .. N : Settled(Scan(s)[j])}
<1>2. Settled(NoPackets)
  BY DEF Settled, NoPackets
<1>3. 0 \in P /\ P \in SUBSET (0 .. N)
  BY <1>2, ScanFacts
<1>4. ASSUME NEW j \in 1 .. N, j - 1 \in P PROVE j \in P
  <2>1. PICK r \in Collected, b \in Byte :
          r = Scan(s)[j - 1] /\ b = s[j] /\ Scan(s)[j] = Collect(r, b)
    <3>1. j - 1 \in 0 .. N
      OBVIOUS
    <3>2. QED
      BY <1>1, <3>1, ScanFacts
  <2>2. Settled(r)
    BY <1>4, <2>1
  <2>3. QED
    BY <2>1, <2>2, CollectSettles
<1> HIDE DEF P
<1>5. P = 0 .. N
  BY <1>3, <1>4, OneByOne
<1>6. QED
  BY <1>1, <1>5 DEF P

(* Two readings that differ by packets which only one of them has seen.    *)
Like(r, q, ps) ==
  r.depth = q.depth /\ r.packet = q.packet /\ r.packets = ps \o q.packets

AppendJoins(s, t, x) == Append(s \o t, x) = s \o Append(t, x)

(* A value behind two joined sequences is behind the second.               *)
LEMMA AppendToJoined ==
  ASSUME NEW S, NEW s \in Seq(S), NEW t \in Seq(S), NEW x \in S
  PROVE  AppendJoins(s, t, x)
<1>1. Append(s \o t, x) = (s \o t) \o <<x>> /\ Append(t, x) = t \o <<x>>
  OBVIOUS
<1>2. QED
  BY <1>1 DEF AppendJoins

LEMMA CollectLike ==
  ASSUME NEW r \in Collected, NEW q \in Collected, NEW ps \in Seq(Seq(Byte)),
         NEW b \in Byte, Like(r, q, ps)
  PROVE  Like(Collect(r, b), Collect(q, b), ps)
<1>1. PICK d \in Nat, packet \in Seq(Byte), qs \in Seq(Seq(Byte)) :
        /\ d = r.depth /\ d = q.depth
        /\ packet = r.packet /\ packet = q.packet
        /\ q.packets = qs /\ r.packets = ps \o qs
  BY DEF Like, Collected
<1>2. CASE b = Space \/ (b # Open /\ d = 0)
  BY <1>1, <1>2, CollectSkips
<1>3. CASE b = Close /\ d = 1
  <2>1. PICK more \in Seq(Byte) : more = Append(packet, b)
    <3>1. Append(packet, b) \in Seq(Byte)
      OBVIOUS
    <3>2. QED
      BY <3>1
  <2>2. PICK x, y : x = Append(ps \o qs, more) /\ y = Append(qs, more) /\ x = ps \o y
    <3>1. AppendJoins(ps, qs, more)
      BY AppendToJoined, Zenon
    <3>2. QED
      BY <3>1 DEF AppendJoins
  <2>3. /\ Collect(r, b) = [depth |-> 0, packet |-> <<>>, packets |-> x]
        /\ Collect(q, b) = [depth |-> 0, packet |-> <<>>, packets |-> y]
    <3>1. r.depth = 1 /\ q.depth = 1 /\ b = Close
      BY <1>1, <1>3
    <3>2. /\ Append(r.packets, Append(r.packet, Close)) = x
          /\ Append(q.packets, Append(q.packet, Close)) = y
      BY <1>1, <1>3, <2>1, <2>2, Zenon
    <3>3. QED
      BY <3>1, <3>2, CollectCloses, Zenon
  <2>4. PICK r1, q1 : r1 = Collect(r, b) /\ q1 = Collect(q, b)
    OBVIOUS
  <2>5. r1.depth = 0 /\ r1.packet = <<>> /\ r1.packets = x
    BY <2>3, <2>4
  <2>6. q1.depth = 0 /\ q1.packet = <<>> /\ q1.packets = y
    BY <2>3, <2>4
  <2>7. Like(r1, q1, ps)
    BY <2>2, <2>5, <2>6, Zenon DEF Like
  <2>8. QED
    BY <2>4, <2>7, Zenon
<1>4. CASE ~(b = Space \/ (b # Open /\ d = 0)) /\ ~(b = Close /\ d = 1)
  <2>1. PICK e, more : /\ e = CASE b = Open -> d + 1 [] b = Close -> d - 1 [] OTHER -> d
                       /\ more = Append(packet, b)
    OBVIOUS
  <2>2. ASSUME NEW z \in {r, q}
        PROVE  Collect(z, b) = [depth |-> e, packet |-> more, packets |-> z.packets]
    <3>1. z.depth = d /\ z.packet = packet
      BY <1>1
    <3>2. Collect(z, b) =
            [depth |-> CASE b = Open -> z.depth + 1
                         [] b = Close -> z.depth - 1
                         [] OTHER -> z.depth,
             packet |-> Append(z.packet, b), packets |-> z.packets]
      BY <1>4, <3>1, CollectGoesOn
    <3>3. QED
      BY <2>1, <3>1, <3>2
  <2>3. /\ Collect(r, b) = [depth |-> e, packet |-> more, packets |-> ps \o qs]
        /\ Collect(q, b) = [depth |-> e, packet |-> more, packets |-> qs]
    BY <1>1, <2>2
  <2>4. QED
    BY <2>3 DEF Like
<1>5. QED
  BY <1>2, <1>3, <1>4

(* What is not a bracket leaves the depth as it is, and outside packets    *)
(* everything else, too.                                                   *)
LEMMA DepthStays ==
  ASSUME NEW s \in Seq(Byte), NEW i \in Nat, NEW j \in i .. Len(s),
         \A l \in i + 1 .. j : s[l] # Open /\ s[l] # Close
  PROVE  /\ \A l \in i .. j : Scan(s)[l].depth = Scan(s)[i].depth
         /\ Scan(s)[i].depth = 0 => Scan(s)[j] = Scan(s)[i]
<1>1. PICK N \in Nat, z \in Nat : N = Len(s) /\ z = j - i /\ j <= N
  OBVIOUS
<1>2. PICK f : f = Scan(s)
  OBVIOUS
<1>3. /\ \A l \in 1 .. N : f[l] = Collect(f[l - 1], s[l]) /\ s[l] \in Byte
      /\ \A l \in 0 .. N : f[l] \in Collected
  BY <1>1, <1>2, ScanFacts
<1> DEFINE Same(l) == /\ f[i + l].depth = f[i].depth
                      /\ f[i].depth = 0 => f[i + l] = f[i]
           P == {l \in 0 .. z : Same(l)}
<1>4. ASSUME NEW l \in 1 .. z, Same(l - 1) PROVE Same(l)
  <2>1. PICK r \in Collected, b \in Byte :
          /\ r = f[i + (l - 1)] /\ b = s[i + l] /\ f[i + l] = Collect(r, b)
          /\ b # Open /\ b # Close
    <3>1. /\ i + l \in 1 .. N /\ i + (l - 1) \in 0 .. N /\ (i + l) - 1 = i + (l - 1)
          /\ i + l \in i + 1 .. j
      BY <1>1
    <3>2. QED
      BY <1>3, <3>1
  <2>2. Collect(r, b).depth = r.depth
    BY <2>1, CollectDepth
  <2>3. r.depth = 0 => Collect(r, b) = r
    BY <2>1, CollectSkips
  <2>4. QED
    BY <1>4, <2>1, <2>2, <2>3
<1>5. P = 0 .. z
  <2>1. i + 0 = i
    OBVIOUS
  <2>2. 0 \in P /\ P \in SUBSET (0 .. z)
    BY <2>1
  <2>3. \A l \in 1 .. z : l - 1 \in P => l \in P
    BY <1>4
  <2> HIDE DEF P
  <2>4. QED
    BY <2>2, <2>3, OneByOne
<1>6. ASSUME NEW l \in i .. j PROVE Same(l - i)
  <2>1. l - i \in 0 .. z
    BY <1>1
  <2>2. QED
    BY <1>5, <2>1
<1>7. \A l \in i .. j : i + (l - i) = l
  OBVIOUS
<1>8. ASSUME NEW l \in i .. j
      PROVE  f[l].depth = f[i].depth /\ (f[i].depth = 0 => f[l] = f[i])
  BY <1>6, <1>7
<1>9. QED
  BY <1>2, <1>8

-----------------------------------------------------------------------------
(* R is T with the bytes behind place n, up to place m, taken out and k    *)
(* spaces put in their place.                                              *)
Splices(T, R, n, k, m) ==
  /\ n \in Nat /\ k \in Nat /\ m \in n .. Len(T)
  /\ Len(R) = n + k + (Len(T) - m)
  /\ \A i \in 1 .. n : R[i] = T[i]
  /\ \A i \in n + 1 .. n + k : R[i] = Space
  /\ \A i \in m + 1 .. Len(T) : R[i - m + n + k] = T[i]

ScansAlike(T, R, n, k, m, ps) ==
  /\ \A i \in 0 .. n : Scan(R)[i] = Scan(T)[i]
  /\ \A i \in n .. n + k : Scan(R)[i] = Scan(T)[n]
  /\ \A i \in m .. Len(T) : Like(Scan(T)[i], Scan(R)[i - m + n + k], ps)

(* Two texts that go on alike from m and from n are read alike.            *)
LEMMA ScansSpliced ==
  ASSUME NEW T \in Seq(Byte), NEW R \in Seq(Byte), NEW n, NEW k, NEW m,
         Splices(T, R, n, k, m), NEW ps \in Seq(Seq(Byte)),
         Like(Scan(T)[m], Scan(T)[n], ps)
  PROVE  ScansAlike(T, R, n, k, m, ps)
<1>1. PICK N \in Nat, L \in Nat, z \in Nat :
        /\ N = Len(T) /\ L = Len(R) /\ z = N - m /\ L = n + k + z
        /\ n \in Nat /\ k \in Nat /\ m \in Nat /\ m = N - z /\ n <= m
  <2>1. n \in Nat /\ k \in Nat /\ m \in n .. Len(T) /\ Len(R) = n + k + (Len(T) - m)
    BY Zenon DEF Splices
  <2>2. PICK N \in Nat, L \in Nat : N = Len(T) /\ L = Len(R)
    OBVIOUS
  <2>3. N - m \in Nat /\ m \in Nat /\ m = N - (N - m) /\ n <= m
    BY <2>1, <2>2
  <2>4. QED
    BY <2>1, <2>2, <2>3
<1>2. PICK f, g : f = Scan(T) /\ g = Scan(R)
  OBVIOUS
<1>3. /\ f[0] = NoPackets /\ g[0] = NoPackets
      /\ \A i \in 1 .. N : f[i] = Collect(f[i - 1], T[i]) /\ T[i] \in Byte
      /\ \A i \in 1 .. L : g[i] = Collect(g[i - 1], R[i])
      /\ \A i \in 0 .. N : f[i] \in Collected
      /\ \A i \in 0 .. L : g[i] \in Collected
  <2>1. \A i \in 1 .. N : T[i] \in Byte
    BY <1>1
  <2>2. QED
    BY <1>1, <1>2, <2>1, ScanFacts, Zenon
<1>4. \A i \in 0 .. n : g[i] = f[i]
  <2> DEFINE P == {i \in 0 .. n : g[i] = f[i]}
  <2>1. 0 \in P /\ P \in SUBSET (0 .. n)
    BY <1>1, <1>3
  <2>2. ASSUME NEW i \in 1 .. n, i - 1 \in P PROVE i \in P
    <3>1. i \in 1 .. N /\ i \in 1 .. L /\ R[i] = T[i]
      BY <1>1 DEF Splices
    <3>2. g[i - 1] = f[i - 1]
      BY <2>2
    <3>3. g[i] = f[i]
      BY <1>3, <3>1, <3>2
    <3>4. QED
      BY <1>1, <3>3
  <2> HIDE DEF P
  <2>3. P = 0 .. n
    BY <1>1, <2>1, <2>2, OneByOne
  <2>4. QED
    BY <2>3 DEF P
<1>5. \A i \in 0 .. k : g[n + i] = f[n]
  <2> DEFINE P == {i \in 0 .. k : g[n + i] = f[n]}
  <2>1. 0 \in P /\ P \in SUBSET (0 .. k)
    <3>1. n + 0 = n /\ n \in 0 .. n /\ 0 \in 0 .. k
      BY <1>1
    <3>2. QED
      BY <1>4, <3>1
  <2>2. ASSUME NEW i \in 1 .. k, i - 1 \in P PROVE i \in P
    <3>1. /\ n + i \in 1 .. L /\ R[n + i] = Space
          /\ (n + i) - 1 = n + (i - 1)
      <4>1. /\ n + i \in 1 .. L /\ (n + i) - 1 = n + (i - 1)
            /\ n + i \in n + 1 .. n + k
        BY <1>1
      <4>2. \A j \in n + 1 .. n + k : R[j] = Space
        BY Zenon DEF Splices
      <4>3. QED
        BY <4>1, <4>2
    <3>2. g[n + (i - 1)] = f[n]
      BY <2>2
    <3>3. g[n + i] = Collect(f[n], Space)
      BY <1>3, <3>1, <3>2
    <3>4. Collect(f[n], Space) = f[n]
      BY CollectSkips
    <3>5. QED
      BY <3>3, <3>4
  <2> HIDE DEF P
  <2>3. P = 0 .. k
    BY <1>1, <2>1, <2>2, OneByOne
  <2>4. QED
    BY <2>3 DEF P
<1>6. \A i \in 0 .. z : Like(f[m + i], g[n + k + i], ps)
  <2> DEFINE P == {i \in 0 .. z : Like(f[m + i], g[n + k + i], ps)}
  <2>1. 0 \in P /\ P \in SUBSET (0 .. z)
    <3>1. m + 0 = m /\ n + k + 0 = n + k /\ k \in 0 .. k /\ 0 \in 0 .. z
      BY <1>1
    <3>2. g[n + k] = f[n]
      BY <1>5, <3>1
    <3>3. Like(f[m + 0], g[n + k + 0], ps)
      BY <1>2, <3>1, <3>2
    <3>4. QED
      BY <3>1, <3>3
  <2>2. ASSUME NEW i \in 1 .. z, i - 1 \in P PROVE i \in P
    <3>1. PICK u \in 1 .. N, v \in 1 .. L : u = m + i /\ v = n + k + i
      BY <1>1
    <3>2. /\ R[v] = T[u] /\ T[u] \in Byte
          /\ u - 1 = m + (i - 1) /\ v - 1 = n + k + (i - 1)
          /\ u - 1 \in 0 .. N /\ v - 1 \in 0 .. L
      <4>1. u \in m + 1 .. Len(T) /\ u - m + n + k = v
        BY <1>1, <3>1
      <4>2. R[v] = T[u]
        BY <4>1 DEF Splices
      <4>3. QED
        BY <1>1, <1>3, <3>1, <4>2
    <3>3. Like(f[u - 1], g[v - 1], ps)
      BY <2>2, <3>2
    <3>4. Like(Collect(f[u - 1], T[u]), Collect(g[v - 1], T[u]), ps)
      BY <1>3, <3>2, <3>3, CollectLike
    <3>5. Like(f[u], g[v], ps)
      BY <1>3, <3>2, <3>4
    <3>6. QED
      BY <3>1, <3>5
  <2> HIDE DEF P
  <2>3. P = 0 .. z
    BY <1>1, <2>1, <2>2, OneByOne
  <2>4. QED
    BY <2>3 DEF P
<1>7. ASSUME NEW i \in n .. n + k PROVE g[i] = f[n]
  <2>1. i - n \in 0 .. k /\ n + (i - n) = i
    BY <1>1
  <2>2. QED
    BY <1>5, <2>1
<1>8. ASSUME NEW i \in m .. N PROVE Like(f[i], g[i - m + n + k], ps)
  <2>1. i - m \in 0 .. z /\ m + (i - m) = i /\ n + k + (i - m) = i - m + n + k
    BY <1>1
  <2>2. QED
    BY <1>6, <2>1
<1>9. QED
  BY <1>1, <1>2, <1>4, <1>7, <1>8 DEF ScansAlike

(* Such a text stays tidy and has the other packets, in the same order.    *)
Leaves(T, R, ps) == Tidy(R) /\ PacketsOf(T) = ps \o PacketsOf(R)

(* The heartbeat has at least a byte.                                      *)
LEMMA AliveLen == Len(Alive) \in Nat \ {0}
  BY ParserAssumption DEF ParserAssumption

LEMMA Spliced ==
  ASSUME PlainBeat, NEW T \in Seq(Byte), NEW R \in Seq(Byte), NEW n, NEW k, NEW m,
         Splices(T, R, n, k, m), NEW ps \in Seq(Seq(Byte)),
         Like(Scan(T)[m], Scan(T)[n], ps),
         k > 0 \/ n = m \/ Scan(T)[n].depth = 0, Tidy(T)
  PROVE  Leaves(T, R, ps)
<1>1. PICK N \in Nat, L \in Nat, a \in Nat \ {0} :
        N = Len(T) /\ L = Len(R) /\ a = Len(Alive)
  BY AliveLen
<1>2. /\ n \in Nat /\ k \in Nat /\ m \in Nat /\ n <= m /\ m <= N
      /\ L = n + k + (N - m)
      /\ \A i \in 1 .. n : R[i] = T[i]
      /\ \A i \in n + 1 .. n + k : R[i] = Space
      /\ \A i \in m + 1 .. N : R[i - m + n + k] = T[i]
  <2>1. /\ n \in Nat /\ k \in Nat /\ m \in n .. Len(T)
        /\ Len(R) = n + k + (Len(T) - m)
        /\ \A i \in 1 .. n : R[i] = T[i]
        /\ \A i \in n + 1 .. n + k : R[i] = Space
        /\ \A i \in m + 1 .. Len(T) : R[i - m + n + k] = T[i]
    BY Zenon DEF Splices
  <2>2. m \in Nat /\ n <= m /\ m <= N
    BY <1>1, <2>1
  <2>3. QED
    BY <1>1, <2>1, <2>2, Zenon
<1>3. PICK f, g : f = Scan(T) /\ g = Scan(R)
  OBVIOUS
<1>4. /\ \A i \in 0 .. n : g[i] = f[i]
      /\ \A i \in m .. N : Like(f[i], g[i - m + n + k], ps)
  <2>1. ScansAlike(T, R, n, k, m, ps)
    BY ScansSpliced
  <2>2. QED
    BY <1>1, <1>3, <2>1, Zenon DEF ScansAlike
<1>14. /\ n \in Nat /\ k \in Nat /\ m \in Nat /\ n <= m /\ m <= N
       /\ L = n + k + (N - m)
  BY <1>2
<1>5. /\ \A i \in 1 .. N : T[i] = Close => f[i - 1].depth > 0
      /\ f[N].depth = 0
      /\ \A i \in 0 .. N : BeatsAt(T, i) => f[i].depth = 0
  BY <1>1, <1>3, Zenon DEF Tidy
<1>6. N \in m .. N /\ N - m + n + k = L
  BY <1>2
<1>7. Like(f[N], g[L], ps)
  BY <1>4, <1>6
<1>8. PacketsOf(T) = ps \o PacketsOf(R)
  BY <1>1, <1>3, <1>7, Zenon DEF PacketsOf, Like
<1>9. g[L].depth = 0
  BY <1>5, <1>7 DEF Like
<1>10. ASSUME NEW i \in 1 .. L, R[i] = Close PROVE g[i - 1].depth > 0
  <2>1. CASE i <= n
    <3>1. i \in 1 .. n /\ i \in 1 .. N /\ i - 1 \in 0 .. n
      BY <1>2, <2>1
    <3>2. QED
      BY <1>2, <1>4, <1>5, <1>10, <3>1
  <2>2. CASE n < i /\ i <= n + k
    <3>1. i \in n + 1 .. n + k
      BY <1>2, <2>2
    <3>2. QED
      BY <1>2, <1>10, <3>1 DEF Close, Space
  <2>3. CASE n + k < i
    <3>1. PICK j \in m + 1 .. N : j - m + n + k = i
      <4>1. i - (n + k) + m \in m + 1 .. N /\ (i - (n + k) + m) - m + n + k = i
        BY <1>2, <2>3
      <4>2. QED
        BY <4>1
    <3>2. j \in 1 .. N /\ j - 1 \in m .. N /\ (j - 1) - m + n + k = i - 1
      BY <1>2, <3>1
    <3>3. T[j] = Close
      BY <1>2, <1>10, <3>1
    <3>4. f[j - 1].depth > 0
      BY <1>5, <3>2, <3>3
    <3>5. Like(f[j - 1], g[i - 1], ps)
      BY <1>4, <3>2
    <3>6. QED
      BY <3>4, <3>5 DEF Like
  <2>4. QED
    BY <1>2, <2>1, <2>2, <2>3
<1>11. ASSUME NEW i \in 0 .. L, BeatsAt(R, i) PROVE g[i].depth = 0
  <2>1. i + a <= L /\ \A h \in 1 .. a : R[i + h] = Alive[h]
    BY <1>1, <1>11, Zenon DEF BeatsAt
  <2>2. \A h \in 1 .. a : Alive[h] # Open /\ Alive[h] # Close /\ Alive[h] # Space
    BY <1>1 DEF PlainBeat
  <2>3. CASE i + a <= n
    <3>1. i \in 0 .. N /\ i \in 0 .. n /\ i + a <= N
      BY <1>2, <2>3
    <3>2. ASSUME NEW h \in 1 .. a PROVE T[i + h] = Alive[h]
      <4>1. i + h \in 1 .. n
        BY <1>14, <2>3
      <4>2. QED
        BY <1>2, <2>1, <4>1
    <3>3. BeatsAt(T, i)
      BY <1>1, <3>1, <3>2, Zenon DEF BeatsAt
    <3>4. QED
      BY <1>4, <1>5, <3>1, <3>3
  <2>4. CASE n + k <= i
    <3>1. PICK j \in m .. N : j - m + n + k = i /\ j + a <= N
      <4>1. /\ i - (n + k) + m \in m .. N /\ (i - (n + k) + m) - m + n + k = i
            /\ (i - (n + k) + m) + a <= N
        BY <1>2, <2>1, <2>4
      <4>2. QED
        BY <4>1
    <3>2. ASSUME NEW h \in 1 .. a PROVE T[j + h] = Alive[h]
      <4>1. j + h \in m + 1 .. N /\ (j + h) - m + n + k = i + h
        BY <1>14, <3>1
      <4>2. QED
        BY <1>2, <2>1, <4>1
    <3>3. BeatsAt(T, j)
      BY <1>1, <3>1, <3>2, Zenon DEF BeatsAt
    <3>4. f[j].depth = 0
      <4>1. j \in 0 .. N
        BY <1>2
      <4>2. QED
        BY <1>5, <3>3, <4>1
    <3>5. Like(f[j], g[i], ps)
      BY <1>4, <3>1
    <3>6. QED
      BY <3>4, <3>5 DEF Like
  <2>5. CASE ~(i + a <= n) /\ ~(n + k <= i) /\ k > 0
    <3>1. PICK h \in 1 .. a : i + h \in n + 1 .. n + k
      <4>1. CASE i < n
        <5>1. n + 1 - i \in 1 .. a /\ i + (n + 1 - i) \in n + 1 .. n + k
          BY <1>2, <2>5, <4>1
        <5>2. QED
          BY <5>1
      <4>2. CASE ~(i < n)
        <5>1. 1 \in 1 .. a /\ i + 1 \in n + 1 .. n + k
          BY <1>2, <2>5, <4>2
        <5>2. QED
          BY <5>1
      <4>3. QED
        BY <4>1, <4>2
    <3>2. R[i + h] = Space
      BY <1>2, <3>1
    <3>3. QED
      BY <2>1, <2>2, <3>2
  <2>6. CASE ~(i + a <= n) /\ ~(n + k <= i) /\ ~(k > 0)
    <3>1. k = 0 /\ i < n /\ i \in 0 .. n /\ i \in 0 .. N /\ n \in 0 .. N
      BY <1>2, <2>6
    <3>2. g[i] = f[i]
      BY <1>4, <3>1
    <3>3. CASE n = m
      <4>1. i + a <= N
        BY <1>2, <2>1, <3>1, <3>3
      <4>2. ASSUME NEW h \in 1 .. a PROVE T[i + h] = Alive[h]
        <5>1. CASE i + h <= n
          <6>1. i + h \in 1 .. n
            BY <1>2, <5>1
          <6>2. QED
            BY <1>2, <2>1, <6>1
        <5>2. CASE n < i + h
          <6>1. i + h \in m + 1 .. N /\ (i + h) - m + n + k = i + h
            BY <1>2, <3>1, <3>3, <4>1, <5>2
          <6>2. QED
            BY <1>2, <2>1, <6>1
        <5>3. QED
          BY <1>2, <5>1, <5>2
      <4>3. BeatsAt(T, i)
        BY <1>1, <4>1, <4>2, Zenon DEF BeatsAt
      <4>4. QED
        BY <1>5, <3>1, <3>2, <4>3
    <3>4. CASE f[n].depth = 0
      <4>1. ASSUME NEW l \in i + 1 .. n PROVE T[l] # Open /\ T[l] # Close
        <5>1. l - i \in 1 .. a /\ i + (l - i) = l /\ l \in 1 .. n
          BY <1>2, <2>6, <3>1
        <5>2. T[l] = Alive[l - i]
          BY <1>2, <2>1, <5>1
        <5>3. QED
          BY <2>2, <5>1, <5>2
      <4>2. i \in Nat /\ n \in i .. Len(T) /\ n \in i .. n
        BY <1>1, <1>2, <3>1
      <4>3. f[n].depth = f[i].depth
        BY <1>3, <4>1, <4>2, DepthStays
      <4>4. QED
        BY <3>2, <3>4, <4>3
    <3>5. QED
      BY <1>3, <3>1, <3>3, <3>4
  <2>7. QED
    BY <2>3, <2>4, <2>5, <2>6
<1>12. Tidy(R)
  BY <1>1, <1>3, <1>9, <1>10, <1>11, Zenon DEF Tidy
<1>13. QED
  BY <1>8, <1>12 DEF Leaves

(* R stands in T, behind n bytes.                                          *)
StandsIn(T, R, n) ==
  n \in Nat /\ n + Len(R) <= Len(T) /\ \A i \in 1 .. Len(R) : T[n + i] = R[i]

(* Where the two parts of a joined text stand in it.                       *)
LEMMA JoinedAt ==
  ASSUME NEW S, NEW s \in Seq(S), NEW t \in Seq(S)
  PROVE  StandsIn(s \o t, s, 0) /\ StandsIn(s \o t, t, Len(s))
<1>1. PICK n \in Nat, z \in Nat : n = Len(s) /\ z = Len(t)
  OBVIOUS
<1>2. Len(s \o t) = n + z
  BY <1>1
<1>3. \A i \in 1 .. n : (s \o t)[0 + i] = s[i]
  BY <1>1
<1>4. \A i \in 1 .. z : (s \o t)[n + i] = t[i]
  BY <1>1
<1>5. 0 \in Nat /\ 0 + n <= n + z
  OBVIOUS
<1>6. QED
  BY <1>1, <1>2, <1>3, <1>4, <1>5 DEF StandsIn

(* Read from the beginning, both are the same as long as they are.         *)
LEMMA ScanOfFront ==
  ASSUME NEW T \in Seq(Byte), NEW R \in Seq(Byte), StandsIn(T, R, 0)
  PROVE  \A i \in 0 .. Len(R) : Scan(T)[i] = Scan(R)[i]
<1>1. PICK n \in Nat, N \in Nat : n = Len(R) /\ N = Len(T)
  OBVIOUS
<1>2. n <= N /\ \A i \in 1 .. n : T[i] = R[i]
  <2>1. 0 + n <= N /\ \A i \in 1 .. n : T[0 + i] = R[i]
    BY <1>1, Zenon DEF StandsIn
  <2>2. \A i \in 1 .. n : 0 + i = i
    OBVIOUS
  <2>3. QED
    BY <2>1, <2>2
<1> DEFINE P == {i \in 0 .. n : Scan(T)[i] = Scan(R)[i]}
<1>3. 0 \in P /\ P \in SUBSET (0 .. n)
  BY <1>1, ScanFacts
<1>4. ASSUME NEW i \in 1 .. n, i - 1 \in P PROVE i \in P
  <2>1. i \in 1 .. N
    BY <1>2
  <2>2. Scan(T)[i] = Collect(Scan(T)[i - 1], T[i])
    BY <1>1, <2>1, ScanFacts
  <2>3. Scan(R)[i] = Collect(Scan(R)[i - 1], R[i])
    BY <1>1, ScanFacts
  <2>4. Scan(T)[i - 1] = Scan(R)[i - 1] /\ T[i] = R[i]
    BY <1>2, <1>4
  <2>5. Scan(T)[i] = Scan(R)[i]
    BY <2>2, <2>3, <2>4, Zenon
  <2>6. QED
    BY <2>5
<1> HIDE DEF P
<1>5. P = 0 .. n
  BY <1>3, <1>4, OneByOne
<1>6. QED
  BY <1>1, <1>5 DEF P

(* Read from where no packet is open, what stands there reads like itself, *)
(* behind the packets that came before.                                    *)
ReadsLike(T, R, n, ps) ==
  \A i \in 0 .. Len(R) : Like(Scan(T)[n + i], Scan(R)[i], ps)

(* A part that begins outside brackets is read as if it stood alone.       *)
LEMMA ScanOfPart ==
  ASSUME NEW T \in Seq(Byte), NEW R \in Seq(Byte), NEW n, StandsIn(T, R, n),
         NEW ps \in Seq(Seq(Byte)), Like(Scan(T)[n], NoPackets, ps)
  PROVE  ReadsLike(T, R, n, ps)
<1>1. PICK z \in Nat, N \in Nat : z = Len(R) /\ N = Len(T)
  OBVIOUS
<1>2. n \in Nat /\ n + z <= N /\ \A i \in 1 .. z : T[n + i] = R[i]
  BY <1>1, Zenon DEF StandsIn
<1> DEFINE P == {i \in 0 .. z : Like(Scan(T)[n + i], Scan(R)[i], ps)}
<1>3. 0 \in P /\ P \in SUBSET (0 .. z)
  <2>1. n + 0 = n /\ 0 \in 0 .. z
    BY <1>2
  <2>2. Scan(R)[0] = NoPackets
    BY ScanFacts
  <2>3. QED
    BY <2>1, <2>2
<1>4. ASSUME NEW i \in 1 .. z, i - 1 \in P PROVE i \in P
  <2>1. PICK u \in 1 .. N : u = n + i /\ u - 1 = n + (i - 1) /\ u - 1 \in 0 .. N
    <3>1. n + i \in 1 .. N /\ (n + i) - 1 = n + (i - 1) /\ (n + i) - 1 \in 0 .. N
      BY <1>2
    <3>2. QED
      BY <3>1
  <2>2. /\ Scan(T)[u] = Collect(Scan(T)[u - 1], T[u]) /\ Scan(T)[u - 1] \in Collected
        /\ Scan(R)[i] = Collect(Scan(R)[i - 1], R[i]) /\ Scan(R)[i - 1] \in Collected
    <3>1. i - 1 \in 0 .. z
      OBVIOUS
    <3>2. QED
      BY <1>1, <2>1, <3>1, ScanFacts
  <2>3. R[i] \in Byte /\ T[u] = R[i]
    <3>1. R[i] \in Byte
      BY <1>1
    <3>2. QED
      BY <1>2, <2>1, <3>1
  <2>4. Like(Scan(T)[u - 1], Scan(R)[i - 1], ps)
    BY <1>4, <2>1
  <2>5. Like(Scan(T)[u], Scan(R)[i], ps)
    BY <2>2, <2>3, <2>4, CollectLike
  <2>6. QED
    BY <2>1, <2>5
<1> HIDE DEF P
<1>5. P = 0 .. z
  BY <1>3, <1>4, OneByOne
<1>6. QED
  BY <1>1, <1>5 DEF P, ReadsLike

(* Behind a text whose brackets match, the next is read from the start.    *)
ReadsBoth(T, s, t, n) ==
  /\ \A i \in 0 .. n : Scan(T)[i] = Scan(s)[i]
  /\ ReadsLike(T, t, n, PacketsOf(s))

(* Two texts, the first with matching brackets: the packets of the first   *)
(* and then those of the second.                                           *)
LEMMA SecondReads ==
  ASSUME NEW s \in Seq(Byte), NEW t \in Seq(Byte), NEW T \in Seq(Byte),
         NEW n, n = Len(s), StandsIn(T, s, 0), StandsIn(T, t, n),
         Scan(s)[n].depth = 0
  PROVE  ReadsBoth(T, s, t, n)
<1>1. n \in Nat
  OBVIOUS
<1>2. PICK f, g : f = Scan(T) /\ g = Scan(s)
  OBVIOUS
<1>3. \A i \in 0 .. n : f[i] = g[i]
  BY <1>1, <1>2, ScanOfFront
<1>4. n \in 0 .. n /\ f[n] = g[n]
  BY <1>1, <1>3
<1>5. PICK ps \in Seq(Seq(Byte)) : ps = PacketsOf(s) /\ ps = g[n].packets
  <2>1. g[n] \in Collected
    BY <1>2, <1>4, ScanFacts
  <2>2. g[n].packets \in Seq(Seq(Byte))
    BY <2>1 DEF Collected
  <2>3. QED
    BY <1>2, <2>2, Zenon DEF PacketsOf
<1>6. Like(f[n], NoPackets, ps)
  <2>1. Settled(g[n])
    BY <1>2, <1>4, ScanSettles
  <2>2. g[n].depth = 0 /\ g[n].packet = <<>>
    BY <1>2, <2>1 DEF Settled
  <2>3. ps \o <<>> = ps
    OBVIOUS
  <2>4. NoPackets.depth = 0 /\ NoPackets.packet = <<>> /\ NoPackets.packets = <<>>
    BY DEF NoPackets
  <2>5. QED
    BY <1>4, <1>5, <2>2, <2>3, <2>4, Zenon DEF Like
<1>7. ReadsLike(T, t, n, ps)
  BY <1>2, <1>6, ScanOfPart
<1>8. QED
  BY <1>2, <1>3, <1>5, <1>7, Zenon DEF ReadsBoth

-----------------------------------------------------------------------------
(* Two tidy texts, one behind the other, are one, and have the packets of  *)
(* both.                                                                   *)
LEMMA TidyTextsJoin ==
  ASSUME PlainBeat, NEW s \in Seq(Byte), NEW t \in Seq(Byte), Tidy(s), Tidy(t)
  PROVE  Tidy(s \o t) /\ PacketsOf(s \o t) = PacketsOf(s) \o PacketsOf(t)
<1>1. PICK T \in Seq(Byte) : T = s \o t
  BY ConcatType
<1>2. PICK n \in Nat, z \in Nat, N \in Nat, a \in Nat \ {0} :
        n = Len(s) /\ z = Len(t) /\ N = Len(T) /\ N = n + z /\ a = Len(Alive)
  BY <1>1, AliveLen
<1>3. Scan(s)[n].depth = 0 /\ StandsIn(T, s, 0) /\ StandsIn(T, t, n)
  BY <1>1, <1>2, JoinedAt DEF Tidy
<1>4. PICK f, g, h : f = Scan(T) /\ g = Scan(s) /\ h = Scan(t)
  OBVIOUS
<1>5. /\ \A i \in 1 .. n : T[i] = s[i]
      /\ \A i \in 1 .. z : T[n + i] = t[i]
  BY <1>1, <1>2
<1>6. (\A i \in 0 .. n : f[i] = g[i]) /\ ReadsLike(T, t, n, PacketsOf(s))
  <2>1. ReadsBoth(T, s, t, n)
    BY <1>2, <1>3, SecondReads
  <2>2. QED
    BY <1>4, <2>1, Zenon DEF ReadsBoth
<1>7. PICK ps \in Seq(Seq(Byte)) : ps = PacketsOf(s) /\ ps = g[n].packets
  <2>1. n \in 0 .. n
    OBVIOUS
  <2>2. g[n] \in Collected
    BY <1>2, <1>4, <2>1, ScanFacts
  <2>3. g[n].packets \in Seq(Seq(Byte))
    BY <2>2 DEF Collected
  <2>4. QED
    BY <1>2, <1>4, <2>3, Zenon DEF PacketsOf
<1>8. /\ \A i \in 1 .. n : s[i] = Close => g[i - 1].depth > 0
      /\ g[n].depth = 0
      /\ \A i \in 0 .. n : BeatsAt(s, i) => g[i].depth = 0
  BY <1>2, <1>4, Zenon DEF Tidy
<1>9. /\ \A i \in 1 .. z : t[i] = Close => h[i - 1].depth > 0
      /\ h[z].depth = 0
      /\ \A i \in 0 .. z : BeatsAt(t, i) => h[i].depth = 0
  BY <1>2, <1>4, Zenon DEF Tidy
<1>10. n \in 0 .. n /\ f[n] = g[n]
  BY <1>6
<1>11. \A i \in 0 .. z : Like(f[n + i], h[i], ps)
  <2>1. ReadsLike(T, t, n, ps)
    BY <1>6, <1>7
  <2>2. QED
    BY <1>2, <1>4, <2>1, Zenon DEF ReadsLike
<1>12. z \in 0 .. z /\ n + z = N
  BY <1>2
<1>13. f[N].depth = 0 /\ f[N].packets = ps \o h[z].packets
  BY <1>9, <1>11, <1>12 DEF Like
<1>14. PacketsOf(T) = PacketsOf(s) \o PacketsOf(t)
  BY <1>2, <1>4, <1>7, <1>13, Zenon DEF PacketsOf
<1>15. ASSUME NEW i \in 1 .. N, T[i] = Close PROVE f[i - 1].depth > 0
  <2>1. CASE i <= n
    <3>1. i \in 1 .. n /\ i - 1 \in 0 .. n
      BY <2>1
    <3>2. QED
      BY <1>5, <1>6, <1>8, <1>15, <3>1
  <2>2. CASE n < i
    <3>1. PICK j \in 1 .. z : i = n + j /\ j - 1 \in 0 .. z /\ n + (j - 1) = i - 1
      <4>1. i - n \in 1 .. z /\ i = n + (i - n)
        BY <1>2, <2>2
      <4>2. QED
        BY <4>1
    <3>2. h[j - 1].depth > 0
      BY <1>5, <1>9, <1>15, <3>1
    <3>3. Like(f[i - 1], h[j - 1], ps)
      BY <1>11, <3>1
    <3>4. QED
      BY <3>2, <3>3 DEF Like
  <2>3. QED
    BY <1>2, <2>1, <2>2
<1>16. ASSUME NEW i \in 0 .. N, BeatsAt(T, i) PROVE f[i].depth = 0
  <2>1. i + a <= N /\ \A k \in 1 .. a : T[i + k] = Alive[k]
    BY <1>2, <1>16, Zenon DEF BeatsAt
  <2>2. \A k \in 1 .. a : Alive[k] # Open /\ Alive[k] # Close
    BY <1>2 DEF PlainBeat
  <2>3. CASE i + a <= n
    <3>1. i \in 0 .. n
      BY <1>2, <2>3
    <3>2. ASSUME NEW k \in 1 .. a PROVE s[i + k] = Alive[k]
      <4>1. i + k \in 1 .. n
        BY <2>3
      <4>2. QED
        BY <1>5, <2>1, <4>1
    <3>3. BeatsAt(s, i)
      BY <1>2, <2>3, <3>2, Zenon DEF BeatsAt
    <3>4. QED
      BY <1>6, <1>8, <3>1, <3>3
  <2>4. CASE n <= i
    <3>1. PICK j \in 0 .. z : i = n + j /\ j + a <= z
      <4>1. i - n \in 0 .. z /\ i = n + (i - n) /\ (i - n) + a <= z
        BY <1>2, <2>1, <2>4
      <4>2. QED
        BY <4>1
    <3>2. ASSUME NEW k \in 1 .. a PROVE t[j + k] = Alive[k]
      <4>1. j + k \in 1 .. z /\ n + (j + k) = i + k
        BY <3>1
      <4>2. QED
        BY <1>5, <2>1, <4>1
    <3>3. BeatsAt(t, j)
      BY <1>2, <3>1, <3>2, Zenon DEF BeatsAt
    <3>4. h[j].depth = 0 /\ Like(f[i], h[j], ps)
      BY <1>9, <1>11, <3>1, <3>3
    <3>5. QED
      BY <3>4 DEF Like
  <2>5. CASE i < n /\ n < i + a
    <3>1. ASSUME NEW l \in i + 1 .. n PROVE T[l] # Open /\ T[l] # Close
      <4>1. l - i \in 1 .. a /\ i + (l - i) = l
        BY <2>5
      <4>2. QED
        BY <2>1, <2>2, <4>1
    <3>2. i \in Nat /\ n \in i .. Len(T) /\ n \in i .. n
      BY <1>2, <2>5
    <3>3. f[n].depth = f[i].depth
      BY <1>4, <3>1, <3>2, DepthStays
    <3>4. QED
      BY <1>8, <1>10, <3>3
  <2>6. QED
    BY <1>2, <2>3, <2>4, <2>5
<1>17. Tidy(T)
  BY <1>2, <1>4, <1>13, <1>15, <1>16, Zenon DEF Tidy
<1>18. QED
  BY <1>1, <1>14, <1>17

-----------------------------------------------------------------------------
(* The bytes behind place i, up to place j.                                *)
IsPiece(t, s, i, j) == Len(t) = j - i /\ \A k \in 1 .. j - i : t[k] = s[i + k]

LEMMA PieceOf ==
  ASSUME NEW S, NEW s \in Seq(S), NEW i \in Nat, NEW j \in i .. Len(s)
  PROVE  SubSeq(s, i + 1, j) \in Seq(S) /\ IsPiece(SubSeq(s, i + 1, j), s, i, j)
<1>1. PICK n \in Nat : n = Len(s)
  OBVIOUS
<1>2. /\ j \in 0 .. Len(s) /\ i + 1 \in 1 .. j + 1 /\ j - (i + 1) + 1 = j - i
      /\ i + 1 \in Nat /\ j \in Nat
  BY <1>1
<1>3. PICK m \in Nat : m = i + 1 /\ m \in 1 .. j + 1
  BY <1>2
<1>4. SubSeq(s, m, j) \in Seq(S) /\ Len(SubSeq(s, m, j)) = j - m + 1
  BY <1>2, <1>3, SubSeqType
<1>5. PICK t \in Seq(S) : t = SubSeq(s, m, j)
  BY <1>4
<1>6. ASSUME NEW k \in 1 .. j - i PROVE t[k] = s[i + k]
  <2>1. m + k - 1 = i + k /\ k \in 1 .. j - m + 1 /\ m \in Nat /\ j \in Nat
    BY <1>2, <1>3
  <2>2. t[k] = s[m + k - 1]
    BY <1>5, <2>1
  <2>3. QED
    BY <2>1, <2>2
<1>7. Len(t) = j - i
  BY <1>2, <1>3, <1>4, <1>5
<1>8. IsPiece(t, s, i, j)
  BY <1>6, <1>7 DEF IsPiece
<1>9. QED
  BY <1>3, <1>5, <1>8

-----------------------------------------------------------------------------
(* What is taken out of a text is taken out of every longer one.           *)
LEMMA SplicesOn ==
  ASSUME NEW s \in Seq(Byte), NEW r \in Seq(Byte), NEW W \in Seq(Byte),
         NEW n, NEW k, NEW m, Splices(s, r, n, k, m)
  PROVE  Splices(s \o W, r \o W, n, k, m)
<1>1. PICK N \in Nat, L \in Nat, w \in Nat : N = Len(s) /\ L = Len(r) /\ w = Len(W)
  OBVIOUS
<1>2. /\ n \in Nat /\ k \in Nat /\ m \in n .. N /\ L = n + k + (N - m)
      /\ \A i \in 1 .. n : r[i] = s[i]
      /\ \A i \in n + 1 .. n + k : r[i] = Space
      /\ \A i \in m + 1 .. N : r[i - m + n + k] = s[i]
  BY <1>1, Zenon DEF Splices
<1>3. n \in Nat /\ k \in Nat /\ m \in Nat /\ n <= m /\ m <= N /\ L = n + k + (N - m)
  BY <1>2
<1>4. PICK T \in Seq(Byte), R \in Seq(Byte) : T = s \o W /\ R = r \o W
  BY ConcatType
<1>5. Len(T) = N + w /\ Len(R) = L + w
  BY <1>1, <1>4, ConcatType
<1>6. /\ StandsIn(T, s, 0) /\ StandsIn(T, W, Len(s))
      /\ StandsIn(R, r, 0) /\ StandsIn(R, W, Len(r))
  BY <1>4, JoinedAt
<1>7. /\ \A i \in 1 .. N : T[i] = s[i]
      /\ \A i \in 1 .. w : T[N + i] = W[i]
      /\ \A i \in 1 .. L : R[i] = r[i]
      /\ \A i \in 1 .. w : R[L + i] = W[i]
  BY <1>1, <1>6 DEF StandsIn
<1>8. ASSUME NEW i \in 1 .. n PROVE R[i] = T[i]
  <2>1. i \in 1 .. N /\ i \in 1 .. L
    BY <1>3
  <2>2. QED
    BY <1>2, <1>7, <2>1
<1>9. ASSUME NEW i \in n + 1 .. n + k PROVE R[i] = Space
  <2>1. i \in 1 .. L
    BY <1>3
  <2>2. QED
    BY <1>2, <1>7, <2>1
<1>10. ASSUME NEW i \in m + 1 .. N + w PROVE R[i - m + n + k] = T[i]
  <2>1. CASE i <= N
    <3>1. i \in 1 .. N /\ i \in m + 1 .. N /\ i - m + n + k \in 1 .. L
      BY <1>3, <2>1
    <3>2. QED
      BY <1>2, <1>7, <3>1
  <2>2. CASE N < i
    <3>1. i - N \in 1 .. w /\ N + (i - N) = i /\ L + (i - N) = i - m + n + k
      BY <1>3, <2>2
    <3>2. PICK j \in 1 .. w : j = i - N
      BY <3>1
    <3>3. T[N + j] = W[j] /\ R[L + j] = W[j]
      BY <1>7, Zenon
    <3>4. QED
      BY <3>1, <3>2, <3>3
  <2>3. QED
    BY <2>1, <2>2
<1>11. m \in n .. N + w /\ L + w = n + k + ((N + w) - m)
  BY <1>3
<1>12. Splices(T, R, n, k, m)
  BY <1>3, <1>5, <1>8, <1>9, <1>10, <1>11, Zenon DEF Splices
<1>13. QED
  BY <1>4, <1>12, Zenon

(* Where RemoveBeat finds a heartbeat there is one, the first.             *)
LEMMA BeatIsPiece ==
  ASSUME NEW s \in Seq(Byte), NEW i \in Nat, i + Len(Alive) <= Len(s)
  PROVE  SubSeq(s, i + 1, i + Len(Alive)) = Alive <=> BeatsAt(s, i)
<1>1. PICK n \in Nat, a \in Nat \ {0} : n = Len(s) /\ a = Len(Alive)
  BY AliveLen
<1>2. PICK t \in Seq(Byte) : /\ t = SubSeq(s, i + 1, i + a) /\ Len(t) = a
                             /\ \A k \in 1 .. a : t[k] = s[i + k]
  <2>1. i \in Nat /\ i + a \in i .. Len(s) /\ (i + a) - i = a
    BY <1>1
  <2>2. /\ SubSeq(s, i + 1, i + a) \in Seq(Byte)
        /\ IsPiece(SubSeq(s, i + 1, i + a), s, i, i + a)
    BY <2>1, PieceOf
  <2>3. QED
    BY <2>1, <2>2 DEF IsPiece
<1>3. t = Alive <=> \A k \in 1 .. a : t[k] = Alive[k]
  <2>1. ASSUME \A k \in 1 .. a : t[k] = Alive[k] PROVE t = Alive
    <3>1. PICK D : D = 1 .. a
      OBVIOUS
    <3>2. t \in [D -> Byte]
      <4>1. t \in [1 .. Len(t) -> Byte]
        OBVIOUS
      <4>2. Len(t) = a
        BY <1>2
      <4>3. QED
        BY <3>1, <4>1, <4>2, Zenon
    <3>3. Alive \in [D -> Byte]
      BY <1>1, <3>1, ParserAssumption DEF ParserAssumption
    <3>4. QED
      BY <2>1, <3>1, <3>2, <3>3
  <2>2. QED
    BY <2>1
<1>4. BeatsAt(s, i) <=> \A k \in 1 .. a : s[i + k] = Alive[k]
  BY <1>1, Zenon DEF BeatsAt
<1>5. (\A k \in 1 .. a : t[k] = Alive[k]) <=> \A k \in 1 .. a : s[i + k] = Alive[k]
  BY <1>2, Zenon
<1>6. QED
  BY <1>1, <1>2, <1>3, <1>4, <1>5, Zenon

LEMMA BeatPlaces ==
  ASSUME NEW s \in Seq(Byte), NEW W \in Seq(Byte)
  PROVE  /\ ~HasBeat(s) => \A i \in Nat : ~BeatsAt(s, i)
         /\ HasBeat(s) =>
              \E b \in Nat :
                /\ BeatsAt(s, b) /\ \A i \in Nat : BeatsAt(s, i) => b <= i
                /\ RemoveBeat(s) \in Seq(Byte)
                /\ Splices(s \o W, RemoveBeat(s) \o W, b, 0, b + Len(Alive))
<1>1. PICK n \in Nat, a \in Nat \ {0} : n = Len(s) /\ a = Len(Alive)
  BY AliveLen
<1> DEFINE at == {i \in 1 .. n - a + 1 : SubSeq(s, i, i + a - 1) = Alive}
<1>2. BeatAt(s) = IF at = {} THEN 0 ELSE Min(at)
  BY <1>1, Zenon DEF BeatAt
<1>3. ASSUME NEW i \in Nat, BeatsAt(s, i) PROVE i + 1 \in at
  <2>1. i + a <= n
    BY <1>1, <1>3, Zenon DEF BeatsAt
  <2>2. SubSeq(s, i + 1, i + a) = Alive
    BY <1>1, <1>3, <2>1, BeatIsPiece
  <2>3. (i + 1) + a - 1 = i + a /\ i + 1 \in 1 .. n - a + 1
    BY <2>1
  <2>4. QED
    BY <2>2, <2>3
<1>4. ASSUME NEW i \in at PROVE i - 1 \in Nat /\ BeatsAt(s, i - 1)
  <2>1. i - 1 \in Nat /\ (i - 1) + a <= n /\ (i - 1) + 1 = i /\ (i - 1) + a = i + a - 1
    OBVIOUS
  <2>2. SubSeq(s, (i - 1) + 1, (i - 1) + a) = Alive
    BY <2>1
  <2>3. QED
    BY <1>1, <2>1, <2>2, BeatIsPiece
<1>5. at \in SUBSET Nat
  OBVIOUS
<1> HIDE DEF at
<1>6. \A i \in at : i # 0
  BY DEF at
<1>7. ASSUME ~HasBeat(s), NEW i \in Nat PROVE ~BeatsAt(s, i)
  <2>1. at = {}
    <3> SUFFICES ASSUME at # {} PROVE FALSE
      OBVIOUS
    <3>1. Min(at) \in at
      BY <1>5, MinOf
    <3>2. BeatAt(s) # 0
      BY <1>2, <1>6, <3>1
    <3>3. QED
      BY <1>7, <3>2 DEF HasBeat
  <2>2. QED
    BY <1>3, <2>1
<1>8. ASSUME HasBeat(s)
      PROVE  \E b \in Nat :
                /\ BeatsAt(s, b) /\ \A i \in Nat : BeatsAt(s, i) => b <= i
                /\ RemoveBeat(s) \in Seq(Byte)
                /\ Splices(s \o W, RemoveBeat(s) \o W, b, 0, b + Len(Alive))
  <2>1. at # {}
    BY <1>2, <1>8, Zenon DEF HasBeat
  <2>2. PICK first \in at : \A i \in at : first <= i
    BY <1>5, <2>1, LeastNatural
  <2>3. PICK m \in at : m = BeatAt(s) /\ \A i \in at : m <= i
    <3>1. \A i, j \in Nat : i <= j /\ j <= i => i = j
      OBVIOUS
    <3>2. Min(at) = CHOOSE x \in at : \A y \in at : x <= y
      BY DEF Min
    <3>3. Min(at) \in at /\ \A i \in at : Min(at) <= i
      BY <2>2, <3>2
    <3>4. QED
      BY <1>2, <2>1, <3>3, Zenon
  <2>4. PICK b \in Nat : b = m - 1 /\ m = b + 1 /\ BeatsAt(s, b)
    <3>1. m - 1 \in Nat /\ BeatsAt(s, m - 1) /\ m \in Nat
      BY <1>4, <1>5
    <3>2. QED
      BY <3>1
  <2>5. b + a <= n
    BY <1>1, <2>4, Zenon DEF BeatsAt
  <2>6. ASSUME NEW i \in Nat, BeatsAt(s, i) PROVE b <= i
    <3>1. m <= i + 1
      BY <1>3, <2>3, <2>6
    <3>2. QED
      BY <2>4, <3>1
  <2>7. RemoveBeat(s) = SubSeq(s, 1, b) \o <<>> \o SubSeq(s, b + 1 + a, n)
    <3>1. m - 1 = b /\ m + a = b + 1 + a
      BY <2>4
    <3>2. RemoveBeat(s) = SubSeq(s, 1, m - 1) \o <<>> \o SubSeq(s, m + a, n)
      BY <1>1, <1>8, <2>3, Zenon DEF RemoveBeat, ReplaceSubSeqAt
    <3>3. QED
      BY <3>1, <3>2, Zenon
  <2>8. PICK u \in Seq(Byte) : u = SubSeq(s, 1, b) /\ Len(u) = b
                               /\ \A i \in 1 .. b : u[i] = s[i]
    <3>1. PICK o \in Nat : o = 0 /\ b \in o .. Len(s) /\ o + 1 = 1 /\ b - o = b
      BY <1>1, <2>5
    <3>2. SubSeq(s, o + 1, b) \in Seq(Byte) /\ IsPiece(SubSeq(s, o + 1, b), s, o, b)
      BY <3>1, PieceOf
    <3>3. PICK u \in Seq(Byte) : u = SubSeq(s, o + 1, b) /\ IsPiece(u, s, o, b)
      BY <3>2
    <3>4. Len(u) = b /\ \A i \in 1 .. b : u[i] = s[o + i]
      BY <3>1, <3>3 DEF IsPiece
    <3>5. \A i \in 1 .. b : u[i] = s[i]
      BY <3>1, <3>4
    <3>6. QED
      BY <3>1, <3>3, <3>4, <3>5
  <2>9. PICK v \in Seq(Byte) :
          /\ v = SubSeq(s, b + 1 + a, n) /\ Len(v) = n - (b + a)
          /\ \A i \in 1 .. n - (b + a) : v[i] = s[b + a + i]
    <3>1. PICK o \in Nat : o = b + a /\ n \in o .. Len(s) /\ o + 1 = b + 1 + a
      BY <1>1, <2>5
    <3>2. SubSeq(s, o + 1, n) \in Seq(Byte) /\ IsPiece(SubSeq(s, o + 1, n), s, o, n)
      BY <3>1, PieceOf
    <3>3. QED
      BY <3>1, <3>2 DEF IsPiece
  <2>10. PICK r \in Seq(Byte) : r = RemoveBeat(s) /\ r = u \o v
    <3>1. u \o <<>> = u
      OBVIOUS
    <3>2. RemoveBeat(s) = u \o v
      BY <2>7, <2>8, <2>9, <3>1, Zenon
    <3>3. QED
      BY <3>2, ConcatType
  <2>11. /\ Len(r) = n - a
         /\ \A i \in 1 .. b : r[i] = s[i]
         /\ \A i \in b + 1 .. n - a : r[i] = s[i + a]
    <3>1. Len(r) = n - a
      BY <2>8, <2>9, <2>10
    <3>2. StandsIn(r, u, 0) /\ StandsIn(r, v, b)
      BY <2>8, <2>10, JoinedAt
    <3>3. ASSUME NEW i \in 1 .. b PROVE r[i] = s[i]
      <4>1. r[0 + i] = u[i] /\ 0 + i = i
        BY <2>8, <3>2 DEF StandsIn
      <4>2. QED
        BY <2>8, <4>1
    <3>4. ASSUME NEW i \in b + 1 .. n - a PROVE r[i] = s[i + a]
      <4>1. PICK k \in 1 .. n - (b + a) : k = i - b /\ b + a + k = i + a /\ b + k = i
        BY <1>1, <2>5
      <4>2. k \in 1 .. Len(v)
        BY <2>9, <4>1
      <4>3. r[b + k] = v[k]
        BY <3>2, <4>2, Zenon DEF StandsIn
      <4>4. v[k] = s[b + a + k]
        BY <2>9, <4>1, Zenon
      <4>5. QED
        BY <4>1, <4>3, <4>4, Zenon
    <3>5. QED
      BY <3>1, <3>3, <3>4
  <2>12. Splices(s \o W, r \o W, b, 0, b + a)
    <3>1. PICK z \in Nat, m1 \in Nat : z = 0 /\ m1 = b + a
      OBVIOUS
    <3>2. ASSUME NEW i \in b + a + 1 .. n PROVE r[i - (b + a) + b + 0] = s[i]
      <4>1. i - (b + a) + b + 0 = i - a /\ i - a \in b + 1 .. n - a /\ (i - a) + a = i
        BY <2>5
      <4>2. QED
        BY <2>11, <4>1
    <3>3. /\ b + a \in b .. n /\ n - a = b + 0 + (n - (b + a))
          /\ b + 1 .. b + 0 = {} /\ 0 \in Nat
      BY <2>5
    <3>4. \A i \in b + 1 .. b + 0 : r[i] = Space
      BY <3>3
    <3>5. Splices(s, r, b, 0, b + a)
      BY <1>1, <2>11, <3>2, <3>3, <3>4, Zenon DEF Splices
    <3>6. Splices(s, r, b, z, m1)
      BY <3>1, <3>5
    <3>7. Splices(s \o W, r \o W, b, z, m1)
      BY <3>6, SplicesOn
    <3>8. QED
      BY <3>1, <3>7
  <2>13. QED
    BY <1>1, <2>4, <2>6, <2>10, <2>12
<1>9. QED
  BY <1>7, <1>8

(* WithoutBeats takes out one heartbeat after the other.                   *)
LEMMA BeatLoop ==
  ASSUME NEW s \in Seq(Byte)
  PROVE  \E f :
           /\ f[0] = s /\ WithoutBeats(s) = f[Len(s)]
           /\ \A i \in 1 .. Len(s) : f[i] = RemoveBeat(f[i - 1])
           /\ \A i \in 0 .. Len(s) : f[i] \in Seq(Byte)
<1>1. PICK N \in Nat : N = Len(s)
  OBVIOUS
<1> DEFINE after == CHOOSE g : g = [n \in 0 .. Len(s) |-> IF n = 0 THEN s ELSE RemoveBeat(g[n - 1])]
<1>2. after = [n \in 0 .. Len(s) |-> IF n = 0 THEN s ELSE RemoveBeat(after[n - 1])]
  <2> DEFINE step == [p \in Seq(Byte) \X (1 .. N) |-> RemoveBeat(p[1])]
  <2>1. step \in [Seq(Byte) \X (1 .. N) -> Seq(Byte)]
    BY RemoveBeatType
  <2>2. \A t \in Seq(Byte), i \in 1 .. N : step[<<t, i>>] = RemoveBeat(t)
    OBVIOUS
  <2> HIDE DEF step
  <2>3. PICK f \in [0 .. N -> Seq(Byte)] : Follows(f, N, s, step)
    BY <1>1, <2>1, RecursionExists
  <2>4. ASSUME NEW i \in 0 .. N PROVE f[i] = IF i = 0 THEN s ELSE RemoveBeat(f[i - 1])
    <3>1. CASE i = 0
      BY <2>3, <3>1 DEF Follows
    <3>2. CASE i # 0
      <4>1. i \in 1 .. N /\ f[i - 1] \in Seq(Byte)
        BY <3>2
      <4>2. QED
        BY <2>2, <2>3, <3>2, <4>1 DEF Follows
    <3>3. QED
      BY <3>1, <3>2
  <2>5. f = [n \in 0 .. Len(s) |-> IF n = 0 THEN s ELSE RemoveBeat(f[n - 1])]
    BY <1>1, <2>4
  <2>6. QED
    BY <2>5
<1>3. WithoutBeats(s) = after[N]
  BY <1>1, Zenon DEF WithoutBeats
<1> HIDE DEF after
<1>4. after[0] = s /\ \A i \in 1 .. N : after[i] = RemoveBeat(after[i - 1])
  BY <1>1, <1>2
<1> DEFINE P == {i \in 0 .. N : after[i] \in Seq(Byte)}
<1>5. 0 \in P /\ P \in SUBSET (0 .. N)
  BY <1>4
<1>6. ASSUME NEW i \in 1 .. N, i - 1 \in P PROVE i \in P
  <2>1. PICK t \in Seq(Byte) : t = after[i - 1]
    BY <1>6
  <2>2. RemoveBeat(t) \in Seq(Byte)
    BY RemoveBeatType
  <2>3. QED
    BY <1>4, <2>1, <2>2
<1> HIDE DEF P
<1>7. P = 0 .. N
  BY <1>5, <1>6, OneByOne
<1>8. \A i \in 0 .. N : after[i] \in Seq(Byte)
  BY <1>7 DEF P
<1>9. QED
  BY <1>1, <1>3, <1>4, <1>8

-----------------------------------------------------------------------------
(* A heartbeat taken out of the front of a tidy text takes nothing else    *)
(* with it, whatever comes behind the front; so do all of them.            *)
LEMMA NothingOfBeat ==
  ASSUME PlainBeat, NEW T \in Seq(Byte), Tidy(T), NEW b \in Nat, BeatsAt(T, b)
  PROVE  /\ Scan(T)[b].depth = 0
         /\ Scan(T)[b + Len(Alive)] = Scan(T)[b]
<1>1. PICK N \in Nat, a \in Nat \ {0} : N = Len(T) /\ a = Len(Alive)
  BY AliveLen
<1>2. b + a <= N /\ \A k \in 1 .. a : T[b + k] = Alive[k]
  BY <1>1, Zenon DEF BeatsAt
<1>3. b \in 0 .. N /\ b + a \in b .. N
  BY <1>2
<1>4. Scan(T)[b].depth = 0
  BY <1>1, <1>3, Zenon DEF Tidy
<1>5. ASSUME NEW l \in b + 1 .. b + a PROVE T[l] # Open /\ T[l] # Close
  <2>1. l - b \in 1 .. a /\ b + (l - b) = l
    OBVIOUS
  <2>2. T[l] = Alive[l - b]
    BY <1>2, <2>1
  <2>3. QED
    BY <1>1, <2>1, <2>2 DEF PlainBeat
<1>6. Scan(T)[b + a] = Scan(T)[b]
  BY <1>1, <1>3, <1>4, <1>5, DepthStays
<1>7. QED
  BY <1>1, <1>4, <1>6

(* A state of the reading is like itself, with no packet in front.         *)
LEMMA LikeItself ==
  ASSUME NEW r \in Collected
  PROVE  Like(r, r, <<>>)
<1>1. PICK qs \in Seq(Seq(Byte)) : qs = r.packets
  BY DEF Collected
<1>2. <<>> \o qs = qs
  OBVIOUS
<1>3. QED
  BY <1>1, <1>2, Zenon DEF Like

(* What a text holds is what it holds behind nothing.                      *)
LEMMA NoneBefore ==
  ASSUME NEW s \in Seq(Byte)
  PROVE  PacketsOf(s) \in Seq(Seq(Byte)) /\ <<>> \o PacketsOf(s) = PacketsOf(s)
<1>1. PICK N \in Nat : N = Len(s) /\ N \in 0 .. N
  OBVIOUS
<1>2. Scan(s)[N] \in Collected
  BY <1>1, ScanFacts
<1>3. PICK qs \in Seq(Seq(Byte)) : qs = PacketsOf(s)
  <2>1. Scan(s)[N].packets \in Seq(Seq(Byte))
    BY <1>2 DEF Collected
  <2>2. QED
    BY <1>1, <2>1, Zenon DEF PacketsOf
<1>4. <<>> \o qs = qs
  OBVIOUS
<1>5. QED
  BY <1>3, <1>4, Zenon

(* A heartbeat taken out leaves the packets and the brackets.              *)
LEMMA OneBeatOut ==
  ASSUME PlainBeat, NEW s \in Seq(Byte), NEW W \in Seq(Byte), Tidy(s \o W)
  PROVE  /\ Tidy(RemoveBeat(s) \o W)
         /\ PacketsOf(RemoveBeat(s) \o W) = PacketsOf(s \o W)
<1>1. CASE ~HasBeat(s)
  BY <1>1, RemoveBeatType
<1>2. CASE HasBeat(s)
  <2>1. PICK b \in Nat : /\ BeatsAt(s, b) /\ RemoveBeat(s) \in Seq(Byte)
                         /\ Splices(s \o W, RemoveBeat(s) \o W, b, 0, b + Len(Alive))
    BY <1>2, BeatPlaces
  <2>2. PICK T \in Seq(Byte), R \in Seq(Byte) : T = s \o W /\ R = RemoveBeat(s) \o W
    BY <2>1, ConcatType
  <2>3. BeatsAt(T, b)
    <3>1. PICK n \in Nat, N \in Nat, a \in Nat :
            n = Len(s) /\ N = Len(T) /\ a = Len(Alive)
      BY AliveLen
    <3>2. n <= N /\ \A i \in 1 .. n : T[i] = s[i]
      BY <2>2, <3>1
    <3>3. b + a <= n /\ \A k \in 1 .. a : s[b + k] = Alive[k]
      BY <2>1, <3>1, Zenon DEF BeatsAt
    <3>4. ASSUME NEW k \in 1 .. a PROVE T[b + k] = Alive[k]
      <4>1. b + k \in 1 .. n
        BY <3>3
      <4>2. QED
        BY <3>2, <3>3, <4>1
    <3>5. b + a <= N
      BY <3>2, <3>3
    <3>6. QED
      BY <3>1, <3>4, <3>5, Zenon DEF BeatsAt
  <2>4. Tidy(T)
    BY <2>2
  <2>5. Scan(T)[b].depth = 0 /\ Scan(T)[b + Len(Alive)] = Scan(T)[b]
    BY <2>3, <2>4, NothingOfBeat
  <2>6. Scan(T)[b] \in Collected
    <3>1. b \in 0 .. Len(T)
      <4>1. b + Len(Alive) <= Len(T) /\ Len(Alive) \in Nat /\ Len(T) \in Nat
        BY <2>3, ParserAssumption DEF BeatsAt, ParserAssumption
      <4>2. QED
        BY <4>1
    <3>2. QED
      BY <3>1, ScanFacts
  <2>7. PICK none, m, z : /\ none = <<>> /\ none \in Seq(Seq(Byte))
                         /\ m = b + Len(Alive) /\ z = 0
    <3>1. <<>> \in Seq(Seq(Byte))
      OBVIOUS
    <3>2. QED
      BY <3>1, Zenon
  <2>8. Like(Scan(T)[m], Scan(T)[b], none)
    BY <2>5, <2>6, <2>7, LikeItself, Zenon
  <2>9. Splices(T, R, b, z, m)
    BY <2>1, <2>2, <2>7, Zenon
  <2>10. Tidy(R) /\ PacketsOf(T) = none \o PacketsOf(R)
    <3>1. Leaves(T, R, none)
      BY <2>4, <2>5, <2>7, <2>8, <2>9, Spliced, Zenon
    <3>2. QED
      BY <3>1 DEF Leaves
  <2>11. PacketsOf(T) = PacketsOf(R)
    BY <2>7, <2>10, NoneBefore, Zenon
  <2>12. QED
    BY <2>2, <2>10, <2>11
<1>3. QED
  BY <1>1, <1>2

(* Taking the heartbeats out loses no packet and leaves no bracket without *)
(* its partner, wherever they stand between packets and whatever of the    *)
(* text is still to be read (new/main.go:404-410).                         *)
THEOREM BeatsOut ==
  ASSUME PlainBeat, NEW s \in Seq(Byte), NEW W \in Seq(Byte), Tidy(s \o W)
  PROVE  /\ Tidy(WithoutBeats(s) \o W)
         /\ PacketsOf(WithoutBeats(s) \o W) = PacketsOf(s \o W)
<1>1. PICK N \in Nat : N = Len(s)
  OBVIOUS
<1>2. PICK f : /\ f[0] = s /\ WithoutBeats(s) = f[N]
               /\ \A i \in 1 .. N : f[i] = RemoveBeat(f[i - 1])
               /\ \A i \in 0 .. N : f[i] \in Seq(Byte)
  BY <1>1, BeatLoop
<1> DEFINE P == {i \in 0 .. N : /\ Tidy(f[i] \o W)
                                /\ PacketsOf(f[i] \o W) = PacketsOf(s \o W)}
<1>3. 0 \in P /\ P \in SUBSET (0 .. N)
  BY <1>2
<1>4. ASSUME NEW i \in 1 .. N, i - 1 \in P PROVE i \in P
  <2>1. PICK t \in Seq(Byte) : /\ t = f[i - 1] /\ f[i] = RemoveBeat(t)
                               /\ Tidy(t \o W) /\ PacketsOf(t \o W) = PacketsOf(s \o W)
    <3>1. i - 1 \in 0 .. N
      OBVIOUS
    <3>2. QED
      BY <1>2, <1>4, <3>1
  <2>2. Tidy(RemoveBeat(t) \o W) /\ PacketsOf(RemoveBeat(t) \o W) = PacketsOf(t \o W)
    BY <2>1, OneBeatOut
  <2>3. QED
    BY <2>1, <2>2
<1> HIDE DEF P
<1>5. N \in P
  BY <1>3, <1>4, OneByOne
<1>6. QED
  BY <1>2, <1>5 DEF P

(* The packets grow by a closing bracket alone.                            *)
LEMMA CollectPackets ==
  ASSUME NEW r, NEW b, ~(b = Close /\ r.depth = 1)
  PROVE  Collect(r, b).packets = r.packets
<1>1. CASE b = Space \/ (b # Open /\ r.depth = 0)
  BY <1>1, CollectSkips, Zenon
<1>2. CASE ~(b = Space \/ (b # Open /\ r.depth = 0))
  BY <1>2, CollectGoesOn
<1>3. QED
  BY <1>1, <1>2

-----------------------------------------------------------------------------
(* What the loop of checkMayJson knows, put in terms of the reference,     *)
(* where every '}' closes a '{'.  Before the first '{': nothing.  Behind   *)
(* it, the balance is the depth, until that is zero.                       *)
NoneStray(s) == \A i \in 1 .. Len(s) : s[i] = Close => Scan(s)[i - 1].depth > 0

NoOpening(s, i) == \A l \in 1 .. i : s[l] # Open

Inside(s, i, j) == \A l \in i .. j : Scan(s)[l].depth > 0

NonePacked(s, i) == \A l \in 0 .. i : Scan(s)[l].packets = <<>>

Before(s, r, i) ==
  /\ r.from = 0 /\ r.to = 0 /\ r.num = 0
  /\ Scan(s)[i] = NoPackets /\ NoOpening(s, i) /\ NonePacked(s, i)

Begun(s, r, i) ==
  /\ r.from \in 1 .. i /\ r.to \in 0 .. i
  /\ Scan(s)[r.from - 1] = NoPackets /\ NoOpening(s, r.from - 1)

Within(s, r, i) ==
  /\ Begun(s, r, i)
  /\ r.num = Scan(s)[i].depth /\ Inside(s, r.from, i) /\ NonePacked(s, i)

Behind(s, r, i) ==
  /\ Begun(s, r, i) /\ Balanced(r)
  /\ Scan(s)[r.to].depth = 0 /\ Inside(s, r.from, r.to - 1)

LEMMA LookFollows ==
  ASSUME NEW s \in Seq(Byte), NoneStray(s), NEW i \in 1 .. Len(s), NEW r,
         Before(s, r, i - 1) \/ Within(s, r, i - 1) \/ Behind(s, r, i - 1),
         NEW t, t = Look(r, s[i], i)
  PROVE  Before(s, t, i) \/ Within(s, t, i) \/ Behind(s, t, i)
<1>1. PICK N \in Nat, b \in Byte : N = Len(s) /\ b = s[i]
  OBVIOUS
<1>2. PICK f : f = Scan(s)
  OBVIOUS
<1>3. /\ f[i] = Collect(f[i - 1], b)
      /\ f[i - 1] \in Collected
  <2>1. i - 1 \in 0 .. Len(s)
    BY <1>1
  <2>2. QED
    BY <1>1, <1>2, <2>1, ScanFacts
<1>11. PICK q, q1 : q = f[i - 1] /\ q \in Collected /\ q1 = f[i] /\ q1 = Collect(q, b)
  BY <1>3
<1>4. PICK d \in Nat : d = q.depth /\ d = f[i - 1].depth
  BY <1>11 DEF Collected
<1>12. /\ b = Open => f[i].depth = d + 1
       /\ b = Close /\ d > 0 => f[i].depth = d - 1
       /\ b # Open /\ b # Close => f[i].depth = d
  <2>1. /\ b = Open => Collect(q, b).depth = q.depth + 1
        /\ b = Close /\ q.depth > 0 => Collect(q, b).depth = q.depth - 1
        /\ b # Open /\ b # Close => Collect(q, b).depth = q.depth
    BY <1>11, CollectDepth, Zenon
  <2>2. QED
    BY <1>4, <1>11, <2>1
<1>5. b = Close => d > 0
  BY <1>1, <1>2, <1>4 DEF NoneStray
<1>6. ~Balanced(r) =>
         t = [from |-> IF b = Open /\ r.from = 0 THEN i ELSE r.from,
              to |-> IF b = Close THEN i ELSE r.to,
              num |-> CASE b = Open -> r.num + 1
                        [] b = Close -> r.num - 1
                        [] OTHER -> r.num]
  BY <1>1, Zenon DEF Look
<1>7. CASE Behind(s, r, i - 1)
  <2>1. t = r
    BY <1>1, <1>7, Zenon DEF Look, Behind
  <2>2. Begun(s, r, i - 1) => Begun(s, r, i)
    BY DEF Begun
  <2>3. QED
    BY <1>7, <2>1, <2>2, Zenon DEF Behind
<1>8. CASE Before(s, r, i - 1)
  <2>1. /\ r.from = 0 /\ r.to = 0 /\ r.num = 0 /\ f[i - 1] = NoPackets
        /\ NoOpening(s, i - 1) /\ NonePacked(s, i - 1)
    BY <1>2, <1>8, Zenon DEF Before
  <2>2. d = 0 /\ q.packets = <<>>
    BY <1>4, <1>11, <2>1 DEF NoPackets
  <2>3. ~Balanced(r)
    BY <2>1 DEF Balanced
  <2>4. f[i].packets = <<>>
    <3>1. ~(b = Close /\ q.depth = 1)
      BY <1>4, <2>2
    <3>2. q1.packets = q.packets
      BY <1>11, <3>1, CollectPackets, Zenon
    <3>3. QED
      BY <1>11, <2>2, <3>2
  <2>5. NonePacked(s, i)
    <3>1. ASSUME NEW l \in 0 .. i PROVE f[l].packets = <<>>
      <4>1. CASE l = i
        BY <2>4, <4>1
      <4>2. CASE l # i
        <5>1. l \in 0 .. i - 1
          BY <4>2
        <5>2. QED
          BY <1>2, <2>1, <5>1, Zenon DEF NonePacked
      <4>3. QED
        BY <4>1, <4>2
    <3>2. QED
      BY <1>2, <3>1, Zenon DEF NonePacked
  <2>6. CASE b = Open
    <3>1. t.from = i /\ t.to = 0 /\ t.num = 1
      BY <1>6, <2>1, <2>3, <2>6 DEF Open, Close
    <3>2. f[i].depth = 1
      BY <1>12, <2>2, <2>6
    <3>3. Begun(s, t, i)
      BY <1>2, <2>1, <3>1 DEF Begun
    <3>4. Inside(s, t.from, i)
      BY <1>2, <3>1, <3>2 DEF Inside
    <3>5. QED
      BY <1>2, <2>5, <3>1, <3>2, <3>3, <3>4, Zenon DEF Within
  <2>7. CASE b # Open
    <3>1. b # Close
      BY <1>5, <2>2
    <3>2. t.from = 0 /\ t.to = 0 /\ t.num = 0
      BY <1>6, <2>1, <2>3, <2>7, <3>1
    <3>3. f[i] = f[i - 1]
      BY <1>4, <1>11, <2>2, <2>7, CollectSkips
    <3>4. NoOpening(s, i)
      <4>1. ASSUME NEW l \in 1 .. i PROVE s[l] # Open
        <5>1. CASE l = i
          BY <1>1, <2>7, <5>1
        <5>2. CASE l # i
          <6>1. l \in 1 .. i - 1
            BY <5>2
          <6>2. QED
            BY <2>1, <6>1, Zenon DEF NoOpening
        <5>3. QED
          BY <5>1, <5>2
      <4>2. QED
        BY <4>1, Zenon DEF NoOpening
    <3>5. QED
      BY <1>2, <2>1, <2>5, <3>2, <3>3, <3>4, Zenon DEF Before
  <2>8. QED
    BY <2>6, <2>7
<1>9. CASE Within(s, r, i - 1)
  <2>1. /\ Begun(s, r, i - 1) /\ r.num = d
        /\ Inside(s, r.from, i - 1) /\ NonePacked(s, i - 1)
    BY <1>2, <1>4, <1>9, Zenon DEF Within
  <2>2. /\ r.from \in Nat /\ r.from >= 1 /\ r.from <= i - 1
        /\ r.to \in Nat /\ r.to <= i - 1
    BY <2>1 DEF Begun
  <2>3. d > 0
    <3>1. i - 1 \in r.from .. i - 1
      BY <2>2
    <3>2. QED
      BY <1>2, <1>4, <2>1, <3>1 DEF Inside
  <2>4. ~Balanced(r)
    BY <2>1, <2>3 DEF Balanced
  <2>5. t.from = r.from /\ t.to = IF b = Close THEN i ELSE r.to
    BY <1>6, <2>2, <2>4
  <2>6. Begun(s, t, i)
    <3>1. t.from \in 1 .. i /\ t.to \in 0 .. i
      BY <2>2, <2>5
    <3>2. QED
      BY <2>1, <2>5, <3>1, Zenon DEF Begun
  <2>7. CASE b = Close /\ d = 1
    <3>1. t.to = i /\ t.num = 0
      BY <1>6, <2>1, <2>4, <2>7 DEF Open, Close
    <3>2. f[i].depth = 0
      BY <1>12, <2>3, <2>7
    <3>3. Balanced(t)
      BY <2>2, <2>5, <3>1 DEF Balanced
    <3>4. Inside(s, t.from, t.to - 1)
      BY <2>1, <2>5, <3>1, Zenon
    <3>5. QED
      BY <1>2, <2>6, <3>1, <3>2, <3>3, <3>4, Zenon DEF Behind
  <2>8. CASE ~(b = Close /\ d = 1)
    <3>1. t.num = f[i].depth /\ f[i].depth > 0
      <4>1. CASE b = Open
        <5>1. f[i].depth = d + 1
          BY <1>12, <4>1
        <5>2. t.num = d + 1
          BY <1>6, <2>1, <2>4, <4>1 DEF Open, Close
        <5>3. QED
          BY <5>1, <5>2
      <4>2. CASE b = Close
        <5>1. f[i].depth = d - 1
          BY <1>12, <2>3, <4>2
        <5>2. t.num = d - 1
          BY <1>6, <2>1, <2>4, <4>2 DEF Open, Close
        <5>3. QED
          BY <2>3, <2>8, <4>2, <5>1, <5>2
      <4>3. CASE b # Open /\ b # Close
        <5>1. f[i].depth = d
          BY <1>12, <4>3
        <5>2. t.num = d
          BY <1>6, <2>1, <2>4, <4>3
        <5>3. QED
          BY <2>3, <5>1, <5>2
      <4>4. QED
        BY <4>1, <4>2, <4>3
    <3>2. f[i].packets = f[i - 1].packets
      BY <1>4, <1>11, <2>8, CollectPackets
    <3>3. NonePacked(s, i)
      <4>1. ASSUME NEW l \in 0 .. i PROVE f[l].packets = <<>>
        <5>1. \A h \in 0 .. i - 1 : f[h].packets = <<>>
          BY <1>2, <2>1, Zenon DEF NonePacked
        <5>2. CASE l = i
          <6>1. i - 1 \in 0 .. i - 1
            OBVIOUS
          <6>2. QED
            BY <3>2, <5>1, <5>2, <6>1
        <5>3. CASE l # i
          <6>1. l \in 0 .. i - 1
            BY <5>3
          <6>2. QED
            BY <5>1, <6>1
        <5>4. QED
          BY <5>2, <5>3
      <4>2. QED
        BY <1>2, <4>1, Zenon DEF NonePacked
    <3>4. Inside(s, t.from, i)
      <4>1. ASSUME NEW l \in r.from .. i PROVE f[l].depth > 0
        <5>1. CASE l = i
          BY <3>1, <5>1
        <5>2. CASE l # i
          <6>1. l \in r.from .. i - 1
            BY <2>2, <5>2
          <6>2. QED
            BY <1>2, <2>1, <6>1, Zenon DEF Inside
        <5>3. QED
          BY <5>1, <5>2
      <4>2. QED
        BY <1>2, <2>5, <4>1, Zenon DEF Inside
    <3>5. QED
      BY <1>2, <2>6, <3>1, <3>3, <3>4, Zenon DEF Within
  <2>9. QED
    BY <2>7, <2>8
<1>10. QED
  BY <1>7, <1>8, <1>9

(* So what checkMayJson finds begins with the first '{', and either it     *)
(* ends where that is closed or it has no packet at all.                   *)
LEMMA FoundIsFirst ==
  ASSUME NEW s \in Seq(Byte), NoneStray(s), NEW p, p = checkMayJson(s), Found(p)
  PROVE  /\ Scan(s)[p.from - 1] = NoPackets /\ NoOpening(s, p.from - 1)
         /\ Inside(s, p.from, p.to - 1)
         /\ Scan(s)[p.to].depth = 0 \/ Scan(s)[p.to].packets = <<>>
<1>1. PICK N \in Nat : N = Len(s)
  OBVIOUS
<1>2. PICK f : /\ f[0] = [from |-> 0, to |-> 0, num |-> 0]
               /\ \A i \in 1 .. N : f[i] = Look(f[i - 1], s[i], i)
               /\ p = [from |-> IF f[N].from > f[N].to THEN 0 ELSE f[N].from,
                       to |-> f[N].to]
  BY <1>1, JsonScan
<1> DEFINE Fine(i) == Before(s, f[i], i) \/ Within(s, f[i], i) \/ Behind(s, f[i], i)
           P == {i \in 0 .. N : Fine(i)}
<1>3. Before(s, f[0], 0)
  <2>1. Scan(s)[0] = NoPackets /\ NoPackets.packets = <<>>
    BY ScanFacts DEF NoPackets
  <2>2. NonePacked(s, 0) /\ NoOpening(s, 0)
    BY <2>1 DEF NonePacked, NoOpening
  <2>3. f[0].from = 0 /\ f[0].to = 0 /\ f[0].num = 0
    BY <1>2
  <2>4. QED
    BY <2>1, <2>2, <2>3, Zenon DEF Before
<1>4. ASSUME NEW i \in 1 .. N, Fine(i - 1) PROVE Fine(i)
  <2>1. i \in 1 .. Len(s) /\ f[i] = Look(f[i - 1], s[i], i)
    BY <1>1, <1>2
  <2>2. QED
    BY <1>4, <2>1, LookFollows
<1>5. Fine(N)
  <2>1. 0 \in P /\ P \in SUBSET (0 .. N)
    BY <1>3
  <2>2. \A i \in 1 .. N : i - 1 \in P => i \in P
    BY <1>4
  <2> HIDE DEF P
  <2>3. N \in P
    BY <2>1, <2>2, OneByOne
  <2>4. QED
    BY <2>3 DEF P
<1>6. PICK r : r = f[N] /\ p.to = r.to /\ (p.from = IF r.from > r.to THEN 0 ELSE r.from)
  BY <1>2
<1>7. CASE Before(s, r, N)
  BY <1>6, <1>7 DEF Before, Found
<1>8. CASE Within(s, r, N)
  <2>1. /\ Begun(s, r, N) /\ Inside(s, r.from, N) /\ NonePacked(s, N)
    BY <1>8, Zenon DEF Within
  <2>2. r.from \in Nat /\ r.to \in 0 .. N /\ r.to <= N
    BY <2>1 DEF Begun
  <2>3. p.from = r.from
    BY <1>6, <2>2 DEF Found
  <2>4. Scan(s)[r.from - 1] = NoPackets /\ NoOpening(s, r.from - 1)
    BY <2>1, Zenon DEF Begun
  <2>5. Inside(s, r.from, r.to - 1)
    <3>1. \A l \in r.from .. r.to - 1 : l \in r.from .. N
      BY <2>2
    <3>2. QED
      BY <2>1, <3>1, Zenon DEF Inside
  <2>6. Scan(s)[r.to].packets = <<>>
    BY <2>1, <2>2, Zenon DEF NonePacked
  <2>7. QED
    BY <1>6, <2>3, <2>4, <2>5, <2>6, Zenon
<1>9. CASE Behind(s, r, N)
  <2>1. p.from = r.from
    BY <1>6, <1>9 DEF Found, Behind, Begun
  <2>2. QED
    BY <1>6, <1>9, <2>1, Zenon DEF Behind, Begun
<1>10. QED
  BY <1>5, <1>6, <1>7, <1>8, <1>9, Zenon

-----------------------------------------------------------------------------
(* The packet that Parser takes out of the front of a tidy text is the     *)
(* first of it, and what is left is the text without it, unless the code   *)
(* goes wrong (Spoils).                                                    *)
LEMMA PacketPlaces ==
  ASSUME NEW body \in Seq(Byte), NEW p, p = checkMayJson(body), Found(p),
         ~Spoils(body, p)
  PROVE  /\ Shift(body, p) \in Seq(Byte)
         /\ Splices(body, Shift(body, p), p.from - 1, 0, p.to)
<1>1. PICK N \in Nat, a \in Nat, z \in Nat, o \in Nat :
        /\ N = Len(body) /\ a = p.from /\ z = p.to /\ o = a - 1
        /\ 1 <= a /\ a < z /\ z <= N
  <2>1. p.from \in 1 .. Len(body) /\ p.to \in 1 .. Len(body) /\ p.from < p.to
    BY FoundIsBracketed
  <2>2. p.from \in Nat /\ p.to \in Nat /\ p.from - 1 \in Nat /\ 1 <= p.from /\ p.to <= Len(body)
    BY <2>1
  <2>3. QED
    BY <2>1, <2>2
<1>2. PICK n \in Nat : n = Size(p) /\ n = z - o /\ N - z <= n /\ n <= N
  <2>1. Size(p) = z - o /\ z - o \in Nat /\ z - o <= N
    BY <1>1 DEF Size
  <2>2. ~(N - z > Size(p))
    BY <1>1, Zenon DEF Spoils
  <2>3. QED
    BY <1>1, <2>1, <2>2
<1>3. PICK rest \in Seq(Byte) : rest = Shift(body, p) /\ Len(rest) = N - n
  <2>1. Shift(body, p) \in Seq(Byte) /\ Len(Shift(body, p)) + Size(p) = Len(body)
    BY <1>1, ShiftType
  <2>2. PICK rest \in Seq(Byte) : rest = Shift(body, p) /\ Len(rest) + n = N
    BY <1>1, <1>2, <2>1
  <2>3. QED
    BY <2>2
<1>11. 1 <= a /\ a < z /\ z <= N /\ o = a - 1 /\ n = z - o /\ N - z <= n /\ n <= N
  BY <1>1, <1>2
<1>4. \A i \in 1 .. N - n : rest[i] = IF a <= i /\ i <= z THEN body[i + n] ELSE body[i]
  <2>1. rest = [i \in 1 .. N - n |->
                  IF a <= i /\ i <= z THEN body[i + n] ELSE body[i]]
    BY <1>1, <1>2, <1>3, Zenon DEF Shift
  <2>2. QED
    BY <2>1
<1>5. ASSUME NEW i \in 1 .. o PROVE rest[i] = body[i]
  <2>1. i \in 1 .. N - n /\ ~(a <= i)
    BY <1>11
  <2>2. QED
    BY <1>4, <2>1
<1>6. ASSUME NEW i \in z + 1 .. N PROVE rest[i - z + o + 0] = body[i]
  <2>1. PICK j \in 1 .. N - n : j = i - n /\ j = i - z + o + 0 /\ a <= j /\ j <= z /\ j + n = i
    <3>1. /\ i - n \in 1 .. N - n /\ i - n = i - z + o + 0 /\ a <= i - n /\ i - n <= z
          /\ (i - n) + n = i
      BY <1>11
    <3>2. QED
      BY <3>1
  <2>2. QED
    BY <1>4, <2>1
<1>7. /\ z \in o .. N /\ N - n = o + 0 + (N - z)
      /\ o + 1 .. o + 0 = {} /\ 0 \in Nat
  BY <1>11
<1>8. \A i \in o + 1 .. o + 0 : rest[i] = Space
  BY <1>7
<1>9. Splices(body, rest, o, 0, z)
  BY <1>1, <1>3, <1>5, <1>6, <1>7, <1>8, Zenon DEF Splices
<1>10. QED
  BY <1>1, <1>3, <1>9

Taken(T, R, o, z, ps) ==
  /\ o \in Nat /\ Splices(T, R, o, 0, z)
  /\ Scan(T)[o].depth = 0 /\ Like(Scan(T)[z], Scan(T)[o], ps)

LEMMA PacketTaken ==
  ASSUME NEW body \in Seq(Byte), NEW W \in Seq(Byte), Tidy(body \o W),
         NEW p, p = checkMayJson(body), Found(p), ~Spoils(body, p)
  PROVE  Taken(body \o W, Shift(body, p) \o W, p.from - 1, p.to,
               PacketsOf(SubSeq(body, p.from, p.to)))
<1>1. PICK N \in Nat, a \in Nat, z \in Nat, o \in Nat :
        /\ N = Len(body) /\ a = p.from /\ z = p.to /\ o = a - 1 /\ a = o + 1
        /\ 1 <= a /\ a < z /\ z <= N
  <2>1. p.from \in 1 .. Len(body) /\ p.to \in 1 .. Len(body) /\ p.from < p.to
    BY FoundIsBracketed
  <2>2. p.from \in Nat /\ p.to \in Nat /\ p.from - 1 \in Nat /\ 1 <= p.from /\ p.to <= Len(body)
    BY <2>1
  <2>3. QED
    BY <2>1, <2>2
<1>2. PICK rest \in Seq(Byte) : rest = Shift(body, p) /\ Splices(body, rest, o, 0, z)
  BY <1>1, PacketPlaces
<1>3. PICK T \in Seq(Byte), R \in Seq(Byte) : T = body \o W /\ R = rest \o W
  BY ConcatType
<1>4. Splices(T, R, o, 0, z)
  <2>1. PICK k : k = 0
    OBVIOUS
  <2>2. Splices(body, rest, o, k, z)
    BY <1>2, <2>1
  <2>3. Splices(T, R, o, k, z)
    BY <1>3, <2>2, SplicesOn
  <2>4. QED
    BY <2>1, <2>3
<1>5. PICK f : f = Scan(T)
  OBVIOUS
<1>6. N <= Len(T) /\ \A i \in 1 .. N : T[i] = body[i]
  BY <1>1, <1>3
<1>7. \A i \in 0 .. N : f[i] = Scan(body)[i]
  <2>1. StandsIn(T, body, 0)
    BY <1>3, JoinedAt
  <2>2. QED
    BY <1>1, <1>5, <2>1, ScanOfFront
<1>8. NoneStray(body)
  <2>1. ASSUME NEW i \in 1 .. N, body[i] = Close PROVE Scan(body)[i - 1].depth > 0
    <3>1. i \in 1 .. Len(T) /\ T[i] = Close /\ i - 1 \in 0 .. N
      BY <1>6, <2>1
    <3>2. f[i - 1].depth > 0
      BY <1>3, <1>5, <3>1 DEF Tidy
    <3>3. QED
      BY <1>7, <3>1, <3>2
  <2>2. QED
    BY <1>1, <2>1, Zenon DEF NoneStray
<1>9. /\ Scan(body)[o] = NoPackets
      /\ Scan(body)[z].depth = 0 \/ Scan(body)[z].packets = <<>>
  BY <1>1, <1>8, FoundIsFirst
<1>10. PICK none \in Seq(Seq(Byte)) : none = <<>>
  <2>1. <<>> \in Seq(Seq(Byte))
    OBVIOUS
  <2>2. QED
    BY <2>1, Zenon
<1>11. PICK packet \in Seq(Byte) :
         /\ packet = SubSeq(body, p.from, p.to)
         /\ o + Len(packet) = z /\ StandsIn(body, packet, o)
  <2>1. o \in Nat /\ z \in o .. Len(body)
    BY <1>1
  <2>2. SubSeq(body, o + 1, z) \in Seq(Byte) /\ IsPiece(SubSeq(body, o + 1, z), body, o, z)
    BY <2>1, PieceOf
  <2>3. PICK packet \in Seq(Byte) : packet = SubSeq(body, o + 1, z) /\ IsPiece(packet, body, o, z)
    BY <2>2
  <2>4. /\ Len(packet) = z - o
        /\ \A k \in 1 .. z - o : packet[k] = body[o + k]
    BY <2>3 DEF IsPiece
  <2>5. o + Len(packet) = z /\ o + Len(packet) <= Len(body)
    <3>1. o + (z - o) = z
      OBVIOUS
    <3>2. z <= Len(body)
      BY <1>1, Zenon
    <3>3. QED
      BY <2>4, <3>1, <3>2
  <2>6. StandsIn(body, packet, o)
    BY <2>4, <2>5 DEF StandsIn
  <2>7. packet = SubSeq(body, p.from, p.to)
    BY <1>1, <2>3
  <2>8. QED
    BY <2>5, <2>6, <2>7
<1>12. NoPackets \in Collected
  <2>1. 0 \in 0 .. Len(body) /\ Scan(body)[0] = NoPackets
    BY ScanFacts
  <2>2. QED
    BY <2>1, ScanFacts
<1>13. Like(Scan(body)[o], NoPackets, none)
  BY <1>9, <1>10, <1>12, LikeItself, Zenon
<1>14. ReadsLike(body, packet, o, none)
  BY <1>11, <1>13, ScanOfPart
<1>15. PICK ps \in Seq(Seq(Byte)) : ps = PacketsOf(packet) /\ none \o ps = ps
  BY <1>10, NoneBefore
<1>16. Scan(body)[z].packets = ps
  <2>1. PICK l \in Nat : l = Len(packet) /\ l \in 0 .. Len(packet)
    OBVIOUS
  <2>2. Like(Scan(body)[o + l], Scan(packet)[l], none)
    BY <1>14, <2>1, Zenon DEF ReadsLike
  <2>3. Scan(body)[z].packets = none \o Scan(packet)[l].packets
    BY <1>11, <2>1, <2>2 DEF Like
  <2>4. Scan(packet)[l].packets = ps
    BY <1>15, <2>1, Zenon DEF PacketsOf
  <2>5. QED
    BY <1>15, <2>3, <2>4, Zenon
<1>17. ps # <<>>
  <2>1. Len(ps) = 1
    BY <1>11, <1>15, Zenon DEF Spoils
  <2>2. Len(<<>>) = 0 /\ 0 # 1
    OBVIOUS
  <2>3. QED
    BY <2>1, <2>2, Zenon
<1>18. PICK r, q : r = f[z] /\ q = f[o] /\ r = Scan(body)[z] /\ q = NoPackets
  <2>1. z \in 0 .. N /\ o \in 0 .. N
    <3>1. 1 <= a /\ a < z /\ z <= N /\ o = a - 1
      BY <1>1
    <3>2. QED
      BY <3>1
  <2>2. QED
    BY <1>7, <1>9, <2>1
<1>19. r.depth = 0 /\ r.packet = <<>> /\ r.packets = ps
  <2>1. z \in 0 .. Len(body)
    BY <1>1
  <2>2. Settled(r)
    BY <1>18, <2>1, ScanSettles
  <2>3. QED
    BY <1>9, <1>16, <1>17, <1>18, <2>2 DEF Settled
<1>20. q.depth = 0 /\ q.packet = <<>> /\ q.packets = <<>>
  BY <1>18 DEF NoPackets
<1>21. Like(f[z], f[o], ps)
  <2>1. ps \o <<>> = ps
    OBVIOUS
  <2>2. QED
    BY <1>18, <1>19, <1>20, <2>1, Zenon DEF Like
<1>22. Scan(T)[o].depth = 0 /\ Like(Scan(T)[z], Scan(T)[o], ps)
  BY <1>5, <1>18, <1>20, <1>21
<1>23. Taken(T, R, o, z, ps)
  BY <1>1, <1>4, <1>22, Zenon DEF Taken
<1>24. QED
  BY <1>1, <1>2, <1>3, <1>11, <1>15, <1>23, Zenon

(* The packet checkMayJson finds is the first of the text, and what the    *)
(* loop that moves bytes up leaves are the others, unless it left bytes of *)
(* the packet behind (new/main.go:412-424).                                *)
THEOREM PacketOut ==
  ASSUME PlainBeat, NEW body \in Seq(Byte), NEW W \in Seq(Byte), Tidy(body \o W),
         NEW p, p = checkMayJson(body), Found(p), ~Spoils(body, p)
  PROVE  Leaves(body \o W, Shift(body, p) \o W,
                PacketsOf(SubSeq(body, p.from, p.to)))
<1>1. p.from \in 1 .. Len(body) /\ p.to \in 1 .. Len(body) /\ p.from < p.to
  BY FoundIsBracketed
<1>2. Shift(body, p) \in Seq(Byte)
  BY <1>1, ShiftType
<1>3. PICK T \in Seq(Byte), R \in Seq(Byte) : T = body \o W /\ R = Shift(body, p) \o W
  BY <1>2, ConcatType
<1>4. SubSeq(body, p.from, p.to) \in Seq(Byte)
  <2>1. p.to \in 0 .. Len(body) /\ p.from \in 1 .. p.to + 1
    BY <1>1
  <2>2. QED
    BY <2>1, SubSeqType
<1>5. PICK ps \in Seq(Seq(Byte)) : ps = PacketsOf(SubSeq(body, p.from, p.to))
  BY <1>4, NoneBefore
<1>6. PICK o, z, k : o = p.from - 1 /\ z = p.to /\ k = 0
  OBVIOUS
<1>7. Taken(T, R, o, z, ps)
  <2>1. Tidy(body \o W)
    OBVIOUS
  <2>2. Taken(body \o W, Shift(body, p) \o W, p.from - 1, p.to,
              PacketsOf(SubSeq(body, p.from, p.to)))
    BY <2>1, PacketTaken
  <2>3. QED
    BY <1>3, <1>5, <1>6, <2>2
<1>8. Splices(T, R, o, k, z) /\ Scan(T)[o].depth = 0 /\ Like(Scan(T)[z], Scan(T)[o], ps)
  BY <1>6, <1>7, Zenon DEF Taken
<1>9. Leaves(T, R, ps)
  BY <1>3, <1>8, Spliced
<1>10. QED
  BY <1>3, <1>5, <1>9, Zenon

(* The spaces that are cut off in front, and those EncryPt adds at the     *)
(* end, change nothing.                                                    *)
LEMMA MinLeast ==
  ASSUME NEW S \in SUBSET Nat, S # {}
  PROVE  Min(S) \in S /\ \A i \in S : Min(S) <= i
BY LeastNatural DEF Min

LEMMA TrimPlaces ==
  ASSUME NEW s \in Seq(Byte)
  PROVE  /\ TrimLeft(s) \in Seq(Byte)
         /\ \E m \in 0 .. Len(s) : /\ \A i \in 1 .. m : s[i] = Space
                                   /\ Splices(s, TrimLeft(s), 0, 0, m)
<1>1. PICK N \in Nat : N = Len(s)
  OBVIOUS
<1> DEFINE I == {i \in 1 .. N : s[i] # Space}
<1>2. PICK m \in 0 .. N : /\ \A i \in 1 .. m : s[i] = Space
                          /\ TrimLeft(s) = SubSeq(s, m + 1, N)
  <2>1. CASE I = {}
    <3>1. TrimLeft(s) = <<>>
      BY <1>1, <2>1, Zenon DEF TrimLeft, SelectInSeq
    <3>2. SubSeq(s, N + 1, N) = <<>>
      BY <1>1
    <3>3. N \in 0 .. N /\ \A i \in 1 .. N : s[i] = Space
      BY <2>1
    <3>4. QED
      BY <3>1, <3>2, <3>3
  <2>2. CASE I # {}
    <3>1. I \in SUBSET Nat
      OBVIOUS
    <3>2. Min(I) \in I /\ \A i \in I : Min(I) <= i
      BY <2>2, <3>1, MinLeast
    <3>3. PICK first \in 1 .. N : first = Min(I) /\ \A i \in I : first <= i
      BY <3>2
    <3>4. first # 0
      OBVIOUS
    <3>5. SelectInSeq(s, LAMBDA b : b # Space) = first
      BY <1>1, <2>2, <3>3, Zenon DEF SelectInSeq
    <3>6. TrimLeft(s) = SubSeq(s, first, N)
      BY <1>1, <3>4, <3>5, Zenon DEF TrimLeft
    <3>7. ASSUME NEW i \in 1 .. first - 1 PROVE s[i] = Space
      <4>1. i \in 1 .. N /\ ~(first <= i)
        OBVIOUS
      <4>2. QED
        BY <3>3, <4>1
    <3>8. first - 1 \in 0 .. N /\ (first - 1) + 1 = first
      OBVIOUS
    <3>9. QED
      BY <3>6, <3>7, <3>8
  <2>3. QED
    BY <2>1, <2>2
<1> HIDE DEF I
<1>3. m \in Nat /\ N \in m .. Len(s)
  BY <1>1
<1>4. PICK r \in Seq(Byte) : r = TrimLeft(s) /\ IsPiece(r, s, m, N)
  BY <1>2, <1>3, PieceOf
<1>5. Len(r) = N - m /\ \A k \in 1 .. N - m : r[k] = s[m + k]
  BY <1>4 DEF IsPiece
<1>6. ASSUME NEW i \in m + 1 .. N PROVE r[i - m + 0 + 0] = s[i]
  <2>1. i - m \in 1 .. N - m /\ m + (i - m) = i /\ i - m + 0 + 0 = i - m
    BY <1>3
  <2>2. QED
    BY <1>5, <2>1
<1>7. /\ 0 \in Nat /\ m \in 0 .. N /\ N - m = 0 + 0 + (N - m)
      /\ 1 .. 0 = {} /\ 0 + 1 .. 0 + 0 = {}
  OBVIOUS
<1>8. (\A i \in 1 .. 0 : r[i] = s[i]) /\ (\A i \in 0 + 1 .. 0 + 0 : r[i] = Space)
  BY <1>7
<1>9. Splices(s, r, 0, 0, m)
  BY <1>1, <1>5, <1>6, <1>7, <1>8, Zenon DEF Splices
<1>10. QED
  BY <1>1, <1>2, <1>4, <1>9

(* A text left without any packet taken out holds what it held.            *)
LEMMA LeavesAll ==
  ASSUME NEW T, NEW R \in Seq(Byte), NEW none, none = <<>>, Leaves(T, R, none)
  PROVE  Tidy(R) /\ PacketsOf(R) = PacketsOf(T)
BY NoneBefore, Zenon DEF Leaves

(* Leading spaces taken away leave the packets and the brackets.           *)
LEMMA TrimmedOff ==
  ASSUME PlainBeat, NEW s \in Seq(Byte), NEW W \in Seq(Byte), Tidy(s \o W)
  PROVE  /\ Tidy(TrimLeft(s) \o W)
         /\ PacketsOf(TrimLeft(s) \o W) = PacketsOf(s \o W)
<1>1. PICK r \in Seq(Byte), m \in 0 .. Len(s) :
        r = TrimLeft(s) /\ (\A i \in 1 .. m : s[i] = Space) /\ Splices(s, r, 0, 0, m)
  BY TrimPlaces
<1>2. PICK T \in Seq(Byte), R \in Seq(Byte), z \in Nat, none \in Seq(Seq(Byte)) :
        T = s \o W /\ R = r \o W /\ z = 0 /\ none = <<>>
  <2>1. <<>> \in Seq(Seq(Byte)) /\ 0 \in Nat
    OBVIOUS
  <2>2. PICK none \in Seq(Seq(Byte)) : none = <<>>
    BY <2>1, Zenon
  <2>3. PICK T \in Seq(Byte), R \in Seq(Byte) : T = s \o W /\ R = r \o W
    BY ConcatType
  <2>4. QED
    BY <2>1, <2>2, <2>3, Zenon
<1>3. Splices(T, R, z, z, m)
  <2>1. Splices(s, r, z, z, m)
    BY <1>1, <1>2, Zenon
  <2>2. QED
    BY <1>2, <2>1, SplicesOn
<1>4. Scan(T)[m] = Scan(T)[z] /\ Scan(T)[z] = NoPackets /\ NoPackets.depth = 0
  <2>1. PICK N \in Nat, L \in Nat : N = Len(s) /\ L = Len(T) /\ N <= L
                                    /\ \A i \in 1 .. N : T[i] = s[i]
    BY <1>2
  <2>2. ASSUME NEW i \in z + 1 .. m PROVE T[i] # Open /\ T[i] # Close
    <3>1. i \in 1 .. m /\ i \in 1 .. N
      BY <1>2, <2>1
    <3>2. QED
      BY <1>1, <2>1, <3>1 DEF Open, Close, Space
  <2>3. m \in z .. Len(T) /\ m \in z .. m
    BY <1>2, <2>1
  <2>4. Scan(T)[z] = NoPackets /\ NoPackets.depth = 0
    BY <1>2, ScanFacts DEF NoPackets
  <2>5. Scan(T)[z].depth = 0 => Scan(T)[m] = Scan(T)[z]
    BY <2>2, <2>3, DepthStays
  <2>6. QED
    BY <2>4, <2>5
<1>5. NoPackets \in Collected
  <2>1. 0 \in 0 .. Len(T)
    OBVIOUS
  <2>2. QED
    BY <2>1, ScanFacts
<1>6. Like(Scan(T)[m], Scan(T)[z], none)
  BY <1>2, <1>4, <1>5, LikeItself, Zenon
<1>7. Leaves(T, R, none)
  <2>1. Tidy(T) /\ Scan(T)[z].depth = 0
    BY <1>2, <1>4
  <2>2. QED
    BY <1>3, <1>6, <2>1, Spliced
<1>8. QED
  BY <1>1, <1>2, <1>7, LeavesAll, Zenon

(* Spaces put behind a rest leave the packets and the brackets.            *)
LEMMA PaddedOn ==
  ASSUME PlainBeat, NEW r \in Seq(Byte), NEW W \in Seq(Byte), Tidy(r \o W)
  PROVE  /\ Tidy(WithSpaces(r) \o W)
         /\ PacketsOf(WithSpaces(r) \o W) = PacketsOf(r \o W)
<1>1. PICK n \in Nat, k \in Nat : n = Len(r) /\ k = PadLen(n)
  BY PadLenNat
<1>2. PICK spaces \in Seq(Byte) : /\ spaces = [i \in 1 .. k |-> Space] /\ Len(spaces) = k
                                  /\ \A i \in 1 .. k : spaces[i] = Space
  <2>1. Space \in Byte
    BY DEF Space, Byte
  <2>2. PICK b \in Byte : b = Space
    BY <2>1
  <2> DEFINE x == [i \in 1 .. k |-> b]
  <2>3. /\ x \in Seq(Byte) /\ Len(x) = k
        /\ \A i \in 1 .. k : x[i] = b
    OBVIOUS
  <2>4. x = [i \in 1 .. k |-> Space]
    BY <2>2
  <2> HIDE DEF x
  <2>5. QED
    BY <2>2, <2>3, <2>4
<1>3. PICK s \in Seq(Byte) : s = WithSpaces(r) /\ s = r \o spaces
  <2>1. WithSpaces(r) = r \o spaces
    BY <1>1, <1>2, Zenon DEF WithSpaces
  <2>2. QED
    BY <2>1, ConcatType
<1>4. Splices(r, s, n, k, n)
  <2>1. Len(s) = n + k
    BY <1>1, <1>2, <1>3, ConcatType
  <2>2. StandsIn(s, r, 0) /\ StandsIn(s, spaces, n)
    BY <1>1, <1>3, JoinedAt
  <2>3. /\ \A i \in 1 .. n : s[i] = r[i]
        /\ \A i \in 1 .. k : s[n + i] = Space
    BY <1>1, <1>2, <2>2 DEF StandsIn
  <2>4. ASSUME NEW i \in n + 1 .. n + k PROVE s[i] = Space
    <3>1. i - n \in 1 .. k /\ n + (i - n) = i
      OBVIOUS
    <3>2. QED
      BY <2>3, <3>1
  <2>5. n + 1 .. n = {} /\ n \in n .. n /\ n + k = n + k + (n - n)
    OBVIOUS
  <2>6. \A i \in n + 1 .. n : s[i - n + n + k] = r[i]
    BY <2>5
  <2>7. QED
    BY <1>1, <2>1, <2>3, <2>4, <2>5, <2>6, Zenon DEF Splices
<1>5. PICK T \in Seq(Byte), R \in Seq(Byte), none \in Seq(Seq(Byte)) :
        T = r \o W /\ R = s \o W /\ none = <<>>
  <2>1. <<>> \in Seq(Seq(Byte))
    OBVIOUS
  <2>2. PICK none \in Seq(Seq(Byte)) : none = <<>>
    BY <2>1, Zenon
  <2>3. PICK T \in Seq(Byte), R \in Seq(Byte) : T = r \o W /\ R = s \o W
    BY ConcatType
  <2>4. QED
    BY <2>2, <2>3, Zenon
<1>6. Splices(T, R, n, k, n)
  BY <1>4, <1>5, SplicesOn
<1>7. Scan(T)[n] \in Collected
  <2>1. n \in 0 .. Len(T)
    BY <1>1, <1>5
  <2>2. QED
    BY <2>1, ScanFacts
<1>8. Like(Scan(T)[n], Scan(T)[n], none)
  BY <1>5, <1>7, LikeItself, Zenon
<1>9. Leaves(T, R, none)
  BY <1>5, <1>6, <1>8, Spliced
<1>10. QED
  BY <1>3, <1>5, <1>9, LeavesAll, Zenon

-----------------------------------------------------------------------------
(* Sequences put together out of others, one after the other.              *)
Groupable(u, v, w) == (u \o v) \o w = u \o (v \o w)

LEMMA ConcatGroups ==
  ASSUME NEW S, NEW u \in Seq(S), NEW v \in Seq(S), NEW w \in Seq(S)
  PROVE  Groupable(u, v, w)
BY DEF Groupable

Flattens(f, c) ==
  /\ f[1] = c[1]
  /\ \A i \in 2 .. Len(c) : f[i] = f[i - 1] \o c[i]

LEMMA FlatScan ==
  ASSUME NEW S, NEW c \in Seq(Seq(S)), c # <<>>
  PROVE  \E f : /\ Flattens(f, c) /\ FlattenSeq(c) = f[Len(c)]
                /\ \A i \in 1 .. Len(c) : f[i] \in Seq(S)
<1>1. PICK N \in Nat \ {0} : N = Len(c)
  OBVIOUS
<1> DEFINE Sol(f) == f = [i \in 1 .. Len(c) |-> IF i = 1 THEN c[i] ELSE f[i - 1] \o c[i]]
           flat == CHOOSE f : Sol(f)
<1>2. FlattenSeq(c) = flat[N]
  BY <1>1 DEF FlattenSeq
<1>3. PICK D : D = Seq(S) /\ \A i \in 1 .. N : c[i] \in D
  BY <1>1
<1>4. Sol(flat)
  <2> DEFINE step == [p \in D \X (1 .. N) |-> IF p[2] = 1 THEN c[1] ELSE p[1] \o c[p[2]]]
  <2>1. \A u \in D, i \in 1 .. N : (IF i = 1 THEN c[1] ELSE u \o c[i]) \in D
    BY <1>3, ConcatType
  <2>2. step \in [D \X (1 .. N) -> D]
    BY <2>1
  <2>3. \A u \in D, i \in 1 .. N : step[<<u, i>>] = IF i = 1 THEN c[1] ELSE u \o c[i]
    OBVIOUS
  <2> HIDE DEF step
  <2>4. PICK base \in D : base = c[1]
    BY <1>3
  <2>5. PICK f \in [0 .. N -> D] : Follows(f, N, base, step)
    BY <2>2, RecursionExists
  <2>6. PICK g : g = [i \in 1 .. N |-> f[i]]
    OBVIOUS
  <2>7. ASSUME NEW i \in 1 .. N
        PROVE  g[i] = IF i = 1 THEN c[i] ELSE g[i - 1] \o c[i]
    <3>1. i - 1 \in 0 .. N /\ f[i - 1] \in D
      OBVIOUS
    <3>2. f[i] = step[<<f[i - 1], i>>]
      BY <2>5 DEF Follows
    <3>3. f[i] = IF i = 1 THEN c[1] ELSE f[i - 1] \o c[i]
      BY <2>3, <3>1, <3>2
    <3>4. CASE i = 1
      BY <2>6, <3>3, <3>4
    <3>5. CASE i # 1
      <4>1. i - 1 \in 1 .. N
        BY <3>5
      <4>2. QED
        BY <2>6, <3>3, <3>5, <4>1
    <3>6. QED
      BY <3>4, <3>5
  <2>8. Sol(g)
    BY <1>1, <2>6, <2>7
  <2>9. QED
    BY <2>8
<1> HIDE DEF flat
<1>5. \A i \in 1 .. N : flat[i] = IF i = 1 THEN c[i] ELSE flat[i - 1] \o c[i]
  BY <1>1, <1>4
<1>6. Flattens(flat, c)
  <2>1. 1 \in 1 .. N
    OBVIOUS
  <2>2. flat[1] = c[1]
    BY <1>5, <2>1
  <2>3. \A i \in 2 .. N : i \in 1 .. N /\ i # 1
    OBVIOUS
  <2>4. \A i \in 2 .. N : flat[i] = flat[i - 1] \o c[i]
    BY <1>5, <2>3
  <2>5. QED
    BY <1>1, <2>2, <2>4, Zenon DEF Flattens
<1> DEFINE P == {i \in 0 .. N : i = 0 \/ flat[i] \in D}
<1>7. 0 \in P /\ P \in SUBSET (0 .. N)
  OBVIOUS
<1>8. ASSUME NEW i \in 1 .. N, i - 1 \in P PROVE i \in P
  <2>1. CASE i = 1
    BY <1>3, <1>5, <2>1
  <2>2. CASE i # 1
    <3>1. i - 1 # 0 /\ flat[i - 1] \in D /\ c[i] \in D
      BY <1>3, <1>8, <2>2
    <3>2. flat[i] = flat[i - 1] \o c[i]
      BY <1>5, <2>2
    <3>3. flat[i] \in D
      BY <1>3, <3>1, <3>2, ConcatType
    <3>4. QED
      BY <3>3
  <2>3. QED
    BY <2>1, <2>2
<1> HIDE DEF P
<1>9. P = 0 .. N
  BY <1>7, <1>8, OneByOne
<1>10. \A i \in 1 .. N : flat[i] \in D
  <2>1. \A i \in 1 .. N : i \in 0 .. N /\ i # 0
    OBVIOUS
  <2>2. QED
    BY <1>9, <2>1 DEF P
<1>11. QED
  BY <1>1, <1>2, <1>3, <1>6, <1>10

(* No sequence makes an empty one.                                         *)
LEMMA FlatNothing == FlattenSeq(<<>>) = <<>>
<1>1. Len(<<>>) = 0
  OBVIOUS
<1>2. QED
  BY <1>1, Zenon DEF FlattenSeq

(* A flattened sequence has the values of its parts.                       *)
LEMMA FlatType ==
  ASSUME NEW S, NEW c \in Seq(Seq(S))
  PROVE  FlattenSeq(c) \in Seq(S)
<1>1. CASE c = <<>>
  <2>1. <<>> \in Seq(S)
    OBVIOUS
  <2>2. QED
    BY <1>1, <2>1, FlatNothing, Zenon
<1>2. CASE c # <<>>
  <2>1. PICK f : FlattenSeq(c) = f[Len(c)] /\ \A i \in 1 .. Len(c) : f[i] \in Seq(S)
    BY <1>2, FlatScan
  <2>2. Len(c) \in 1 .. Len(c)
    BY <1>2
  <2>3. QED
    BY <2>1, <2>2
<1>3. QED
  BY <1>1, <1>2

FlatJoins(c, d) == FlattenSeq(c \o d) = FlattenSeq(c) \o FlattenSeq(d)

LEMMA FlatJoin ==
  ASSUME NEW S, NEW c \in Seq(Seq(S)), NEW d \in Seq(Seq(S))
  PROVE  FlatJoins(c, d)
<1>1. CASE c = <<>>
  <2>1. <<>> \o d = d
    OBVIOUS
  <2>2. PICK y \in Seq(S) : y = FlattenSeq(d)
    BY FlatType
  <2>3. <<>> \o y = y
    OBVIOUS
  <2>4. QED
    BY <1>1, <2>1, <2>2, <2>3, FlatNothing, Zenon DEF FlatJoins
<1>2. CASE d = <<>>
  <2>1. c \o <<>> = c
    OBVIOUS
  <2>2. PICK y \in Seq(S) : y = FlattenSeq(c)
    BY FlatType
  <2>3. y \o <<>> = y
    OBVIOUS
  <2>4. QED
    BY <1>2, <2>1, <2>2, <2>3, FlatNothing, Zenon DEF FlatJoins
<1>3. CASE c # <<>> /\ d # <<>>
  <2>1. PICK D : D = Seq(S)
    OBVIOUS
  <2>2. PICK n \in Nat \ {0}, z \in Nat \ {0} : n = Len(c) /\ z = Len(d)
    BY <1>3
  <2>3. PICK e \in Seq(D) : /\ e = c \o d /\ Len(e) = n + z
                            /\ \A i \in 1 .. n : e[i] = c[i]
                            /\ \A i \in 1 .. z : e[n + i] = d[i]
    <3>1. c \in Seq(D) /\ d \in Seq(D)
      BY <2>1
    <3>2. c \o d \in Seq(D) /\ Len(c \o d) = n + z
      BY <2>2, <3>1, ConcatType
    <3>3. StandsIn(c \o d, c, 0) /\ StandsIn(c \o d, d, n)
      BY <2>2, <3>1, JoinedAt
    <3>4. /\ \A i \in 1 .. n : (c \o d)[0 + i] = c[i]
          /\ \A i \in 1 .. z : (c \o d)[n + i] = d[i]
      BY <2>2, <3>3, Zenon DEF StandsIn
    <3>5. \A i \in 1 .. n : 0 + i = i
      OBVIOUS
    <3>6. \A i \in 1 .. n : (c \o d)[i] = c[i]
      BY <3>4, <3>5
    <3>7. QED
      BY <3>2, <3>4, <3>6, Zenon
  <2>4. e # <<>>
    BY <2>2, <2>3
  <2>5. PICK f : /\ Flattens(f, c) /\ FlattenSeq(c) = f[n]
                 /\ \A i \in 1 .. n : f[i] \in D
    BY <1>3, <2>1, <2>2, FlatScan
  <2>6. PICK g : /\ Flattens(g, d) /\ FlattenSeq(d) = g[z]
                 /\ \A i \in 1 .. z : g[i] \in D
    BY <1>3, <2>1, <2>2, FlatScan
  <2>7. PICK h : Flattens(h, e) /\ FlattenSeq(e) = h[n + z]
    <3>1. e \in Seq(Seq(S)) /\ e # <<>> /\ Len(e) = n + z
      BY <2>1, <2>3, <2>4
    <3>2. PICK h : Flattens(h, e) /\ FlattenSeq(e) = h[Len(e)]
      BY <3>1, FlatScan
    <3>3. QED
      BY <3>1, <3>2
  <2>8. /\ f[1] = c[1] /\ \A i \in 2 .. n : f[i] = f[i - 1] \o c[i]
        /\ g[1] = d[1] /\ \A i \in 2 .. z : g[i] = g[i - 1] \o d[i]
        /\ h[1] = e[1] /\ \A i \in 2 .. n + z : h[i] = h[i - 1] \o e[i]
    BY <2>2, <2>3, <2>5, <2>6, <2>7, Zenon DEF Flattens
  <2> DEFINE P == {i \in 0 .. n : i = 0 \/ h[i] = f[i]}
  <2>9. 0 \in P /\ P \in SUBSET (0 .. n)
    OBVIOUS
  <2>10. ASSUME NEW i \in 1 .. n, i - 1 \in P PROVE i \in P
    <3>1. CASE i = 1
      <4>1. e[1] = c[1]
        BY <2>3, <3>1
      <4>2. h[i] = f[i]
        BY <2>8, <3>1, <4>1, Zenon
      <4>3. QED
        BY <4>2
    <3>2. CASE i # 1
      <4>1. i \in 2 .. n /\ i \in 2 .. n + z /\ i - 1 # 0 /\ h[i - 1] = f[i - 1]
        BY <2>10, <3>2
      <4>2. /\ h[i] = h[i - 1] \o e[i]
            /\ f[i] = f[i - 1] \o c[i]
            /\ e[i] = c[i]
        BY <2>3, <2>8, <4>1
      <4>3. h[i] = f[i]
        BY <4>1, <4>2, Zenon
      <4>4. QED
        BY <4>3
    <3>3. QED
      BY <3>1, <3>2
  <2> HIDE DEF P
  <2>11. P = 0 .. n
    BY <2>9, <2>10, OneByOne
  <2>12. PICK x \in D : x = f[n] /\ x = h[n]
    <3>1. n \in 0 .. n /\ n # 0 /\ n \in 1 .. n
      OBVIOUS
    <3>2. h[n] = f[n]
      BY <2>11, <3>1 DEF P
    <3>3. QED
      BY <2>5, <3>1, <3>2
  <2> DEFINE Q == {i \in 0 .. z : i = 0 \/ h[n + i] = x \o g[i]}
  <2>13. 0 \in Q /\ Q \in SUBSET (0 .. z)
    OBVIOUS
  <2>14. ASSUME NEW i \in 1 .. z, i - 1 \in Q PROVE i \in Q
    <3>1. n + i \in 2 .. n + z /\ (n + i) - 1 = n + (i - 1)
      OBVIOUS
    <3>2. h[n + i] = h[n + (i - 1)] \o d[i]
      BY <2>3, <2>8, <3>1, Zenon
    <3>3. CASE i = 1
      <4>1. n + (i - 1) = n
        BY <3>3
      <4>2. h[n + i] = x \o g[i]
        BY <2>8, <2>12, <3>2, <3>3, <4>1, Zenon
      <4>3. QED
        BY <4>2
    <3>4. CASE i # 1
      <4>1. i \in 2 .. z /\ i - 1 \in 1 .. z /\ i - 1 # 0 /\ h[n + (i - 1)] = x \o g[i - 1]
        BY <2>14, <3>4
      <4>2. PICK u \in D, v \in D : u = g[i - 1] /\ v = d[i]
        <5>1. d[i] \in D
          BY <2>1, <2>2
        <5>2. QED
          BY <2>6, <4>1, <5>1
      <4>3. Groupable(x, u, v)
        BY <2>1, <2>12, <4>2, ConcatGroups
      <4>4. h[n + i] = x \o g[i]
        BY <2>8, <3>2, <4>1, <4>2, <4>3, Zenon DEF Groupable
      <4>5. QED
        BY <4>4
    <3>5. QED
      BY <3>3, <3>4
  <2> HIDE DEF Q
  <2>15. Q = 0 .. z
    BY <2>13, <2>14, OneByOne
  <2>16. h[n + z] = x \o g[z]
    <3>1. z \in 0 .. z /\ z # 0
      OBVIOUS
    <3>2. QED
      BY <2>15, <3>1 DEF Q
  <2>17. QED
    BY <2>3, <2>5, <2>6, <2>7, <2>12, <2>16, Zenon DEF FlatJoins
<1>4. QED
  BY <1>1, <1>2, <1>3

FlatAppends(c, x) == FlattenSeq(Append(c, x)) = FlattenSeq(c) \o x

LEMMA FlatAppend ==
  ASSUME NEW S, NEW c \in Seq(Seq(S)), NEW x \in Seq(S)
  PROVE  FlatAppends(c, x) /\ FlattenSeq(<<x>>) = x
<1>1. PICK D : D = Seq(S)
  OBVIOUS
<1>2. PICK d \in Seq(D) : d = <<x>> /\ d # <<>> /\ Len(d) = 1 /\ d[1] = x
  <2>1. PICK y \in D : y = x
    BY <1>1
  <2>2. <<y>> \in Seq(D) /\ <<y>> # <<>> /\ Len(<<y>>) = 1 /\ <<y>>[1] = y
    OBVIOUS
  <2>3. QED
    BY <2>1, <2>2, Zenon
<1>3. FlattenSeq(d) = x
  <2>1. PICK f : Flattens(f, d) /\ FlattenSeq(d) = f[Len(d)]
    BY <1>1, <1>2, FlatScan
  <2>2. QED
    BY <1>2, <2>1, Zenon DEF Flattens
<1>4. FlatJoins(c, d)
  BY <1>1, <1>2, FlatJoin
<1>5. Append(c, x) = c \o d
  <2>1. c \in Seq(D) /\ x \in D
    BY <1>1
  <2>2. Append(c, x) = c \o <<x>>
    BY <2>1
  <2>3. QED
    BY <1>2, <2>2, Zenon
<1>6. QED
  BY <1>2, <1>3, <1>4, <1>5, Zenon DEF FlatJoins, FlatAppends

-----------------------------------------------------------------------------
(* Decryption of groups of characters, one behind the other, if no '='     *)
(* ends it in between.                                                     *)
LEMMA SameSequence ==
  ASSUME NEW S, NEW s \in Seq(S), NEW t \in Seq(S), Len(s) = Len(t),
         \A i \in 1 .. Len(s) : s[i] = t[i]
  PROVE  s = t
<1>1. PICK D : D = 1 .. Len(s) /\ D = 1 .. Len(t)
  OBVIOUS
<1>2. s \in [D -> S]
  <2>1. s \in [1 .. Len(s) -> S]
    OBVIOUS
  <2>2. QED
    BY <1>1, <2>1, Zenon
<1>3. t \in [D -> S]
  <2>1. t \in [1 .. Len(t) -> S]
    OBVIOUS
  <2>2. QED
    BY <1>1, <2>1, Zenon
<1>4. \A i \in D : s[i] = t[i]
  BY <1>1
<1>5. QED
  BY <1>2, <1>3, <1>4

IsJoin(u, s, t, n, z) ==
  /\ Len(u) = n + z
  /\ \A i \in 1 .. n : u[i] = s[i]
  /\ \A i \in 1 .. z : u[n + i] = t[i]

LEMMA Joining ==
  ASSUME NEW S, NEW s \in Seq(S), NEW t \in Seq(S), NEW n, n = Len(s), NEW z, z = Len(t)
  PROVE  s \o t \in Seq(S) /\ IsJoin(s \o t, s, t, n, z)
<1>1. s \o t \in Seq(S) /\ Len(s \o t) = n + z
  BY ConcatType
<1>2. StandsIn(s \o t, s, 0) /\ StandsIn(s \o t, t, n)
  BY JoinedAt
<1>3. /\ \A i \in 1 .. n : (s \o t)[0 + i] = s[i]
      /\ \A i \in 1 .. z : (s \o t)[n + i] = t[i]
  BY <1>2, Zenon DEF StandsIn
<1>4. \A i \in 1 .. n : 0 + i = i
  OBVIOUS
<1>5. \A i \in 1 .. n : (s \o t)[i] = s[i]
  BY <1>3, <1>4
<1>6. QED
  BY <1>1, <1>3, <1>5, Zenon DEF IsJoin

DeMixJoins(s, t) == DeMixFour(s \o t) = DeMixFour(s) \o DeMixFour(t)

LEMMA DeMixJoin ==
  ASSUME NEW s \in Seq(Char), NEW t \in Seq(Char), NEW n \in Nat, NEW z \in Nat,
         Len(s) = 4 * n, Len(t) = 4 * z
  PROVE  DeMixJoins(s, t)
<1>1. PICK u \in Seq(Char) : /\ u = s \o t /\ Len(u) = 4 * (n + z)
                             /\ \A i \in 1 .. 4 * n : u[i] = s[i]
                             /\ \A i \in 1 .. 4 * z : u[4 * n + i] = t[i]
  <2>1. PICK N \in Nat, Z \in Nat : N = 4 * n /\ Z = 4 * z /\ N + Z = 4 * (n + z)
    OBVIOUS
  <2>2. s \o t \in Seq(Char) /\ IsJoin(s \o t, s, t, N, Z)
    BY <2>1, Joining
  <2>3. QED
    BY <2>1, <2>2, Zenon DEF IsJoin
<1>2. PICK from \in [1 .. 4 -> 1 .. 4] : from = DeMixedFrom
  BY FromType
<1>3. PICK x \in Seq(Char), v \in Seq(Char), w \in Seq(Char) :
        /\ x = Permute(from, u) /\ Len(x) = 4 * (n + z)
        /\ v = Permute(from, s) /\ Len(v) = 4 * n
        /\ w = Permute(from, t) /\ Len(w) = 4 * z
  <2>1. /\ Permute(from, u) \in Seq(Char) /\ Len(Permute(from, u)) = Len(u)
        /\ Permute(from, s) \in Seq(Char) /\ Len(Permute(from, s)) = Len(s)
        /\ Permute(from, t) \in Seq(Char) /\ Len(Permute(from, t)) = Len(t)
    BY PermuteType
  <2>2. QED
    BY <1>1, <2>1, Zenon
<1>4. ASSUME NEW g \in Nat, NEW k \in 1 .. 4, g < n PROVE x[4 * g + k] = v[4 * g + k]
  <2>1. Grouped(u, g, k) /\ Grouped(s, g, k)
    <3>1. (4 * (n + z)) \div 4 = n + z /\ (4 * n) \div 4 = n
      OBVIOUS
    <3>2. g < n + z
      BY <1>4
    <3>3. QED
      BY <1>1, <1>4, <3>1, <3>2 DEF Grouped
  <2>2. Moved(from, u, g, k) /\ Moved(from, s, g, k)
    BY <1>1, <2>1, PermuteAt
  <2>3. PICK j \in 1 .. 4 : j = from[k]
    OBVIOUS
  <2>4. x[4 * g + k] = u[4 * g + j] /\ v[4 * g + k] = s[4 * g + j]
    BY <1>3, <2>2, <2>3, Zenon DEF Moved
  <2>5. 4 * g + j \in 1 .. 4 * n
    BY <1>4
  <2>6. QED
    BY <1>1, <2>4, <2>5
<1>5. ASSUME NEW g \in Nat, NEW k \in 1 .. 4, g < z
      PROVE  x[4 * (n + g) + k] = w[4 * g + k]
  <2>1. Grouped(u, n + g, k) /\ Grouped(t, g, k)
    <3>1. (4 * (n + z)) \div 4 = n + z /\ (4 * z) \div 4 = z
      OBVIOUS
    <3>2. n + g < n + z
      BY <1>5
    <3>3. QED
      BY <1>1, <1>5, <3>1, <3>2 DEF Grouped
  <2>2. Moved(from, u, n + g, k) /\ Moved(from, t, g, k)
    <3>1. n + g \in Nat
      OBVIOUS
    <3>2. QED
      BY <2>1, <3>1, PermuteAt
  <2>3. PICK j \in 1 .. 4 : j = from[k]
    OBVIOUS
  <2>4. x[4 * (n + g) + k] = u[4 * (n + g) + j] /\ w[4 * g + k] = t[4 * g + j]
    BY <1>3, <2>2, <2>3, Zenon DEF Moved
  <2>5. 4 * g + j \in 1 .. 4 * z /\ 4 * (n + g) + j = 4 * n + (4 * g + j)
    BY <1>5
  <2>6. QED
    BY <1>1, <2>4, <2>5
<1>6. PICK y \in Seq(Char) : /\ y = v \o w /\ Len(y) = 4 * (n + z)
                             /\ \A i \in 1 .. 4 * n : y[i] = v[i]
                             /\ \A i \in 1 .. 4 * z : y[4 * n + i] = w[i]
  <2>1. PICK N \in Nat, Z \in Nat : N = 4 * n /\ Z = 4 * z /\ N + Z = 4 * (n + z)
    OBVIOUS
  <2>2. v \o w \in Seq(Char) /\ IsJoin(v \o w, v, w, N, Z)
    BY <1>3, <2>1, Joining
  <2>3. QED
    BY <2>1, <2>2, Zenon DEF IsJoin
<1>7. ASSUME NEW i \in 1 .. 4 * (n + z) PROVE x[i] = y[i]
  <2>1. PICK g \in Nat, k \in 1 .. 4 : i = 4 * g + k
    <3>1. i \in Nat \ {0}
      OBVIOUS
    <3>2. QED
      BY <3>1, FourSplit
  <2>2. CASE g < n
    <3>1. i \in 1 .. 4 * n
      BY <2>1, <2>2
    <3>2. QED
      BY <1>4, <1>6, <2>1, <2>2, <3>1
  <2>3. CASE ~(g < n)
    <3>1. PICK h \in Nat : g = n + h /\ h < z
      <4>1. g - n \in Nat /\ g = n + (g - n) /\ g - n < z
        BY <2>1, <2>3
      <4>2. QED
        BY <4>1
    <3>2. 4 * h + k \in 1 .. 4 * z /\ 4 * n + (4 * h + k) = i /\ 4 * (n + h) + k = i
      BY <2>1, <3>1
    <3>3. x[4 * (n + h) + k] = w[4 * h + k]
      BY <1>5, <3>1
    <3>4. y[4 * n + (4 * h + k)] = w[4 * h + k]
      BY <1>6, <3>2, Zenon
    <3>5. QED
      BY <3>2, <3>3, <3>4
  <2>4. QED
    BY <2>2, <2>3
<1>8. x = y
  BY <1>3, <1>6, <1>7, SameSequence
<1>9. QED
  BY <1>1, <1>2, <1>3, <1>6, <1>8, Zenon DEF DeMixJoins, DeMixFour

(* The k-th byte of the g-th group of three comes from the g-th group of   *)
(* four characters.                                                        *)
DecodedFrom(y, g, k) ==
  Decode(y)[3 * g + k]
    = DecodeGroup(y[4 * g + 1] % Pad, y[4 * g + 2] % Pad,
                  y[4 * g + 3] % Pad, y[4 * g + 4] % Pad)[k]

LEMMA DecodeAt ==
  ASSUME NEW y \in Seq(Char), NEW g \in Nat, NEW k \in 1 .. 3,
         3 * g + k \in 1 .. DecodedLen(y)
  PROVE  DecodedFrom(y, g, k)
<1>1. (3 * g + k - 1) \div 3 = g /\ (3 * g + k - 1) % 3 = k - 1 /\ 1 + (k - 1) = k
  BY ThreePlaces
<1>2. Decode(y)[3 * g + k]
        = LET h == 4 * ((3 * g + k - 1) \div 3)
          IN DecodeGroup(y[h + 1] % Pad, y[h + 2] % Pad, y[h + 3] % Pad, y[h + 4] % Pad)
               [1 + ((3 * g + k - 1) % 3)]
  BY DEF Decode
<1>3. QED
  BY <1>1, <1>2 DEF DecodedFrom

PaddedAlike(u, t, n) == DecodedLen(u) = 3 * n + DecodedLen(t)

LEMMA PaddedJoin ==
  ASSUME NEW s \in Seq(Char), NEW t \in Seq(Char), NEW n \in Nat, NEW z \in Nat,
         Len(s) = 4 * n, Len(t) = 4 * z, Padded(s) = {},
         NEW N, N = 4 * n, NEW Z, Z = 4 * z,
         NEW u \in Seq(Char), IsJoin(u, s, t, N, Z)
  PROVE  PaddedAlike(u, t, n)
<1> USE DEF PaddedAlike
<1>1. (4 * (n + z)) \div 4 = n + z /\ (4 * n) \div 4 = n /\ (4 * z) \div 4 = z
  OBVIOUS
<1>7. /\ Len(u) = 4 * (n + z)
      /\ \A i \in 1 .. 4 * n : u[i] = s[i]
      /\ \A i \in 1 .. 4 * z : u[4 * n + i] = t[i]
  <2>1. 4 * n + 4 * z = 4 * (n + z)
    OBVIOUS
  <2>2. QED
    BY <2>1, Zenon DEF IsJoin
<1>2. ASSUME NEW g \in 1 .. z PROVE n + g \in Padded(u) <=> g \in Padded(t)
  <2>1. 4 * g \in 1 .. 4 * z /\ 4 * (n + g) = 4 * n + 4 * g /\ n + g \in 1 .. n + z
    OBVIOUS
  <2>2. u[4 * (n + g)] = t[4 * g]
    BY <1>7, <2>1
  <2>3. QED
    BY <1>1, <1>7, <2>1, <2>2 DEF Padded
<1>3. ASSUME NEW g \in Padded(u) PROVE g - n \in 1 .. z /\ n + (g - n) = g
  <2>1. g \in 1 .. n + z /\ u[4 * g] = Pad
    BY <1>1, <1>7 DEF Padded
  <2>2. ~(g <= n)
    <3> SUFFICES ASSUME g <= n PROVE FALSE
      OBVIOUS
    <3>1. g \in 1 .. n /\ 4 * g \in 1 .. 4 * n
      BY <2>1
    <3>2. s[4 * g] = Pad
      BY <1>7, <2>1, <3>1
    <3>3. g \in Padded(s)
      BY <1>1, <3>1, <3>2 DEF Padded
    <3>4. QED
      BY <3>3
  <2>3. QED
    BY <2>1, <2>2
<1>4. CASE Padded(t) = {}
  <2>1. Padded(u) = {}
    BY <1>2, <1>3, <1>4
  <2>2. DecodedLen(u) = 3 * (n + z) /\ DecodedLen(t) = 3 * z
    BY <1>1, <1>4, <1>7, <2>1 DEF DecodedLen
  <2>3. QED
    BY <2>2
<1>5. CASE Padded(t) # {}
  <2>2. Padded(t) \in SUBSET Nat /\ Padded(u) \in SUBSET Nat
    BY DEF Padded
  <2>3. PICK g \in Padded(t) : g = FirstPadded(t) /\ \A h \in Padded(t) : g <= h
    BY <1>5, <2>2, LeastNatural DEF FirstPadded
  <2>4. g \in 1 .. z
    BY <1>1, <2>3 DEF Padded
  <2>5. n + g \in Padded(u)
    BY <1>2, <2>3, <2>4
  <2>6. ASSUME NEW h \in Padded(u) PROVE n + g <= h
    <3>1. h \in Nat /\ h - n \in 1 .. z /\ n + (h - n) = h
      BY <1>3, <2>2
    <3>2. h - n \in Padded(t)
      BY <1>2, <3>1
    <3>3. g <= h - n
      BY <2>3, <3>2
    <3>4. QED
      BY <2>4, <3>1, <3>3
  <2>7. FirstPadded(u) \in Padded(u) /\ \A h \in Padded(u) : FirstPadded(u) <= h
    BY <2>5, <2>6, Zenon DEF FirstPadded
  <2>8. FirstPadded(u) = n + g
    <3>1. PICK h \in Nat : h = FirstPadded(u) /\ h <= n + g /\ n + g <= h
      BY <2>2, <2>5, <2>6, <2>7
    <3>2. PICK l \in Nat : l = n + g
      BY <2>4
    <3>3. h = l
      BY <3>1, <3>2
    <3>4. QED
      BY <3>1, <3>2, <3>3
  <2>9. u[4 * (n + g) - 1] = t[4 * g - 1]
    <3>1. 4 * g - 1 \in 1 .. 4 * z /\ 4 * (n + g) - 1 = 4 * n + (4 * g - 1)
      BY <2>4
    <3>2. QED
      BY <1>7, <3>1
  <2>10. PICK d \in {1, 2} : d = IF t[4 * g - 1] = Pad THEN 2 ELSE 1
    OBVIOUS
  <2>11. DecodedLen(t) = 3 * g - d
    BY <1>5, <2>3, <2>10, Zenon DEF DecodedLen
  <2>12. DecodedLen(u) = 3 * (n + g) - d
    <3>1. Padded(u) # {}
      BY <2>5
    <3>2. PICK l : l = FirstPadded(u) /\ l = n + g
      BY <2>8
    <3>3. DecodedLen(u) = 3 * l - (IF u[4 * l - 1] = Pad THEN 2 ELSE 1)
      BY <3>1, <3>2, Zenon DEF DecodedLen
    <3>4. u[4 * l - 1] = t[4 * g - 1]
      BY <2>9, <3>2
    <3>5. QED
      BY <2>10, <3>2, <3>3, <3>4, Zenon
  <2>13. QED
    BY <2>4, <2>11, <2>12
<1>6. QED
  BY <1>4, <1>5

DecodeJoins(s, t) == Decode(s \o t) = Decode(s) \o Decode(t)

LEMMA DecodeJoin ==
  ASSUME NEW s \in Seq(Char), NEW t \in Seq(Char), NEW n \in Nat, NEW z \in Nat,
         Len(s) = 4 * n, Len(t) = 4 * z, Padded(s) = {}
  PROVE  DecodeJoins(s, t)
<1>1. PICK u \in Seq(Char) : /\ u = s \o t /\ Len(u) = 4 * (n + z)
                             /\ \A i \in 1 .. 4 * n : u[i] = s[i]
                             /\ \A i \in 1 .. 4 * z : u[4 * n + i] = t[i]
  <2>1. PICK N \in Nat, Z \in Nat : N = 4 * n /\ Z = 4 * z /\ N + Z = 4 * (n + z)
    OBVIOUS
  <2>2. s \o t \in Seq(Char) /\ IsJoin(s \o t, s, t, N, Z)
    BY <2>1, Joining
  <2>3. QED
    BY <2>1, <2>2, Zenon DEF IsJoin
<1>2. PICK d \in Nat : d = DecodedLen(t) /\ d <= 3 * z /\ DecodedLen(u) = 3 * n + d
  <2>1. DecodedLen(t) \in Nat
    BY DecodeType
  <2>2. DecodedLen(t) <= 3 * (Len(t) \div 4) /\ (4 * z) \div 4 = z
    BY DecodedLenBound
  <2>3. DecodedLen(u) = 3 * n + DecodedLen(t)
    <3>1. PICK N \in Nat, Z \in Nat : N = 4 * n /\ Z = 4 * z /\ N + Z = 4 * (n + z)
      OBVIOUS
    <3>2. IsJoin(u, s, t, N, Z)
      BY <1>1, <3>1, Zenon DEF IsJoin
    <3>3. PaddedAlike(u, t, n)
      BY <3>1, <3>2, PaddedJoin, Zenon
    <3>4. QED
      BY <3>3 DEF PaddedAlike
  <2>4. QED
    BY <2>1, <2>2, <2>3
<1>3. DecodedLen(s) = 3 * n
  BY DEF DecodedLen
<1>4. PICK x \in Seq(Byte), v \in Seq(Byte), w \in Seq(Byte) :
        /\ x = Decode(u) /\ Len(x) = 3 * n + d
        /\ v = Decode(s) /\ Len(v) = 3 * n
        /\ w = Decode(t) /\ Len(w) = d
  <2>1. /\ Decode(u) \in Seq(Byte) /\ Len(Decode(u)) = DecodedLen(u)
        /\ Decode(s) \in Seq(Byte) /\ Len(Decode(s)) = DecodedLen(s)
        /\ Decode(t) \in Seq(Byte) /\ Len(Decode(t)) = DecodedLen(t)
    BY DecodeType
  <2>2. QED
    BY <1>2, <1>3, <2>1, Zenon
<1>5. ASSUME NEW i \in 1 .. 3 * n PROVE x[i] = v[i]
  <2>1. PICK g \in Nat, k \in 1 .. 3 : i = 3 * g + k
    <3>1. i \in Nat \ {0}
      OBVIOUS
    <3>2. QED
      BY <3>1, ThreeSplit
  <2>2. /\ 4 * g + 1 \in 1 .. 4 * n /\ 4 * g + 2 \in 1 .. 4 * n
        /\ 4 * g + 3 \in 1 .. 4 * n /\ 4 * g + 4 \in 1 .. 4 * n
    BY <2>1
  <2>3. /\ u[4 * g + 1] = s[4 * g + 1] /\ u[4 * g + 2] = s[4 * g + 2]
        /\ u[4 * g + 3] = s[4 * g + 3] /\ u[4 * g + 4] = s[4 * g + 4]
    BY <1>1, <2>2
  <2>4. 3 * g + k \in 1 .. DecodedLen(u) /\ 3 * g + k \in 1 .. DecodedLen(s)
    BY <1>2, <1>3, <2>1
  <2>5. DecodedFrom(u, g, k) /\ DecodedFrom(s, g, k)
    BY <2>4, DecodeAt, Zenon
  <2>6. QED
    BY <1>4, <2>1, <2>3, <2>5, Zenon DEF DecodedFrom
<1>6. ASSUME NEW i \in 1 .. d PROVE x[3 * n + i] = w[i]
  <2>1. PICK g \in Nat, k \in 1 .. 3 : i = 3 * g + k
    <3>1. i \in Nat \ {0}
      OBVIOUS
    <3>2. QED
      BY <3>1, ThreeSplit
  <2>2. PICK h \in Nat : h = n + g /\ 3 * h + k = 3 * n + i
    <3>1. n + g \in Nat /\ 3 * (n + g) + k = 3 * n + i
      BY <2>1
    <3>2. QED
      BY <3>1
  <2>3. ASSUME NEW j \in 1 .. 4 PROVE u[4 * h + j] = t[4 * g + j]
    <3>1. 3 * g < 3 * z
      BY <1>2, <2>1
    <3>3. 4 * g + j \in 1 .. 4 * z /\ 4 * h + j = 4 * n + (4 * g + j)
      BY <2>2, <3>1
    <3>4. QED
      BY <1>1, <3>3
  <2>4. /\ u[4 * h + 1] = t[4 * g + 1] /\ u[4 * h + 2] = t[4 * g + 2]
        /\ u[4 * h + 3] = t[4 * g + 3] /\ u[4 * h + 4] = t[4 * g + 4]
    BY <2>3
  <2>5. 3 * h + k \in 1 .. DecodedLen(u) /\ 3 * g + k \in 1 .. DecodedLen(t)
    BY <1>2, <2>1, <2>2
  <2>6. DecodedFrom(u, h, k) /\ DecodedFrom(t, g, k)
    BY <2>5, DecodeAt, Zenon
  <2>7. QED
    BY <1>4, <2>1, <2>2, <2>4, <2>6, Zenon DEF DecodedFrom
<1>7. PICK y \in Seq(Byte) : /\ y = v \o w /\ Len(y) = 3 * n + d
                             /\ \A i \in 1 .. 3 * n : y[i] = v[i]
                             /\ \A i \in 1 .. d : y[3 * n + i] = w[i]
  <2>1. PICK N \in Nat : N = 3 * n
    OBVIOUS
  <2>2. v \o w \in Seq(Byte) /\ IsJoin(v \o w, v, w, N, d)
    BY <1>4, <2>1, Joining
  <2>3. QED
    BY <2>1, <2>2, Zenon DEF IsJoin
<1>8. ASSUME NEW i \in 1 .. 3 * n + d PROVE x[i] = y[i]
  <2>1. CASE i <= 3 * n
    BY <1>5, <1>7, <2>1
  <2>2. CASE 3 * n < i
    <3>1. i - 3 * n \in 1 .. d /\ 3 * n + (i - 3 * n) = i
      BY <2>2
    <3>2. PICK j \in 1 .. d : j = i - 3 * n /\ 3 * n + j = i
      BY <3>1
    <3>3. QED
      BY <1>6, <1>7, <3>2
  <2>3. QED
    BY <2>1, <2>2
<1>9. x = y
  BY <1>4, <1>7, <1>8, SameSequence
<1>10. QED
  BY <1>1, <1>4, <1>7, <1>9, Zenon DEF DecodeJoins

(* Nothing is left over of whole groups of four.                           *)
LEMMA WholeAll ==
  ASSUME NEW x \in Seq(Char), NEW n \in Nat, Len(x) = 4 * n
  PROVE  Whole(x) = x
<1>1. Len(x) - (Len(x) % 4) = Len(x)
  OBVIOUS
<1>2. PICK N \in Nat : N = Len(x) /\ Len(x) - (Len(x) % 4) = N
  BY <1>1
<1>3. SubSeq(x, 1, N) = x
  BY <1>2
<1>4. QED
  BY <1>2, <1>3, Zenon DEF Whole

DeCryptJoins(s, t) == DeCrypt(s \o t) = DeCrypt(s) \o DeCrypt(t)

(* Two ciphertexts, the first of whole groups without padding: the text of *)
(* the first and then that of the second.                                  *)
LEMMA DeCryptJoin ==
  ASSUME NEW s \in Seq(Char), NEW t \in Seq(Char), NEW n \in Nat, NEW z \in Nat,
         Len(s) = 4 * n, Len(t) = 4 * z, Padded(DeMixFour(s)) = {}
  PROVE  DeCryptJoins(s, t)
<1>1. PICK u \in Seq(Char), l \in Nat : u = s \o t /\ l = n + z /\ Len(u) = 4 * l
  <2>1. s \o t \in Seq(Char) /\ Len(s \o t) = 4 * n + 4 * z /\ n + z \in Nat
        /\ 4 * n + 4 * z = 4 * (n + z)
    BY ConcatType
  <2>2. QED
    BY <2>1
<1>2. Whole(u) = u /\ Whole(s) = s /\ Whole(t) = t
  BY <1>1, WholeAll
<1>3. PICK v \in Seq(Char), w \in Seq(Char) :
        /\ v = DeMixFour(s) /\ Len(v) = 4 * n
        /\ w = DeMixFour(t) /\ Len(w) = 4 * z
  <2>1. /\ DeMixFour(s) \in Seq(Char) /\ Len(DeMixFour(s)) = Len(s)
        /\ DeMixFour(t) \in Seq(Char) /\ Len(DeMixFour(t)) = Len(t)
    BY FromType, PermuteType DEF DeMixFour
  <2>2. QED
    BY <2>1, Zenon
<1>4. DeMixFour(u) = v \o w
  <2>1. DeMixJoins(s, t)
    BY DeMixJoin
  <2>2. QED
    BY <1>1, <1>3, <2>1, Zenon DEF DeMixJoins
<1>5. DecodeJoins(v, w)
  <2>1. Padded(v) = {}
    BY <1>3
  <2>2. QED
    BY <1>3, <2>1, DecodeJoin
<1>6. QED
  BY <1>1, <1>2, <1>3, <1>4, <1>5, Zenon DEF DeCryptJoins, DecodeJoins, DeCrypt

-----------------------------------------------------------------------------
(* The text, group by group.                                               *)
GroupsOf(s) == [g \in 1 .. Len(s) \div 4 |-> DeCrypt(SubSeq(s, 4 * g - 3, 4 * g))]

LEMMA GroupPiece ==
  ASSUME NEW s \in Seq(Char), NEW g \in 1 .. Len(s) \div 4
  PROVE  /\ SubSeq(s, 4 * g - 3, 4 * g) \in Seq(Char)
         /\ IsPiece(SubSeq(s, 4 * g - 3, 4 * g), s, 4 * g - 4, 4 * g)
<1>1. PICK i \in Nat, j \in Nat : /\ i = 4 * g - 4 /\ i + 1 = 4 * g - 3
                                  /\ j = 4 * g /\ j \in i .. Len(s)
  <2>1. PICK N \in Nat : N = Len(s)
    OBVIOUS
  <2>2. 4 * g <= N /\ g >= 1 /\ g \in Nat
    BY <2>1
  <2>3. /\ 4 * g - 4 \in Nat /\ (4 * g - 4) + 1 = 4 * g - 3
        /\ 4 * g \in Nat /\ 4 * g \in 4 * g - 4 .. N
    BY <2>2
  <2>4. QED
    BY <2>1, <2>3
<1>2. SubSeq(s, i + 1, j) \in Seq(Char) /\ IsPiece(SubSeq(s, i + 1, j), s, i, j)
  BY <1>1, PieceOf
<1>3. QED
  BY <1>1, <1>2

LEMMA GroupsType ==
  ASSUME NEW s \in Seq(Char)
  PROVE  /\ GroupsOf(s) \in Seq(Seq(Byte)) /\ Len(GroupsOf(s)) = Len(s) \div 4
         /\ ByGroups(s) = FlattenSeq(GroupsOf(s)) /\ ByGroups(s) \in Seq(Byte)
<1>1. PICK D : D = Seq(Byte)
  OBVIOUS
<1>2. PICK q \in Nat : q = Len(s) \div 4
  OBVIOUS
<1>3. ASSUME NEW g \in 1 .. q PROVE DeCrypt(SubSeq(s, 4 * g - 3, 4 * g)) \in D
  BY <1>1, <1>2, GroupPiece, DeCryptType
<1>4. PICK c \in Seq(D) : c = GroupsOf(s) /\ Len(c) = q
  <2> DEFINE c == [g \in 1 .. q |-> DeCrypt(SubSeq(s, 4 * g - 3, 4 * g))]
  <2>1. c \in [1 .. q -> D]
    BY <1>3
  <2>2. c = GroupsOf(s)
    BY <1>2, Zenon DEF GroupsOf
  <2> HIDE DEF c
  <2>3. c \in Seq(D) /\ Len(c) = q
    BY <2>1
  <2>4. QED
    BY <2>2, <2>3
<1>5. ByGroups(s) = FlattenSeq(c)
  BY <1>4, Zenon DEF ByGroups, GroupsOf
<1>6. FlattenSeq(c) \in Seq(Byte)
  BY <1>1, <1>4, FlatType
<1>7. QED
  BY <1>1, <1>2, <1>4, <1>5, <1>6, Zenon

GroupsJoin(s, t) == ByGroups(s \o t) = ByGroups(s) \o ByGroups(t)

LEMMA GroupsOfJoined ==
  ASSUME NEW s \in Seq(Char), NEW t \in Seq(Char), NEW n \in Nat, Len(s) = 4 * n
  PROVE  GroupsJoin(s, t)
<1>1. PICK N \in Nat, Z \in Nat, z \in Nat :
        /\ N = Len(s) /\ Z = Len(t) /\ z = Z \div 4 /\ n = N \div 4
        /\ (N + Z) \div 4 = n + z /\ N = 4 * n /\ 4 * z <= Z
  <2>1. PICK Z \in Nat : Z = Len(t)
    OBVIOUS
  <2>2. PICK z \in Nat, k \in 1 .. 4 : Z = 4 * z + k - 1 /\ z = Z \div 4
    <3>1. PICK g \in Nat, k \in 1 .. 4 : Z + 1 = 4 * g + k
      <4>1. Z + 1 \in Nat \ {0}
        OBVIOUS
      <4>2. QED
        BY <4>1, FourSplit
    <3>2. Z = 4 * g + k - 1 /\ (4 * g + k - 1) \div 4 = g
      BY <3>1, FourPlaces
    <3>3. QED
      BY <3>2
  <2>3. (4 * (n + z) + k - 1) \div 4 = n + z /\ 4 * n + Z = 4 * (n + z) + k - 1
    <3>1. n + z \in Nat /\ 4 * n + Z = 4 * (n + z) + k - 1
      BY <2>2
    <3>2. QED
      BY <3>1, FourPlaces
  <2>4. (4 * n) \div 4 = n /\ 4 * n \in Nat /\ 4 * z <= Z
    BY <2>2
  <2>5. QED
    BY <2>1, <2>2, <2>3, <2>4
<1>2. PICK u \in Seq(Char) : u = s \o t /\ IsJoin(u, s, t, N, Z)
  BY <1>1, Joining
<1>3. /\ Len(u) = N + Z
      /\ \A i \in 1 .. N : u[i] = s[i]
      /\ \A i \in 1 .. Z : u[N + i] = t[i]
  BY <1>2 DEF IsJoin
<1>4. PICK D : D = Seq(Byte)
  OBVIOUS
<1>5. PICK c \in Seq(D), d \in Seq(D), e \in Seq(D) :
        /\ c = GroupsOf(s) /\ Len(c) = n /\ ByGroups(s) = FlattenSeq(c)
        /\ d = GroupsOf(t) /\ Len(d) = z /\ ByGroups(t) = FlattenSeq(d)
        /\ e = GroupsOf(u) /\ Len(e) = n + z /\ ByGroups(u) = FlattenSeq(e)
  <2>1. /\ GroupsOf(s) \in Seq(D) /\ Len(GroupsOf(s)) = n
        /\ ByGroups(s) = FlattenSeq(GroupsOf(s))
    BY <1>1, <1>4, GroupsType, Zenon
  <2>2. /\ GroupsOf(t) \in Seq(D) /\ Len(GroupsOf(t)) = z
        /\ ByGroups(t) = FlattenSeq(GroupsOf(t))
    BY <1>1, <1>4, GroupsType, Zenon
  <2>3. /\ GroupsOf(u) \in Seq(D) /\ Len(GroupsOf(u)) = n + z
        /\ ByGroups(u) = FlattenSeq(GroupsOf(u))
    BY <1>1, <1>3, <1>4, GroupsType, Zenon
  <2>4. QED
    BY <2>1, <2>2, <2>3, Zenon
<1>6. PICK f \in Seq(D) : f = c \o d /\ IsJoin(f, c, d, n, z)
  BY <1>5, Joining
<1>7. /\ Len(f) = n + z
      /\ \A i \in 1 .. n : f[i] = c[i]
      /\ \A i \in 1 .. z : f[n + i] = d[i]
  BY <1>6 DEF IsJoin
<1>8. ASSUME NEW g \in 1 .. n PROVE e[g] = c[g]
  <2>1. g \in 1 .. n + z /\ g \in 1 .. Len(u) \div 4 /\ g \in 1 .. Len(s) \div 4
    BY <1>1, <1>3
  <2>2. PICK x \in Seq(Char), y \in Seq(Char) :
          /\ x = SubSeq(u, 4 * g - 3, 4 * g) /\ IsPiece(x, u, 4 * g - 4, 4 * g)
          /\ y = SubSeq(s, 4 * g - 3, 4 * g) /\ IsPiece(y, s, 4 * g - 4, 4 * g)
    BY <2>1, GroupPiece
  <2>3. /\ Len(x) = 4 /\ \A k \in 1 .. 4 : x[k] = u[4 * g - 4 + k]
        /\ Len(y) = 4 /\ \A k \in 1 .. 4 : y[k] = s[4 * g - 4 + k]
    <3>1. 4 * g - (4 * g - 4) = 4
      OBVIOUS
    <3>2. QED
      BY <2>2, <3>1, Zenon DEF IsPiece
  <2>4. ASSUME NEW k \in 1 .. 4 PROVE x[k] = y[k]
    <3>1. 4 * g - 4 + k \in 1 .. N
      BY <1>1
    <3>2. QED
      BY <1>3, <2>3, <3>1
  <2>5. x = y
    BY <2>3, <2>4, SameSequence
  <2>6. e[g] = DeCrypt(x) /\ c[g] = DeCrypt(y)
    BY <1>5, <2>1, <2>2, Zenon DEF GroupsOf
  <2>7. QED
    BY <2>5, <2>6
<1>9. ASSUME NEW g \in 1 .. z PROVE e[n + g] = d[g]
  <2>1. PICK h \in Nat : h = n + g /\ h \in 1 .. Len(u) \div 4 /\ g \in 1 .. Len(t) \div 4
    <3>1. n + g \in Nat /\ n + g \in 1 .. n + z
      OBVIOUS
    <3>2. QED
      BY <1>1, <1>3, <3>1
  <2>2. PICK x \in Seq(Char), y \in Seq(Char) :
          /\ x = SubSeq(u, 4 * h - 3, 4 * h) /\ IsPiece(x, u, 4 * h - 4, 4 * h)
          /\ y = SubSeq(t, 4 * g - 3, 4 * g) /\ IsPiece(y, t, 4 * g - 4, 4 * g)
    BY <2>1, GroupPiece
  <2>3. /\ Len(x) = 4 /\ \A k \in 1 .. 4 : x[k] = u[4 * h - 4 + k]
        /\ Len(y) = 4 /\ \A k \in 1 .. 4 : y[k] = t[4 * g - 4 + k]
    <3>1. 4 * g - (4 * g - 4) = 4 /\ 4 * h - (4 * h - 4) = 4
      OBVIOUS
    <3>2. QED
      BY <2>2, <3>1, Zenon DEF IsPiece
  <2>4. ASSUME NEW k \in 1 .. 4 PROVE x[k] = y[k]
    <3>4. N = 4 * n /\ 4 * z <= Z /\ h = n + g
      BY <1>1, <2>1
    <3>1. 4 * g - 4 + k \in 1 .. Z /\ N + (4 * g - 4 + k) = 4 * h - 4 + k
      BY <3>4
    <3>2. u[N + (4 * g - 4 + k)] = t[4 * g - 4 + k]
      BY <1>3, <3>1
    <3>3. QED
      BY <2>3, <3>1, <3>2
  <2>5. x = y
    BY <2>3, <2>4, SameSequence
  <2>6. e[h] = DeCrypt(x) /\ d[g] = DeCrypt(y)
    BY <1>5, <2>1, <2>2, Zenon DEF GroupsOf
  <2>7. QED
    BY <2>1, <2>5, <2>6
<1>10. ASSUME NEW i \in 1 .. n + z PROVE e[i] = f[i]
  <2>1. CASE i <= n
    BY <1>7, <1>8, <2>1
  <2>2. CASE n < i
    <3>1. PICK g \in 1 .. z : g = i - n /\ n + g = i
      <4>1. i - n \in 1 .. z /\ n + (i - n) = i
        BY <2>2
      <4>2. QED
        BY <4>1
    <3>2. QED
      BY <1>7, <1>9, <3>1
  <2>3. QED
    BY <2>1, <2>2
<1>11. e = f
  BY <1>5, <1>7, <1>10, SameSequence
<1>12. FlatJoins(c, d)
  BY <1>4, <1>5, FlatJoin
<1>13. QED
  BY <1>2, <1>5, <1>6, <1>11, <1>12, Zenon DEF FlatJoins, GroupsJoin

(* A group by itself is decoded as DeCrypt decodes it.                     *)
LEMMA OneGroup ==
  ASSUME NEW x \in Seq(Char), Len(x) = 4
  PROVE  ByGroups(x) = DeCrypt(x)
<1>1. Len(x) \div 4 = 1 /\ 4 * 1 - 3 = 1 /\ 4 * 1 = 4 /\ SubSeq(x, 1, 4) = x
  OBVIOUS
<1>2. PICK c : c = GroupsOf(x) /\ c \in Seq(Seq(Byte)) /\ Len(c) = 1
               /\ ByGroups(x) = FlattenSeq(c)
  BY <1>1, GroupsType
<1>3. c[1] = DeCrypt(x)
  <2>1. 1 \in 1 .. Len(x) \div 4
    BY <1>1
  <2>2. c[1] = DeCrypt(SubSeq(x, 4 * 1 - 3, 4 * 1))
    BY <1>2, <2>1, Zenon DEF GroupsOf
  <2>3. QED
    BY <1>1, <2>2
<1>4. c # <<>>
  <2>1. Len(<<>>) = 0 /\ 0 # 1
    OBVIOUS
  <2>2. QED
    BY <1>2, <2>1, Zenon
<1>5. PICK f : Flattens(f, c) /\ FlattenSeq(c) = f[Len(c)]
  BY <1>2, <1>4, FlatScan
<1>6. QED
  BY <1>2, <1>3, <1>5, Zenon DEF Flattens

(* '=' ends the decryption where a group begins with it, for DeMixFour     *)
(* puts the first character of a group last.                               *)
LEMMA DeMixLast ==
  ASSUME NEW x \in Seq(Char), NEW q \in Nat, Len(x) = 4 * q
  PROVE  /\ DeMixFour(x) \in Seq(Char) /\ Len(DeMixFour(x)) = 4 * q
         /\ \A g \in 1 .. q : g \in Padded(DeMixFour(x)) <=> x[4 * g - 3] = Pad
         /\ Padded(DeMixFour(x)) \subseteq 1 .. q
<1>1. PICK y \in Seq(Char) : y = DeMixFour(x) /\ Len(y) = 4 * q
  <2>1. DeMixFour(x) \in Seq(Char) /\ Len(DeMixFour(x)) = Len(x)
    BY FromType, PermuteType DEF DeMixFour
  <2>2. QED
    BY <2>1
<1>2. (4 * q) \div 4 = q
  OBVIOUS
<1>3. Padded(y) \subseteq 1 .. q /\ \A g \in 1 .. q : g \in Padded(y) <=> y[4 * g] = Pad
  BY <1>1, <1>2 DEF Padded
<1>4. ASSUME NEW g \in 1 .. q PROVE y[4 * g] = x[4 * g - 3]
  <2>1. PICK h \in Nat : g = h + 1 /\ h < q
    <3>1. g - 1 \in Nat /\ g = (g - 1) + 1 /\ g - 1 < q
      OBVIOUS
    <3>2. QED
      BY <3>1
  <2>2. PICK from \in [1 .. 4 -> 1 .. 4] : from = DeMixedFrom /\ from[4] = 1
    BY FromType DEF DeMixedFrom
  <2>3. Grouped(x, h, 4)
    BY <1>2, <2>1 DEF Grouped
  <2>4. Moved(from, x, h, 4)
    BY <2>3, PermuteAt
  <2>5. y[4 * h + 4] = x[4 * h + 1]
    BY <1>1, <2>2, <2>4, Zenon DEF Moved, DeMixFour
  <2>6. 4 * h + 4 = 4 * g /\ 4 * h + 1 = 4 * g - 3
    BY <2>1
  <2>7. QED
    BY <2>5, <2>6
<1>5. QED
  BY <1>1, <1>3, <1>4

(* If it is nowhere but in the last group, all is decrypted.               *)
LEMMA GroupsDecrypt ==
  ASSUME NEW x \in Seq(Char), NEW q \in Nat, Len(x) = 4 * q,
         \A g \in 1 .. q - 1 : x[4 * g - 3] # Pad
  PROVE  ByGroups(x) = DeCrypt(x)
<1> DEFINE Fine(j) == ByGroups(SubSeq(x, 1, 4 * j)) = DeCrypt(SubSeq(x, 1, 4 * j))
           P == {j \in 0 .. q : Fine(j)}
<1>1. Fine(0)
  <2>1. SubSeq(x, 1, 4 * 0) = <<>>
    OBVIOUS
  <2>2. PICK e \in Seq(Char), z \in Nat : e = <<>> /\ Len(e) = 4 * z /\ z = 0 /\ Len(e) < 4
    <3>1. <<>> \in Seq(Char) /\ Len(<<>>) = 4 * 0 /\ Len(<<>>) < 4 /\ 0 \in Nat
      OBVIOUS
    <3>2. QED
      BY <3>1, Zenon
  <2>3. ByGroups(e) = <<>>
    BY <2>2, NoGroup
  <2>4. PICK d \in Seq(Byte) : d = DeCrypt(e) /\ Len(d) = DecodedLen(DeMixFour(e))
    <3>1. Whole(e) = e
      BY <2>2, WholeAll
    <3>2. QED
      BY <3>1, DeCryptType
  <2>5. Len(d) <= 0
    <3>1. DeMixFour(e) \in Seq(Char) /\ Len(DeMixFour(e)) = 4 * z
      BY <2>2, DeMixLast
    <3>2. DecodedLen(DeMixFour(e)) <= 3 * (Len(DeMixFour(e)) \div 4)
      BY <3>1, DecodedLenBound
    <3>3. QED
      BY <2>2, <2>4, <3>1, <3>2
  <2>6. d = <<>>
    BY <2>5
  <2>7. QED
    BY <2>1, <2>2, <2>3, <2>4, <2>6, Zenon
<1>2. ASSUME NEW j \in 1 .. q, Fine(j - 1) PROVE Fine(j)
  <2>1. PICK h \in Nat, m \in Nat, l \in Nat, o \in Nat :
          /\ h = j - 1 /\ m = 4 * h /\ l = 4 * j /\ o = 0 /\ o + 1 = 1
          /\ m \in o .. Len(x) /\ l \in m .. Len(x) /\ m - o = 4 * h /\ l - m = 4
          /\ m = 4 * (j - 1) /\ l \in o .. Len(x) /\ l - o = l
    <3>1. /\ j - 1 \in Nat /\ 4 * (j - 1) \in Nat /\ 4 * j \in Nat
          /\ 4 * j <= Len(x) /\ 4 * (j - 1) <= Len(x)
          /\ 4 * j - 4 * (j - 1) = 4
      OBVIOUS
    <3>2. QED
      BY <3>1
  <2>2. PICK s \in Seq(Char) : s = SubSeq(x, 1, m) /\ IsPiece(s, x, o, m) /\ Len(s) = 4 * h
    <3>1. SubSeq(x, o + 1, m) \in Seq(Char) /\ IsPiece(SubSeq(x, o + 1, m), x, o, m)
      BY <2>1, PieceOf
    <3>2. QED
      BY <2>1, <3>1 DEF IsPiece
  <2>3. PICK t \in Seq(Char), z \in Nat : /\ t = SubSeq(x, m + 1, l) /\ IsPiece(t, x, m, l)
                                          /\ Len(t) = 4 * z /\ z = 1 /\ Len(t) = 4
    <3>1. SubSeq(x, m + 1, l) \in Seq(Char) /\ IsPiece(SubSeq(x, m + 1, l), x, m, l)
      BY <2>1, PieceOf
    <3>2. PICK t \in Seq(Char) : t = SubSeq(x, m + 1, l) /\ IsPiece(t, x, m, l) /\ Len(t) = 4
      BY <2>1, <3>1 DEF IsPiece
    <3>3. 1 \in Nat /\ 4 = 4 * 1
      OBVIOUS
    <3>4. QED
      BY <3>2, <3>3
  <2>4. SubSeq(x, 1, l) = s \o t
    <3>1. PICK u \in Seq(Char) : u = SubSeq(x, 1, l) /\ IsPiece(u, x, o, l)
      <4>1. SubSeq(x, o + 1, l) \in Seq(Char) /\ IsPiece(SubSeq(x, o + 1, l), x, o, l)
        BY <2>1, PieceOf
      <4>2. QED
        BY <2>1, <4>1
    <3>2. Len(u) = l /\ \A k \in 1 .. l : u[k] = x[k]
      BY <2>1, <3>1 DEF IsPiece
    <3>3. PICK v \in Seq(Char) : v = s \o t /\ IsJoin(v, s, t, m, 4)
      BY <2>1, <2>2, <2>3, Joining
    <3>4. /\ Len(v) = m + 4
          /\ \A i \in 1 .. m : v[i] = s[i]
          /\ \A i \in 1 .. 4 : v[m + i] = t[i]
      BY <3>3 DEF IsJoin
    <3>5. /\ \A i \in 1 .. m : s[i] = x[i]
          /\ \A i \in 1 .. 4 : t[i] = x[m + i]
      BY <2>1, <2>2, <2>3 DEF IsPiece
    <3>6. ASSUME NEW k \in 1 .. l PROVE u[k] = v[k]
      <4>1. CASE k <= m
        <5>1. k \in 1 .. m
          BY <4>1
        <5>2. u[k] = x[k] /\ v[k] = s[k] /\ s[k] = x[k]
          BY <3>2, <3>4, <3>5, <5>1, Zenon
        <5>3. QED
          BY <5>2
      <4>2. CASE m < k
        <5>1. PICK i \in 1 .. 4 : i = k - m /\ m + i = k
          <6>1. k - m \in 1 .. 4 /\ m + (k - m) = k
            BY <2>1, <4>2
          <6>2. QED
            BY <6>1
        <5>2. u[k] = x[k] /\ v[m + i] = t[i] /\ t[i] = x[m + i]
          BY <3>2, <3>4, <3>5, Zenon
        <5>3. QED
          BY <5>1, <5>2
      <4>3. QED
        BY <4>1, <4>2
    <3>7. Len(u) = Len(v)
      BY <2>1, <3>2, <3>4
    <3>8. u = v
      BY <3>2, <3>6, <3>7, SameSequence
    <3>9. QED
      BY <3>1, <3>3, <3>8
  <2>5. Padded(DeMixFour(s)) = {}
    <3>1. ASSUME NEW g \in 1 .. h PROVE g \notin Padded(DeMixFour(s))
      <4>1. g \in 1 .. q - 1 /\ 4 * g - 3 \in 1 .. m
        BY <2>1
      <4>2. s[4 * g - 3] = x[4 * g - 3]
        <5>1. o + (4 * g - 3) = 4 * g - 3 /\ m - o = m
          BY <2>1
        <5>2. QED
          BY <2>2, <4>1, <5>1 DEF IsPiece
      <4>3. s[4 * g - 3] # Pad
        BY <4>1, <4>2
      <4>4. QED
        BY <2>2, <4>3, DeMixLast
    <3>2. Padded(DeMixFour(s)) \subseteq 1 .. h
      BY <2>2, DeMixLast
    <3>3. QED
      BY <3>1, <3>2
  <2>6. DeCryptJoins(s, t)
    BY <2>2, <2>3, <2>5, DeCryptJoin
  <2>7. GroupsJoin(s, t)
    BY <2>2, GroupsOfJoined
  <2>8. ByGroups(t) = DeCrypt(t)
    BY <2>3, OneGroup
  <2>9. ByGroups(s) = DeCrypt(s)
    BY <1>2, <2>1, <2>2
  <2>10. QED
    BY <2>1, <2>4, <2>6, <2>7, <2>8, <2>9, Zenon DEF DeCryptJoins, GroupsJoin
<1>3. P \in SUBSET (0 .. q) /\ 0 \in P
  BY <1>1
<1>4. \A j \in 1 .. q : j - 1 \in P => j \in P
  BY <1>2
<1>5. Fine(q)
  <2> HIDE DEF P
  <2>1. q \in P
    BY <1>3, <1>4, OneByOne
  <2>2. QED
    BY <2>1 DEF P
<1>6. PICK N \in Nat : N = 4 * q /\ N = Len(x) /\ SubSeq(x, 1, N) = x
  OBVIOUS
<1>7. QED
  BY <1>5, <1>6

(* What is cut in two.                                                     *)
IsCut(x, s, t, m) ==
  /\ x = s \o t /\ Len(s) = m /\ Len(t) = Len(x) - m
  /\ \A k \in 1 .. m : s[k] = x[k]

LEMMA CutAt ==
  ASSUME NEW S, NEW x \in Seq(S), NEW m \in 0 .. Len(x)
  PROVE  \E s, t \in Seq(S) :
           /\ s = SubSeq(x, 1, m) /\ t = SubSeq(x, m + 1, Len(x))
           /\ IsCut(x, s, t, m)
<1>1. PICK N \in Nat, o \in Nat : /\ N = Len(x) /\ m \in Nat /\ m <= N /\ N \in m .. Len(x)
                                  /\ o = 0 /\ o + 1 = 1 /\ m \in o .. Len(x) /\ m - o = m
  <2>1. PICK N \in Nat : N = Len(x)
    OBVIOUS
  <2>2. m \in Nat /\ m <= N /\ N \in m .. N /\ 0 + 1 = 1 /\ m \in 0 .. N /\ m - 0 = m /\ 0 \in Nat
    BY <2>1
  <2>3. QED
    BY <2>1, <2>2
<1>2. PICK s \in Seq(S) : s = SubSeq(x, 1, m) /\ Len(s) = m /\ \A k \in 1 .. m : s[k] = x[k]
  <2>1. SubSeq(x, o + 1, m) \in Seq(S) /\ IsPiece(SubSeq(x, o + 1, m), x, o, m)
    BY <1>1, PieceOf
  <2>2. PICK s \in Seq(S) : s = SubSeq(x, o + 1, m) /\ IsPiece(s, x, o, m)
    BY <2>1
  <2>3. Len(s) = m /\ \A k \in 1 .. m : s[k] = x[o + k]
    BY <1>1, <2>2 DEF IsPiece
  <2>4. \A k \in 1 .. m : o + k = k
    BY <1>1
  <2>5. QED
    BY <1>1, <2>2, <2>3, <2>4
<1>3. PICK t \in Seq(S) : /\ t = SubSeq(x, m + 1, N) /\ Len(t) = N - m
                          /\ \A k \in 1 .. N - m : t[k] = x[m + k]
  <2>1. SubSeq(x, m + 1, N) \in Seq(S) /\ IsPiece(SubSeq(x, m + 1, N), x, m, N)
    BY <1>1, PieceOf
  <2>2. QED
    BY <2>1 DEF IsPiece
<1>4. PICK z \in Nat : z = N - m /\ m + z = N
  <2>1. m \in Nat /\ N \in Nat /\ m <= N
    BY <1>1
  <2>2. N - m \in Nat /\ m + (N - m) = N
    BY <2>1
  <2>3. QED
    BY <2>2
<1>5. PICK u \in Seq(S) : u = s \o t /\ IsJoin(u, s, t, m, z)
  BY <1>2, <1>3, <1>4, Joining
<1>6. /\ Len(u) = N
      /\ \A i \in 1 .. m : u[i] = s[i]
      /\ \A i \in 1 .. z : u[m + i] = t[i]
  BY <1>4, <1>5 DEF IsJoin
<1>7. ASSUME NEW i \in 1 .. N PROVE x[i] = u[i]
  <2>1. CASE i <= m
    <3>1. i \in 1 .. m
      BY <2>1
    <3>2. u[i] = s[i] /\ s[i] = x[i]
      BY <1>2, <1>6, <3>1, Zenon
    <3>3. QED
      BY <3>2
  <2>2. CASE m < i
    <3>1. PICK k \in 1 .. z : m + k = i
      <4>1. i - m \in 1 .. z /\ m + (i - m) = i
        BY <1>1, <1>4, <2>2
      <4>2. QED
        BY <4>1
    <3>2. u[m + k] = t[k] /\ t[k] = x[m + k]
      BY <1>3, <1>4, <1>6, Zenon
    <3>3. QED
      BY <3>1, <3>2
  <2>3. QED
    BY <1>1, <2>1, <2>2
<1>8. x = u
  BY <1>1, <1>6, <1>7, SameSequence
<1>9. IsCut(x, s, t, m)
  BY <1>1, <1>2, <1>3, <1>5, <1>8, Zenon DEF IsCut
<1>10. QED
  BY <1>1, <1>2, <1>3, <1>9

(* Behind '=' nothing is decoded.                                          *)
LEMMA DecodingEnds ==
  ASSUME NEW s \in Seq(Char), NEW t \in Seq(Char), NEW n \in Nat, NEW z \in Nat,
         Len(s) = 4 * n, Len(t) = 4 * z, Padded(s) # {}
  PROVE  DecodedLen(s \o t) = DecodedLen(s)
<1>1. PICK N \in Nat, Z \in Nat : N = 4 * n /\ Z = 4 * z /\ N + Z = 4 * (n + z)
                                  /\ (N + Z) \div 4 = n + z /\ N \div 4 = n
  <2>1. 4 * n + 4 * z = 4 * (n + z) /\ (4 * n) \div 4 = n /\ (4 * (n + z)) \div 4 = n + z
    OBVIOUS
  <2>2. QED
    BY <2>1
<1>2. PICK u \in Seq(Char) : u = s \o t /\ IsJoin(u, s, t, N, Z)
  BY <1>1, Joining
<1>3. Len(u) = N + Z /\ \A i \in 1 .. N : u[i] = s[i]
  BY <1>2 DEF IsJoin
<1>4. Padded(s) \in SUBSET Nat /\ Padded(u) \in SUBSET Nat
  BY DEF Padded
<1>5. PICK g \in Padded(s) : g = FirstPadded(s) /\ \A h \in Padded(s) : g <= h
  BY <1>4, LeastNatural DEF FirstPadded
<1>6. g \in 1 .. n /\ s[4 * g] = Pad
  BY <1>1, <1>5 DEF Padded
<1>7. /\ 4 * g \in 1 .. N /\ 4 * g - 1 \in 1 .. N /\ g \in 1 .. n + z
  BY <1>1, <1>6
<1>8. g \in Padded(u)
  <2>1. u[4 * g] = Pad
    BY <1>3, <1>6, <1>7
  <2>2. g \in 1 .. Len(u) \div 4
    BY <1>1, <1>3, <1>7
  <2>3. QED
    BY <2>1, <2>2, Zenon DEF Padded
<1>9. ASSUME NEW h \in Padded(u) PROVE g <= h
  <2>1. h \in 1 .. n + z /\ u[4 * h] = Pad
    BY <1>1, <1>3 DEF Padded
  <2>2. CASE h <= n
    <3>1. h \in 1 .. Len(s) \div 4 /\ 4 * h \in 1 .. N
      BY <1>1, <2>1, <2>2
    <3>2. h \in Padded(s)
      BY <1>3, <2>1, <3>1 DEF Padded
    <3>3. QED
      BY <1>5, <3>2
  <2>3. CASE n < h
    BY <1>6, <2>1, <2>3
  <2>4. QED
    BY <2>1, <2>2, <2>3
<1>10. FirstPadded(u) = g
  <2>1. FirstPadded(u) \in Padded(u) /\ \A h \in Padded(u) : FirstPadded(u) <= h
    BY <1>8, <1>9, Zenon DEF FirstPadded
  <2>2. PICK h \in Nat : h = FirstPadded(u) /\ h <= g /\ g <= h
    BY <1>4, <1>8, <1>9, <2>1
  <2>3. QED
    BY <1>6, <2>2
<1>11. DecodedLen(u) = 3 * g - (IF u[4 * g - 1] = Pad THEN 2 ELSE 1)
  <2>1. Padded(u) # {}
    BY <1>8
  <2>2. PICK l : l = FirstPadded(u) /\ l = g
    BY <1>10
  <2>3. DecodedLen(u) = 3 * l - (IF u[4 * l - 1] = Pad THEN 2 ELSE 1)
    BY <2>1, <2>2, Zenon DEF DecodedLen
  <2>4. QED
    BY <2>2, <2>3
<1>12. DecodedLen(s) = 3 * g - (IF s[4 * g - 1] = Pad THEN 2 ELSE 1)
  BY <1>5, Zenon DEF DecodedLen
<1>13. u[4 * g - 1] = s[4 * g - 1]
  BY <1>3, <1>7
<1>14. QED
  BY <1>2, <1>11, <1>12, <1>13, Zenon

(* A group holds a byte or more.                                           *)
LEMMA GroupHoldsText ==
  ASSUME NEW x \in Seq(Char), NEW z \in Nat \ {0}, Len(x) = 4 * z
  PROVE  Len(ByGroups(x)) >= 1
<1>1. PICK s \in Seq(Char), t \in Seq(Char) : x = s \o t /\ Len(s) = 4
  <2>1. 4 \in 0 .. Len(x)
    OBVIOUS
  <2>2. PICK s \in Seq(Char), t \in Seq(Char) : IsCut(x, s, t, 4)
    BY <2>1, CutAt
  <2>3. QED
    BY <2>2 DEF IsCut
<1>2. PICK o \in Nat : o = 1 /\ Len(s) = 4 * o
  BY <1>1
<1>3. GroupsJoin(s, t)
  BY <1>2, GroupsOfJoined
<1>4. PICK v \in Seq(Char) : v = DeMixFour(s) /\ Len(v) = 4
  BY <1>1, <1>2, DeMixLast
<1>5. DecodedLen(v) >= 1
  <2>1. CASE Padded(v) = {}
    BY <1>4, <2>1 DEF DecodedLen
  <2>2. CASE Padded(v) # {}
    <3>1. FirstPadded(v) = 1
      <4>1. FirstPadded(v) \in 1 .. Len(v) \div 4
        BY <2>2, FirstPaddedType
      <4>2. QED
        BY <1>4, <4>1
    <3>2. DecodedLen(v) = 3 * 1 - (IF v[4 * 1 - 1] = Pad THEN 2 ELSE 1)
      BY <2>2, <3>1, Zenon DEF DecodedLen
    <3>3. QED
      BY <3>2
  <2>3. QED
    BY <2>1, <2>2
<1>6. PICK d \in Seq(Byte) : d = ByGroups(s) /\ Len(d) >= 1
  <2>1. ByGroups(s) = DeCrypt(s) /\ Whole(s) = s
    BY <1>1, <1>2, OneGroup, WholeAll
  <2>2. DeCrypt(s) \in Seq(Byte) /\ Len(DeCrypt(s)) = DecodedLen(v)
    BY <1>4, <2>1, DeCryptType
  <2>3. QED
    BY <1>5, <2>1, <2>2
<1>7. PICK e \in Seq(Byte) : e = ByGroups(t)
  BY GroupsType
<1>8. Len(d \o e) = Len(d) + Len(e)
  OBVIOUS
<1>9. QED
  BY <1>1, <1>3, <1>6, <1>7, <1>8 DEF GroupsJoin

(* So if DeCrypt decoded as many bytes as the groups hold, it decoded all  *)
(* of them.                                                                *)
LEMMA NothingCutOff ==
  ASSUME NEW x \in Seq(Char), NEW q \in Nat, Len(x) = 4 * q,
         ~(DecodedLen(DeMixFour(x)) < Len(ByGroups(x)))
  PROVE  ByGroups(x) = DeCrypt(x)
<1> DEFINE B == {g \in 1 .. q - 1 : x[4 * g - 3] = Pad}
<1>1. CASE B = {}
  <2>1. \A g \in 1 .. q - 1 : x[4 * g - 3] # Pad
    BY <1>1
  <2>2. QED
    BY <2>1, GroupsDecrypt
<1>2. CASE B # {}
  <2>1. B \in SUBSET Nat
    OBVIOUS
  <2>2. PICK g \in B : \A h \in B : g <= h
    BY <1>2, <2>1, LeastNatural
  <2>3. g \in 1 .. q - 1 /\ x[4 * g - 3] = Pad
    OBVIOUS
  <2>4. ASSUME NEW h \in 1 .. g - 1 PROVE x[4 * h - 3] # Pad
    <3>1. h \in 1 .. q - 1 /\ ~(g <= h)
      BY <2>3
    <3>2. QED
      BY <2>2, <3>1
  <2> HIDE DEF B
  <2>5. PICK m \in Nat, z \in Nat \ {0} : /\ m = 4 * g /\ m \in 0 .. Len(x)
                                         /\ z = q - g /\ Len(x) - m = 4 * z
    <3>1. 4 * g \in Nat /\ 4 * g \in 0 .. 4 * q /\ q - g \in Nat \ {0} /\ 4 * q - 4 * g = 4 * (q - g)
      BY <2>3
    <3>2. QED
      BY <3>1
  <2>6. PICK s \in Seq(Char), t \in Seq(Char) : IsCut(x, s, t, m)
    BY <2>5, CutAt
  <2>7. /\ x = s \o t /\ Len(s) = 4 * g /\ Len(t) = 4 * z /\ g \in Nat
        /\ \A k \in 1 .. m : s[k] = x[k]
    BY <2>3, <2>5, <2>6 DEF IsCut
  <2>8. ASSUME NEW h \in 1 .. g PROVE s[4 * h - 3] = x[4 * h - 3]
    <3>1. 4 * h - 3 \in 1 .. m
      BY <2>3, <2>5
    <3>2. QED
      BY <2>7, <3>1
  <2>9. ByGroups(s) = DeCrypt(s)
    <3>1. \A h \in 1 .. g - 1 : h \in 1 .. g
      BY <2>3
    <3>2. \A h \in 1 .. g - 1 : s[4 * h - 3] # Pad
      BY <2>4, <2>8, <3>1
    <3>3. QED
      BY <2>7, <3>2, GroupsDecrypt
  <2>10. PICK v \in Seq(Char), w \in Seq(Char) :
           /\ v = DeMixFour(s) /\ Len(v) = 4 * g /\ Padded(v) # {}
           /\ w = DeMixFour(t) /\ Len(w) = 4 * z
    <3>1. g \in Padded(DeMixFour(s))
      <4>1. g \in 1 .. g
        BY <2>3
      <4>2. s[4 * g - 3] = Pad
        BY <2>3, <2>8, <4>1
      <4>3. QED
        BY <2>7, <4>1, <4>2, DeMixLast
    <3>2. DeMixFour(s) \in Seq(Char) /\ Len(DeMixFour(s)) = 4 * g
      BY <2>7, DeMixLast
    <3>3. DeMixFour(t) \in Seq(Char) /\ Len(DeMixFour(t)) = 4 * z
      BY <2>7, DeMixLast
    <3>4. QED
      BY <3>1, <3>2, <3>3
  <2>11. DecodedLen(DeMixFour(x)) = DecodedLen(v)
    <3>1. DeMixJoins(s, t)
      BY <2>7, DeMixJoin
    <3>2. DeMixFour(x) = v \o w
      BY <2>7, <2>10, <3>1, Zenon DEF DeMixJoins
    <3>3. DecodedLen(v \o w) = DecodedLen(v)
      BY <2>7, <2>10, DecodingEnds
    <3>4. QED
      BY <3>2, <3>3
  <2>12. PICK d \in Seq(Byte) : d = ByGroups(s) /\ Len(d) = DecodedLen(v)
    <3>1. Whole(s) = s
      BY <2>7, WholeAll
    <3>2. QED
      BY <2>9, <2>10, <3>1, DeCryptType
  <2>13. PICK e \in Seq(Byte) : e = ByGroups(t) /\ Len(e) >= 1
    BY <2>7, GroupsType, GroupHoldsText
  <2>14. GroupsJoin(s, t)
    BY <2>7, GroupsOfJoined
  <2>15. ByGroups(x) = d \o e /\ Len(d \o e) = Len(d) + Len(e)
    BY <2>7, <2>12, <2>13, <2>14 DEF GroupsJoin
  <2>16. QED
    BY <2>11, <2>12, <2>13, <2>15
<1>3. QED
  BY <1>1, <1>2

(* The characters a peer writes for '=' stand for zeros.                   *)
LEMMA MarksAreZeros ==
  ASSUME NEW w \in Seq(Byte), NEW q \in Nat, Len(w) = 3 * q,
         NEW k \in 0 .. 2, k <= 3 * q,
         \A i \in 1 .. 3 * q : i > 3 * q - k => w[i] = 0,
         NEW c \in 1 .. 4 * q, c > 4 * q - k
  PROVE  Encode(w)[c] = 0
<1>1. PICK h \in Nat : q = h + 1
  <2>1. q - 1 \in Nat /\ q = (q - 1) + 1
    BY SMTT(20)
  <2>2. QED
    BY <2>1
<1>2. PICK j \in 3 .. 4 : c = 4 * h + j /\ j > 4 - k
  <2>1. c - 4 * h \in 3 .. 4 /\ c = 4 * h + (c - 4 * h) /\ c - 4 * h > 4 - k
    BY <1>1
  <2>2. QED
    BY <2>1
<1>3. Len(w) \div 3 = h + 1 /\ h < Len(w) \div 3 /\ j \in 1 .. 4
  BY <1>1
<1>4. /\ Encode(w)[4 * h + j] = EncodeGroup(w[3 * h + 1], w[3 * h + 2], w[3 * h + 3])[j]
      /\ w[3 * h + 1] \in Byte /\ w[3 * h + 2] \in Byte /\ w[3 * h + 3] \in Byte
  BY <1>3, EncodeAt
<1>5. w[3 * h + 3] = 0
  <2>1. 3 * h + 3 \in 1 .. 3 * q /\ 3 * h + 3 > 3 * q - k
    BY <1>1, <1>2
  <2>2. QED
    BY <2>1
<1>6. CASE j = 4
  <2>1. EncodeGroup(w[3 * h + 1], w[3 * h + 2], w[3 * h + 3])[4] = w[3 * h + 3] % 64
    BY DEF EncodeGroup
  <2>2. 0 % 64 = 0
    OBVIOUS
  <2>3. QED
    BY <1>2, <1>4, <1>5, <1>6, <2>1, <2>2
<1>7. CASE j = 3
  <2>1. w[3 * h + 2] = 0
    <3>1. 3 * h + 2 \in 1 .. 3 * q /\ 3 * h + 2 > 3 * q - k
      BY <1>1, <1>2, <1>7
    <3>2. QED
      BY <3>1
  <2>2. EncodeGroup(w[3 * h + 1], w[3 * h + 2], w[3 * h + 3])[3]
          = 4 * (w[3 * h + 2] % 16) + (w[3 * h + 3] \div 64)
    BY DEF EncodeGroup
  <2>3. 4 * (0 % 16) + (0 \div 64) = 0
    OBVIOUS
  <2>4. QED
    BY <1>2, <1>4, <1>5, <1>7, <2>1, <2>2, <2>3
<1>8. QED
  BY <1>2, <1>6, <1>7

(* What a peer pads by k bytes is decoded without them.                    *)
LEMMA MarkedDecodes ==
  ASSUME NEW w \in Seq(Byte), NEW q \in Nat, Len(w) = 3 * q,
         NEW k \in 0 .. 2, k <= 3 * q,
         \A i \in 1 .. 3 * q : i > 3 * q - k => w[i] = 0,
         NEW y \in Seq(Char), Len(y) = 4 * q,
         \A c \in 1 .. 4 * q : y[c] = IF c > 4 * q - k THEN Pad ELSE Encode(w)[c]
  PROVE  /\ \A g \in 1 .. q - 1 : g \notin Padded(y)
         /\ Len(Decode(y)) = 3 * q - k
         /\ \A i \in 1 .. 3 * q - k : Decode(y)[i] = w[i]
<1>1. PICK e \in Seq(Sextet) : e = Encode(w) /\ Len(e) = 4 * q
  <2>1. 4 * (Len(w) \div 3) = 4 * q
    OBVIOUS
  <2>2. QED
    BY <2>1, EncodeType
<1>2. \A c \in 1 .. 4 * q : e[c] \in Sextet
  BY <1>1
<1>3. ASSUME NEW c \in 1 .. 4 * q PROVE y[c] = Pad <=> c > 4 * q - k
  <2>1. e[c] # Pad
    <3>1. \A v \in Sextet : v # Pad
      BY DEF Pad, Sextet
    <3>2. QED
      BY <1>2, <3>1
  <2>2. y[c] = IF c > 4 * q - k THEN Pad ELSE e[c]
    BY <1>1
  <2>3. QED
    BY <2>1, <2>2
<1>4. PICK l \in Nat : l = Len(y) \div 4 /\ l = q
  <2>1. (4 * q) \div 4 = q
    OBVIOUS
  <2>2. QED
    BY <2>1
<1>5. ASSUME NEW g PROVE g \in Padded(y) <=> g \in 1 .. q /\ 4 * g > 4 * q - k
  <2>1. g \in Padded(y) <=> g \in 1 .. q /\ y[4 * g] = Pad
    BY <1>4 DEF Padded
  <2>2. ASSUME g \in 1 .. q PROVE y[4 * g] = Pad <=> 4 * g > 4 * q - k
    <3>1. 4 * g \in 1 .. 4 * q
      BY <2>2
    <3>2. QED
      BY <1>3, <3>1
  <2>3. QED
    BY <2>1, <2>2, Zenon
<1>6. \A g \in 1 .. q - 1 : g \notin Padded(y)
  <2>1. \A g \in 1 .. q - 1 : ~(4 * g > 4 * q - k)
    OBVIOUS
  <2>2. QED
    BY <1>5, <2>1
<1>7. DecodedLen(y) = 3 * q - k
  <2>1. CASE k = 0
    <3>1. \A g \in 1 .. q : ~(4 * g > 4 * q - k)
      BY <2>1
    <3>2. Padded(y) = {}
      BY <1>5, <3>1, Zenon
    <3>3. QED
      BY <1>4, <2>1, <3>2 DEF DecodedLen
  <2>2. CASE k # 0
    <3>1. q \in 1 .. q /\ 4 * q > 4 * q - k
      BY <2>2
    <3>2. q \in Padded(y)
      BY <1>5, <3>1
    <3>3. PICK f \in Nat : f = FirstPadded(y) /\ f \in 1 .. q /\ f \in Padded(y)
      <4>1. FirstPadded(y) \in 1 .. q
        BY <1>4, <3>2, FirstPaddedType
      <4>2. \A g \in Padded(y) : q <= g
        BY <1>5
      <4>3. \E g \in Padded(y) : \A h \in Padded(y) : g <= h
        <5>1. Padded(y) \in SUBSET Nat
          BY DEF Padded
        <5>2. Padded(y) # {}
          BY <3>2
        <5>3. QED
          BY <5>1, <5>2, LeastNatural
      <4>4. FirstPadded(y) \in Padded(y)
        BY <4>3, Zenon DEF FirstPadded
      <4>5. QED
        BY <4>1, <4>4
    <3>4. f = q
      <4>1. ~(f \in 1 .. q - 1)
        BY <1>6, <3>3
      <4>2. QED
        BY <3>3, <4>1
    <3>5. DecodedLen(y) = 3 * f - (IF y[4 * f - 1] = Pad THEN 2 ELSE 1)
      BY <3>2, <3>3, Zenon DEF DecodedLen
    <3>6. y[4 * q - 1] = Pad <=> k = 2
      <4>1. 4 * q - 1 \in 1 .. 4 * q /\ (4 * q - 1 > 4 * q - k <=> k = 2)
        BY <3>1
      <4>2. QED
        BY <1>3, <4>1
    <3>7. QED
      BY <2>2, <3>4, <3>5, <3>6
  <2>3. QED
    BY <2>1, <2>2
<1>8. ASSUME NEW c \in 1 .. 4 * q PROVE y[c] % Pad = e[c] % Pad
  <2>1. CASE c > 4 * q - k
    <3>1. y[c] = Pad
      BY <1>3, <2>1
    <3>2. e[c] = 0
      BY <1>1, <2>1, MarksAreZeros
    <3>3. Pad % Pad = 0 % Pad
      BY DEF Pad
    <3>4. QED
      BY <3>1, <3>2, <3>3
  <2>2. CASE ~(c > 4 * q - k)
    BY <1>1, <2>2
  <2>3. QED
    BY <2>1, <2>2
<1>9. e \in Seq(Char) /\ DecodedLen(e) = 3 * q
  <2>1. e \in Seq(Char)
    BY <1>1 DEF Char
  <2>2. Padded(e) = {}
    <3>1. \A g \in 1 .. q : 4 * g \in 1 .. 4 * q
      OBVIOUS
    <3>2. \A g \in 1 .. q : e[4 * g] # Pad
      <4>1. \A v \in Sextet : v # Pad
        BY DEF Pad, Sextet
      <4>2. QED
        BY <1>2, <3>1, <4>1
    <3>3. Len(e) \div 4 = q
      BY <1>1, <1>4
    <3>4. QED
      BY <3>2, <3>3 DEF Padded
  <2>3. Len(e) \div 4 = q
    BY <1>1, <1>4
  <2>4. QED
    BY <2>1, <2>2, <2>3, Zenon DEF DecodedLen
<1>10. Decode(e) = w
  <2>1. (3 * q) % 3 = 0
    OBVIOUS
  <2>2. QED
    BY <1>1, <2>1, DecodeUndoes
<1>11. ASSUME NEW i \in 1 .. 3 * q - k PROVE Decode(y)[i] = w[i]
  <2>1. PICK g \in Nat, j \in 1 .. 3 : i = 3 * g + j
    <3>1. i \in Nat \ {0}
      OBVIOUS
    <3>2. QED
      BY <3>1, ThreeSplit
  <2>2. g < q /\ 3 * g + j \in 1 .. 3 * q /\ 3 * g + j \in 1 .. 3 * q - k
    BY <2>1
  <2>3. /\ 4 * g + 1 \in 1 .. 4 * q /\ 4 * g + 2 \in 1 .. 4 * q
        /\ 4 * g + 3 \in 1 .. 4 * q /\ 4 * g + 4 \in 1 .. 4 * q
    BY <2>2
  <2>4. /\ y[4 * g + 1] % Pad = e[4 * g + 1] % Pad
        /\ y[4 * g + 2] % Pad = e[4 * g + 2] % Pad
        /\ y[4 * g + 3] % Pad = e[4 * g + 3] % Pad
        /\ y[4 * g + 4] % Pad = e[4 * g + 4] % Pad
    BY <1>8, <2>3
  <2>5. DecodedFrom(y, g, j)
    BY <1>7, <2>2, DecodeAt
  <2>6. DecodedFrom(e, g, j)
    BY <1>9, <2>2, DecodeAt
  <2>7. Decode(y)[3 * g + j] = Decode(e)[3 * g + j]
    BY <2>4, <2>5, <2>6, Zenon DEF DecodedFrom
  <2>8. QED
    BY <1>10, <2>1, <2>7, Zenon
<1>12. Len(Decode(y)) = 3 * q - k
  BY <1>7, DecodeType
<1>13. QED
  BY <1>6, <1>11, <1>12

(* A peer's text, padded by '=' and decrypted group by group, is the text  *)
(* that was encrypted, whatever its length (new/main.go:134-167).          *)
THEOREM GroupsOfPeer ==
  ASSUME NEW m \in Seq(Byte)
  PROVE  /\ ByGroups(PeerEncode(m)) = m
         /\ \E q \in Nat : Len(PeerEncode(m)) = 4 * q
<1>1. PICK n \in Nat, k \in 0 .. 2, q \in Nat :
        n = Len(m) /\ k = PadLen(n) /\ n + k = 3 * q /\ n = 3 * q - k /\ k <= 3 * q
  <2>1. PICK n \in Nat : n = Len(m)
    OBVIOUS
  <2>2. PICK k \in 0 .. 2 : k = PadLen(n) /\ (n + k) % 3 = 0
    BY PadLenRange
  <2>3. PICK q \in Nat : n + k = 3 * q
    <3>1. n + k \in Nat /\ (n + k) % 3 = 0
      <4>1. n + k \in Nat
        OBVIOUS
      <4>2. (n + k) % 3 = 0
        BY <2>2
      <4>3. QED
        BY <4>1, <4>2
    <3>2. \A z \in Nat : z % 3 = 0 => z \div 3 \in Nat /\ z = 3 * (z \div 3)
      OBVIOUS
    <3>3. QED
      BY <3>1, <3>2
  <2>4. n = 3 * q - k /\ k <= 3 * q
    BY <2>3
  <2>5. QED
    BY <2>1, <2>2, <2>3, <2>4
<1> DEFINE zeros == [i \in 1 .. k |-> 0]
<1>2. zeros \in Seq(Byte) /\ Len(zeros) = k /\ \A i \in 1 .. k : zeros[i] = 0
  BY DEF Byte
<1> HIDE DEF zeros
<1>3. PICK w \in Seq(Byte) : w = m \o zeros /\ IsJoin(w, m, zeros, n, k)
  BY <1>1, <1>2, Joining
<1>4. /\ Len(w) = 3 * q
      /\ \A i \in 1 .. n : w[i] = m[i]
      /\ \A i \in 1 .. k : w[n + i] = zeros[i]
  BY <1>1, <1>3 DEF IsJoin
<1>5. ASSUME NEW i \in 1 .. 3 * q, i > 3 * q - k PROVE w[i] = 0
  <2>1. n + k = 3 * q
    BY <1>1
  <2>2. i - n \in 1 .. k /\ n + (i - n) = i
    BY <1>5, <2>1
  <2>3. PICK j \in 1 .. k : n + j = i
    BY <2>2
  <2>4. w[n + j] = zeros[j] /\ zeros[j] = 0
    BY <1>2, <1>4
  <2>5. QED
    BY <2>3, <2>4
<1>6. PICK e \in Seq(Sextet) : e = Encode(w) /\ Len(e) = 4 * q
  <2>1. 4 * (Len(w) \div 3) = 4 * q
    BY <1>4
  <2>2. QED
    BY <2>1, EncodeType
<1> DEFINE y == [i \in 1 .. Len(e) |-> IF i > Len(e) - k THEN Pad ELSE e[i]]
<1>7. PeerEncode(m) = MixFour(y)
  BY <1>1, <1>3, <1>6 DEF PeerEncode, zeros
<1>8. y \in Seq(Char) /\ Len(y) = 4 * q
  BY <1>6 DEF Char
<1>9. \A c \in 1 .. 4 * q : y[c] = IF c > 4 * q - k THEN Pad ELSE e[c]
  BY <1>6
<1> HIDE DEF y
<1>10. /\ \A g \in 1 .. q - 1 : g \notin Padded(y)
       /\ Len(Decode(y)) = 3 * q - k
       /\ \A i \in 1 .. 3 * q - k : Decode(y)[i] = w[i]
  <2>1. k <= 3 * q
    BY <1>1
  <2>2. \A i \in 1 .. 3 * q : i > 3 * q - k => w[i] = 0
    BY <1>5
  <2>3. \A c \in 1 .. 4 * q : y[c] = IF c > 4 * q - k THEN Pad ELSE Encode(w)[c]
    BY <1>6, <1>9
  <2>4. QED
    BY <1>4, <1>8, <2>1, <2>2, <2>3, MarkedDecodes
<1>11. PICK x \in Seq(Char) : x = MixFour(y) /\ Len(x) = 4 * q /\ DeMixFour(x) = y
  <2>1. MixFour(y) \in Seq(Char) /\ Len(MixFour(y)) = 4 * q
    BY <1>8, FromType, PermuteType DEF MixFour
  <2>2. DeMixFour(MixFour(y)) = y
    BY <1>8, MixingUndone
  <2>3. QED
    BY <2>1, <2>2
<1>12. ByGroups(x) = DeCrypt(x)
  <2>1. \A g \in 1 .. q : g \in Padded(y) <=> x[4 * g - 3] = Pad
    BY <1>11, DeMixLast
  <2>2. \A g \in 1 .. q - 1 : g \in 1 .. q
    OBVIOUS
  <2>3. \A g \in 1 .. q - 1 : x[4 * g - 3] # Pad
    BY <1>10, <2>1, <2>2
  <2>4. QED
    BY <1>11, <2>3, GroupsDecrypt
<1>13. DeCrypt(x) = Decode(y)
  BY <1>11, WholeAll DEF DeCrypt
<1>14. Decode(y) = m
  <2>1. Decode(y) \in Seq(Byte)
    BY <1>8, DecodeType
  <2>2. PICK d \in Seq(Byte) : d = Decode(y)
    BY <2>1
  <2>3. Len(d) = n /\ \A i \in 1 .. n : d[i] = m[i]
    BY <1>1, <1>4, <1>10, <2>2
  <2>4. QED
    BY <1>1, <2>2, <2>3, SameSequence
<1>15. QED
  BY <1>7, <1>11, <1>12, <1>13, <1>14

(* And what EncryPt made, as the text with its spaces.                     *)
LEMMA GroupsOfEncrypted ==
  ASSUME NEW m \in Seq(Byte), NEW room \in Nat, CipherLen(Len(m)) <= room
  PROVE  /\ ByGroups(EncryPt(m, room)) = WithSpaces(m)
         /\ \E q \in Nat : Len(EncryPt(m, room)) = 4 * q
<1>1. PICK e \in Seq(Char) : e = EncryPt(m, room)
  BY EncryPtType
<1>2. PICK n \in Nat, c \in Nat, p \in Nat, q \in Nat :
        n = Len(m) /\ c = CipherLen(n) /\ p = PadLen(n) /\ n + p = 3 * q /\ c = 4 * q
  <2>1. PICK n \in Nat : n = Len(m)
    OBVIOUS
  <2>2. PICK p \in Nat : p = PadLen(n) /\ (n + p) % 3 = 0
    BY PadLenNat
  <2>3. PICK q \in Nat : n + p = 3 * q
    <3>1. n + p \in Nat /\ (n + p) % 3 = 0
      BY <2>2
    <3>2. \A z \in Nat : z % 3 = 0 => z \div 3 \in Nat /\ z = 3 * (z \div 3)
      OBVIOUS
    <3>3. QED
      BY <3>1, <3>2
  <2>4. (4 * (3 * q)) \div 3 = 4 * q /\ 4 * q \in Nat
    OBVIOUS
  <2>5. CipherLen(n) = 4 * q
    BY <2>2, <2>3, <2>4 DEF CipherLen
  <2>6. QED
    BY <2>1, <2>2, <2>3, <2>4, <2>5
<1>3. CASE m = <<>>
  <2>1. n = 0 /\ p = 0 /\ q = 0
    <3>1. n = 0
      BY <1>2, <1>3
    <3>2. (3 - (0 % 3)) % 3 = 0
      OBVIOUS
    <3>3. p = 0
      BY <1>2, <3>1, <3>2 DEF PadLen
    <3>4. n + p = 3 * q
      BY <1>2
    <3>5. QED
      BY <3>1, <3>3, <3>4
  <2>2. WithSpaces(m) = m
    <3>1. WithSpaces(m) \in Seq(Byte) /\ Len(WithSpaces(m)) = 0
      <4>1. WithSpaces(m) \in Seq(Byte) /\ Len(WithSpaces(m)) = Len(m) + PadLen(Len(m))
        BY WithSpacesType
      <4>2. Len(m) + PadLen(Len(m)) = n + p
        BY <1>2
      <4>3. n + p = 0
        BY <2>1
      <4>4. QED
        BY <4>1, <4>2, <4>3
    <3>2. QED
      BY <1>3, <3>1
  <2>3. Len(e) = 0 /\ Len(e) < 4
    <3>1. e = <<>> \/ Len(e) = c
      BY <1>1, <1>2, EncryPtType
    <3>2. QED
      BY <1>2, <2>1, <3>1
  <2>4. ByGroups(e) = <<>>
    BY <2>3, NoGroup
  <2>5. Len(e) = 4 * 0
    BY <2>3
  <2>6. QED
    BY <1>1, <1>3, <2>2, <2>4, <2>5
<1>4. CASE m # <<>>
  <2>1. PICK t \in Seq(Char) : t = <<>> /\ Len(t) < 4
    <3>1. <<>> \in Seq(Char) /\ Len(<<>>) < 4
      OBVIOUS
    <3>2. QED
      BY <3>1
  <2>2. ByGroups(EncryPt(m, room) \o t) = WithSpaces(m)
    BY <1>4, <2>1, GroupsOfCipher
  <2>3. e \o t = e
    BY <2>1
  <2>4. Len(e) = 4 * q
    <3>1. ~(c > room)
      BY <1>2
    <3>2. WithSpaces(m) \in Seq(Byte) /\ Len(WithSpaces(m)) = 3 * q
      BY <1>2, WithSpacesType
    <3>3. EncryPt(m, room) = MixFour(Encode(WithSpaces(m)))
      BY <1>2, <3>1 DEF EncryPt
    <3>4. 4 * ((3 * q) \div 3) = 4 * q
      OBVIOUS
    <3>5. Encode(WithSpaces(m)) \in Seq(Sextet) /\ Len(Encode(WithSpaces(m))) = 4 * q
      BY <3>2, <3>4, EncodeType
    <3>6. Len(MixFour(Encode(WithSpaces(m)))) = 4 * q
      BY <3>5, FromType, PermuteType DEF MixFour
    <3>7. QED
      BY <1>1, <3>3, <3>6
  <2>5. QED
    BY <1>1, <2>2, <2>3, <2>4
<1>5. QED
  BY <1>3, <1>4

-----------------------------------------------------------------------------
(* What the reader has not taken out yet, in two parts: the part that      *)
(* Parser sees and the part behind it.                                     *)
InGroups(s) == \E q \in Nat : Len(s) = 4 * q

Parts(X, W) == Text(buf \o wire) = X \o W /\ Plain(buf) \in {X, TrimLeft(X)}

WrittenBack(rest, W) ==
  /\ Text(Stored(rest) \o wire) \in {rest \o W, WithSpaces(rest) \o W}
  /\ crypt => InGroups(Stored(rest) \o wire)

(* What Parser writes back fits into the buffer it came from.              *)
LEMMA RestFits ==
  ASSUME TypeOK, crypt, NEW rest \in Seq(Byte), Len(rest) <= Len(Plain(buf))
  PROVE  CipherLen(Len(rest)) <= BufSize
<1>1. buf \in Seq(Char) /\ Len(buf) \in Nat /\ Len(buf) <= BufSize
  BY DEF TypeOK
<1>2. PICK l \in Nat : l = Len(LeftOver(buf))
  <2>1. LeftOver(buf) \in Seq(Char)
    BY <1>1, WholeType
  <2>2. QED
    BY <2>1
<1>3. PICK n \in Nat : n = Len(rest)
  OBVIOUS
<1>4. PICK d \in Nat : d = DecodedLen(DeMixFour(Whole(buf)))
  BY <1>1, DeCryptType
<1>5. Len(Plain(buf)) \in Nat /\ Len(Plain(buf)) <= d
  BY <1>4, PlainType
<1>6. n <= DecodedLen(DeMixFour(Whole(buf)))
  BY <1>3, <1>4, <1>5
<1>7. CipherLen(n) + l <= Len(buf) /\ CipherLen(n) \in Nat
  BY <1>1, <1>2, <1>6, EncryptedAgainFits, CipherLenNat
<1>8. BufSize \in Nat
  BY ParserAssumption DEF ParserAssumption
<1>9. QED
  BY <1>1, <1>3, <1>7, <1>8

(* Without encryption the buffer and the wire are the text itself.         *)
LEMMA PlainTextParts ==
  ASSUME TypeOK, ~crypt
  PROVE  /\ buf \in Seq(Byte) /\ wire \in Seq(Byte) /\ Parts(buf, wire)
         /\ \A rest \in Seq(Byte) : WrittenBack(rest, wire)
<1>1. buf \in Seq(Byte) /\ wire \in Seq(Byte)
  BY DEF TypeOK
<1>2. Parts(buf, wire)
  BY Zenon DEF Parts, Text, Plain
<1>3. ASSUME NEW rest \in Seq(Byte) PROVE WrittenBack(rest, wire)
  <2>1. rest \o <<>> = rest
    OBVIOUS
  <2>2. Stored(rest) = rest
    BY <2>1, Zenon DEF Stored, Kept
  <2>3. QED
    BY <2>2, Zenon DEF WrittenBack, Text
<1>4. QED
  BY <1>1, <1>2, <1>3

(* With it they are the text of the buffer and a text W of the wire, and   *)
(* what is written back is read as itself.                                 *)
LEMMA CipherTextParts ==
  ASSUME TypeOK, crypt, ~Truncates, InGroups(buf \o wire)
  PROVE  \E X, W \in Seq(Byte) :
           /\ Parts(X, W)
           /\ \A rest \in Seq(Byte) :
                Len(rest) <= Len(Plain(buf)) => WrittenBack(rest, W)
<1>1. buf \in Seq(Char) /\ wire \in Seq(Char)
  BY DEF TypeOK
<1>2. PICK b \in Nat, l \in 0 .. 3, a \in Nat, c \in Nat, q \in Nat :
        /\ b = Len(buf) /\ l = b % 4 /\ b - l = 4 * a /\ c = Len(wire)
        /\ b + c = 4 * q /\ l + c = 4 * (q - a) /\ q - a \in Nat
  <2>1. PICK b \in Nat, c \in Nat : b = Len(buf) /\ c = Len(wire)
    BY <1>1
  <2>2. PICK q \in Nat : Len(buf \o wire) = 4 * q
    BY DEF InGroups
  <2>3. b + c = 4 * q
    BY <1>1, <2>1, <2>2
  <2>4. /\ b % 4 \in 0 .. 3 /\ b \div 4 \in Nat /\ b - (b % 4) = 4 * (b \div 4)
        /\ (b % 4) + c = 4 * (q - (b \div 4)) /\ q - (b \div 4) \in Nat
    BY <2>3
  <2>5. QED
    BY <2>1, <2>3, <2>4
<1>3. PICK w \in Seq(Char), k \in Seq(Char) :
        /\ w = Whole(buf) /\ k = LeftOver(buf) /\ buf = w \o k
        /\ Len(w) = 4 * a /\ Len(k) = l
  <2>1. b - l \in 0 .. b
    BY <1>2
  <2>2. PICK w \in Seq(Char), k \in Seq(Char) :
          /\ w = SubSeq(buf, 1, b - l) /\ k = SubSeq(buf, b - l + 1, Len(buf))
          /\ IsCut(buf, w, k, b - l)
    BY <1>1, <1>2, <2>1, CutAt
  <2>3. w = Whole(buf) /\ k = LeftOver(buf)
    BY <1>2, <2>2 DEF Whole, LeftOver
  <2>4. Len(w) = 4 * a /\ Len(k) = l
    <3>1. buf = w \o k /\ Len(w) = b - l /\ Len(k) = b - (b - l)
      BY <1>2, <2>2 DEF IsCut
    <3>2. b - (b - l) = l
      BY <1>2
    <3>3. QED
      BY <1>2, <3>1, <3>2
  <2>5. QED
    BY <2>2, <2>3, <2>4, Zenon DEF IsCut
<1>4. PICK t \in Seq(Char) : t = k \o wire /\ Len(t) = 4 * (q - a)
  <2>1. k \o wire \in Seq(Char) /\ Len(k \o wire) = Len(k) + Len(wire)
    BY <1>1
  <2>2. QED
    BY <1>2, <1>3, <2>1
<1>5. PICK X \in Seq(Byte) : X = ByGroups(w) /\ X = DeCrypt(buf)
  <2>1. PICK x \in Seq(Byte) : x = ByGroups(w)
    BY GroupsType
  <2>2. Text(buf) = x
    <3>1. GroupsJoin(w, k)
      BY <1>3, GroupsOfJoined
    <3>2. ByGroups(k) = <<>>
      <4>1. l < 4
        OBVIOUS
      <4>2. QED
        BY <1>3, <4>1, NoGroup
    <3>3. x \o <<>> = x
      OBVIOUS
    <3>4. QED
      BY <1>3, <2>1, <3>1, <3>2, <3>3, Zenon DEF GroupsJoin, Text
  <2>3. ~(DecodedLen(DeMixFour(w)) < Len(ByGroups(w)))
    BY <1>3, <2>1, <2>2, Zenon DEF Truncates
  <2>4. ByGroups(w) = DeCrypt(w)
    BY <1>3, <2>3, NothingCutOff
  <2>5. DeCrypt(w) = DeCrypt(buf)
    <3>1. Whole(w) = w
      BY <1>3, WholeAll
    <3>2. QED
      BY <1>3, <3>1, Zenon DEF DeCrypt
  <2>6. QED
    BY <2>1, <2>4, <2>5
<1>6. PICK W \in Seq(Byte) : W = ByGroups(t)
  BY GroupsType
<1>7. Parts(X, W)
  <2>1. Groupable(w, k, wire)
    BY <1>1, ConcatGroups
  <2>2. buf \o wire = w \o t
    BY <1>3, <1>4, <2>1, Zenon DEF Groupable
  <2>3. GroupsJoin(w, t)
    BY <1>3, GroupsOfJoined
  <2>4. Text(buf \o wire) = X \o W
    BY <1>5, <1>6, <2>2, <2>3, Zenon DEF Text, GroupsJoin
  <2>5. Plain(buf) = TrimLeft(X)
    BY <1>5, Zenon DEF Plain
  <2>6. QED
    BY <2>4, <2>5, Zenon DEF Parts
<1>8. ASSUME NEW rest \in Seq(Byte), Len(rest) <= Len(Plain(buf))
      PROVE  WrittenBack(rest, W)
  <2>1. CASE rest = <<>>
    <3>1. <<>> \o k = k
      OBVIOUS
    <3>2. Stored(rest) = k
      BY <1>3, <2>1, <3>1, Zenon DEF Stored, Kept
    <3>3. Text(Stored(rest) \o wire) = W
      BY <1>4, <1>6, <3>2, Zenon DEF Text
    <3>4. <<>> \o W = W
      OBVIOUS
    <3>5. rest \o W = W
      BY <2>1, <3>4, Zenon
    <3>6. InGroups(t)
      BY <1>2, <1>4 DEF InGroups
    <3>7. QED
      BY <1>4, <3>2, <3>3, <3>5, <3>6, Zenon DEF WrittenBack
  <2>2. CASE rest # <<>>
    <3>1. CipherLen(Len(rest)) <= BufSize
      BY <1>8, RestFits
    <3>2. BufSize \in Nat
      BY ParserAssumption DEF ParserAssumption
    <3>3. PICK e \in Seq(Char), p \in Nat :
            /\ e = EncryPt(rest, BufSize) /\ Len(e) = 4 * p
            /\ ByGroups(e) = WithSpaces(rest)
      <4>1. EncryPt(rest, BufSize) \in Seq(Char)
        BY EncryPtType
      <4>2. QED
        BY <3>1, <3>2, <4>1, GroupsOfEncrypted
    <3>4. Stored(rest) = e \o k
      BY <1>3, <2>2, <3>3, Zenon DEF Stored, Kept
    <3>5. Groupable(e, k, wire)
      BY <1>1, ConcatGroups
    <3>6. Stored(rest) \o wire = e \o t
      BY <1>4, <3>4, <3>5, Zenon DEF Groupable
    <3>7. GroupsJoin(e, t)
      BY <3>3, GroupsOfJoined
    <3>8. Text(Stored(rest) \o wire) = WithSpaces(rest) \o W
      BY <1>6, <3>3, <3>6, <3>7, Zenon DEF Text, GroupsJoin
    <3>9. InGroups(e \o t)
      <4>1. Len(e \o t) = Len(e) + Len(t)
        OBVIOUS
      <4>2. PICK r \in Nat : r = q - a
        BY <1>2
      <4>3. Len(e \o t) = 4 * p + 4 * r
        BY <1>4, <3>3, <4>1, <4>2
      <4>4. 4 * p + 4 * r = 4 * (p + r) /\ p + r \in Nat
        OBVIOUS
      <4>5. Len(e \o t) = 4 * (p + r)
        BY <4>3, <4>4
      <4>6. QED
        BY <4>4, <4>5, Zenon DEF InGroups
    <3>10. QED
      BY <3>6, <3>8, <3>9, Zenon DEF WrittenBack
  <2>3. QED
    BY <2>1, <2>2
<1>9. QED
  BY <1>7, <1>8

-----------------------------------------------------------------------------
(* The invariant behind Conserved: besides the balance of the packets, the *)
(* texts sent and the text not read yet have brackets that match and no    *)
(* heartbeat inside a packet, and the characters not read yet are whole    *)
(* groups, wherever the network cut them.                                  *)
Handed(os) == FlattenSeq([i \in 1 .. Len(os) |-> PacketsOf(os[i])])

Balance(os, t, s) == Handed(os) \o PacketsOf(t) = PacketsOf(s)

InGoodOrder(os, chars, s) ==
  /\ Tidy(Text(chars)) /\ Balance(os, Text(chars), s)
  /\ crypt => InGroups(chars)

ConservedFrom ==
  /\ Tidy(FlattenSeq(sent))
  /\ ~spoiled => InGoodOrder(out, buf \o wire, FlattenSeq(sent))

(* What was handed on is a sequence of packets.                            *)
LEMMA HandedType ==
  ASSUME NEW os \in Seq(Seq(Byte))
  PROVE  /\ [i \in 1 .. Len(os) |-> PacketsOf(os[i])] \in Seq(Seq(Seq(Byte)))
         /\ Handed(os) \in Seq(Seq(Byte))
<1>1. \A i \in 1 .. Len(os) : PacketsOf(os[i]) \in Seq(Seq(Byte))
  <2> SUFFICES ASSUME NEW i \in 1 .. Len(os) PROVE PacketsOf(os[i]) \in Seq(Seq(Byte))
    OBVIOUS
  <2>1. PICK D : D = Seq(Byte)
    OBVIOUS
  <2>2. os[i] \in D
    BY <2>1
  <2>3. QED
    BY <2>1, <2>2, NoneBefore
<1>2. PICK D : D = Seq(Seq(Byte))
  OBVIOUS
<1>3. \A i \in 1 .. Len(os) : PacketsOf(os[i]) \in D
  BY <1>1, <1>2
<1> DEFINE h == [i \in 1 .. Len(os) |-> PacketsOf(os[i])]
<1>4. PICK n \in Nat : n = Len(os)
  OBVIOUS
<1>5. h \in Seq(D)
  BY <1>3, <1>4
<1>6. h \in Seq(Seq(Seq(Byte)))
  BY <1>2, <1>5
<1> HIDE DEF h
<1>7. FlattenSeq(h) \in Seq(Seq(Byte))
  BY <1>6, FlatType
<1>8. QED
  BY <1>6, <1>7 DEF h, Handed

IsLonger(t, s, x) ==
  /\ Len(t) = Len(s) + 1 /\ t[Len(s) + 1] = x
  /\ \A i \in 1 .. Len(s) : t[i] = s[i]

(* What Append does, in one formula.                                       *)
LEMMA OneMore ==
  ASSUME NEW S, NEW s \in Seq(S), NEW x \in S, NEW t, t = Append(s, x)
  PROVE  t \in Seq(S) /\ IsLonger(t, s, x)
BY DEF IsLonger

(* A function on 1 .. n is a sequence of length n.                         *)
LEMMA Tabled ==
  ASSUME NEW S, NEW n \in Nat, NEW f, f = [i \in 1 .. n |-> f[i]],
         \A i \in 1 .. n : f[i] \in S
  PROVE  f \in Seq(S) /\ Len(f) = n
<1>1. f \in [1 .. n -> S]
  BY Zenon
<1>2. QED
  BY <1>1

(* One packet more is handed on.                                           *)
HandsOn(os, x) == Handed(Append(os, x)) = Handed(os) \o PacketsOf(x)

(* One packet more to hand on is its packets behind the others.            *)
LEMMA HandedOneMore ==
  ASSUME NEW os \in Seq(Seq(Byte)), NEW x \in Seq(Byte)
  PROVE  HandsOn(os, x)
<1>1. PICK D, E : D = Seq(Byte) /\ E = Seq(D)
  OBVIOUS
<1>2. os \in Seq(D) /\ x \in D
  BY <1>1
<1>3. PICK us \in Seq(D), n \in Nat :
        /\ us = Append(os, x) /\ n = Len(os) /\ Len(us) = n + 1
        /\ us[n + 1] = x /\ \A i \in 1 .. n : us[i] = os[i]
  <2>1. PICK us : us = Append(os, x)
    OBVIOUS
  <2>2. us \in Seq(D) /\ IsLonger(us, os, x)
    BY <1>2, <2>1, OneMore
  <2>3. PICK n \in Nat : n = Len(os)
    BY <1>2
  <2>4. QED
    BY <2>1, <2>2, <2>3 DEF IsLonger
<1>4. \A y \in D : PacketsOf(y) \in E
  BY <1>1, NoneBefore
<1>5. \A i \in 1 .. n : PacketsOf(os[i]) \in E
  BY <1>2, <1>3, <1>4
<1>6. \A i \in 1 .. n + 1 : PacketsOf(us[i]) \in E
  BY <1>3, <1>4
<1>7. PICK a : /\ a = [i \in 1 .. n |-> PacketsOf(os[i])]
               /\ a \in Seq(E) /\ Len(a) = n /\ \A i \in 1 .. n : a[i] = PacketsOf(os[i])
  <2>1. PICK a : a = [i \in 1 .. n |-> PacketsOf(os[i])]
    OBVIOUS
  <2>2. \A i \in 1 .. n : a[i] = PacketsOf(os[i])
    BY <2>1, Zenon
  <2>3. a = [i \in 1 .. n |-> a[i]] /\ \A i \in 1 .. n : a[i] \in E
    BY <1>5, <2>1, <2>2, Zenon
  <2>4. a \in Seq(E) /\ Len(a) = n
    BY <2>3, Tabled, Zenon
  <2>5. QED
    BY <2>1, <2>2, <2>4
<1>8. PICK b : /\ b = [i \in 1 .. n + 1 |-> PacketsOf(us[i])]
               /\ b \in Seq(E) /\ Len(b) = n + 1
               /\ \A i \in 1 .. n + 1 : b[i] = PacketsOf(us[i])
  <2>1. PICK b : b = [i \in 1 .. n + 1 |-> PacketsOf(us[i])]
    OBVIOUS
  <2>2. \A i \in 1 .. n + 1 : b[i] = PacketsOf(us[i])
    BY <2>1, Zenon
  <2>3. b = [i \in 1 .. n + 1 |-> b[i]] /\ \A i \in 1 .. n + 1 : b[i] \in E
    BY <1>6, <2>1, <2>2, Zenon
  <2>4. PICK l \in Nat : l = n + 1
    OBVIOUS
  <2>5. b \in Seq(E) /\ Len(b) = n + 1
    BY <2>3, <2>4, Tabled, Zenon
  <2>6. QED
    BY <2>1, <2>2, <2>5
<1>9. PICK p \in E : p = PacketsOf(x)
  BY <1>2, <1>4
<1>10. PICK c \in Seq(E) : /\ c = Append(a, p) /\ Len(c) = n + 1 /\ c[n + 1] = p
                           /\ \A i \in 1 .. n : c[i] = a[i]
  <2>1. PICK c : c = Append(a, p)
    OBVIOUS
  <2>2. c \in Seq(E) /\ IsLonger(c, a, p)
    BY <1>7, <2>1, OneMore
  <2>3. QED
    BY <1>7, <2>1, <2>2 DEF IsLonger
<1>11. ASSUME NEW i \in 1 .. n + 1 PROVE b[i] = c[i]
  <2>1. i \in 1 .. n \/ i = n + 1
    BY <1>3
  <2>2. CASE i \in 1 .. n
    BY <1>3, <1>7, <1>8, <1>10, <2>2, Zenon
  <2>3. CASE i = n + 1
    BY <1>3, <1>8, <1>9, <1>10, <2>3, Zenon
  <2>4. QED
    BY <2>1, <2>2, <2>3
<1>12. b = c
  BY <1>7, <1>8, <1>10, <1>11, SameSequence
<1>13. FlatAppends(a, p)
  <2>1. a \in Seq(Seq(Seq(Byte))) /\ p \in Seq(Seq(Byte))
    BY <1>1, <1>7
  <2>2. QED
    BY <2>1, FlatAppend
<1>14. Handed(us) = FlattenSeq(b) /\ Handed(os) = FlattenSeq(a)
  BY <1>3, <1>7, <1>8, Zenon DEF Handed
<1>15. QED
  BY <1>3, <1>9, <1>10, <1>12, <1>13, <1>14, Zenon DEF HandsOn, FlatAppends

(* The types of what is sent, of what is not read yet and of what was      *)
(* handed on.                                                              *)
LEMMA UnreadType ==
  ASSUME TypeOK
  PROVE  /\ buf \in Seq(Unit) /\ wire \in Seq(Unit) /\ buf \o wire \in Seq(Unit)
         /\ Text(buf \o wire) \in Seq(Byte)
         /\ out \in Seq(Seq(Byte)) /\ Handed(out) \in Seq(Seq(Byte))
         /\ sent \in Seq(Seq(Byte)) /\ FlattenSeq(sent) \in Seq(Byte)
<1>1. buf \in Seq(Unit) /\ wire \in Seq(Unit)
  BY DEF TypeOK, Unit
<1>2. PICK u \in Seq(Unit) : u = buf \o wire
  BY <1>1, ConcatType
<1>3. Text(u) \in Seq(Byte)
  <2>1. CASE crypt
    <3>1. u \in Seq(Char)
      BY <2>1 DEF Unit
    <3>2. ByGroups(u) \in Seq(Byte)
      BY <3>1, GroupsType
    <3>3. QED
      BY <2>1, <3>2, Zenon DEF Text
  <2>2. CASE ~crypt
    <3>1. u \in Seq(Byte)
      BY <2>2 DEF Unit
    <3>2. QED
      BY <2>2, <3>1, Zenon DEF Text
  <2>3. QED
    BY <2>1, <2>2
<1>4. out \in Seq(Seq(Byte)) /\ Handed(out) \in Seq(Seq(Byte))
  BY HandedType DEF TypeOK
<1>5. sent \in Seq(Seq(Byte))
  <2>1. PICK D : D = Seq(Byte)
    OBVIOUS
  <2>2. Messages \subseteq D
    BY <2>1, ParserAssumption DEF ParserAssumption
  <2>3. sent \in Seq(D)
    BY <2>2 DEF TypeOK
  <2>4. QED
    BY <2>1, <2>3
<1>6. FlattenSeq(sent) \in Seq(Byte)
  BY <1>5, FlatType
<1>7. QED
  BY <1>1, <1>2, <1>3, <1>4, <1>5, <1>6

(* At the start nothing is sent and nothing handed on.                     *)
LEMMA ConservedInit ==
  ASSUME Init PROVE ConservedFrom
<1>1. buf = <<>> /\ wire = <<>> /\ sent = <<>> /\ out = <<>>
  BY DEF Init
<1>2. PICK e \in Seq(Byte) : e = <<>> /\ Len(e) = 0 /\ e \in Seq(Char) /\ e \o e = e
  <2>1. <<>> \in Seq(Byte) /\ Len(<<>>) = 0 /\ <<>> \in Seq(Char) /\ <<>> \o <<>> = <<>>
    OBVIOUS
  <2>2. QED
    BY <2>1
<1>3. Tidy(e)
  <2>1. Scan(e)[0] = NoPackets
    BY ScanFacts
  <2>2. Scan(e)[0].depth = 0
    BY <2>1 DEF NoPackets
  <2>3. \A i \in 1 .. 0 : FALSE
    OBVIOUS
  <2>4. \A i \in 0 .. 0 : i = 0
    OBVIOUS
  <2>5. QED
    BY <1>2, <2>2, <2>3, <2>4, Zenon DEF Tidy
<1>4. FlattenSeq(sent) = e
  BY <1>1, <1>2, FlatNothing
<1>5. Text(buf \o wire) = e
  <2>1. 0 < 4
    OBVIOUS
  <2>2. ByGroups(e) = e
    BY <1>2, <2>1, NoGroup
  <2>3. QED
    BY <1>1, <1>2, <2>2, Zenon DEF Text
<1>6. Handed(out) = <<>>
  <2>1. \A f : [i \in 1 .. Len(<<>>) |-> f[i]] = <<>>
    OBVIOUS
  <2>2. [i \in 1 .. Len(out) |-> PacketsOf(out[i])] = <<>>
    BY <1>1
  <2>3. QED
    BY <2>2, FlatNothing DEF Handed
<1>7. Balance(out, e, e)
  <2>1. PacketsOf(e) = <<>>
    BY <1>2, NothingHasNone
  <2>2. <<>> \o <<>> = <<>>
    OBVIOUS
  <2>3. QED
    BY <1>6, <2>1, <2>2, Zenon DEF Balance
<1>8. InGroups(buf \o wire)
  <2>1. Len(e) = 4 * 0 /\ 0 \in Nat
    BY <1>2
  <2>2. buf \o wire = e
    BY <1>1, <1>2, Zenon
  <2>3. QED
    BY <2>1, <2>2, Zenon DEF InGroups
<1>9. QED
  BY <1>3, <1>4, <1>5, <1>7, <1>8, Zenon DEF ConservedFrom, InGoodOrder

(* It depends on the variables only through what is named.                 *)
LEMMA ConservedPrimed ==
  ASSUME crypt' = crypt, Tidy(FlattenSeq(sent')),
         ~spoiled' => InGoodOrder(out', buf' \o wire', FlattenSeq(sent'))
  PROVE  ConservedFrom'
BY Zenon DEF ConservedFrom, InGoodOrder, Text

(* What a client puts on the wire reads as the text it sends.              *)
ReadsAs(x, m) ==
  /\ x \in Seq(Unit) /\ Text(x) \in Seq(Byte)
  /\ Tidy(Text(x)) /\ PacketsOf(Text(x)) = PacketsOf(m)
  /\ crypt => InGroups(x)

(* What Send puts on the wire is read as the text that was sent.           *)
LEMMA SentReads ==
  ASSUME TidyTexts, NEW m \in Seq(Byte), Tidy(m),
         NEW x, \/ ~crypt /\ x = m
                \/ crypt /\ x = EncryPt(m, CipherLen(Len(m)))
                \/ crypt /\ x = PeerEncode(m)
  PROVE  ReadsAs(x, m)
<1>1. CASE ~crypt
  BY <1>1, Zenon DEF ReadsAs, Unit, Text
<1>2. CASE crypt /\ x = PeerEncode(m)
  <2>1. x \in Seq(Char) /\ ByGroups(x) = m /\ InGroups(x)
    BY <1>2, PeerEncodeType, GroupsOfPeer DEF InGroups
  <2>2. QED
    BY <1>2, <2>1, Zenon DEF ReadsAs, Unit, Text
<1>3. CASE crypt /\ x = EncryPt(m, CipherLen(Len(m)))
  <2>1. PICK n \in Nat, c \in Nat : n = Len(m) /\ c = CipherLen(n) /\ CipherLen(Len(m)) <= c
    <3>1. PICK n \in Nat : n = Len(m)
      OBVIOUS
    <3>2. PICK c \in Nat : c = CipherLen(n)
      BY CipherLenNat
    <3>3. c <= c
      OBVIOUS
    <3>4. QED
      BY <3>1, <3>2, <3>3
  <2>2. x \in Seq(Char)
    BY <1>3, EncryPtType
  <2>3. ByGroups(x) = WithSpaces(m) /\ InGroups(x)
    <3>1. x = EncryPt(m, c)
      BY <1>3, <2>1
    <3>2. ByGroups(EncryPt(m, c)) = WithSpaces(m) /\ \E q \in Nat : Len(EncryPt(m, c)) = 4 * q
      BY <2>1, GroupsOfEncrypted
    <3>3. QED
      BY <3>1, <3>2, Zenon DEF InGroups
  <2>4. PICK r \in Seq(Byte) : r = WithSpaces(m)
    BY WithSpacesType
  <2>5. Tidy(r) /\ PacketsOf(r) = PacketsOf(m)
    <3>1. PICK e \in Seq(Byte) : m \o e = m /\ r \o e = r
      <4>1. <<>> \in Seq(Byte) /\ m \o <<>> = m /\ r \o <<>> = r
        OBVIOUS
      <4>2. QED
        BY <4>1
    <3>2. Tidy(m \o e)
      BY <3>1
    <3>3. Tidy(WithSpaces(m) \o e) /\ PacketsOf(WithSpaces(m) \o e) = PacketsOf(m \o e)
      BY <3>2, PaddedOn DEF TidyTexts
    <3>4. QED
      BY <2>4, <3>1, <3>3
  <2>6. QED
    BY <1>3, <2>2, <2>3, <2>4, <2>5, Zenon DEF ReadsAs, Unit, Text
<1>4. QED
  BY <1>1, <1>2, <1>3

(* Sent and unread grow by the same text.                                  *)
LEMMA SendConserves ==
  ASSUME TidyTexts, TypeOK, ConservedFrom, NEW m \in Messages, Send(m)
  PROVE  ConservedFrom'
<1>1. PICK x : /\ wire' = wire \o x /\ sent' = Append(sent, m)
               /\ \/ ~crypt /\ x = m
                  \/ crypt /\ x = EncryPt(m, CipherLen(Len(m)))
                  \/ crypt /\ x = PeerEncode(m)
               /\ crypt' = crypt /\ buf' = buf /\ out' = out /\ spoiled' = spoiled
  BY Zenon DEF Send
<1>2. m \in Seq(Byte) /\ Tidy(m)
  BY ParserAssumption DEF ParserAssumption, TidyTexts
<1>3. ReadsAs(x, m)
  BY <1>1, <1>2, SentReads
<1>4. PICK ss, hs, s : ss = sent /\ hs = Handed(out) /\ s = FlattenSeq(sent)
  OBVIOUS
<1>5. s \in Seq(Byte) /\ Tidy(s)
  BY <1>4, UnreadType DEF ConservedFrom
<1>6. FlattenSeq(sent') = s \o m
  <2>1. FlatAppends(sent, m)
    BY <1>2, UnreadType, FlatAppend
  <2>2. QED
    BY <1>1, <1>4, <2>1, Zenon DEF FlatAppends
<1>7. Tidy(s \o m) /\ PacketsOf(s \o m) = PacketsOf(s) \o PacketsOf(m)
  BY <1>2, <1>5, TidyTextsJoin DEF TidyTexts
<1>8. ASSUME ~spoiled' PROVE InGoodOrder(out', buf' \o wire', FlattenSeq(sent'))
  <2>1. InGoodOrder(out, buf \o wire, s)
    BY <1>1, <1>4, <1>8 DEF ConservedFrom
  <2>2. PICK u \in Seq(Unit) : u = buf \o wire
    BY UnreadType
  <2>3. buf' \o wire' = u \o x
    <3>1. Groupable(buf, wire, x)
      BY <1>3, UnreadType, ConcatGroups DEF ReadsAs
    <3>2. QED
      BY <1>1, <2>2, <3>1, Zenon DEF Groupable
  <2>4. PICK t \in Seq(Byte), y \in Seq(Byte) : t = Text(u) /\ y = Text(x)
    BY <1>3, <2>2, UnreadType DEF ReadsAs
  <2>5. Text(u \o x) = t \o y /\ (crypt => InGroups(u \o x))
    <3>1. CASE crypt
      <4>1. PICK p \in Nat, q \in Nat : Len(u) = 4 * p /\ Len(x) = 4 * q
        BY <1>3, <2>1, <2>2, <3>1 DEF InGoodOrder, InGroups, ReadsAs
      <4>2. u \in Seq(Char) /\ x \in Seq(Char)
        BY <1>3, <3>1 DEF ReadsAs, Unit
      <4>3. GroupsJoin(u, x)
        BY <4>1, <4>2, GroupsOfJoined
      <4>4. Text(u \o x) = t \o y
        BY <2>4, <3>1, <4>3, Zenon DEF Text, GroupsJoin
      <4>5. Len(u \o x) = 4 * (p + q)
        <5>1. Len(u \o x) = Len(u) + Len(x)
          BY <4>2, ConcatType
        <5>2. QED
          BY <4>1, <5>1
      <4>6. InGroups(u \o x)
        <5>1. p + q \in Nat
          OBVIOUS
        <5>2. QED
          BY <4>5, <5>1, Zenon DEF InGroups
      <4>7. QED
        BY <4>4, <4>6
    <3>2. CASE ~crypt
      BY <2>4, <3>2, Zenon DEF Text
    <3>3. QED
      BY <3>1, <3>2
  <2>6. Tidy(t) /\ Tidy(y) /\ PacketsOf(y) = PacketsOf(m)
    BY <1>3, <2>1, <2>2, <2>4, Zenon DEF InGoodOrder, ReadsAs
  <2>7. Tidy(t \o y) /\ PacketsOf(t \o y) = PacketsOf(t) \o PacketsOf(y)
    BY <2>6, TidyTextsJoin DEF TidyTexts
  <2>8. Balance(out, t \o y, s \o m)
    <3>1. hs \o PacketsOf(t) = PacketsOf(s)
      BY <1>4, <2>1, <2>2, <2>4, Zenon DEF InGoodOrder, Balance
    <3>2. Groupable(hs, PacketsOf(t), PacketsOf(m))
      <4>1. PICK D : D = Seq(Byte)
        OBVIOUS
      <4>2. hs \in Seq(D) /\ PacketsOf(t) \in Seq(D) /\ PacketsOf(m) \in Seq(D)
        BY <1>2, <1>4, <4>1, UnreadType, NoneBefore
      <4>3. QED
        BY <4>2, ConcatGroups
    <3>3. QED
      BY <1>4, <1>7, <2>6, <2>7, <3>1, <3>2, Zenon DEF Balance, Groupable
  <2>9. QED
    BY <1>1, <1>6, <2>3, <2>5, <2>7, <2>8, Zenon DEF InGoodOrder
<1>9. QED
  BY <1>1, <1>6, <1>7, <1>8, ConservedPrimed

(* A read moves bytes from the network to the buffer.                      *)
LEMMA ReadMoves ==
  ASSUME TypeOK, Read, ~spoiled'
  PROVE  buf' \o wire' = buf \o wire
<1>1. PICK n \in 1 .. Len(wire) :
        buf' = buf \o SubSeq(wire, 1, n) /\ wire' = SubSeq(wire, n + 1, Len(wire))
  BY Zenon DEF Read
<1>2. PICK b \in Seq(Unit), w \in Seq(Unit) : b = buf /\ w = wire
  BY UnreadType
<1>3. n \in 0 .. Len(w)
  BY <1>2
<1>4. PICK s \in Seq(Unit), t \in Seq(Unit) :
        s = SubSeq(w, 1, n) /\ t = SubSeq(w, n + 1, Len(w)) /\ IsCut(w, s, t, n)
  BY <1>3, CutAt
<1>5. Groupable(b, s, t)
  BY ConcatGroups
<1>6. QED
  BY <1>1, <1>2, <1>4, <1>5, Zenon DEF Groupable, IsCut

(* A read moves bytes, or throws a full buffer away and spoils.            *)
LEMMA ReadConserves ==
  ASSUME TypeOK, ConservedFrom, Read
  PROVE  ConservedFrom'
<1>1. crypt' = crypt /\ sent' = sent /\ out' = out
  BY DEF Read
<1>2. ASSUME ~spoiled' PROVE InGoodOrder(out', buf' \o wire', FlattenSeq(sent'))
  <2>1. ~spoiled
    BY <1>2 DEF Read
  <2>2. buf' \o wire' = buf \o wire
    BY <1>2, ReadMoves
  <2>3. QED
    BY <1>1, <2>1, <2>2, Zenon DEF ConservedFrom
<1>3. QED
  BY <1>1, <1>2, ConservedPrimed, Zenon DEF ConservedFrom

(* Up to taking a packet out, a call changes no packet: what is left, in   *)
(* front of what Parser does not see, is as orderly as before.             *)
BodyHas(body, W, t) ==
  /\ body \in Seq(Byte) /\ W \in Seq(Byte)
  /\ Tidy(body \o W) /\ PacketsOf(body \o W) = PacketsOf(t)
  /\ \A rest \in Seq(Byte) : Len(rest) <= Len(Plain(buf)) => WrittenBack(rest, W)

(* Trimming and taking heartbeats out leave the unread packets.            *)
LEMMA BodyInGoodOrder ==
  ASSUME PlainBeat, TypeOK, ~Truncates, Tidy(Text(buf \o wire)),
         crypt => InGroups(buf \o wire),
         NEW body, body = WithoutBeats(Plain(buf))
  PROVE  \E W \in Seq(Byte) : BodyHas(body, W, Text(buf \o wire))
<1>1. PICK X \in Seq(Byte), W \in Seq(Byte) :
        /\ Parts(X, W)
        /\ \A rest \in Seq(Byte) :
             Len(rest) <= Len(Plain(buf)) => WrittenBack(rest, W)
  <2>1. CASE crypt
    BY <2>1, CipherTextParts
  <2>2. CASE ~crypt
    BY <2>2, PlainTextParts
  <2>3. QED
    BY <2>1, <2>2
<1>2. PICK P \in Seq(Byte) : P = Plain(buf)
  BY PlainType
<1>3. Tidy(P \o W) /\ PacketsOf(P \o W) = PacketsOf(Text(buf \o wire))
  <2>1. Text(buf \o wire) = X \o W /\ (P = X \/ P = TrimLeft(X))
    BY <1>1, <1>2, Zenon DEF Parts
  <2>2. CASE P = X
    BY <2>1, <2>2
  <2>3. CASE P = TrimLeft(X)
    <3>1. Tidy(TrimLeft(X) \o W) /\ PacketsOf(TrimLeft(X) \o W) = PacketsOf(X \o W)
      BY <2>1, TrimmedOff
    <3>2. QED
      BY <2>1, <2>3, <3>1
  <2>4. QED
    BY <2>1, <2>2, <2>3
<1>4. body \in Seq(Byte)
  BY BodyType
<1>5. Tidy(body \o W) /\ PacketsOf(body \o W) = PacketsOf(P \o W)
  BY <1>2, <1>3, BeatsOut
<1>6. BodyHas(body, W, Text(buf \o wire))
  BY <1>1, <1>3, <1>4, <1>5, Zenon DEF BodyHas
<1>7. QED
  BY <1>6

(* So does writing the rest back.                                          *)
LEMMA WrittenInGoodOrder ==
  ASSUME PlainBeat, NEW rest \in Seq(Byte), NEW W \in Seq(Byte),
         WrittenBack(rest, W), Tidy(rest \o W)
  PROVE  /\ Tidy(Text(Stored(rest) \o wire))
         /\ PacketsOf(Text(Stored(rest) \o wire)) = PacketsOf(rest \o W)
<1>1. Tidy(WithSpaces(rest) \o W) /\ PacketsOf(WithSpaces(rest) \o W) = PacketsOf(rest \o W)
  BY PaddedOn
<1>2. \/ Text(Stored(rest) \o wire) = rest \o W
      \/ Text(Stored(rest) \o wire) = WithSpaces(rest) \o W
  BY Zenon DEF WrittenBack
<1>3. QED
  BY <1>1, <1>2

(* A turn without a packet.                                                *)
LEMMA NothingConserves ==
  ASSUME TidyTexts, TypeOK, ConservedFrom, ParseNothing
  PROVE  ConservedFrom'
<1>1. crypt' = crypt /\ sent' = sent /\ out' = out /\ wire' = wire
  BY DEF ParseNothing
<1>2. ASSUME ~spoiled' PROVE InGoodOrder(out', buf' \o wire', FlattenSeq(sent'))
  <2>1. ~spoiled /\ ~Truncates
    BY <1>2 DEF ParseNothing
  <2>2. InGoodOrder(out, buf \o wire, FlattenSeq(sent))
    BY <2>1 DEF ConservedFrom
  <2>3. PICK body : body = WithoutBeats(Plain(buf)) /\ buf' = Stored(body)
    BY Zenon DEF ParseNothing
  <2>4. PICK W \in Seq(Byte) : BodyHas(body, W, Text(buf \o wire))
    BY <2>1, <2>2, <2>3, BodyInGoodOrder DEF TidyTexts, InGoodOrder
  <2>5. body \in Seq(Byte) /\ Len(body) <= Len(Plain(buf))
    BY <2>3, BodyType
  <2>6. WrittenBack(body, W) /\ Tidy(body \o W)
    BY <2>4, <2>5, Zenon DEF BodyHas
  <2>7. /\ Tidy(Text(Stored(body) \o wire))
        /\ PacketsOf(Text(Stored(body) \o wire)) = PacketsOf(body \o W)
    BY <2>5, <2>6, WrittenInGoodOrder DEF TidyTexts
  <2>8. QED
    BY <1>1, <2>2, <2>3, <2>4, <2>6, <2>7, Zenon
       DEF InGoodOrder, Balance, BodyHas, WrittenBack
<1>3. QED
  BY <1>1, <1>2, ConservedPrimed, Zenon DEF ConservedFrom

(* A turn that hands a packet on: one less unread, one more handed on.     *)
LEMMA PacketConserves ==
  ASSUME TidyTexts, TypeOK, ConservedFrom, ParsePacket
  PROVE  ConservedFrom'
<1>1. crypt' = crypt /\ sent' = sent /\ wire' = wire
  BY DEF ParsePacket
<1>2. ASSUME ~spoiled' PROVE InGoodOrder(out', buf' \o wire', FlattenSeq(sent'))
  <2>1. PICK body, p, x :
          /\ body = WithoutBeats(Plain(buf)) /\ p = checkMayJson(body) /\ Found(p)
          /\ x = SubSeq(body, p.from, p.to) /\ out' = Append(out, x)
          /\ buf' = Stored(Shift(body, p))
          /\ spoiled' = (spoiled \/ Truncates \/ Spoils(body, p))
    BY Zenon DEF ParsePacket
  <2>2. ~spoiled /\ ~Truncates /\ ~Spoils(body, p)
    BY <1>2, <2>1
  <2>3. InGoodOrder(out, buf \o wire, FlattenSeq(sent))
    BY <2>2 DEF ConservedFrom
  <2>4. PICK W \in Seq(Byte) : BodyHas(body, W, Text(buf \o wire))
    BY <2>1, <2>2, <2>3, BodyInGoodOrder DEF TidyTexts, InGoodOrder
  <2>5. body \in Seq(Byte) /\ Len(body) <= Len(Plain(buf))
    BY <2>1, BodyType
  <2>6. p.from \in 1 .. Len(body) /\ p.to \in 1 .. Len(body) /\ p.from < p.to
    BY <2>1, <2>5, FoundIsBracketed
  <2>7. PICK rest \in Seq(Byte) : rest = Shift(body, p) /\ Len(rest) <= Len(Plain(buf))
    <3>1. Shift(body, p) \in Seq(Byte) /\ Len(Shift(body, p)) + Size(p) = Len(body)
          /\ Size(p) \in Nat
      BY <2>5, <2>6, ShiftType
    <3>2. PICK rest \in Seq(Byte), z \in Nat : rest = Shift(body, p) /\ Len(rest) + z = Len(body)
      BY <3>1
    <3>3. Len(Plain(buf)) \in Nat
      <4>1. Plain(buf) \in Seq(Byte)
        BY PlainType
      <4>2. QED
        BY <4>1
    <3>4. QED
      BY <2>5, <3>2, <3>3
  <2>8. x \in Seq(Byte)
    <3>1. p.to \in 0 .. Len(body) /\ p.from \in 1 .. p.to + 1
      BY <2>6
    <3>2. QED
      BY <2>1, <2>5, <3>1, SubSeqType
  <2>9. Tidy(rest \o W) /\ PacketsOf(body \o W) = PacketsOf(x) \o PacketsOf(rest \o W)
    <3>1. Tidy(body \o W)
      BY <2>4 DEF BodyHas
    <3>2. Leaves(body \o W, Shift(body, p) \o W, PacketsOf(SubSeq(body, p.from, p.to)))
      BY <2>1, <2>2, <2>5, <3>1, PacketOut DEF TidyTexts
    <3>3. QED
      BY <2>1, <2>7, <3>2, Zenon DEF Leaves
  <2>10. WrittenBack(rest, W)
    BY <2>4, <2>7, Zenon DEF BodyHas
  <2>11. /\ Tidy(Text(Stored(rest) \o wire))
         /\ PacketsOf(Text(Stored(rest) \o wire)) = PacketsOf(rest \o W)
    BY <2>9, <2>10, WrittenInGoodOrder DEF TidyTexts
  <2>12. PICK hs, ps, rs : hs = Handed(out) /\ ps = PacketsOf(x) /\ rs = PacketsOf(rest \o W)
    OBVIOUS
  <2>13. Handed(out') = hs \o ps
    <3>1. HandsOn(out, x)
      BY <2>8, UnreadType, HandedOneMore
    <3>2. QED
      BY <2>1, <2>12, <3>1, Zenon DEF HandsOn
  <2>14. Groupable(hs, ps, rs)
    <3>1. PICK D : D = Seq(Byte)
      OBVIOUS
    <3>2. rest \o W \in Seq(Byte)
      BY ConcatType
    <3>3. hs \in Seq(D) /\ ps \in Seq(D) /\ rs \in Seq(D)
      BY <2>8, <2>12, <3>1, <3>2, UnreadType, NoneBefore
    <3>4. QED
      BY <3>3, ConcatGroups
  <2>15. hs \o (ps \o rs) = PacketsOf(FlattenSeq(sent))
    <3>1. PacketsOf(Text(buf \o wire)) = ps \o rs
      BY <2>4, <2>9, <2>12, Zenon DEF BodyHas
    <3>2. QED
      BY <2>3, <2>12, <3>1, Zenon DEF InGoodOrder, Balance
  <2>16. Balance(out', Text(Stored(rest) \o wire), FlattenSeq(sent))
    BY <2>11, <2>12, <2>13, <2>14, <2>15, Zenon DEF Balance, Groupable
  <2>17. QED
    BY <1>1, <2>1, <2>7, <2>10, <2>11, <2>16, Zenon DEF InGoodOrder, WrittenBack
<1>3. QED
  BY <1>1, <1>2, ConservedPrimed, Zenon DEF ConservedFrom

(* One step of the reader or of the client.                                *)
LEMMA ConservedStep ==
  ASSUME TidyTexts, TypeOK, ConservedFrom, [Next]_vars
  PROVE  ConservedFrom'
<1>1. CASE \E m \in Messages : Send(m)
  BY <1>1, SendConserves
<1>2. CASE Read
  BY <1>2, ReadConserves
<1>3. CASE ParseNothing
  BY <1>3, NothingConserves
<1>4. CASE ParsePacket
  BY <1>4, PacketConserves
<1>5. CASE ParsePanics \/ UNCHANGED vars
  <2>1. /\ crypt' = crypt /\ sent' = sent /\ wire' = wire /\ buf' = buf
        /\ out' = out /\ spoiled' = spoiled
    BY <1>5 DEF ParsePanics, vars
  <2>2. QED
    BY <2>1, ConservedPrimed, Zenon DEF ConservedFrom
<1>6. QED
  BY <1>1, <1>2, <1>3, <1>4, <1>5 DEF Next, Parse

(* Nothing is lost, invented, doubled or put in another order between the  *)
(* client's write and BroadCastData, for every set of texts with matching  *)
(* brackets, every buffer size and every way the network cuts the bytes,   *)
(* up to the moment the code goes wrong in one of the named ways           *)
(* (new/server_tcp.go:268-300, new/main.go:362-453).                       *)
THEOREM PacketsAreConserved ==
  ASSUME TidyTexts
  PROVE  Spec => []Conserved
<1>1. ConservedFrom => Conserved
  BY Zenon DEF ConservedFrom, InGoodOrder, Balance, Handed, Conserved
<1>2. Init => ConservedFrom
  BY ConservedInit
<1>3. TypeOK /\ ConservedFrom /\ [Next]_vars => ConservedFrom'
  BY ConservedStep
<1>4. QED
  BY <1>1, <1>2, <1>3, ParserTypeCorrect, PTL DEF Spec

-----------------------------------------------------------------------------
(* What PanicsWhenFull rests on: as long as nothing was spoiled, the       *)
(* unread text is heartbeats, packets and bytes between them, one after    *)
(* the other, and begins where one begins.  C holds the places between     *)
(* them, and L the lengths that the packets may have.                      *)
IsPacket(T, L, i, z) ==
  /\ z \in L /\ T[i + 1] = Open /\ Scan(T)[i + z].depth = 0
  /\ \A k \in 1 .. z - 1 : Scan(T)[i + k].depth > 0

IsBeat(T, i, z) == z = Len(Alive) /\ BeatsAt(T, i)

IsGap(T, i, z) == z = 1 /\ i + 1 \in Gaps(T)

IsUnit(T, L, i, z) ==
  /\ z \in Nat \ {0} /\ i + z <= Len(T)
  /\ IsBeat(T, i, z) \/ IsGap(T, i, z) \/ IsPacket(T, L, i, z)

UnitAround(T, L, C, x) ==
  \E i \in C : \E z \in Nat :
    /\ i <= x /\ x < i + z /\ i + z \in C
    /\ \A c \in C : c <= i \/ i + z <= c
    /\ IsUnit(T, L, i, z)

InUnits(T, L, C) ==
  /\ C \in SUBSET (0 .. Len(T))
  /\ \A x \in 0 .. Len(T) - 1 : UnitAround(T, L, C, x)

(* What a byte between packets is.                                         *)
LEMMA GapFacts ==
  ASSUME NEW T, NEW x \in Gaps(T)
  PROVE  /\ x \in 1 .. Len(T) /\ Scan(T)[x].depth = 0 /\ T[x] # Close
         /\ \A k \in 1 .. Len(Alive) : T[x] # Alive[k]
BY DEF Gaps

LEMMA GapCopied ==
  ASSUME NEW T, NEW x \in Gaps(T), NEW R, NEW y \in 1 .. Len(R),
         R[y] = T[x], Scan(R)[y].depth = Scan(T)[x].depth
  PROVE  y \in Gaps(R)
BY Zenon DEF Gaps

Copied(T, i, R, l, z) ==
  \A k \in 1 .. z : R[l + k] = T[i + k] /\ Scan(R)[l + k].depth = Scan(T)[i + k].depth

(* A packet or heartbeat that is copied is one where it is put.            *)
LEMMA UnitCopied ==
  ASSUME NEW T \in Seq(Byte), NEW R \in Seq(Byte), NEW L, NEW i \in Nat, NEW l \in Nat,
         NEW z, IsUnit(T, L, i, z), Copied(T, i, R, l, z), l + z <= Len(R)
  PROVE  IsUnit(R, L, l, z)
<1>1. z \in Nat \ {0} /\ i + z <= Len(T)
  BY DEF IsUnit
<1>2. CASE IsBeat(T, i, z)
  <2>1. z = Len(Alive) /\ \A k \in 1 .. z : T[i + k] = Alive[k]
    BY <1>2, Zenon DEF IsBeat, BeatsAt
  <2>2. \A k \in 1 .. z : R[l + k] = Alive[k]
    BY <2>1, Zenon DEF Copied
  <2>3. BeatsAt(R, l)
    BY <2>1, <2>2, Zenon DEF BeatsAt
  <2>4. QED
    BY <1>1, <2>1, <2>3, Zenon DEF IsUnit, IsBeat
<1>3. CASE IsGap(T, i, z)
  <2>1. z = 1 /\ i + 1 \in Gaps(T) /\ 1 \in 1 .. z /\ l + 1 \in 1 .. Len(R)
    BY <1>1, <1>3 DEF IsGap
  <2>2. R[l + 1] = T[i + 1] /\ Scan(R)[l + 1].depth = Scan(T)[i + 1].depth
    BY <2>1, Zenon DEF Copied
  <2>3. l + 1 \in Gaps(R)
    BY <2>1, <2>2, GapCopied
  <2>4. QED
    BY <1>1, <2>1, <2>3, Zenon DEF IsUnit, IsGap
<1>4. CASE IsPacket(T, L, i, z)
  <2>1. /\ z \in L /\ T[i + 1] = Open /\ Scan(T)[i + z].depth = 0
        /\ \A k \in 1 .. z - 1 : Scan(T)[i + k].depth > 0
    BY <1>4, Zenon DEF IsPacket
  <2>2. 1 \in 1 .. z /\ z \in 1 .. z /\ \A k \in 1 .. z - 1 : k \in 1 .. z
    BY <1>1
  <2>3. R[l + 1] = Open /\ Scan(R)[l + z].depth = 0
    BY <2>1, <2>2, Zenon DEF Copied
  <2>4. ASSUME NEW k \in 1 .. z - 1 PROVE Scan(R)[l + k].depth > 0
    <3>1. Scan(R)[l + k].depth = Scan(T)[i + k].depth /\ Scan(T)[i + k].depth > 0
      BY <2>1, <2>2, Zenon DEF Copied
    <3>2. QED
      BY <3>1
  <2>5. QED
    BY <1>1, <2>1, <2>3, <2>4, Zenon DEF IsUnit, IsPacket
<1>5. QED
  BY <1>2, <1>3, <1>4, Zenon DEF IsUnit

(* What stands behind bytes that are taken out moves up.                   *)
MovedUp(T, R, n, d) ==
  /\ \A i \in 1 .. n : R[i] = T[i] /\ Scan(R)[i] = Scan(T)[i]
  /\ \A i \in n + 1 .. Len(R) :
       R[i] = T[i + d] /\ Scan(R)[i].depth = Scan(T)[i + d].depth

LEMMA MovesUp ==
  ASSUME NEW T \in Seq(Byte), NEW R \in Seq(Byte), NEW n, NEW m,
         NEW o, o = 0, Splices(T, R, n, o, m),
         NEW ps, ScansAlike(T, R, n, o, m, ps)
  PROVE  /\ n \in Nat /\ m \in n .. Len(T)
         /\ \E d \in Nat : m = n + d /\ Len(R) + d = Len(T) /\ MovedUp(T, R, n, d)
<1>1. PICK N \in Nat, L \in Nat, d \in Nat :
        /\ N = Len(T) /\ L = Len(R) /\ n \in Nat /\ m \in Nat /\ m = n + d /\ m <= N
        /\ L + d = N
  <2>1. PICK N \in Nat, L \in Nat : N = Len(T) /\ L = Len(R)
    OBVIOUS
  <2>2. n \in Nat /\ m \in n .. N /\ L = n + o + (N - m)
    BY <2>1 DEF Splices
  <2>3. m \in Nat /\ m <= N /\ m - n \in Nat /\ L + (m - n) = N
    BY <2>2
  <2>4. PICK d \in Nat : d = m - n
    BY <2>3
  <2>5. m = n + d
    BY <2>2, <2>3, <2>4
  <2>6. QED
    BY <2>1, <2>2, <2>3, <2>4, <2>5
<1>2. \A i \in 1 .. n : R[i] = T[i] /\ Scan(R)[i] = Scan(T)[i]
  <2>1. \A i \in 1 .. n : R[i] = T[i]
    BY DEF Splices
  <2>2. \A i \in 0 .. n : Scan(R)[i] = Scan(T)[i]
    BY DEF ScansAlike
  <2>3. \A i \in 1 .. n : i \in 0 .. n
    BY <1>1
  <2>4. QED
    BY <2>1, <2>2, <2>3
<1>3. ASSUME NEW i \in n + 1 .. L
      PROVE  R[i] = T[i + d] /\ Scan(R)[i].depth = Scan(T)[i + d].depth
  <2>1. PICK j \in Nat : /\ j = i + d /\ j \in m + 1 .. N /\ j \in m .. N
                         /\ j - m + n + o = i
    <3>1. i + d \in m + 1 .. N /\ i + d \in m .. N /\ (i + d) - m + n + o = i
      BY <1>1
    <3>2. i + d \in Nat
      BY <1>1
    <3>3. QED
      BY <3>1, <3>2
  <2>2. R[j - m + n + o] = T[j]
    BY <1>1, <2>1 DEF Splices
  <2>3. Like(Scan(T)[j], Scan(R)[j - m + n + o], ps)
    BY <1>1, <2>1 DEF ScansAlike
  <2>4. QED
    BY <2>1, <2>2, <2>3 DEF Like
<1>4. MovedUp(T, R, n, d)
  BY <1>1, <1>2, <1>3, Zenon DEF MovedUp
<1>5. m \in n .. Len(T)
  BY <1>1
<1>6. QED
  BY <1>1, <1>4, <1>5

(* One unit is taken out: the others move up.                              *)
LEMMA UnitOut ==
  ASSUME NEW T \in Seq(Byte), NEW R \in Seq(Byte), NEW S, NEW C, InUnits(T, S, C),
         NEW n \in C, NEW m \in C, n <= m, \A c \in C : c <= n \/ m <= c,
         NEW o, o = 0, Splices(T, R, n, o, m),
         NEW ps, ScansAlike(T, R, n, o, m, ps)
  PROVE  \E D : InUnits(R, S, D)
<1>1. PICK N \in Nat, L \in Nat, d \in Nat :
        /\ N = Len(T) /\ L = Len(R) /\ n \in Nat /\ m \in Nat /\ m = n + d /\ m <= N
        /\ L + d = N /\ MovedUp(T, R, n, d)
  <2>1. PICK N \in Nat, L \in Nat : N = Len(T) /\ L = Len(R)
    OBVIOUS
  <2>2. n \in Nat /\ m \in n .. N
    BY <2>1, MovesUp
  <2>3. PICK d \in Nat : m = n + d /\ L + d = N /\ MovedUp(T, R, n, d)
    BY <2>1, MovesUp
  <2>4. m \in Nat /\ m <= N
    BY <2>2
  <2>5. QED
    BY <2>1, <2>2, <2>3, <2>4
<1>2. \A c \in C : c \in Nat /\ c <= N
  BY <1>1 DEF InUnits
<1> DEFINE D == {c \in 0 .. L : (c <= n /\ c \in C) \/ (n <= c /\ c + d \in C)}
<1>3. \A i \in 1 .. n : R[i] = T[i] /\ Scan(R)[i] = Scan(T)[i]
  BY <1>1, Zenon DEF MovedUp
<1>4. \A i \in n + 1 .. L :
        R[i] = T[i + d] /\ Scan(R)[i].depth = Scan(T)[i + d].depth
  BY <1>1, Zenon DEF MovedUp
<1>5. D \in SUBSET (0 .. L)
  OBVIOUS
<1>6. ASSUME NEW x \in 0 .. L - 1 PROVE UnitAround(R, S, D, x)
  <2>1. CASE x < n
    <3>1. x \in 0 .. Len(T) - 1
      BY <1>1
    <3>2. PICK i \in C, z \in Nat : /\ i <= x /\ x < i + z /\ i + z \in C
                                    /\ \A c \in C : c <= i \/ i + z <= c
                                    /\ IsUnit(T, S, i, z)
      BY <3>1, Zenon DEF InUnits, UnitAround
    <3>3. i + z <= n /\ i \in Nat
      <4>1. n <= i \/ i + z <= n
        BY <3>2
      <4>2. QED
        BY <1>1, <1>2, <2>1, <3>2, <4>1
    <3>4. i \in D /\ i + z \in D
      BY <1>1, <3>2, <3>3
    <3>5. ASSUME NEW c \in D PROVE c <= i \/ i + z <= c
      BY <1>1, <3>2, <3>3
    <3>6. IsUnit(R, S, i, z)
      <4>1. Copied(T, i, R, i, z)
        <5>1. ASSUME NEW k \in 1 .. z PROVE i + k \in 1 .. n
          BY <1>1, <3>3
        <5>2. QED
          BY <1>3, <5>1, Zenon DEF Copied
      <4>2. i + z <= Len(R)
        BY <1>1, <3>3
      <4>3. QED
        BY <3>2, <3>3, <4>1, <4>2, UnitCopied
    <3> HIDE DEF D
    <3>7. QED
      BY <3>2, <3>4, <3>5, <3>6, Zenon DEF UnitAround
  <2>2. CASE n <= x
    <3>1. x + d \in 0 .. Len(T) - 1
      BY <1>1
    <3>2. PICK i \in C, z \in Nat : /\ i <= x + d /\ x + d < i + z /\ i + z \in C
                                    /\ \A c \in C : c <= i \/ i + z <= c
                                    /\ IsUnit(T, S, i, z)
      BY <3>1, Zenon DEF InUnits, UnitAround
    <3>3. PICK l \in Nat : i = l + d /\ n <= l /\ i \in Nat
      <4>1. m <= i \/ i + z <= m
        BY <3>2
      <4>2. m <= i /\ i \in Nat
        BY <1>1, <1>2, <2>2, <3>2, <4>1
      <4>3. i - d \in Nat /\ i = (i - d) + d /\ n <= i - d
        BY <1>1, <4>2
      <4>4. QED
        BY <4>2, <4>3
    <3>4. l + z + d = i + z /\ l + z <= L /\ l <= x /\ x < l + z
      <4>1. i + z <= N
        BY <1>2, <3>2
      <4>2. QED
        BY <1>1, <3>2, <3>3, <4>1
    <3>5. l \in D /\ l + z \in D
      BY <1>1, <3>2, <3>3, <3>4
    <3>6. ASSUME NEW c \in D PROVE c <= l \/ l + z <= c
      <4>1. CASE c <= n
        BY <3>3, <4>1
      <4>2. CASE ~(c <= n)
        <5>1. c + d \in C
          BY <4>2
        <5>2. c + d <= i \/ i + z <= c + d
          BY <3>2, <5>1
        <5>3. QED
          BY <1>1, <3>3, <5>2
      <4>3. QED
        BY <4>1, <4>2
    <3>7. IsUnit(R, S, l, z)
      <4>1. Copied(T, i, R, l, z)
        <5>1. ASSUME NEW k \in 1 .. z PROVE l + k \in n + 1 .. L /\ (l + k) + d = i + k
          BY <1>1, <3>3, <3>4
        <5>2. QED
          BY <1>4, <5>1, Zenon DEF Copied
      <4>2. l + z <= Len(R)
        BY <1>1, <3>4
      <4>3. QED
        BY <3>2, <3>3, <4>1, <4>2, UnitCopied
    <3> HIDE DEF D
    <3>8. QED
      BY <3>4, <3>5, <3>6, <3>7, Zenon DEF UnitAround
  <2>3. QED
    BY <1>1, <2>1, <2>2
<1> HIDE DEF D
<1>7. InUnits(R, S, D)
  BY <1>1, <1>5, <1>6, Zenon DEF InUnits
<1>8. QED
  BY <1>7

(* A text has finitely many gaps, and where bytes are taken out not more.  *)
LEMMA GapsCounted ==
  ASSUME NEW T \in Seq(Byte)
  PROVE  IsFiniteSet(Gaps(T)) /\ Cardinality(Gaps(T)) \in Nat
<1>1. PICK N \in Nat : N = Len(T)
  OBVIOUS
<1>2. Gaps(T) \in SUBSET (1 .. N)
  BY <1>1 DEF Gaps
<1>3. IsFiniteSet(1 .. N)
  BY FS_Interval
<1>4. QED
  BY <1>2, <1>3, FS_Subset, FS_CardinalityType

LEMMA GapsOut ==
  ASSUME NEW T \in Seq(Byte), NEW R \in Seq(Byte), NEW n, NEW m,
         NEW o, o = 0, Splices(T, R, n, o, m),
         NEW ps, ScansAlike(T, R, n, o, m, ps)
  PROVE  Cardinality(Gaps(R)) <= Cardinality(Gaps(T))
<1>1. PICK N \in Nat, L \in Nat, d \in Nat :
        /\ N = Len(T) /\ L = Len(R) /\ n \in Nat /\ n + d <= N /\ L + d = N
        /\ MovedUp(T, R, n, d)
  <2>1. PICK N \in Nat, L \in Nat : N = Len(T) /\ L = Len(R)
    OBVIOUS
  <2>2. n \in Nat /\ m \in n .. N
    BY <2>1, MovesUp
  <2>3. PICK d \in Nat : m = n + d /\ L + d = N /\ MovedUp(T, R, n, d)
    BY <2>1, MovesUp
  <2>4. n + d <= N
    BY <2>2, <2>3
  <2>5. QED
    BY <2>1, <2>2, <2>3, <2>4
<1> DEFINE f == [x \in Gaps(R) |-> IF x <= n THEN x ELSE x + d]
<1>2. ASSUME NEW x \in Gaps(R)
      PROVE  x \in 1 .. L /\ (x <= n => f[x] = x) /\ (~(x <= n) => f[x] = x + d)
  <2>1. x \in 1 .. L
    BY <1>1, GapFacts
  <2>2. QED
    BY <2>1
<1>3. ASSUME NEW x \in Gaps(R) PROVE f[x] \in Gaps(T)
  <2>1. CASE x <= n
    <3>1. x \in 1 .. n /\ x \in 1 .. Len(T)
      BY <1>1, <1>2, <2>1
    <3>2. T[x] = R[x] /\ Scan(T)[x].depth = Scan(R)[x].depth
      BY <1>1, <3>1 DEF MovedUp
    <3>3. x \in Gaps(T)
      BY <3>1, <3>2, GapCopied
    <3>4. QED
      BY <1>2, <2>1, <3>3
  <2>2. CASE ~(x <= n)
    <3>1. PICK y : y = x + d /\ y \in 1 .. Len(T) /\ x \in n + 1 .. Len(R)
      BY <1>1, <1>2, <2>2
    <3>2. T[y] = R[x] /\ Scan(T)[y].depth = Scan(R)[x].depth
      BY <1>1, <3>1 DEF MovedUp
    <3>3. y \in Gaps(T)
      BY <3>1, <3>2, GapCopied
    <3>4. QED
      BY <1>2, <2>2, <3>1, <3>3
  <2>3. QED
    BY <2>1, <2>2
<1>4. f = [x \in Gaps(R) |-> f[x]] /\ DOMAIN f = Gaps(R)
  OBVIOUS
<1> HIDE DEF f
<1>5. ASSUME NEW x \in Gaps(R), NEW y \in Gaps(R), f[x] = f[y] PROVE x = y
  <2>1. x \in 1 .. L /\ (x <= n => f[x] = x) /\ (~(x <= n) => f[x] = x + d)
    BY <1>2
  <2>2. y \in 1 .. L /\ (y <= n => f[y] = y) /\ (~(y <= n) => f[y] = y + d)
    BY <1>2
  <2>3. QED
    BY <1>1, <1>5, <2>1, <2>2
<1>6. f \in Injection(Gaps(R), Gaps(T))
  <2>1. f \in [Gaps(R) -> Gaps(T)]
    BY <1>3, <1>4
  <2>2. IsInjective(f)
    BY <1>4, <1>5, Zenon DEF IsInjective
  <2>3. QED
    BY <2>1, <2>2 DEF Injection
<1>7. IsFiniteSet(Gaps(T))
  BY GapsCounted
<1>8. QED
  BY <1>6, <1>7, FS_Injection

(* A text behind another one whose brackets match: both are read in it.    *)
FollowedBy(T, s, t) ==
  /\ T \in Seq(Byte) /\ Len(T) = Len(s) + Len(t)
  /\ \A i \in 1 .. Len(s) : T[i] = s[i]
  /\ \A i \in 1 .. Len(t) : T[Len(s) + i] = t[i]
  /\ \A i \in 0 .. Len(s) : Scan(T)[i] = Scan(s)[i]
  /\ \A i \in 0 .. Len(t) : Scan(T)[Len(s) + i].depth = Scan(t)[i].depth

LEMMA ComesBehind ==
  ASSUME NEW s \in Seq(Byte), NEW t \in Seq(Byte), Tidy(s)
  PROVE  FollowedBy(s \o t, s, t)
<1>1. PICK T \in Seq(Byte) : T = s \o t
  BY ConcatType
<1>2. PICK n \in Nat, z \in Nat : n = Len(s) /\ z = Len(t) /\ Len(T) = n + z
  BY <1>1
<1>3. /\ \A i \in 1 .. n : T[i] = s[i]
      /\ \A i \in 1 .. z : T[n + i] = t[i]
  BY <1>1, <1>2
<1>4. ReadsBoth(T, s, t, n)
  <2>1. Scan(s)[n].depth = 0
    BY <1>2 DEF Tidy
  <2>2. StandsIn(T, s, 0) /\ StandsIn(T, t, n)
    BY <1>1, <1>2, JoinedAt
  <2>3. QED
    BY <1>1, <1>2, <2>1, <2>2, SecondReads
<1>5. \A i \in 0 .. n : Scan(T)[i] = Scan(s)[i]
  BY <1>4 DEF ReadsBoth
<1>6. \A i \in 0 .. z : Scan(T)[n + i].depth = Scan(t)[i].depth
  BY <1>2, <1>4, Zenon DEF ReadsBoth, ReadsLike, Like
<1>7. FollowedBy(T, s, t)
  BY <1>2, <1>3, <1>5, <1>6, Zenon DEF FollowedBy
<1>8. QED
  BY <1>1, <1>7

(* It has the gaps of both.                                                *)
LEMMA GapsJoin ==
  ASSUME NEW s \in Seq(Byte), NEW t \in Seq(Byte), NEW T, FollowedBy(T, s, t)
  PROVE  Cardinality(Gaps(T)) = Cardinality(Gaps(s)) + Cardinality(Gaps(t))
<1>1. PICK n \in Nat, z \in Nat, N \in Nat :
        n = Len(s) /\ z = Len(t) /\ N = Len(T) /\ N = n + z
  BY DEF FollowedBy
<1>2. /\ T \in Seq(Byte)
      /\ \A i \in 1 .. n : T[i] = s[i]
      /\ \A i \in 1 .. z : T[n + i] = t[i]
      /\ \A i \in 0 .. n : Scan(T)[i] = Scan(s)[i]
      /\ \A i \in 0 .. z : Scan(T)[n + i].depth = Scan(t)[i].depth
  BY <1>1, Zenon DEF FollowedBy
<1> DEFINE G == {x \in Gaps(T) : n < x}
<1>3. ASSUME NEW x \in Gaps(T), ~(n < x) PROVE x \in Gaps(s)
  <2>1. x \in 1 .. n /\ x \in 0 .. n /\ x \in 1 .. Len(s)
    BY <1>1, <1>3, GapFacts
  <2>2. s[x] = T[x] /\ Scan(s)[x].depth = Scan(T)[x].depth
    BY <1>2, <2>1
  <2>3. QED
    BY <2>1, <2>2, GapCopied
<1>4. ASSUME NEW x \in Gaps(s) PROVE x \in Gaps(T) /\ ~(n < x)
  <2>1. x \in 1 .. n /\ x \in 0 .. n /\ x \in 1 .. Len(T)
    BY <1>1, GapFacts
  <2>2. T[x] = s[x] /\ Scan(T)[x].depth = Scan(s)[x].depth
    BY <1>2, <2>1
  <2>3. x \in Gaps(T)
    BY <2>1, <2>2, GapCopied
  <2>4. QED
    BY <2>1, <2>3
<1>5. ASSUME NEW x \in Gaps(t) PROVE n + x \in G /\ x \in Nat
  <2>1. x \in 1 .. z /\ x \in 0 .. z /\ n + x \in 1 .. Len(T) /\ n < n + x
    BY <1>1, GapFacts
  <2>2. T[n + x] = t[x] /\ Scan(T)[n + x].depth = Scan(t)[x].depth
    BY <1>2, <2>1
  <2>3. n + x \in Gaps(T)
    BY <2>1, <2>2, GapCopied
  <2>4. QED
    BY <2>1, <2>3
<1>6. ASSUME NEW y \in G PROVE \E x \in Gaps(t) : y = n + x
  <2>1. PICK x \in Nat : y = n + x /\ x \in 1 .. z /\ x \in 0 .. z /\ x \in 1 .. Len(t)
    <3>1. y \in 1 .. N /\ n < y
      BY <1>1, GapFacts
    <3>2. y - n \in 1 .. z /\ y = n + (y - n)
      BY <1>1, <3>1
    <3>3. PICK x : x = y - n
      OBVIOUS
    <3>4. x \in Nat /\ x \in 0 .. z /\ x \in 1 .. z /\ y = n + x
      BY <3>2, <3>3
    <3>5. QED
      BY <1>1, <3>4
  <2>2. T[n + x] = t[x] /\ Scan(T)[n + x].depth = Scan(t)[x].depth
    BY <1>2, <2>1
  <2>3. y \in Gaps(T)
    OBVIOUS
  <2>4. x \in Gaps(t)
    BY <2>1, <2>2, <2>3, GapCopied
  <2>5. QED
    BY <2>1, <2>4
<1>7. Gaps(T) = Gaps(s) \cup G /\ Gaps(s) \cap G = {}
  <2>1. Gaps(T) \subseteq Gaps(s) \cup G
    BY <1>3
  <2>2. Gaps(s) \cup G \subseteq Gaps(T)
    BY <1>4
  <2>3. Gaps(s) \cap G = {}
    BY <1>4
  <2>4. QED
    BY <2>1, <2>2, <2>3
<1>8. IsFiniteSet(Gaps(t)) /\ IsFiniteSet(Gaps(s)) /\ Cardinality(Gaps(s)) \in Nat
      /\ Cardinality(Gaps(t)) \in Nat
  BY GapsCounted
<1> DEFINE f == [x \in Gaps(t) |-> n + x]
<1>9. f \in [Gaps(t) -> G] /\ DOMAIN f = Gaps(t) /\ \A x \in Gaps(t) : f[x] = n + x
  BY <1>5
<1> HIDE DEF G, f
<1>10. IsInjective(f)
  <2>1. ASSUME NEW x \in Gaps(t), NEW y \in Gaps(t), f[x] = f[y] PROVE x = y
    <3>1. x \in Nat /\ y \in Nat /\ n + x = n + y
      BY <1>5, <1>9, <2>1
    <3>2. QED
      BY <3>1
  <2>2. QED
    BY <1>9, <2>1, Zenon DEF IsInjective
<1>11. f \in Bijection(Gaps(t), G)
  <2>1. f \in Injection(Gaps(t), G)
    BY <1>9, <1>10 DEF Injection
  <2>2. \A y \in G : \E x \in Gaps(t) : f[x] = y
    BY <1>6, <1>9
  <2>3. f \in Surjection(Gaps(t), G)
    BY <1>9, <2>2 DEF Surjection
  <2>4. QED
    BY <2>1, <2>3 DEF Bijection
<1>12. ExistsBijection(Gaps(t), G)
  BY <1>11 DEF ExistsBijection
<1>13. IsFiniteSet(G) /\ Cardinality(G) = Cardinality(Gaps(t))
  BY <1>8, <1>12, FS_Bijection
<1>14. Cardinality(Gaps(s) \cup G)
         = Cardinality(Gaps(s)) + Cardinality(G) - Cardinality(Gaps(s) \cap G)
  BY <1>8, <1>13, FS_Union
<1>15. PICK p \in Nat, q \in Nat : p = Cardinality(Gaps(s)) /\ q = Cardinality(Gaps(t))
  BY <1>8
<1>16. Cardinality(Gaps(T)) = p + q - 0
  BY <1>7, <1>13, <1>14, <1>15, FS_EmptySet
<1>17. QED
  BY <1>15, <1>16

(* And the packets of both.                                                *)
LEMMA SizesJoin ==
  ASSUME NEW s \in Seq(Byte), NEW t \in Seq(Byte), NEW T, FollowedBy(T, s, t)
  PROVE  Sizes(s) \subseteq Sizes(T) /\ Sizes(t) \subseteq Sizes(T)
<1>1. PICK n \in Nat, z \in Nat, N \in Nat :
        n = Len(s) /\ z = Len(t) /\ N = Len(T) /\ N = n + z
  BY DEF FollowedBy
<1>2. /\ \A i \in 1 .. n : T[i] = s[i]
      /\ \A i \in 1 .. z : T[n + i] = t[i]
      /\ \A i \in 0 .. n : Scan(T)[i] = Scan(s)[i]
      /\ \A i \in 0 .. z : Scan(T)[n + i].depth = Scan(t)[i].depth
  BY <1>1, Zenon DEF FollowedBy
<1>3. ASSUME NEW l \in Sizes(s) PROVE l \in Sizes(T)
  <2>1. PICK i \in 0 .. n - l : PacketAt(s, i, l)
    BY <1>1 DEF Sizes
  <2>2. l \in 1 .. n
    BY <1>1 DEF Sizes
  <2>3. /\ i \in 0 .. n /\ i + 1 \in 1 .. n /\ i + l \in 0 .. n
        /\ \A k \in 1 .. l - 1 : i + k \in 0 .. n
    BY <2>1, <2>2
  <2>4. PacketAt(T, i, l)
    <3>1. /\ Scan(T)[i].depth = Scan(s)[i].depth /\ T[i + 1] = s[i + 1]
          /\ Scan(T)[i + l].depth = Scan(s)[i + l].depth
      BY <1>2, <2>3
    <3>2. \A k \in 1 .. l - 1 : Scan(T)[i + k] = Scan(s)[i + k]
      BY <1>2, <2>3
    <3>3. QED
      BY <2>1, <3>1, <3>2, Zenon DEF PacketAt
  <2>5. l \in 1 .. Len(T) /\ i \in 0 .. Len(T) - l
    BY <1>1, <2>1, <2>2
  <2>6. QED
    BY <2>4, <2>5 DEF Sizes
<1>4. ASSUME NEW l \in Sizes(t) PROVE l \in Sizes(T)
  <2>1. PICK i \in 0 .. z - l : PacketAt(t, i, l)
    BY <1>1 DEF Sizes
  <2>2. l \in 1 .. z
    BY <1>1 DEF Sizes
  <2>3. /\ i \in 0 .. z /\ i + 1 \in 1 .. z /\ i + l \in 0 .. z
        /\ \A k \in 1 .. l - 1 : i + k \in 0 .. z
    BY <2>1, <2>2
  <2>4. PICK j \in Nat : /\ j = n + i /\ j + 1 = n + (i + 1) /\ j + l = n + (i + l)
                         /\ \A k \in 1 .. l - 1 : j + k = n + (i + k)
    <3>1. PICK j \in Nat : j = n + i
      BY <2>3
    <3>2. QED
      BY <2>2, <2>3, <3>1
  <2>5. PacketAt(T, j, l)
    <3>1. /\ Scan(T)[j].depth = Scan(t)[i].depth /\ T[j + 1] = t[i + 1]
          /\ Scan(T)[j + l].depth = Scan(t)[i + l].depth
      BY <1>2, <2>3, <2>4
    <3>2. \A k \in 1 .. l - 1 : Scan(T)[j + k].depth = Scan(t)[i + k].depth
      BY <1>2, <2>3, <2>4
    <3>3. \A k \in 1 .. l - 1 : Scan(t)[i + k].depth > 0
      BY <2>1, Zenon DEF PacketAt
    <3>4. \A k \in 1 .. l - 1 : Scan(T)[j + k].depth > 0
      BY <3>2, <3>3
    <3>5. QED
      BY <2>1, <3>1, <3>4, Zenon DEF PacketAt
  <2>6. l \in 1 .. Len(T) /\ j \in 0 .. Len(T) - l
    BY <1>1, <2>1, <2>2, <2>4
  <2>7. QED
    BY <2>5, <2>6 DEF Sizes
<1>5. QED
  BY <1>3, <1>4

(* Two such texts behind each other are such a text.                       *)
LEMMA UnitsJoin ==
  ASSUME NEW s \in Seq(Byte), NEW t \in Seq(Byte), NEW T, FollowedBy(T, s, t),
         NEW L, NEW C, InUnits(s, L, C), NEW D, InUnits(t, L, D)
  PROVE  \E E : InUnits(T, L, E)
<1>1. PICK n \in Nat, z \in Nat, N \in Nat :
        n = Len(s) /\ z = Len(t) /\ N = Len(T) /\ N = n + z
  BY DEF FollowedBy
<1>2. /\ T \in Seq(Byte)
      /\ \A i \in 1 .. n : T[i] = s[i]
      /\ \A i \in 1 .. z : T[n + i] = t[i]
  BY <1>1, Zenon DEF FollowedBy
<1>3. \A i \in 0 .. n : Scan(T)[i] = Scan(s)[i]
  BY <1>1, Zenon DEF FollowedBy
<1>4. \A i \in 0 .. z : Scan(T)[n + i].depth = Scan(t)[i].depth
  BY <1>1, Zenon DEF FollowedBy
<1>5. (\A c \in C : c \in Nat /\ c <= n) /\ (\A d \in D : d \in Nat /\ d <= z)
  BY <1>1 DEF InUnits
<1> DEFINE E == {c \in 0 .. N : c \in C \/ (n <= c /\ c - n \in D)}
<1>6. ASSUME NEW x \in 0 .. N - 1 PROVE UnitAround(T, L, E, x)
  <2>1. CASE x < n
    <3>1. x \in 0 .. Len(s) - 1
      BY <1>1, <2>1
    <3>2. PICK i \in C, w \in Nat : /\ i <= x /\ x < i + w /\ i + w \in C
                                    /\ \A c \in C : c <= i \/ i + w <= c
                                    /\ IsUnit(s, L, i, w)
      BY <3>1, Zenon DEF InUnits, UnitAround
    <3>3. i \in Nat /\ i + w <= n
      BY <1>5, <3>2
    <3>4. i \in E /\ i + w \in E
      BY <1>1, <3>2, <3>3
    <3>5. ASSUME NEW c \in E PROVE c <= i \/ i + w <= c
      BY <1>1, <3>2, <3>3
    <3>6. IsUnit(T, L, i, w)
      <4>1. Copied(s, i, T, i, w)
        <5>1. ASSUME NEW k \in 1 .. w PROVE i + k \in 1 .. n /\ i + k \in 0 .. n
          BY <3>3
        <5>2. QED
          BY <1>2, <1>3, <5>1, Zenon DEF Copied
      <4>2. i + w <= Len(T)
        BY <1>1, <3>3
      <4>3. QED
        BY <1>2, <3>2, <3>3, <4>1, <4>2, UnitCopied
    <3> HIDE DEF E
    <3>7. QED
      BY <3>2, <3>4, <3>5, <3>6, Zenon DEF UnitAround
  <2>2. CASE n <= x
    <3>1. x - n \in 0 .. Len(t) - 1
      BY <1>1, <2>2
    <3>2. PICK i \in D, w \in Nat : /\ i <= x - n /\ x - n < i + w /\ i + w \in D
                                    /\ \A c \in D : c <= i \/ i + w <= c
                                    /\ IsUnit(t, L, i, w)
      BY <3>1, Zenon DEF InUnits, UnitAround
    <3>3. i \in Nat /\ i + w <= z
      BY <1>5, <3>2
    <3>4. PICK l \in Nat : /\ l = n + i /\ l - n = i /\ l + w = n + (i + w)
                           /\ (l + w) - n = i + w /\ l + w <= N /\ l <= x /\ x < l + w
      <4>1. PICK l \in Nat : l = n + i
        BY <3>3
      <4>2. QED
        BY <1>1, <2>2, <3>2, <3>3, <4>1
    <3>5. l \in E /\ l + w \in E
      BY <1>1, <3>2, <3>3, <3>4
    <3>6. ASSUME NEW c \in E PROVE c <= l \/ l + w <= c
      <4>1. CASE c \in C
        BY <1>5, <3>3, <3>4, <4>1
      <4>2. CASE n <= c /\ c - n \in D
        <5>1. c - n <= i \/ i + w <= c - n
          BY <3>2, <4>2
        <5>2. QED
          BY <3>3, <3>4, <4>2, <5>1
      <4>3. QED
        BY <4>1, <4>2
    <3>7. IsUnit(T, L, l, w)
      <4>1. Copied(t, i, T, l, w)
        <5>1. ASSUME NEW k \in 1 .. w
              PROVE  i + k \in 1 .. z /\ i + k \in 0 .. z /\ l + k = n + (i + k)
          BY <3>3, <3>4
        <5>2. QED
          BY <1>2, <1>4, <5>1, Zenon DEF Copied
      <4>2. l + w <= Len(T)
        BY <1>1, <3>4
      <4>3. QED
        BY <1>2, <3>2, <3>3, <3>4, <4>1, <4>2, UnitCopied
    <3> HIDE DEF E
    <3>8. QED
      BY <3>4, <3>5, <3>6, <3>7, Zenon DEF UnitAround
  <2>3. QED
    BY <1>1, <2>1, <2>2
<1>7. E \in SUBSET (0 .. N)
  OBVIOUS
<1> HIDE DEF E
<1>8. InUnits(T, L, E)
  BY <1>1, <1>6, <1>7, Zenon DEF InUnits
<1>9. QED
  BY <1>8

(* A set of numbers with a bound has a greatest one.                       *)
LEMMA GreatestNatural ==
  ASSUME NEW x \in Nat, NEW S \in SUBSET (0 .. x), S # {}
  PROVE  \E i \in S : \A j \in S : j <= i
<1> DEFINE R == {k \in 0 .. x : x - k \in S}
<1>1. R \in SUBSET Nat /\ R # {}
  <2>1. PICK i \in S : TRUE
    OBVIOUS
  <2>2. x - i \in 0 .. x /\ x - (x - i) = i
    BY <2>1
  <2>3. x - i \in R
    BY <2>2
  <2>4. R \in SUBSET Nat
    OBVIOUS
  <2> HIDE DEF R
  <2>5. QED
    BY <2>3, <2>4
<1>2. PICK k \in R : \A l \in R : k <= l
  BY <1>1, LeastNatural
<1>3. k \in 0 .. x /\ x - k \in S
  OBVIOUS
<1>4. ASSUME NEW j \in S PROVE j <= x - k
  <2>1. x - j \in 0 .. x /\ x - (x - j) = j
    OBVIOUS
  <2>2. x - j \in R
    BY <2>1
  <2>3. k <= x - j
    BY <1>2, <2>2
  <2>4. QED
    BY <1>3, <2>3
<1>5. QED
  BY <1>3, <1>4

(* What a client sends is a heartbeat, or packets and bytes between them.  *)
LEMMA UnitsOfText ==
  ASSUME NEW m \in Seq(Byte), Tidy(m),
         \/ m = Alive
         \/ \A i \in 1 .. Len(m) :
              Scan(m)[i - 1].depth = 0 => m[i] = Open \/ i \in Gaps(m)
  PROVE  \E D : InUnits(m, Sizes(m), D)
<1>1. PICK N \in Nat : N = Len(m)
  OBVIOUS
<1>2. CASE m = Alive
  <2>1. PICK o \in Nat : o = 0 /\ o + N = N /\ \A k \in 1 .. N : o + k = k
    OBVIOUS
  <2>2. N # 0
    BY <1>1, <1>2, AliveLen
  <2>3. IsUnit(m, Sizes(m), o, N)
    <3>1. BeatsAt(m, o)
      BY <1>1, <1>2, <2>1 DEF BeatsAt
    <3>2. N \in Nat \ {0} /\ o + N <= Len(m)
      BY <1>1, <2>1, <2>2
    <3>3. QED
      BY <1>1, <1>2, <3>1, <3>2, Zenon DEF IsUnit, IsBeat
  <2>4. PICK D : D = {o, N}
    OBVIOUS
  <2>5. D \in SUBSET (0 .. Len(m))
    BY <1>1, <2>1, <2>4
  <2>6. ASSUME NEW x \in 0 .. Len(m) - 1 PROVE UnitAround(m, Sizes(m), D, x)
    <3>1. o \in D /\ o + N \in D /\ o <= x /\ x < o + N
      BY <1>1, <2>1, <2>4
    <3>2. \A c \in D : c <= o \/ o + N <= c
      BY <2>1, <2>4
    <3>3. QED
      BY <1>1, <2>3, <3>1, <3>2, Zenon DEF UnitAround
  <2>7. QED
    BY <2>5, <2>6, Zenon DEF InUnits
<1>3. CASE \A i \in 1 .. Len(m) :
             Scan(m)[i - 1].depth = 0 => m[i] = Open \/ i \in Gaps(m)
  <2>1. PICK f : f = Scan(m)
    OBVIOUS
  <2>2. \A i \in 0 .. N : f[i].depth \in Nat
    <3>1. \A i \in 0 .. N : f[i] \in Collected
      BY <1>1, <2>1, ScanFacts
    <3>2. QED
      BY <3>1 DEF Collected
  <2> DEFINE D == {i \in 0 .. N : f[i].depth = 0}
  <2>3. 0 \in D /\ N \in D
    <3>1. f[0].depth = 0
      BY <2>1, ScanFacts DEF NoPackets
    <3>2. f[N].depth = 0
      BY <1>1, <2>1, Zenon DEF Tidy
    <3>3. QED
      BY <3>1, <3>2
  <2>4. ASSUME NEW x \in 0 .. N - 1 PROVE UnitAround(m, Sizes(m), D, x)
    <3>1. PICK i \in D : i <= x /\ \A c \in D : c <= x => c <= i
      <4> DEFINE S == {c \in 0 .. x : c \in D}
      <4>1. x \in Nat /\ S \in SUBSET (0 .. x) /\ S # {}
        <5>1. 0 \in S
          BY <2>3
        <5>2. QED
          BY <5>1
      <4>2. PICK i \in S : \A c \in S : c <= i
        BY <4>1, GreatestNatural
      <4>3. \A c \in D : c <= x => c \in S
        OBVIOUS
      <4>4. QED
        BY <4>2, <4>3
    <3>2. PICK j \in D : x < j /\ \A c \in D : x < c => j <= c
      <4> DEFINE S == {c \in D : x < c}
      <4>1. S \in SUBSET Nat /\ S # {}
        <5>1. N \in S
          BY <2>3
        <5>2. QED
          BY <5>1
      <4>2. PICK j \in S : \A c \in S : j <= c
        BY <4>1, LeastNatural
      <4>3. QED
        BY <4>2
    <3>3. i \in 0 .. N /\ j \in 0 .. N /\ f[i].depth = 0 /\ f[j].depth = 0
      OBVIOUS
    <3>4. \A c \in D : c \in Nat
      OBVIOUS
    <3>5. ASSUME NEW c \in 0 .. N, i < c, c < j PROVE f[c].depth > 0
      <4>1. c \notin D
        BY <3>1, <3>2, <3>5
      <4>2. f[c].depth # 0
        BY <4>1
      <4>3. QED
        BY <2>2, <4>2
    <3>6. ASSUME NEW c \in 0 .. N, f[c].depth = 0 PROVE c \in D
      BY <3>6
    <3> HIDE DEF D
    <3>7. PICK z \in Nat : z = j - i /\ i + z = j /\ z # 0 /\ z <= N
      <4>1. j - i \in Nat /\ i + (j - i) = j /\ j - i # 0 /\ j - i <= N
        BY <3>1, <3>2, <3>3
      <4>2. QED
        BY <4>1
    <3>8. \A c \in D : c <= i \/ i + z <= c
      BY <3>1, <3>2, <3>3, <3>4, <3>7
    <3>9. i + 1 \in 1 .. Len(m) /\ (i + 1) - 1 = i /\ i + 1 \in 0 .. N
      BY <1>1, <3>1, <3>3
    <3>10. IsUnit(m, Sizes(m), i, z)
      <4>1. z \in Nat \ {0} /\ i + z <= Len(m) /\ f[i + z].depth = 0
        BY <1>1, <3>3, <3>7
      <4>2. m[i + 1] = Open \/ i + 1 \in Gaps(m)
        BY <1>3, <2>1, <3>3, <3>9
      <4>3. CASE i + 1 \in Gaps(m)
        <5>1. f[i + 1].depth = 0
          BY <2>1, <4>3, GapFacts
        <5>2. i + 1 \in D /\ i + 1 \in Nat
          BY <3>6, <3>9, <5>1
        <5>3. i + 1 <= i \/ i + z <= i + 1
          BY <3>8, <5>2
        <5>4. z = 1
          BY <3>3, <3>7, <5>3
        <5>5. QED
          BY <4>1, <4>3, <5>4, Zenon DEF IsUnit, IsGap
      <4>4. CASE m[i + 1] = Open
        <5>1. ASSUME NEW k \in 1 .. z - 1 PROVE f[i + k].depth > 0
          <6>1. i + k \in 0 .. N /\ i < i + k /\ i + k < j
            BY <3>3, <3>7
          <6>2. QED
            BY <3>5, <6>1
        <5>2. PacketAt(m, i, z)
          BY <2>1, <3>3, <4>1, <4>4, <5>1, Zenon DEF PacketAt
        <5>3. z \in 1 .. Len(m) /\ i \in 0 .. Len(m) - z
          BY <1>1, <3>3, <4>1
        <5>4. z \in Sizes(m)
          BY <5>2, <5>3 DEF Sizes
        <5>5. QED
          BY <2>1, <4>1, <4>4, <5>1, <5>4, Zenon DEF IsUnit, IsPacket
      <4>5. QED
        BY <4>2, <4>3, <4>4
    <3>11. i <= x /\ x < i + z /\ i + z \in D
      BY <3>1, <3>2, <3>7
    <3>12. QED
      BY <3>8, <3>10, <3>11, Zenon DEF UnitAround
  <2>5. D \in SUBSET (0 .. N)
    OBVIOUS
  <2> HIDE DEF D
  <2>6. InUnits(m, Sizes(m), D)
    BY <1>1, <2>4, <2>5, Zenon DEF InUnits
  <2>7. QED
    BY <2>6
<1>4. QED
  BY <1>2, <1>3

HasUnits(T, L) == \E C : InUnits(T, L, C)

LEMMA LengthsGrow ==
  ASSUME NEW T, NEW L, NEW M, L \subseteq M, HasUnits(T, L)
  PROVE  HasUnits(T, M)
<1>1. PICK C : InUnits(T, L, C)
  BY DEF HasUnits
<1>2. ASSUME NEW i, NEW z, IsUnit(T, L, i, z) PROVE IsUnit(T, M, i, z)
  <2>1. IsPacket(T, L, i, z) => IsPacket(T, M, i, z)
    BY Zenon DEF IsPacket
  <2>2. QED
    BY <1>2, <2>1, Zenon DEF IsUnit
<1>3. ASSUME NEW x \in 0 .. Len(T) - 1 PROVE UnitAround(T, M, C, x)
  <2>1. UnitAround(T, L, C, x)
    BY <1>1, Zenon DEF InUnits
  <2>2. QED
    BY <1>2, <2>1, Zenon DEF UnitAround
<1>4. InUnits(T, M, C)
  BY <1>1, <1>3, Zenon DEF InUnits
<1>5. QED
  BY <1>4 DEF HasUnits

(* T may be what is unread of F, which was sent: it is made of packets as  *)
(* long as some in F, and no more stands between them.                     *)
FromSent(T, F) ==
  /\ HasUnits(T, Sizes(F))
  /\ Cardinality(Gaps(T)) <= Cardinality(Gaps(F))

(* So it is when a unit is taken out.                                      *)
LEMMA LessFromSent ==
  ASSUME NEW T \in Seq(Byte), NEW R \in Seq(Byte), NEW F \in Seq(Byte),
         FromSent(T, F), NEW C, InUnits(T, Sizes(F), C),
         NEW n \in C, NEW m \in C, n <= m, \A c \in C : c <= n \/ m <= c,
         NEW o, o = 0, Splices(T, R, n, o, m),
         NEW ps, ScansAlike(T, R, n, o, m, ps)
  PROVE  FromSent(R, F)
<1>1. HasUnits(R, Sizes(F))
  BY UnitOut DEF HasUnits
<1>2. PICK x \in Nat, y \in Nat, z \in Nat :
        /\ x = Cardinality(Gaps(R)) /\ y = Cardinality(Gaps(T))
        /\ z = Cardinality(Gaps(F))
  BY GapsCounted
<1>3. x <= y
  BY <1>2, GapsOut
<1>4. y <= z
  BY <1>2 DEF FromSent
<1>5. x <= z
  BY <1>3, <1>4
<1>6. QED
  BY <1>1, <1>2, <1>5 DEF FromSent

(* One heartbeat taken out, the rest stays packets and heartbeats.         *)
LEMMA OneBeatLess ==
  ASSUME PlainBeat, NEW s \in Seq(Byte), NEW W \in Seq(Byte), Tidy(s \o W),
         NEW F \in Seq(Byte), FromSent(s \o W, F)
  PROVE  FromSent(RemoveBeat(s) \o W, F)
<1>1. CASE ~HasBeat(s)
  BY <1>1, RemoveBeatType
<1>2. CASE HasBeat(s)
  <2>1. PICK b \in Nat : /\ BeatsAt(s, b) /\ \A i \in Nat : BeatsAt(s, i) => b <= i
                         /\ RemoveBeat(s) \in Seq(Byte)
                         /\ Splices(s \o W, RemoveBeat(s) \o W, b, 0, b + Len(Alive))
    BY <1>2, BeatPlaces
  <2>2. PICK T \in Seq(Byte), R \in Seq(Byte) : T = s \o W /\ R = RemoveBeat(s) \o W
    BY <2>1, ConcatType
  <2>3. PICK n \in Nat, N \in Nat, a \in Nat \ {0}, m \in Nat, o \in Nat :
          n = Len(s) /\ N = Len(T) /\ a = Len(Alive) /\ m = b + a /\ o = 0
    BY AliveLen
  <2>4. n <= N /\ \A i \in 1 .. n : T[i] = s[i]
    BY <2>2, <2>3
  <2>5. m <= n /\ \A k \in 1 .. a : s[b + k] = Alive[k]
    BY <2>1, <2>3, Zenon DEF BeatsAt
  <2>6. ASSUME NEW k \in 1 .. a PROVE T[b + k] = Alive[k]
    <3>1. b + k \in 1 .. n
      BY <2>3, <2>5
    <3>2. QED
      BY <2>4, <2>5, <3>1
  <2>7. BeatsAt(T, b)
    <3>1. b + a <= N
      BY <2>3, <2>4, <2>5
    <3>2. QED
      BY <2>3, <2>6, <3>1, Zenon DEF BeatsAt
  <2>8. Tidy(T) /\ FromSent(T, F) /\ Splices(T, R, b, o, m)
    BY <2>1, <2>2, <2>3, Zenon
  <2>9. Scan(T)[b].depth = 0 /\ Scan(T)[m] = Scan(T)[b]
    BY <2>3, <2>7, <2>8, NothingOfBeat
  <2>10. PICK C : InUnits(T, Sizes(F), C)
    BY <2>8 DEF FromSent, HasUnits
  <2>11. PICK i \in C, z \in Nat : /\ i <= b /\ b < i + z /\ i + z \in C
                                   /\ \A c \in C : c <= i \/ i + z <= c
                                   /\ IsUnit(T, Sizes(F), i, z)
    <3>1. b \in 0 .. Len(T) - 1
      BY <2>3, <2>4, <2>5
    <3>2. QED
      BY <2>10, <3>1, Zenon DEF InUnits, UnitAround
  <2>12. i \in Nat
    BY <2>10 DEF InUnits
  <2>13. z = a /\ BeatsAt(T, i)
    <3>1. 1 \in 1 .. a
      BY <2>3
    <3>2. T[b + 1] = Alive[1] /\ Alive[1] # Open
      BY <2>3, <2>6, <3>1 DEF PlainBeat
    <3>3. ~IsGap(T, i, z)
      <4> SUFFICES ASSUME IsGap(T, i, z) PROVE FALSE
        OBVIOUS
      <4>1. z = 1 /\ i + 1 \in Gaps(T)
        BY DEF IsGap
      <4>2. i = b
        BY <2>11, <2>12, <4>1
      <4>3. T[i + 1] # Alive[1]
        BY <2>3, <3>1, <4>1, GapFacts
      <4>4. QED
        BY <3>2, <4>2, <4>3
    <3>4. ~IsPacket(T, Sizes(F), i, z)
      <4> SUFFICES ASSUME IsPacket(T, Sizes(F), i, z) PROVE FALSE
        OBVIOUS
      <4>1. T[i + 1] = Open /\ \A k \in 1 .. z - 1 : Scan(T)[i + k].depth > 0
        BY Zenon DEF IsPacket
      <4>2. CASE i = b
        BY <3>2, <4>1, <4>2
      <4>3. CASE i # b
        <5>1. b - i \in 1 .. z - 1 /\ i + (b - i) = b
          BY <2>11, <2>12, <4>3
        <5>2. Scan(T)[i + (b - i)].depth > 0
          BY <4>1, <5>1
        <5>3. QED
          BY <2>9, <5>1, <5>2
      <4>4. QED
        BY <4>2, <4>3
    <3>5. IsBeat(T, i, z)
      BY <2>11, <3>3, <3>4, Zenon DEF IsUnit
    <3>6. QED
      BY <2>3, <3>5 DEF IsBeat
  <2>14. i = b
    <3>1. i + a <= n
      BY <2>3, <2>5, <2>11, <2>12
    <3>2. \A k \in 1 .. a : T[i + k] = Alive[k]
      BY <2>3, <2>13, Zenon DEF BeatsAt
    <3>3. ASSUME NEW k \in 1 .. a PROVE s[i + k] = Alive[k]
      <4>1. i + k \in 1 .. n
        BY <2>12, <3>1
      <4>2. QED
        BY <2>4, <3>2, <4>1
    <3>4. BeatsAt(s, i)
      BY <2>3, <3>1, <3>3, Zenon DEF BeatsAt
    <3>5. b <= i
      BY <2>1, <2>12, <3>4
    <3>6. QED
      BY <2>11, <2>12, <3>5
  <2>15. PICK ps : ps = <<>> /\ ps \in Seq(Seq(Byte))
    <3>1. <<>> \in Seq(Seq(Byte))
      OBVIOUS
    <3>2. QED
      BY <3>1, Zenon
  <2>16. Like(Scan(T)[m], Scan(T)[b], ps)
    <3>1. b \in 0 .. Len(T)
      BY <2>3, <2>4, <2>5
    <3>2. Scan(T)[b] \in Collected
      BY <3>1, ScanFacts
    <3>3. QED
      BY <2>9, <2>15, <3>2, LikeItself, Zenon
  <2>17. ScansAlike(T, R, b, o, m, ps)
    BY <2>8, <2>15, <2>16, ScansSpliced
  <2>18. b \in C /\ m \in C /\ b <= m /\ \A c \in C : c <= b \/ m <= c
    BY <2>3, <2>11, <2>13, <2>14
  <2>19. FromSent(R, F)
    BY <2>3, <2>8, <2>10, <2>17, <2>18, LessFromSent
  <2>20. QED
    BY <2>2, <2>19
<1>3. QED
  BY <1>1, <1>2

(* All of them taken out.                                                  *)
LEMMA BeatsLess ==
  ASSUME PlainBeat, NEW s \in Seq(Byte), NEW W \in Seq(Byte), Tidy(s \o W),
         NEW F \in Seq(Byte), FromSent(s \o W, F)
  PROVE  FromSent(WithoutBeats(s) \o W, F)
<1>1. PICK N \in Nat : N = Len(s)
  OBVIOUS
<1>2. PICK f : /\ f[0] = s /\ WithoutBeats(s) = f[N]
               /\ \A i \in 1 .. N : f[i] = RemoveBeat(f[i - 1])
               /\ \A i \in 0 .. N : f[i] \in Seq(Byte)
  BY <1>1, BeatLoop
<1> DEFINE P == {i \in 0 .. N : Tidy(f[i] \o W) /\ FromSent(f[i] \o W, F)}
<1>3. 0 \in P /\ P \in SUBSET (0 .. N)
  BY <1>2
<1>4. ASSUME NEW i \in 1 .. N, i - 1 \in P PROVE i \in P
  <2>1. PICK t \in Seq(Byte) : /\ t = f[i - 1] /\ f[i] = RemoveBeat(t)
                               /\ Tidy(t \o W) /\ FromSent(t \o W, F)
    <3>1. i - 1 \in 0 .. N
      OBVIOUS
    <3>2. QED
      BY <1>2, <1>4, <3>1
  <2>2. Tidy(RemoveBeat(t) \o W) /\ FromSent(RemoveBeat(t) \o W, F)
    BY <2>1, OneBeatOut, OneBeatLess
  <2>3. QED
    BY <2>1, <2>2
<1> HIDE DEF P
<1>5. N \in P
  BY <1>3, <1>4, OneByOne
<1>6. QED
  BY <1>2, <1>5 DEF P

(* When no heartbeat is in the buffer any more, what Parser finds begins   *)
(* where the first packet does, and ends, at the latest, with it; in front *)
(* of it is nothing but gaps.                                              *)
StandsFirst(T, L, C, p) ==
  /\ \A x \in 1 .. p.from - 1 : x \in Gaps(T)
  /\ \E o \in C : \E z \in Nat :
       /\ o = p.from - 1 /\ o + z \in C /\ \A c \in C : c <= o \/ o + z <= c
       /\ z \in L /\ p.to <= o + z
       /\ \A k \in 1 .. z - 1 : Scan(T)[o + k].depth > 0

LEMMA FoundInFirst ==
  ASSUME PlainBeat, NEW body \in Seq(Byte), ~HasBeat(body),
         NEW T \in Seq(Byte), StandsIn(T, body, 0), Tidy(T),
         NEW L, NEW C, InUnits(T, L, C),
         NEW p, p = checkMayJson(body), Found(p)
  PROVE  StandsFirst(T, L, C, p)
<1>1. PICK N \in Nat, l \in Nat, a \in Nat, t \in Nat :
        /\ N = Len(body) /\ l = Len(T) /\ a = p.from /\ t = p.to
        /\ 1 <= a /\ a < t /\ t <= N /\ N <= l
  <2>1. p.from \in 1 .. Len(body) /\ p.to \in 1 .. Len(body) /\ p.from < p.to
    BY FoundIsBracketed
  <2>2. Len(body) \in Nat /\ Len(T) \in Nat /\ Len(body) <= Len(T)
    <3>1. Len(body) \in Nat /\ Len(T) \in Nat /\ 0 + Len(body) <= Len(T)
      BY DEF StandsIn
    <3>2. QED
      BY <3>1
  <2>3. p.from \in Nat /\ p.to \in Nat /\ 1 <= p.from /\ p.to <= Len(body)
    BY <2>1
  <2>4. QED
    BY <2>1, <2>2, <2>3
<1>2. body[a] = Open
  BY <1>1, FoundIsBracketed
<1>3. \A i \in 1 .. N : T[i] = body[i]
  <2>1. \A i \in 1 .. N : T[0 + i] = body[i]
    BY <1>1 DEF StandsIn
  <2>2. \A i \in 1 .. N : 0 + i = i
    OBVIOUS
  <2>3. QED
    BY <2>1, <2>2
<1>4. \A i \in 0 .. N : Scan(T)[i] = Scan(body)[i]
  BY <1>1, ScanOfFront
<1>5. NoneStray(body)
  <2>1. ASSUME NEW i \in 1 .. N, body[i] = Close PROVE Scan(body)[i - 1].depth > 0
    <3>1. i \in 1 .. l /\ T[i] = Close /\ i - 1 \in 0 .. N
      BY <1>1, <1>3, <2>1
    <3>2. Scan(T)[i - 1].depth > 0
      BY <1>1, <3>1 DEF Tidy
    <3>3. QED
      BY <1>4, <3>1, <3>2
  <2>2. QED
    BY <1>1, <2>1, Zenon DEF NoneStray
<1>6. /\ \A k \in 1 .. a - 1 : body[k] # Open
      /\ \A k \in a .. t - 1 : Scan(body)[k].depth > 0
  BY <1>1, <1>5, FoundIsFirst DEF NoOpening, Inside
<1>7. ASSUME NEW i \in Nat, NEW z \in Nat, i < a, IsBeat(T, i, z) PROVE FALSE
  <2>1. z = Len(Alive) /\ BeatsAt(T, i)
    BY <1>7 DEF IsBeat
  <2>2. \A k \in 1 .. z : T[i + k] = Alive[k]
    BY <2>1, Zenon DEF BeatsAt
  <2>3. \A k \in 1 .. z : T[i + k] # Open
    BY <2>1, <2>2 DEF PlainBeat
  <2>4. CASE i + z <= N
    <3>1. ASSUME NEW k \in 1 .. z PROVE body[i + k] = Alive[k]
      <4>1. i + k \in 1 .. N
        BY <2>4
      <4>2. T[i + k] = body[i + k] /\ T[i + k] = Alive[k]
        BY <1>3, <2>2, <4>1
      <4>3. QED
        BY <4>2
    <3>2. BeatsAt(body, i)
      BY <1>1, <2>1, <2>4, <3>1 DEF BeatsAt
    <3>3. QED
      BY <3>2, BeatPlaces
  <2>5. CASE N < i + z
    <3>1. a - i \in 1 .. z /\ i + (a - i) = a /\ a \in 1 .. N
      BY <1>1, <1>7, <2>5
    <3>2. T[i + (a - i)] # Open
      BY <2>3, <3>1
    <3>3. QED
      BY <1>2, <1>3, <3>1, <3>2
  <2>6. QED
    BY <1>1, <2>4, <2>5
<1>8. ASSUME NEW i \in Nat, NEW z \in Nat, i < a, IsPacket(T, L, i, z)
      PROVE  i = a - 1
  <2>1. T[i + 1] = Open /\ i + 1 \in 1 .. N
    BY <1>1, <1>8 DEF IsPacket
  <2>2. body[i + 1] = Open
    BY <1>3, <2>1
  <2>3. ~(i + 1 \in 1 .. a - 1)
    BY <1>6, <2>2
  <2>4. QED
    BY <1>1, <1>8, <2>1, <2>3
<1>9. ASSUME NEW x \in 0 .. a - 1
      PROVE  \E i \in C : \E z \in Nat :
               /\ i \in Nat /\ i <= x /\ x < i + z /\ i + z \in C
               /\ \A c \in C : c <= i \/ i + z <= c
               /\ IsUnit(T, L, i, z) /\ (IsGap(T, i, z) \/ IsPacket(T, L, i, z))
  <2>1. x \in 0 .. Len(T) - 1
    BY <1>1
  <2>2. PICK i \in C, z \in Nat : /\ i <= x /\ x < i + z /\ i + z \in C
                                  /\ \A c \in C : c <= i \/ i + z <= c
                                  /\ IsUnit(T, L, i, z)
    BY <2>1, Zenon DEF InUnits, UnitAround
  <2>3. i \in Nat
    BY DEF InUnits
  <2>4. i < a
    BY <1>1, <2>2, <2>3
  <2>5. ~IsBeat(T, i, z)
    BY <1>7, <2>3, <2>4
  <2>6. IsGap(T, i, z) \/ IsPacket(T, L, i, z)
    BY <2>2, <2>5, Zenon DEF IsUnit
  <2>7. QED
    BY <2>2, <2>3, <2>6
<1>10. ASSUME NEW x \in 1 .. a - 1 PROVE x \in Gaps(T)
  <2>1. x - 1 \in 0 .. a - 1
    BY <1>1
  <2>2. PICK i \in C, z \in Nat : /\ i \in Nat /\ i <= x - 1 /\ x - 1 < i + z
                                  /\ IsGap(T, i, z) \/ IsPacket(T, L, i, z)
    BY <1>9, <2>1
  <2>3. i < a /\ i # a - 1
    BY <1>1, <2>2
  <2>4. IsGap(T, i, z)
    BY <1>8, <2>2, <2>3
  <2>5. z = 1 /\ i + 1 \in Gaps(T)
    BY <2>4 DEF IsGap
  <2>6. i + 1 = x
    BY <2>2, <2>5
  <2>7. QED
    BY <2>5, <2>6
<1>11. PICK o \in C, z \in Nat : /\ o \in Nat /\ o <= a - 1 /\ a - 1 < o + z /\ o + z \in C
                                 /\ \A c \in C : c <= o \/ o + z <= c
                                 /\ IsUnit(T, L, o, z)
                                 /\ IsGap(T, o, z) \/ IsPacket(T, L, o, z)
  <2>1. a - 1 \in 0 .. a - 1
    BY <1>1
  <2>2. QED
    BY <1>9, <2>1
<1>12. IsPacket(T, L, o, z)
  <2> SUFFICES ASSUME IsGap(T, o, z) PROVE FALSE
    BY <1>11
  <2>1. z = 1 /\ o + 1 \in Gaps(T)
    BY DEF IsGap
  <2>2. o + 1 = a
    BY <1>1, <1>11, <2>1
  <2>3. Scan(T)[a].depth = 0
    BY <2>1, <2>2, GapFacts
  <2>4. a \in a .. t - 1 /\ a \in 0 .. N
    BY <1>1
  <2>5. Scan(T)[a].depth > 0
    BY <1>4, <1>6, <2>4
  <2>6. QED
    BY <2>3, <2>5
<1>13. o = a - 1 /\ z # 0
  <2>1. o < a
    BY <1>1, <1>11
  <2>2. o = a - 1
    BY <1>8, <1>11, <1>12, <2>1
  <2>3. QED
    BY <1>1, <1>11, <2>2
<1>14. /\ z \in L /\ Scan(T)[o + z].depth = 0
       /\ \A k \in 1 .. z - 1 : Scan(T)[o + k].depth > 0
  BY <1>12, Zenon DEF IsPacket
<1>15. t <= o + z
  <2> SUFFICES ASSUME o + z < t PROVE FALSE
    BY <1>1, <1>11
  <2>1. o + z \in a .. t - 1 /\ o + z \in 0 .. N
    <3>1. o \in Nat /\ o + 1 = a /\ 1 <= z /\ t <= N
      BY <1>1, <1>11, <1>13
    <3>2. o + z \in Nat /\ a <= o + z /\ o + z <= t - 1 /\ o + z <= N
      BY <3>1
    <3>3. QED
      BY <3>2
  <2>2. Scan(T)[o + z].depth > 0
    BY <1>4, <1>6, <2>1
  <2>3. QED
    BY <1>14, <2>2
<1>16. QED
  BY <1>1, <1>10, <1>11, <1>13, <1>14, <1>15, Zenon DEF StandsFirst

(* The packet found is taken out, the rest stays packets and heartbeats.   *)
LEMMA PacketLess ==
  ASSUME PlainBeat, NEW body \in Seq(Byte), NEW W \in Seq(Byte), ~HasBeat(body),
         Tidy(body \o W), NEW F \in Seq(Byte), FromSent(body \o W, F),
         NEW p, p = checkMayJson(body), Found(p), ~Spoils(body, p)
  PROVE  FromSent(Shift(body, p) \o W, F)
<1>1. p.from \in 1 .. Len(body) /\ p.to \in 1 .. Len(body) /\ p.from < p.to
  BY FoundIsBracketed
<1>2. Shift(body, p) \in Seq(Byte)
  BY <1>1, ShiftType
<1>3. PICK T \in Seq(Byte), R \in Seq(Byte) : T = body \o W /\ R = Shift(body, p) \o W
  BY <1>2, ConcatType
<1>4. SubSeq(body, p.from, p.to) \in Seq(Byte)
  <2>1. p.to \in 0 .. Len(body) /\ p.from \in 1 .. p.to + 1
    BY <1>1
  <2>2. QED
    BY <2>1, SubSeqType
<1>5. PICK ps \in Seq(Seq(Byte)) : ps = PacketsOf(SubSeq(body, p.from, p.to))
  BY <1>4, NoneBefore
<1>6. PICK C : InUnits(T, Sizes(F), C)
  BY <1>3 DEF FromSent, HasUnits
<1>7. Tidy(T) /\ FromSent(T, F)
  BY <1>3
<1>8. StandsFirst(T, Sizes(F), C, p)
  <2>1. StandsIn(T, body, 0)
    BY <1>3, JoinedAt
  <2>2. QED
    BY <1>6, <1>7, <2>1, FoundInFirst
<1>9. PICK o \in C, z \in Nat :
        /\ o = p.from - 1 /\ o + z \in C /\ \A c \in C : c <= o \/ o + z <= c
        /\ p.to <= o + z
        /\ \A k \in 1 .. z - 1 : Scan(T)[o + k].depth > 0
  BY <1>8 DEF StandsFirst
<1>10. PICK t \in Nat, k \in Nat : /\ t = p.to /\ k = 0 /\ o \in Nat
                                 /\ o < t /\ t <= o + z
  <2>1. p.to \in Nat /\ o \in Nat /\ o < p.to
    BY <1>1, <1>9, SMTT(30)
  <2>2. QED
    BY <1>9, <2>1
<1>11. Taken(T, R, o, t, ps)
  <2>1. Tidy(body \o W)
    OBVIOUS
  <2>2. Taken(body \o W, Shift(body, p) \o W, p.from - 1, p.to,
              PacketsOf(SubSeq(body, p.from, p.to)))
    BY <2>1, PacketTaken
  <2>3. QED
    BY <1>3, <1>5, <1>9, <1>10, <2>2
<1>12. Splices(T, R, o, k, t) /\ Scan(T)[o].depth = 0 /\ Like(Scan(T)[t], Scan(T)[o], ps)
  BY <1>10, <1>11, Zenon DEF Taken
<1>13. t = o + z
  <2> SUFFICES ASSUME t # o + z PROVE FALSE
    OBVIOUS
  <2>1. t - o \in 1 .. z - 1 /\ o + (t - o) = t
    <3>1. o \in Nat /\ o < t /\ t <= o + z /\ t # o + z
      BY <1>10
    <3>2. t - o \in Nat /\ 1 <= t - o /\ t - o < z
      BY <3>1
    <3>3. QED
      BY <3>1, <3>2
  <2>2. Scan(T)[o + (t - o)].depth > 0
    BY <1>9, <2>1
  <2>3. Scan(T)[t].depth = 0
    BY <1>12 DEF Like
  <2>4. QED
    BY <2>1, <2>2, <2>3
<1>14. ScansAlike(T, R, o, k, t, ps)
  <2>1. ps \in Seq(Seq(Byte))
    BY <1>5
  <2>2. T \in Seq(Byte) /\ R \in Seq(Byte)
    BY <1>3
  <2>3. QED
    BY <1>12, <2>1, <2>2, ScansSpliced, Zenon
<1>15. o \in C /\ t \in C /\ o <= t /\ \A c \in C : c <= o \/ t <= c
  <2>1. t = o + z /\ o <= t
    BY <1>10, <1>13
  <2>2. QED
    BY <1>9, <2>1, Zenon
<1>16. FromSent(R, F)
  BY <1>6, <1>7, <1>10, <1>12, <1>14, <1>15, LessFromSent
<1>17. QED
  BY <1>3, <1>16

(* The invariant.                                                          *)
UnitsUnread == ~crypt /\ ~spoiled => FromSent(buf \o wire, FlattenSeq(sent))

(* What Parser is left with after the heartbeats.                          *)
LEMMA BodyUnits ==
  ASSUME TidyTexts, TypeOK, ConservedFrom, UnitsUnread, ~crypt, ~spoiled,
         NEW body, body = WithoutBeats(Plain(buf)),
         NEW F, F = FlattenSeq(sent)
  PROVE  /\ body \in Seq(Byte) /\ wire \in Seq(Byte) /\ ~HasBeat(body)
         /\ F \in Seq(Byte) /\ Tidy(body \o wire) /\ FromSent(body \o wire, F)
<1>1. PICK b \in Seq(Byte), w \in Seq(Byte) : b = buf /\ w = wire /\ Plain(buf) = b
  BY DEF TypeOK, Plain
<1>2. F \in Seq(Byte)
  BY UnreadType
<1>3. Tidy(b \o w) /\ FromSent(b \o w, F)
  <2>1. Tidy(buf \o wire)
    BY Zenon DEF ConservedFrom, InGoodOrder, Text
  <2>2. FromSent(buf \o wire, F)
    BY DEF UnitsUnread
  <2>3. QED
    BY <1>1, <2>1, <2>2
<1>4. body \in Seq(Byte) /\ ~HasBeat(body)
  BY <1>1, HeartbeatsGo
<1>5. Tidy(WithoutBeats(b) \o w) /\ FromSent(WithoutBeats(b) \o w, F)
  BY <1>2, <1>3, BeatsOut, BeatsLess DEF TidyTexts
<1>6. QED
  BY <1>1, <1>2, <1>4, <1>5

(* A step that leaves the unread bytes and the history alone.              *)
LEMMA UnitsPrimed ==
  ASSUME UnitsUnread, crypt' = crypt, sent' = sent, spoiled' = spoiled,
         buf' \o wire' = buf \o wire
  PROVE  UnitsUnread'
BY Zenon DEF UnitsUnread

(* More text that is sent: more packets, and not fewer gaps.               *)
MoreSent(G, F) ==
  Sizes(F) \subseteq Sizes(G) /\ Cardinality(Gaps(F)) <= Cardinality(Gaps(G))

LEMMA SentGrows ==
  ASSUME TypeOK, ConservedFrom, NEW m \in Messages, Send(m),
         NEW F, F = FlattenSeq(sent), NEW G, G = FlattenSeq(sent')
  PROVE  /\ m \in Seq(Byte) /\ F \in Seq(Byte)
         /\ FollowedBy(G, F, m) /\ MoreSent(G, F)
<1>1. m \in Seq(Byte) /\ F \in Seq(Byte) /\ Tidy(F)
  BY UnreadType, ParserAssumption DEF ParserAssumption, ConservedFrom
<1>2. G = F \o m
  <2>1. FlatAppends(sent, m)
    BY <1>1, UnreadType, FlatAppend
  <2>2. sent' = Append(sent, m)
    BY DEF Send
  <2>3. QED
    BY <2>1, <2>2, Zenon DEF FlatAppends
<1>3. FollowedBy(G, F, m)
  BY <1>1, <1>2, ComesBehind
<1>4. PICK x \in Nat, y \in Nat : x = Cardinality(Gaps(F)) /\ y = Cardinality(Gaps(m))
  BY <1>1, GapsCounted
<1>5. Cardinality(Gaps(G)) = x + y
  BY <1>1, <1>3, <1>4, GapsJoin
<1>6. Cardinality(Gaps(F)) <= Cardinality(Gaps(G))
  BY <1>4, <1>5
<1>7. Sizes(F) \subseteq Sizes(G)
  BY <1>1, <1>3, SizesJoin
<1>8. QED
  BY <1>1, <1>3, <1>6, <1>7, Zenon DEF MoreSent

(* The text that is sent comes behind the others.                          *)
LEMMA SendUnits ==
  ASSUME TidyTexts, PaddedTexts, TypeOK, ConservedFrom, UnitsUnread,
         NEW m \in Messages, Send(m)
  PROVE  UnitsUnread'
<1> SUFFICES ASSUME ~crypt', ~spoiled'
             PROVE  FromSent(buf' \o wire', FlattenSeq(sent'))
  BY Zenon DEF UnitsUnread
<1>1. ~crypt /\ ~spoiled /\ buf' = buf /\ wire' = wire \o m
  BY DEF Send
<1>2. PICK F, G : F = FlattenSeq(sent) /\ G = FlattenSeq(sent')
  OBVIOUS
<1>3. m \in Seq(Byte) /\ F \in Seq(Byte) /\ FollowedBy(G, F, m) /\ MoreSent(G, F)
  BY <1>2, SentGrows
<1>4. Tidy(m)
  BY DEF TidyTexts
<1>5. PICK b \in Seq(Byte), w \in Seq(Byte) : b = buf /\ w = wire
  BY <1>1 DEF TypeOK
<1>6. PICK u \in Seq(Byte) : u = b \o w
  BY ConcatType
<1>7. Tidy(u) /\ FromSent(u, F)
  <2>1. Tidy(buf \o wire)
    BY <1>1, Zenon DEF ConservedFrom, InGoodOrder, Text
  <2>2. FromSent(buf \o wire, F)
    BY <1>1, <1>2 DEF UnitsUnread
  <2>3. QED
    BY <1>5, <1>6, <2>1, <2>2
<1>8. PICK T : T = u \o m /\ FollowedBy(T, u, m)
  BY <1>3, <1>6, <1>7, ComesBehind
<1>9. HasUnits(T, Sizes(G))
  <2>1. HasUnits(u, Sizes(G))
    BY <1>3, <1>7, LengthsGrow DEF FromSent, MoreSent
  <2>2. HasUnits(m, Sizes(m))
    <3>1. \/ m = Alive
          \/ \A i \in 1 .. Len(m) :
               Scan(m)[i - 1].depth = 0 => m[i] = Open \/ i \in Gaps(m)
      BY Zenon DEF PaddedTexts
    <3>2. QED
      BY <1>3, <1>4, <3>1, UnitsOfText DEF HasUnits
  <2>3. HasUnits(m, Sizes(G))
    BY <1>3, <2>2, SizesJoin, LengthsGrow
  <2>4. PICK L : L = Sizes(G)
    OBVIOUS
  <2>5. PICK C, D : InUnits(u, L, C) /\ InUnits(m, L, D)
    BY <2>1, <2>3, <2>4 DEF HasUnits
  <2>6. \E E : InUnits(T, L, E)
    BY <1>3, <1>6, <1>8, <2>5, UnitsJoin
  <2>7. QED
    BY <2>4, <2>6 DEF HasUnits
<1>10. Cardinality(Gaps(T)) <= Cardinality(Gaps(G))
  <2>1. PICK x \in Nat, y \in Nat, z \in Nat :
          /\ x = Cardinality(Gaps(u)) /\ y = Cardinality(Gaps(F))
          /\ z = Cardinality(Gaps(m))
    BY <1>3, <1>6, GapsCounted
  <2>2. x <= y
    BY <1>7, <2>1 DEF FromSent
  <2>3. Cardinality(Gaps(T)) = x + z /\ Cardinality(Gaps(G)) = y + z
    BY <1>3, <1>6, <1>8, <2>1, GapsJoin
  <2>4. QED
    BY <2>2, <2>3
<1>11. FromSent(T, G)
  BY <1>9, <1>10, Zenon DEF FromSent
<1>12. Groupable(b, w, m)
  BY <1>3, ConcatGroups
<1>13. QED
  BY <1>1, <1>2, <1>5, <1>6, <1>8, <1>11, <1>12, Zenon DEF Groupable

(* A read moves bytes.                                                     *)
LEMMA ReadUnits ==
  ASSUME TypeOK, UnitsUnread, Read
  PROVE  UnitsUnread'
<1> SUFFICES ASSUME ~crypt', ~spoiled'
             PROVE  FromSent(buf' \o wire', FlattenSeq(sent'))
  BY Zenon DEF UnitsUnread
<1>1. ~crypt /\ ~spoiled /\ sent' = sent
  BY DEF Read
<1>2. FromSent(buf \o wire, FlattenSeq(sent))
  BY <1>1 DEF UnitsUnread
<1>3. buf' \o wire' = buf \o wire
  BY ReadMoves
<1>4. QED
  BY <1>1, <1>2, <1>3

(* A turn of Parser takes heartbeats and whole packets out.                *)
LEMMA ParseUnits ==
  ASSUME TidyTexts, TypeOK, ConservedFrom, UnitsUnread, ParseNothing \/ ParsePacket
  PROVE  UnitsUnread'
<1> SUFFICES ASSUME ~crypt', ~spoiled'
             PROVE  FromSent(buf' \o wire', FlattenSeq(sent'))
  BY Zenon DEF UnitsUnread
<1>1. ~crypt /\ ~spoiled /\ sent' = sent /\ wire' = wire
  <2>1. CASE ParseNothing
    BY <2>1, Zenon DEF ParseNothing
  <2>2. CASE ParsePacket
    BY <2>2, Zenon DEF ParsePacket
  <2>3. QED
    BY <2>1, <2>2
<1>2. PICK body, F : /\ body = WithoutBeats(Plain(buf)) /\ F = FlattenSeq(sent)
                     /\ F = FlattenSeq(sent')
  BY <1>1
<1>3. /\ body \in Seq(Byte) /\ wire \in Seq(Byte) /\ ~HasBeat(body)
      /\ F \in Seq(Byte) /\ Tidy(body \o wire) /\ FromSent(body \o wire, F)
  BY <1>1, <1>2, BodyUnits
<1>4. ASSUME NEW rest \in Seq(Byte) PROVE Stored(rest) = rest
  <2>1. rest \o <<>> = rest
    OBVIOUS
  <2>2. QED
    BY <1>1, <2>1, Zenon DEF Stored, Kept
<1>5. CASE ParseNothing
  <2>1. buf' = Stored(body)
    BY <1>2, <1>5, Zenon DEF ParseNothing
  <2>2. QED
    BY <1>1, <1>2, <1>3, <1>4, <2>1
<1>6. CASE ParsePacket
  <2>1. PICK p : /\ p = checkMayJson(body) /\ Found(p)
                 /\ buf' = Stored(Shift(body, p))
                 /\ spoiled' = (spoiled \/ Truncates \/ Spoils(body, p))
    BY <1>2, <1>6, Zenon DEF ParsePacket
  <2>2. ~Spoils(body, p)
    BY <2>1
  <2>3. FromSent(Shift(body, p) \o wire, F)
    BY <1>3, <2>1, <2>2, PacketLess DEF TidyTexts
  <2>4. Shift(body, p) \in Seq(Byte)
    <3>1. p.from \in 1 .. Len(body) /\ p.to \in 1 .. Len(body) /\ p.from < p.to
      BY <1>3, <2>1, FoundIsBracketed
    <3>2. QED
      BY <1>3, <3>1, ShiftType
  <2>5. QED
    BY <1>1, <1>2, <1>4, <2>1, <2>3, <2>4
<1>7. QED
  BY <1>5, <1>6

(* At the start nothing is unread.                                         *)
LEMMA UnitsInit ==
  ASSUME Init PROVE UnitsUnread
<1>1. PICK e \in Seq(Byte) : e = buf \o wire /\ Len(e) = 0 /\ e = FlattenSeq(sent)
  <2>1. <<>> \o <<>> = <<>> /\ <<>> \in Seq(Byte) /\ Len(<<>>) = 0
    OBVIOUS
  <2>2. buf = <<>> /\ wire = <<>> /\ sent = <<>>
    BY DEF Init
  <2>3. QED
    BY <2>1, <2>2, FlatNothing
<1>2. PICK C : C = {}
  OBVIOUS
<1>3. C \in SUBSET (0 .. Len(e)) /\ \A x \in 0 .. Len(e) - 1 : FALSE
  BY <1>1, <1>2
<1>4. InUnits(e, Sizes(e), C)
  BY <1>3, Zenon DEF InUnits
<1>5. HasUnits(e, Sizes(e))
  BY <1>4 DEF HasUnits
<1>6. Cardinality(Gaps(e)) <= Cardinality(Gaps(e))
  <2>1. Cardinality(Gaps(e)) \in Nat
    BY GapsCounted
  <2>2. QED
    BY <2>1
<1>7. FromSent(e, e)
  BY <1>5, <1>6, Zenon DEF FromSent
<1>8. QED
  BY <1>1, <1>7, Zenon DEF UnitsUnread

(* What was sent between packets, and one packet twice, fill the buffer.   *)
Full(F) == \E n \in Sizes(F) : Cardinality(Gaps(F)) + 2 * n > BufSize

(* The places of a packet in the sum that Overruns is about.               *)
LEMMA TwicePacket ==
  ASSUME NEW a \in Nat, NEW t \in Nat, NEW z \in Nat, NEW h \in Nat, NEW B \in Nat,
         t <= a + z, a <= h, t + (t - (a + 1) + 1) > B
  PROVE  h + 2 * z > B
OBVIOUS

(* The index leaves the buffer: in front of the packet are gaps that were  *)
(* sent, and the packet is as long as one that was sent.                   *)
LEMMA PanicNeedsFull ==
  ASSUME TidyTexts, TypeOK, ConservedFrom, UnitsUnread, ParsePanics, ~spoiled, ~crypt
  PROVE  Full(FlattenSeq(sent))
<1>1. PICK body, p, F : /\ body = WithoutBeats(Plain(buf)) /\ p = checkMayJson(body)
                        /\ Found(p) /\ Overruns(p) /\ F = FlattenSeq(sent)
  BY Zenon DEF ParsePanics
<1>2. /\ body \in Seq(Byte) /\ wire \in Seq(Byte) /\ ~HasBeat(body)
      /\ F \in Seq(Byte) /\ Tidy(body \o wire) /\ FromSent(body \o wire, F)
  BY <1>1, BodyUnits
<1>3. PICK T \in Seq(Byte) : T = body \o wire
  BY <1>2, ConcatType
<1>4. Tidy(T) /\ FromSent(T, F)
  BY <1>2, <1>3
<1>5. PICK C : InUnits(T, Sizes(F), C)
  BY <1>4 DEF FromSent, HasUnits
<1>6. StandsFirst(T, Sizes(F), C, p)
  <2>1. StandsIn(T, body, 0)
    BY <1>2, <1>3, JoinedAt
  <2>2. QED
    BY <1>1, <1>2, <1>4, <1>5, <2>1, FoundInFirst DEF TidyTexts
<1>7. PICK z \in Nat : z \in Sizes(F) /\ p.to <= (p.from - 1) + z
  BY <1>6 DEF StandsFirst
<1>8. PICK a \in Nat, t \in Nat, B \in Nat :
        /\ a + 1 = p.from /\ a = p.from - 1 /\ t = p.to /\ B = BufSize /\ t <= a + z
  <2>1. p.from \in 1 .. Len(body) /\ p.to \in 1 .. Len(body)
    BY <1>1, <1>2, FoundIsBracketed
  <2>2. BufSize \in Nat
    BY ParserAssumption DEF ParserAssumption
  <2>3. p.from - 1 \in Nat /\ (p.from - 1) + 1 = p.from /\ p.to \in Nat
    BY <2>1
  <2>4. QED
    BY <1>7, <2>2, <2>3
<1>9. PICK g \in Nat, h \in Nat : /\ g = Cardinality(Gaps(T)) /\ h = Cardinality(Gaps(F))
                                  /\ g <= h
  <2>1. Cardinality(Gaps(T)) \in Nat /\ Cardinality(Gaps(F)) \in Nat
    BY <1>2, GapsCounted
  <2>2. QED
    BY <1>4, <2>1 DEF FromSent
<1>10. a <= g
  <2>1. 1 .. a \in SUBSET Gaps(T)
    BY <1>6, <1>8 DEF StandsFirst
  <2>2. Cardinality(1 .. a) <= Cardinality(Gaps(T))
    BY <2>1, GapsCounted, FS_Subset
  <2>3. Cardinality(1 .. a) = IF 1 > a THEN 0 ELSE a - 1 + 1
    BY FS_Interval
  <2>4. QED
    BY <1>9, <2>2, <2>3
<1>11. t + (t - (a + 1) + 1) > B
  BY <1>1, <1>8 DEF Overruns, Size
<1>12. h + 2 * z > B
  <2>1. a <= h
    BY <1>9, <1>10
  <2>2. t <= a + z
    BY <1>8
  <2>3. QED
    BY <1>11, <2>1, <2>2, TwicePacket
<1>13. QED
  BY <1>1, <1>7, <1>8, <1>9, <1>12 DEF Full

(* One step of the reader or of the client.                                *)
LEMMA UnitsStep ==
  ASSUME TidyTexts, PaddedTexts, TypeOK, ConservedFrom, UnitsUnread, [Next]_vars
  PROVE  UnitsUnread'
<1>1. CASE \E m \in Messages : Send(m)
  BY <1>1, SendUnits
<1>2. CASE Read
  BY <1>2, ReadUnits
<1>3. CASE ParseNothing \/ ParsePacket
  BY <1>3, ParseUnits
<1>4. CASE ParsePanics \/ UNCHANGED vars
  <2>1. /\ crypt' = crypt /\ sent' = sent /\ wire' = wire /\ buf' = buf
        /\ spoiled' = spoiled
    BY <1>4 DEF ParsePanics, vars
  <2>2. QED
    BY <2>1, UnitsPrimed
<1>5. QED
  BY <1>1, <1>2, <1>3, <1>4 DEF Next, Parse

(* What fills the buffer stays in the history of what was sent.            *)
LEMMA FullStays ==
  ASSUME TypeOK, ConservedFrom, Full(FlattenSeq(sent)), NEW m \in Messages, Send(m)
  PROVE  Full(FlattenSeq(sent'))
<1>1. PICK F, G : F = FlattenSeq(sent) /\ G = FlattenSeq(sent')
  OBVIOUS
<1>2. F \in Seq(Byte) /\ m \in Seq(Byte) /\ FollowedBy(G, F, m) /\ MoreSent(G, F)
  BY <1>1, SentGrows
<1>3. PICK n \in Sizes(F) : Cardinality(Gaps(F)) + 2 * n > BufSize
  BY <1>1 DEF Full
<1>4. PICK x \in Nat, y \in Nat, B \in Nat, z \in Nat :
        /\ x = Cardinality(Gaps(F)) /\ y = Cardinality(Gaps(G)) /\ B = BufSize /\ z = n
  <2>1. G \in Seq(Byte)
    BY <1>2 DEF FollowedBy
  <2>2. Cardinality(Gaps(F)) \in Nat /\ Cardinality(Gaps(G)) \in Nat
    BY <1>2, <2>1, GapsCounted
  <2>3. n \in Nat /\ BufSize \in Nat
    BY ParserAssumption DEF ParserAssumption, Sizes
  <2>4. QED
    BY <2>2, <2>3
<1>5. x <= y /\ n \in Sizes(G)
  BY <1>2, <1>4 DEF MoreSent
<1>6. x + 2 * z > B
  BY <1>3, <1>4
<1>7. y + 2 * z > B
  BY <1>4, <1>5, <1>6
<1>8. QED
  BY <1>1, <1>4, <1>5, <1>7 DEF Full

(* A turn never ends the process.                                          *)
LEMMA TurnStage ==
  ASSUME NEW again, Turn(again) PROVE stage' \in {"parse", "read"}
BY DEF Turn

(* The process ends when the buffer is full, and so it stays.              *)
LEMMA PanicStep ==
  ASSUME TidyTexts, TypeOK, ConservedFrom, UnitsUnread, PanicsWhenFull, [Next]_vars
  PROVE  PanicsWhenFull'
<1> SUFFICES ASSUME stage' = "panicked", ~spoiled', ~crypt'
             PROVE  Full(FlattenSeq(sent'))
  BY Zenon DEF PanicsWhenFull, Full
<1>1. CASE \E m \in Messages : Send(m)
  <2>1. PICK m \in Messages : Send(m)
    BY <1>1
  <2>2. stage = "panicked" /\ ~spoiled /\ ~crypt
    BY <2>1 DEF Send
  <2>3. Full(FlattenSeq(sent))
    BY <2>2, Zenon DEF PanicsWhenFull, Full
  <2>4. QED
    BY <2>1, <2>3, FullStays
<1>2. CASE ParsePanics
  <2>1. ~spoiled /\ ~crypt /\ sent' = sent
    BY <1>2 DEF ParsePanics
  <2>2. Full(FlattenSeq(sent))
    BY <1>2, <2>1, PanicNeedsFull
  <2>3. QED
    BY <2>1, <2>2
<1>3. CASE UNCHANGED vars
  <2>1. stage = "panicked" /\ ~spoiled /\ ~crypt /\ sent' = sent
    BY <1>3 DEF vars
  <2>2. Full(FlattenSeq(sent))
    BY <2>1, Zenon DEF PanicsWhenFull, Full
  <2>3. QED
    BY <2>1, <2>2
<1>4. CASE Read
  BY <1>4 DEF Read
<1>5. CASE ParseNothing
  <2>1. stage' \in {"parse", "read"}
    BY <1>5, TurnStage, Zenon DEF ParseNothing
  <2>2. QED
    BY <2>1
<1>6. CASE ParsePacket
  <2>1. stage' \in {"parse", "read"}
    BY <1>6, TurnStage, Zenon DEF ParsePacket
  <2>2. QED
    BY <2>1
<1>7. QED
  BY <1>1, <1>2, <1>3, <1>4, <1>5, <1>6 DEF Next, Parse

(* Without encryption the index of checkMayJson leaves the buffer only     *)
(* when everything sent between packets, and twice one of the packets      *)
(* sent, are more than the buffer has: for every set of packets and        *)
(* heartbeats and every padding that is no part of a heartbeat, every      *)
(* buffer size and every way the network cuts the bytes                    *)
(* (new/main.go:386-439).                                                  *)
THEOREM OnlyFullPanics ==
  ASSUME TidyTexts, PaddedTexts
  PROVE  Spec => []PanicsWhenFull
<1>1. Init => ConservedFrom /\ UnitsUnread /\ PanicsWhenFull
  <2>1. Init => PanicsWhenFull
    BY DEF Init, PanicsWhenFull
  <2>2. QED
    BY <2>1, ConservedInit, UnitsInit
<1>2. /\ TypeOK /\ ConservedFrom /\ UnitsUnread /\ PanicsWhenFull
      /\ [Next]_vars
      => ConservedFrom' /\ UnitsUnread' /\ PanicsWhenFull'
  BY ConservedStep, UnitsStep, PanicStep
<1>3. QED
  BY <1>1, <1>2, ParserTypeCorrect, PTL DEF Spec
=============================================================================
