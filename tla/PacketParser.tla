---------------------------- MODULE PacketParser ----------------------------
(***************************************************************************)
(* How the reader of a TCP connection cuts packets out of the bytes it     *)
(* reads: the loop of createReadroutine (new/server_tcp.go) around Parser  *)
(* (new/main.go).  A read appends to the buffer; then Parser is called     *)
(* until it finds neither packet nor heartbeat.  Each call decrypts the    *)
(* buffer, takes the heartbeats out, takes one packet out, and writes the  *)
(* rest, encrypted again, back to the buffer.                              *)
(*                                                                         *)
(* What happens to a packet afterwards is the subject of Relay, and a read *)
(* error, too.  Buffer, message sizes and heartbeat are scaled down: the   *)
(* buffer has 1024 bytes in the code.                                      *)
(***************************************************************************)
EXTENDS Codec, SequencesExt

CONSTANTS
  Messages,    \* the texts a client may send, packets and heartbeats
  Alive,       \* ALIVE: the heartbeat
  BufSize,     \* 1024 in the code; also the pieces Parser works in
  CryptModes,  \* whether the server may have a CryptInf, and may have none
  MaxSent,     \* bound: texts sent
  MaxTurns     \* bound: turns of the loop after one read

ASSUME ParserAssumption ==
  /\ Messages \subseteq Seq(Byte) /\ Alive \in Seq(Byte) \ {<<>>}
  /\ BufSize \in Nat \ {0} /\ BufSize % 4 = 0
  /\ CryptModes \subseteq BOOLEAN
  /\ MaxSent \in Nat
  /\ MaxTurns \in Nat

VARIABLES
  crypt,    \* CryptInf is set (NeedEncrypt in conf.xml)
  sent,     \* history: the texts the client sent
  wire,     \* what the network has not delivered yet
  buf,      \* m_byte[:src_len]
  stage,    \* "read": in con.Read, "parse": in the loop, "panicked": no more
  out,      \* the packets handed to BroadCastData
  turns,    \* the turns of the loop since the read, but the last
  spoiled   \* history: see Spoils; or the full buffer was thrown away

vars == <<crypt, sent, wire, buf, stage, out, turns, spoiled>>

Open == 123   \* '{'
Close == 125  \* '}'

Init ==
  /\ crypt \in CryptModes
  /\ sent = <<>> /\ wire = <<>> /\ buf = <<>>
  /\ stage = "read"
  /\ out = <<>> /\ turns = 0
  /\ spoiled = FALSE

-----------------------------------------------------------------------------
(* The client, which with encryption pads by spaces or by '='.             *)
Send(m) ==
  /\ Len(sent) < MaxSent
  /\ sent' = Append(sent, m)
  /\ \/ ~crypt /\ wire' = wire \o m
     \/ crypt /\ wire' = wire \o EncryPt(m, CipherLen(Len(m)))
     \/ crypt /\ wire' = wire \o PeerEncode(m)
  /\ UNCHANGED <<crypt, buf, stage, out, turns, spoiled>>

(* Mutated form of Room: the whole of m_byte.                              *)
WholeBuffer(b) == BufSize

(* m_byte[src_len:]                                                        *)
Room(b) == BufSize - Len(b)

(* A full buffer is thrown away; a read delivers as much as it likes.      *)
Read ==
  LET kept == IF Len(buf) >= BufSize THEN <<>> ELSE buf IN
  /\ stage = "read"
  /\ \E n \in 1 .. Len(wire) :
       /\ n <= Room(kept)
       /\ buf' = kept \o SubSeq(wire, 1, n)
       /\ wire' = SubSeq(wire, n + 1, Len(wire))
  /\ spoiled' = (spoiled \/ kept # buf)
  /\ stage' = "parse"
  /\ UNCHANGED <<crypt, sent, out, turns>>

-----------------------------------------------------------------------------
(* trimLeft(cdt, dlen, 32)                                                 *)
TrimLeft(s) ==
  LET first == SelectInSeq(s, LAMBDA b : b # Space)
  IN IF first = 0 THEN <<>> ELSE SubSeq(s, first, Len(s))

Plain(b) == IF crypt THEN TrimLeft(DeCrypt(b)) ELSE b

(* contains(cdt, ALIVE, ...): where the first heartbeat is, or 0.          *)
BeatAt(s) ==
  LET at == {i \in 1 .. Len(s) - Len(Alive) + 1 :
               SubSeq(s, i, i + Len(Alive) - 1) = Alive}
  IN IF at = {} THEN 0 ELSE Min(at)

HasBeat(s) == BeatAt(s) # 0

(* Mutated form of RemoveBeat: the heartbeat stays.                        *)
RemoveNothing(s) == s

(* removeBytes(cdt, bi, dlen, len(ALIVE))                                  *)
RemoveBeat(s) ==
  IF HasBeat(s) THEN ReplaceSubSeqAt(BeatAt(s), <<>>, Alive, s) ELSE s

WithoutBeats(s) ==
  LET after[n \in 0 .. Len(s)] ==
        IF n = 0 THEN s ELSE RemoveBeat(after[n - 1])
  IN after[Len(s)]

(* checkMayJson: the first '{', the last '}' so far, and their balance,    *)
(* until the balance is zero; at the end of the text whatever was found.   *)
Balanced(r) == r.from > 0 /\ r.to > r.from /\ r.num = 0

Look(r, b, i) ==
  IF Balanced(r) THEN r
  ELSE [from |-> IF b = Open /\ r.from = 0 THEN i ELSE r.from,
        to |-> IF b = Close THEN i ELSE r.to,
        num |-> CASE b = Open -> r.num + 1
                  [] b = Close -> r.num - 1
                  [] OTHER -> r.num]

checkMayJson(s) ==
  LET scan[i \in 0 .. Len(s)] ==
        IF i = 0 THEN [from |-> 0, to |-> 0, num |-> 0]
        ELSE Look(scan[i - 1], s[i], i)
      end == scan[Len(s)]
  IN [from |-> IF end.from > end.to THEN 0 ELSE end.from, to |-> end.to]

Size(p) == p.to - p.from + 1

Found(p) == p.from > 0

(* for i := from; i <= to; i++ { cdt[i] = cdt[i+ca_size] }: as many bytes  *)
(* as the packet has move up, those behind them stay where they are.       *)
Shift(s, p) ==
  [i \in 1 .. Len(s) - Size(p) |->
     IF p.from <= i /\ i <= p.to THEN s[i + Size(p)] ELSE s[i]]

(* Mutated form of Overruns: the loop goes one byte further.               *)
OverrunsByOne(p) == p.to + Size(p) + 1 > BufSize

(* cdt[i+ca_size] is beyond the piece.                                     *)
Overruns(p) == p.to + Size(p) > BufSize

(* Mutated form of Kept: the left over characters are not moved.           *)
KeptNone(b) == <<>>

(* The characters DeCrypt leaves, which go behind the rest again.          *)
Kept(b) == IF crypt THEN LeftOver(b) ELSE <<>>

(* What is written back to m_byte.                                         *)
Stored(rest) ==
  (IF crypt /\ rest # <<>> THEN EncryPt(rest, BufSize) ELSE rest) \o Kept(buf)

(* Mutated form of Again: need_beat alone.                                 *)
AgainOnBeat(packet, beat) == beat

(* tmp_bool = c_size > 0 || need_beat                                      *)
Again(packet, beat) == packet \/ beat

Turn(again) ==
  /\ stage' = IF again THEN "parse" ELSE "read"
  /\ turns' = IF again THEN turns + 1 ELSE 0

-----------------------------------------------------------------------------
(* What the texts in s are: brackets that close, one after the other, with *)
(* spaces left out.  The reference for checkMayJson and for the loop.      *)
Collect(r, b) ==
  IF b = Space \/ (b # Open /\ r.depth = 0) THEN r
  ELSE LET more == Append(r.packet, b) IN
       IF b = Close /\ r.depth = 1
       THEN [depth |-> 0, packet |-> <<>>, packets |-> Append(r.packets, more)]
       ELSE [depth |-> CASE b = Open -> r.depth + 1
                         [] b = Close -> r.depth - 1
                         [] OTHER -> r.depth,
             packet |-> more, packets |-> r.packets]

(* The states of that reading, from before the first byte of s on.         *)
Scan(s) ==
  LET scan[i \in 0 .. Len(s)] ==
        IF i = 0 THEN [depth |-> 0, packet |-> <<>>, packets |-> <<>>]
        ELSE Collect(scan[i - 1], s[i])
  IN scan

PacketsOf(s) == Scan(s)[Len(s)].packets

(* The text in a sequence of characters, each group for itself.            *)
ByGroups(s) ==
  FlattenSeq([g \in 1 .. Len(s) \div 4 |-> DeCrypt(SubSeq(s, 4 * g - 3, 4 * g))])

Text(s) == IF crypt THEN ByGroups(s) ELSE s

(* Where the code goes wrong by itself: more bytes follow the packet than  *)
(* it has (Shift), a packet that is not closed yet was taken, or '=' ended *)
(* the decryption before the end.                                          *)
Spoils(body, p) ==
  \/ Len(body) - p.to > Size(p)
  \/ Len(PacketsOf(SubSeq(body, p.from, p.to))) # 1
Truncates == crypt /\ DecodedLen(DeMixFour(Whole(buf))) < Len(Text(buf))

ParseNothing ==
  LET body == WithoutBeats(Plain(buf)) IN
  /\ stage = "parse"
  /\ ~Found(checkMayJson(body))
  /\ buf' = Stored(body)
  /\ Turn(Again(FALSE, HasBeat(Plain(buf))))
  /\ spoiled' = (spoiled \/ Truncates)
  /\ UNCHANGED <<crypt, sent, wire, out>>

ParsePacket ==
  LET body == WithoutBeats(Plain(buf))
      p == checkMayJson(body)
  IN
  /\ stage = "parse"
  /\ Found(p) /\ ~Overruns(p)
  /\ out' = Append(out, SubSeq(body, p.from, p.to))
  /\ buf' = Stored(Shift(body, p))
  /\ Turn(Again(TRUE, HasBeat(Plain(buf))))
  /\ spoiled' = (spoiled \/ Truncates \/ Spoils(body, p))
  /\ UNCHANGED <<crypt, sent, wire>>

(* The index is out of range: the process ends.                            *)
ParsePanics ==
  LET p == checkMayJson(WithoutBeats(Plain(buf))) IN
  /\ stage = "parse"
  /\ Found(p) /\ Overruns(p)
  /\ stage' = "panicked"
  /\ UNCHANGED <<crypt, sent, wire, buf, out, turns, spoiled>>

Parse ==
  /\ turns < MaxTurns
  /\ ParseNothing \/ ParsePacket \/ ParsePanics

Next == Parse \/ Read \/ \E m \in Messages : Send(m)

Spec == Init /\ [][Next]_vars

-----------------------------------------------------------------------------
(* What clients send when they keep to the readme: brackets that match,    *)
(* and a heartbeat nowhere inside a packet.  Nothing in the code sees to   *)
(* it; it is the hypothesis of two theorems (CodecProofs), and TLC finds   *)
(* it true of the texts it sends.                                          *)
BeatsAt(s, i) ==
  i + Len(Alive) <= Len(s) /\ \A k \in 1 .. Len(Alive) : s[i + k] = Alive[k]

Tidy(s) ==
  /\ \A i \in 1 .. Len(s) : s[i] = Close => Scan(s)[i - 1].depth > 0
  /\ Scan(s)[Len(s)].depth = 0
  /\ \A i \in 0 .. Len(s) : BeatsAt(s, i) => Scan(s)[i].depth = 0

PlainBeat ==
  \A k \in 1 .. Len(Alive) : Alive[k] \notin {Open, Close, Space}

TidyTexts == PlainBeat /\ \A m \in Messages : Tidy(m)

(* What stands between the packets besides heartbeats: the spaces or line  *)
(* ends of a client that pads.  Without encryption nothing takes them away.*)
Gaps(s) ==
  {i \in 1 .. Len(s) : /\ Scan(s)[i].depth = 0
                      /\ s[i] \notin {Close} \union {Alive[k] : k \in 1 .. Len(Alive)}}

(* The lengths of the packets in s, spaces inside them included.           *)
PacketAt(s, i, n) ==
  /\ Scan(s)[i].depth = 0 /\ s[i + 1] = Open /\ Scan(s)[i + n].depth = 0
  /\ \A k \in 1 .. n - 1 : Scan(s)[i + k].depth > 0

Sizes(s) ==
  {n \in 1 .. Len(s) : \E i \in 0 .. Len(s) - n : PacketAt(s, i, n)}

(* Besides, that what a client pads with is no part of a heartbeat.        *)
PaddedTexts ==
  \A m \in Messages :
    \/ m = Alive
    \/ \A i \in 1 .. Len(m) :
         Scan(m)[i - 1].depth = 0 => m[i] = Open \/ i \in Gaps(m)

-----------------------------------------------------------------------------
(* Type invariant of the reader's state; what is encrypted again always    *)
(* fits into the buffer it came from.                                      *)
TypeOK ==
  /\ crypt \in CryptModes
  /\ sent \in Seq(Messages) /\ Len(sent) <= MaxSent
  /\ wire \in Seq(IF crypt THEN Char ELSE Byte)
  /\ buf \in Seq(IF crypt THEN Char ELSE Byte) /\ Len(buf) <= BufSize
  /\ stage \in {"read", "parse", "panicked"}
  /\ out \in Seq(Seq(Byte))
  /\ turns \in Nat
  /\ spoiled \in BOOLEAN

(* Nothing is lost, invented, doubled or put in another order on the way   *)
(* through decryption, padding and re-encryption, wherever the network     *)
(* cuts the bytes: the packets handed on, followed by those in buffer and  *)
(* network, are those that were sent.  Up to the moment the code goes      *)
(* wrong in one of the named ways, and but for spaces, which may get into  *)
(* the middle of a packet.                                                 *)
Conserved ==
  ~spoiled =>
    FlattenSeq([i \in 1 .. Len(out) |-> PacketsOf(out[i])])
      \o PacketsOf(Text(buf \o wire)) = PacketsOf(FlattenSeq(sent))

(* A reader that waits for the network has handed on every packet that was *)
(* complete, also one that came together with heartbeats, and whatever     *)
(* went wrong before.                                                      *)
NoneWaits ==
  stage = "read" => PacketsOf(Text(buf)) = <<>>

(* When the process ends by an index behind the buffer, without            *)
(* encryption: only when everything the client ever sent between packets,  *)
(* and twice a packet it sent, are more than the buffer has.  So a client  *)
(* that pads ends it in time by a short packet, and one that does not only *)
(* by a packet longer than half of the buffer.                             *)
PanicsWhenFull ==
  (stage = "panicked" /\ ~spoiled /\ ~crypt) =>
    \E n \in Sizes(FlattenSeq(sent)) :
      Cardinality(Gaps(FlattenSeq(sent))) + 2 * n > BufSize

(* The packet that an empty object is.                                     *)
EmptyPacket == <<Open, Close>>

(* The loop around Parser ends: it does not turn for ever on a heartbeat   *)
(* or on a rest that encryption made longer, for every turn that is not    *)
(* the last takes at least two bytes out of the buffer.  The exception is  *)
(* an empty object under encryption: {}{} with its two spaces is {}{} with *)
(* two spaces again when the first of them has been taken.                 *)
LoopEnds ==
  turns > BufSize \div 2 =>
    crypt /\ \E i \in 1 .. Len(out) : out[i] = EmptyPacket

(* The readme: the plain text is split into packets, which begin with '{'  *)
(* and end where '}' closes it.  So what is handed on is what was sent, as *)
(* far as it came.                                                         *)
SplitAsSent ==
  IsPrefix(out, PacketsOf(FlattenSeq(sent)))
=============================================================================
