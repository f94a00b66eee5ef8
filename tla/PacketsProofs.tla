---------------------------- MODULE PacketsProofs ----------------------------
(***************************************************************************)
(* Proofs about Packets, for every set of packets that the senders may be  *)
(* told to build, with any addresses, ports, options and data that fit     *)
(* their parameters, for every content of the buffers, any frames of other *)
(* machines and every size of the sniffer's buffer.                        *)
(*                                                                         *)
(* The inductive invariant, PacketsInv, says of a packet that is built     *)
(* that the headers that are done are those of its call, byte by byte; of  *)
(* a frame on the air that it is FrameOf(call), whose bytes depend on the  *)
(* call alone; and of the sniffer that its buffer begins with the frame    *)
(* that its line was printed of.                                           *)
(***************************************************************************)
EXTENDS Packets, PacketHeadersProofs

-----------------------------------------------------------------------------
(* Memory, and sequences one behind the other                              *)

(* Memory that has never been written fits as well.                        *)
LEMMA MemoryFits ==
  ASSUME NEW l \in Layer, NEW bit \in {0, 1}
  PROVE  Fits(Memory(Widths[l], bit), Widths[l])
<1> DEFINE In(w) == IF w >= 32 THEN [i \in 1 .. w \div 8 |-> 255 * bit]
                               ELSE bit * (2 ^ w - 1)
<1>1. \A w \in {1, 2, 4, 5, 8, 16, 32, 48} : In(w) \in Holds(w)
  <2>1. In(1) \in Holds(1) /\ In(2) \in Holds(2) /\ In(4) \in Holds(4)
    BY DEF Holds
  <2>2. In(5) \in Holds(5) /\ In(8) \in Holds(8)
    BY DEF Holds
  <2>3. In(16) \in Holds(16)
    BY DEF Holds
  <2>4. In(32) \in Holds(32) /\ In(48) \in Holds(48)
    <3>1. 32 \div 8 = 4 /\ 48 \div 8 = 6
      OBVIOUS
    <3>2. 255 * bit \in Byte
      BY DEF Byte
    <3> QED
      BY <3>1, <3>2, HoldsAre
  <2> HIDE DEF In
  <2> QED
    BY <2>1, <2>2, <2>3, <2>4
<1>2. \A f \in DOMAIN Widths[l] : Widths[l][f] \in {1, 2, 4, 5, 8, 16, 32, 48}
  BY DEF Layer, Widths, EthernetWidths, IPv4Widths, TCPWidths, ICMPWidths, OGMWidths
<1>3. Memory(Widths[l], bit) = [f \in DOMAIN Widths[l] |-> In(Widths[l][f])]
  BY DEF Memory
<1> HIDE DEF In
<1> QED
  BY <1>1, <1>2, <1>3 DEF Fits

(* x is s, of n bytes, and behind it t, of m bytes.                        *)
Joined(x, s, n, t, m) ==
  /\ x \in Seq(Byte) /\ Len(x) = n + m
  /\ \A i \in 1 .. n : x[i] = s[i]
  /\ \A i \in n + 1 .. n + m : x[i] = t[i - n]

(* One sequence behind the other.                                          *)
LEMMA JoinedAt ==
  ASSUME NEW s \in Seq(Byte), NEW t \in Seq(Byte), NEW n \in Nat, NEW m \in Nat,
         Len(s) = n, Len(t) = m
  PROVE  Joined(s \o t, s, n, t, m)
<1>1. s \o t \in Seq(Byte) /\ Len(s \o t) = n + m
  BY ConcatProperties
<1>2. \A i \in 1 .. n : (s \o t)[i] = s[i]
  OBVIOUS
<1>3. \A i \in n + 1 .. n + m : (s \o t)[i] = t[i - n]
  OBVIOUS
<1> QED
  BY <1>1, <1>2, <1>3 DEF Joined

(* A pseudo-header, a TCP header, options and data, byte by byte.          *)
Segment(x, P, T, O, n, D, m) ==
  /\ x \in Seq(Byte) /\ Len(x) = 32 + n + m
  /\ \A i \in 1 .. 12 : x[i] = P[i]
  /\ \A i \in 13 .. 32 : x[i] = T[i - 12]
  /\ \A i \in 33 .. 32 + n : x[i] = O[i - 32]
  /\ \A i \in 33 + n .. 32 + n + m : x[i] = D[i - (32 + n)]

(* The four parts, one behind the other.                                   *)
LEMMA SegmentAt ==
  ASSUME NEW P \in Seq(Byte), NEW T \in Seq(Byte), NEW O \in Seq(Byte),
         NEW D \in Seq(Byte), NEW n \in Nat, NEW m \in Nat,
         Len(P) = 12, Len(T) = 20, Len(O) = n, Len(D) = m
  PROVE  Segment(P \o T \o O \o D, P, T, O, n, D, m)
<1> DEFINE u == P \o T
           v == u \o O
           x == v \o D
<1>1. Joined(u, P, 12, T, 20)
  BY JoinedAt
<1>2. u \in Seq(Byte) /\ Len(u) = 32
  BY <1>1 DEF Joined
<1> HIDE DEF u
<1>3. Joined(v, u, 32, O, n)
  BY <1>2, JoinedAt
<1>4. v \in Seq(Byte) /\ Len(v) = 32 + n /\ 32 + n \in Nat
  BY <1>3 DEF Joined
<1> HIDE DEF v
<1>5. Joined(x, v, 32 + n, D, m)
  BY <1>4, JoinedAt
<1>6. x \in Seq(Byte) /\ Len(x) = 32 + n + m
  BY <1>5 DEF Joined
<1> HIDE DEF x
<1>7. /\ \A i \in 1 .. 12 : u[i] = P[i]
      /\ \A i \in 13 .. 32 : u[i] = T[i - 12]
  BY <1>1 DEF Joined
<1>8. /\ \A i \in 1 .. 32 : v[i] = u[i]
      /\ \A i \in 33 .. 32 + n : v[i] = O[i - 32]
  BY <1>3 DEF Joined
<1>9. /\ \A i \in 1 .. 32 + n : x[i] = v[i]
      /\ \A i \in 33 + n .. 32 + n + m : x[i] = D[i - (32 + n)]
  <2>1. (32 + n) + 1 = 33 + n /\ (32 + n) + m = 32 + n + m
    OBVIOUS
  <2> QED
    BY <1>5, <2>1 DEF Joined
<1>10. ASSUME NEW i \in 1 .. 32 PROVE x[i] = u[i]
  <2>1. i \in 1 .. 32 + n
    OBVIOUS
  <2>2. x[i] = v[i] /\ v[i] = u[i]
    BY <1>8, <1>9, <2>1
  <2> QED
    BY <2>2
<1>11. /\ \A i \in 1 .. 12 : x[i] = P[i]
       /\ \A i \in 13 .. 32 : x[i] = T[i - 12]
  <2>1. \A i \in 1 .. 12 : i \in 1 .. 32
    OBVIOUS
  <2>2. \A i \in 13 .. 32 : i \in 1 .. 32
    OBVIOUS
  <2> QED
    BY <1>7, <1>10, <2>1, <2>2
<1>12. \A i \in 33 .. 32 + n : x[i] = O[i - 32]
  <2> TAKE i \in 33 .. 32 + n
  <2>1. i \in 1 .. 32 + n
    OBVIOUS
  <2>2. x[i] = v[i] /\ v[i] = O[i - 32]
    BY ONLY <1>8, <1>9, <2>1, i \in 33 .. 32 + n
  <2> QED
    BY <2>2
<1> QED
  BY <1>6, <1>9, <1>11, <1>12 DEF Segment, x, v, u

(* What the checksum of a segment covers, the checksum itself filled in.   *)
SegmentBytes(p, a) ==
  PseudoLayout(p, 20 + Len(a.options) + Len(a.data))
    \o TCPLayout(a, SegmentSum(p, a)) \o a.options \o a.data

(* The checksum of initTCPHeader makes the segment add up with its pseudo- *)
(* header, whatever options and data it has.                               *)
LEMMA SegmentAddsUp ==
  ASSUME NEW p \in IPv4Parameters, NEW a \in TCPParameters, TCPArgumentsAllowed(a)
  PROVE  /\ SegmentSum(p, a) \in Nat /\ SegmentSum(p, a) <= 65535
         /\ AddsUp(SegmentBytes(p, a))
<1> DEFINE n == Len(a.options)
           m == Len(a.data)
           P == PseudoLayout(p, 20 + n + m)
           c == SegmentSum(p, a)
           S == TCPLayout(a, 0)
           T == TCPLayout(a, c)
           b == P \o S \o a.options \o a.data
           d == P \o T \o a.options \o a.data
<1>1. a.options \in Seq(Byte) /\ a.data \in Seq(Byte)
  BY DEF TCPParameters
<1>2. n \in Nat /\ m \in Nat /\ 12 + 20 + n + m <= 10240
  <2>1. n \in Nat /\ m \in Nat
    BY <1>1, LenProperties
  <2>2. 12 + 20 + n + m <= pseudoBufferSize
    BY DEF TCPArgumentsAllowed
  <2> HIDE DEF n, m
  <2> QED
    BY <2>1, <2>2 DEF pseudoBufferSize
<1>3. P \in Seq(Byte) /\ Len(P) = 12
  <2> HIDE DEF n, m
  <2>1. 20 + n + m \in Nat /\ 20 + n + m <= 65535
    BY <1>2
  <2> QED
    BY <2>1, PseudoLayoutBytes
<1>4. S \in Seq(Byte) /\ Len(S) = 20
  BY ZeroHalves, TCPLayoutBytes
<1>5. c = ChecksumOf(b)
  BY DEF SegmentSum
<1>6. S[17] = 0 /\ S[18] = 0
  BY ZeroHalves DEF TCPLayout
<1>7. T[17] = c % 256 /\ T[18] = c \div 256
  BY DEF TCPLayout
<1>8. \A i \in 1 .. 20 : i # 17 /\ i # 18 => T[i] = S[i]
  <2> DEFINE offset == 16 * ((20 + Len(a.options)) \div 4)
             L(e) == <<a.sourcePort \div 256, a.sourcePort % 256,
                       a.destPort \div 256, a.destPort % 256,
                       a.sequence[1], a.sequence[2], a.sequence[3], a.sequence[4],
                       a.acknowledge[1], a.acknowledge[2],
                       a.acknowledge[3], a.acknowledge[4], offset, FlagsOf(a),
                       a.window \div 256, a.window % 256, e % 256, e \div 256, 0, 0>>
  <2>1. T = L(c) /\ S = L(0)
    BY DEF TCPLayout
  <2> HIDE DEF offset, c, T, S
  <2> QED
    BY <2>1
<1> HIDE DEF P, S, c, n, m
<1>9. Segment(b, P, S, a.options, n, a.data, m)
  BY <1>1, <1>2, <1>3, <1>4, SegmentAt DEF n, m
<1> HIDE DEF b
<1>10. c \in Nat /\ c <= 65535
  BY <1>5, <1>9, ChecksumRange, SMTT(30) DEF Segment
<1>11. T \in Seq(Byte) /\ Len(T) = 20
  BY <1>10, TCPLayoutBytes
<1> HIDE DEF T
<1>12. Segment(d, P, T, a.options, n, a.data, m)
  BY <1>1, <1>2, <1>3, <1>11, SegmentAt DEF n, m
<1> HIDE DEF d
<1>13. b[29] = 0 /\ b[30] = 0 /\ d[29] = c % 256 /\ d[30] = c \div 256
  <2>1. 29 \in 1 .. Len(b) /\ 30 \in 1 .. Len(b) /\ 29 - 12 = 17 /\ 30 - 12 = 18
    BY <1>2, <1>9 DEF Segment
  <2>2. b[29] = S[17] /\ b[30] = S[18] /\ d[29] = T[17] /\ d[30] = T[18]
    BY <1>9, <1>12, <2>1 DEF Segment
  <2> QED
    BY <1>6, <1>7, <2>2
<1>14. ASSUME NEW i \in 1 .. Len(b), i # 29, i # 30 PROVE d[i] = b[i]
  <2>1. i \in 1 .. 32 + n + m
    BY <1>9, <1>14 DEF Segment
  <2>2. CASE i \in 1 .. 12
    BY <1>9, <1>12, <2>2 DEF Segment
  <2>3. CASE i \in 13 .. 32
    <3>1. i - 12 \in 1 .. 20 /\ i - 12 # 17 /\ i - 12 # 18
      BY <1>14, <2>3
    <3>2. T[i - 12] = S[i - 12]
      BY <1>8, <3>1
    <3> QED
      BY <1>9, <1>12, <2>3, <3>2 DEF Segment
  <2>4. CASE i \in 33 .. 32 + n
    BY <1>9, <1>12, <2>4 DEF Segment
  <2>5. CASE i \in 33 + n .. 32 + n + m
    BY <1>9, <1>12, <2>5 DEF Segment
  <2> QED
    BY <1>2, <2>1, <2>2, <2>3, <2>4, <2>5
<1>15. Len(d) = Len(b) /\ Len(b) <= 32768 /\ 30 <= Len(b)
  BY <1>2, <1>9, <1>12 DEF Segment
<1>16. 29 \in Nat /\ 29 % 2 = 1 /\ 30 = 29 + 1
  OBVIOUS
<1>17. Filled(b, d, 29, 30)
  <2>1. b \in Seq(Byte) /\ d \in Seq(Byte)
    BY <1>9, <1>12 DEF Segment
  <2> QED
    BY <1>5, <1>13, <1>14, <1>15, <1>16, <2>1 DEF Filled
<1>18. AddsUp(d)
  BY <1>17, FilledAddsUp
<1>19. SegmentSum(p, a) \in Nat /\ SegmentSum(p, a) <= 65535
  BY ONLY <1>10 DEF c
<1>20. d = SegmentBytes(p, a)
  BY DEF SegmentBytes, d, T, P, n, m, c
<1> QED
  BY ONLY <1>18, <1>19, <1>20

(* A header of 14 bytes, one of 20 and the rest.                           *)
LEMMA FrameAt ==
  ASSUME NEW E \in Seq(Byte), NEW I \in Seq(Byte), NEW R \in Seq(Byte),
         Len(E) = 14, Len(I) = 20
  PROVE  LET b == E \o (I \o R)
         IN  /\ b \in Seq(Byte) /\ Len(b) = 34 + Len(R)
             /\ \A i \in 1 .. 14 : b[i] = E[i]
             /\ \A i \in 15 .. 34 : b[i] = I[i - 14]
             /\ \A i \in 35 .. 34 + Len(R) : b[i] = R[i - 34]
             /\ BytesAt(b, 14, 20) = I /\ Behind(b, 34) = R
<1> DEFINE u == I \o R
           b == E \o u
<1>1. Len(R) \in Nat
  BY LenProperties
<1>2. Joined(u, I, 20, R, Len(R))
  BY <1>1, JoinedAt
<1>3. u \in Seq(Byte) /\ Len(u) = 20 + Len(R) /\ 20 + Len(R) \in Nat
  BY <1>1, <1>2 DEF Joined
<1> HIDE DEF u
<1>4. Joined(b, E, 14, u, 20 + Len(R))
  BY <1>3, JoinedAt
<1> HIDE DEF b
<1>5. /\ b \in Seq(Byte) /\ Len(b) = 34 + Len(R)
      /\ \A i \in 1 .. 14 : b[i] = E[i]
      /\ \A i \in 15 .. 34 : b[i] = I[i - 14]
      /\ \A i \in 35 .. 34 + Len(R) : b[i] = R[i - 34]
  <2> DEFINE r == Len(R)
  <2>1. /\ \A i \in 1 .. 20 : u[i] = I[i]
        /\ \A i \in 21 .. 20 + r : u[i] = R[i - 20]
    BY <1>2 DEF Joined
  <2>2. /\ b \in Seq(Byte) /\ Len(b) = 14 + (20 + r)
        /\ \A i \in 1 .. 14 : b[i] = E[i]
        /\ \A i \in 15 .. 14 + (20 + r) : b[i] = u[i - 14]
    BY <1>4 DEF Joined
  <2>3. r \in Nat
    BY <1>1
  <2> HIDE DEF r
  <2>4. \A i \in 15 .. 34 : b[i] = I[i - 14]
    <3> TAKE i \in 15 .. 34
    <3>1. i \in 15 .. 14 + (20 + r) /\ i - 14 \in 1 .. 20
      BY <2>3
    <3> QED
      BY <2>1, <2>2, <3>1
  <2>5. \A i \in 35 .. 34 + r : b[i] = R[i - 34]
    <3> TAKE i \in 35 .. 34 + r
    <3>1. i \in 15 .. 14 + (20 + r) /\ i - 14 \in 21 .. 20 + r /\ (i - 14) - 20 = i - 34
      BY <2>3
    <3>2. b[i] = u[i - 14] /\ u[i - 14] = R[(i - 14) - 20]
      BY <2>1, <2>2, <3>1
    <3> QED
      BY <3>1, <3>2
  <2>6. Len(b) = 34 + r
    BY <2>2, <2>3
  <2> QED
    BY <2>2, <2>4, <2>5, <2>6 DEF r
<1>6. \A i \in 1 .. Len(b) : b[i] \in Byte
  BY <1>5, ElementOfSeq
<1>7. BytesAt(b, 14, 20) = I
  <2> DEFINE s == SubSeq(b, 15, 34)
  <2>1. s \in Seq(Byte) /\ Len(s) = 20 /\ \A i \in 1 .. 20 : s[i] = b[15 + i - 1]
    <3>1. \A i \in 15 .. 34 : i \in 1 .. Len(b)
      BY <1>1, <1>5
    <3>2. \A i \in 15 .. 34 : b[i] \in Byte
      BY <1>6, <3>1
    <3>3. 15 \in Int /\ 34 \in Int /\ 15 <= 34 /\ 34 - 15 + 1 = 20
      OBVIOUS
    <3> QED
      BY <3>2, <3>3, SubSeqProperties
  <2>2. BytesAt(b, 14, 20) = s
    BY DEF BytesAt
  <2> HIDE DEF s
  <2>3. \A i \in 1 .. 20 : s[i] = I[i]
    <3> TAKE i \in 1 .. 20
    <3>1. 15 + i - 1 \in 15 .. 34 /\ (15 + i - 1) - 14 = i
      OBVIOUS
    <3>2. s[i] = b[15 + i - 1] /\ b[15 + i - 1] = I[(15 + i - 1) - 14]
      BY <1>5, <2>1, <3>1
    <3> QED
      BY <3>1, <3>2
  <2>4. s = I
    BY <2>1, <2>3, SeqEqual, ZenonT(60)
  <2> QED
    BY <2>2, <2>4
<1>8. Behind(b, 34) = R
  <2> DEFINE s == SubSeq(b, 35, Len(b))
  <2>1. /\ s \in Seq(Byte) /\ Len(s) = Len(R)
        /\ \A i \in 1 .. Len(R) : s[i] = b[35 + i - 1]
    <3>1. \A i \in 35 .. Len(b) : b[i] \in Byte
      BY <1>1, <1>5, <1>6
    <3>2. /\ s \in Seq(Byte)
          /\ Len(s) = IF 35 <= Len(b) THEN Len(b) - 35 + 1 ELSE 0
          /\ \A i \in 1 .. Len(b) - 35 + 1 : s[i] = b[35 + i - 1]
      BY <1>1, <1>5, <3>1, SubSeqProperties
    <3>3. Len(b) - 35 + 1 = Len(R) /\ (35 <= Len(b) <=> Len(R) # 0)
      <4> DEFINE r == Len(R)
                 k == Len(b)
      <4>1. r \in Nat /\ k = 34 + r
        BY <1>1, <1>5
      <4> HIDE DEF r, k
      <4>2. k - 35 + 1 = r /\ (35 <= k <=> r # 0)
        BY <4>1
      <4> QED
        BY ONLY <4>2, Zenon DEF r, k
    <3> HIDE DEF s
    <3> QED
      BY <1>1, <3>2, <3>3
  <2>2. Behind(b, 34) = s
    BY DEF Behind
  <2> HIDE DEF s
  <2>3. \A i \in 1 .. Len(R) : s[i] = R[i]
    <3> TAKE i \in 1 .. Len(R)
    <3>1. 35 + i - 1 \in 35 .. 34 + Len(R) /\ (35 + i - 1) - 34 = i
      BY <1>1
    <3>2. s[i] = b[35 + i - 1] /\ b[35 + i - 1] = R[(35 + i - 1) - 34]
      BY <1>5, <2>1, <3>1
    <3> QED
      BY <3>1, <3>2
  <2>4. s = R
    BY <2>1, <2>3, SeqEqual
  <2> QED
    BY <2>2, <2>4
<1> QED
  BY <1>5, <1>7, <1>8 DEF b, u

(* s is the n bytes of b behind the first k.                               *)
Part(b, k, n, s) ==
  s \in Seq(Byte) /\ Len(s) = n /\ \A i \in 1 .. n : s[i] = b[k + i]

(* SubSeq, byte by byte.                                                   *)
LEMMA PartAt ==
  ASSUME NEW b \in Seq(Byte), NEW k \in Nat, NEW n \in Nat, k + n <= Len(b)
  PROVE  Part(b, k, n, BytesAt(b, k, n))
<1> DEFINE s == SubSeq(b, k + 1, k + n)
<1>1. \A i \in k + 1 .. k + n : b[i] \in Byte
  BY LenProperties, ElementOfSeq
<1>2. k + 1 \in Int /\ k + n \in Int /\ k + n - (k + 1) + 1 = n
  OBVIOUS
<1>3. /\ s \in Seq(Byte)
      /\ Len(s) = IF k + 1 <= k + n THEN k + n - (k + 1) + 1 ELSE 0
      /\ \A i \in 1 .. k + n - (k + 1) + 1 : s[i] = b[k + 1 + i - 1]
  BY <1>1, <1>2, SubSeqProperties
<1>4. BytesAt(b, k, n) = s
  BY DEF BytesAt
<1> HIDE DEF s
<1>5. Len(s) = n
  BY <1>2, <1>3
<1>6. \A i \in 1 .. n : s[i] = b[k + i]
  <2> TAKE i \in 1 .. n
  <2>1. k + 1 + i - 1 = k + i
    OBVIOUS
  <2> QED
    BY <1>2, <1>3, <2>1
<1> QED
  BY <1>3, <1>4, <1>5, <1>6 DEF Part

(* ... when they are these.                                                *)
LEMMA FourAt ==
  ASSUME NEW b \in Seq(Byte), NEW k \in Nat, NEW j \in Nat, j = k + 4, j <= Len(b),
         NEW w, NEW x, NEW y, NEW z, b[k + 1] = w, b[k + 2] = x,
         b[k + 3] = y, b[j] = z
  PROVE  BytesAt(b, k, 4) = <<w, x, y, z>>
<1> DEFINE s == BytesAt(b, k, 4)
<1>1. Part(b, k, 4, s)
  BY PartAt
<1> HIDE DEF s
<1>2. s \in Seq(Byte) /\ Len(s) = 4 /\ \A i \in 1 .. 4 : s[i] = b[k + i]
  BY <1>1 DEF Part
<1>3. s[1] = w /\ s[2] = x /\ s[3] = y /\ s[4] = z
  BY <1>2
<1>4. s = <<s[1], s[2], s[3], s[4]>>
  BY <1>2
<1> QED
  BY <1>3, <1>4 DEF s

(* ... and six bytes, when they are these.                                 *)
LEMMA SixAt ==
  ASSUME NEW b \in Seq(Byte), NEW k \in Nat, NEW j \in Nat, j = k + 6, j <= Len(b),
         NEW u, NEW v, NEW w, NEW x, NEW y, NEW z, b[k + 1] = u,
         b[k + 2] = v, b[k + 3] = w, b[k + 4] = x, b[k + 5] = y, b[j] = z
  PROVE  BytesAt(b, k, 6) = <<u, v, w, x, y, z>>
<1> DEFINE s == BytesAt(b, k, 6)
<1>1. Part(b, k, 6, s)
  BY PartAt
<1> HIDE DEF s
<1>2. s \in Seq(Byte) /\ Len(s) = 6 /\ \A i \in 1 .. 6 : s[i] = b[k + i]
  BY <1>1 DEF Part
<1>3. s[1] = u /\ s[2] = v /\ s[3] = w /\ s[4] = x /\ s[5] = y /\ s[6] = z
  BY <1>2, SMTT(30)
<1>4. s = <<s[1], s[2], s[3], s[4], s[5], s[6]>>
  BY <1>2
<1> QED
  BY <1>3, <1>4 DEF s

(* The addresses of an IP header.                                          *)
LEMMA EightAt ==
  ASSUME NEW b \in Seq(Byte), 34 <= Len(b)
  PROVE  BytesAt(b, 26, 8) = <<b[27], b[28], b[29], b[30], b[31], b[32], b[33], b[34]>>
<1> DEFINE s == BytesAt(b, 26, 8)
<1>1. \A k, n \in Nat : k + n <= Len(b) => Part(b, k, n, BytesAt(b, k, n))
  BY PartAt
<1>2. 26 \in Nat /\ 8 \in Nat /\ 26 + 8 <= Len(b)
  OBVIOUS
<1>3. Part(b, 26, 8, s)
  BY ONLY <1>1, <1>2
<1> HIDE DEF s
<1>4. s \in Seq(Byte) /\ Len(s) = 8 /\ \A i \in 1 .. 8 : s[i] = b[26 + i]
  BY <1>3 DEF Part
<1>5. s[1] = b[27] /\ s[2] = b[28] /\ s[3] = b[29] /\ s[4] = b[30]
  BY <1>4
<1>6. s[5] = b[31] /\ s[6] = b[32] /\ s[7] = b[33] /\ s[8] = b[34]
  BY <1>4
<1>7. s = <<s[1], s[2], s[3], s[4], s[5], s[6], s[7], s[8]>>
  BY <1>4
<1> QED
  BY <1>5, <1>6, <1>7 DEF s

-----------------------------------------------------------------------------
(* The frame that comes of a call                                          *)

Datagram(c, message) == IPv4Layout(c.ip, IPv4Sum(c.ip)) \o message

TCPMessage(c) ==
  TCPLayout(c.tcp, SegmentSum(c.ip, c.tcp)) \o c.tcp.options \o c.tcp.data

ICMPMessage(c) == ICMPLayout(c.icmp, ICMPSum(c.icmp))

PayloadOf(c) ==
  CASE "tcp" \in DOMAIN c -> Datagram(c, TCPMessage(c))
    [] "icmp" \in DOMAIN c -> Datagram(c, ICMPMessage(c))
    [] "ogm" \in DOMAIN c -> OGMLayout(c.ogm)

FrameOf(c) == EthernetLayout(c.ethernet) \o PayloadOf(c)

-----------------------------------------------------------------------------
(* The inductive invariant                                                 *)

EthernetDone == EthernetBytes(packet.ethernet) = EthernetLayout(call.ethernet)
IPv4Done == IPv4Filled(packet.ip, call.ip, IPv4Sum(call.ip))
TCPDone == TCPFilled(packet.tcp, call.tcp, SegmentSum(call.ip, call.tcp))
ICMPDone == ICMPFilled(packet.icmp, call.icmp, ICMPSum(call.icmp))
OGMDone == OGMBytes(packet.ogm) = OGMLayout(call.ogm)

(* The headers that are no longer to be filled in are those of the call.   *)
BuildsTCP ==
  /\ call \in TCPCalls
  /\ \/ todo = <<"ethernet", "ip", "tcp">>
     \/ todo = <<"ip", "tcp">> /\ EthernetDone
     \/ todo = <<"tcp">> /\ EthernetDone /\ IPv4Done
     \/ todo = <<>> /\ EthernetDone /\ IPv4Done /\ TCPDone

BuildsICMP ==
  /\ call \in ICMPCalls
  /\ \/ todo = <<"ethernet", "ip", "icmp">>
     \/ todo = <<"ip", "icmp">> /\ EthernetDone
     \/ todo = <<"icmp">> /\ EthernetDone /\ IPv4Done
     \/ todo = <<>> /\ EthernetDone /\ IPv4Done /\ ICMPDone

BuildsOGM ==
  /\ call \in OGMCalls
  /\ \/ todo = <<"ethernet", "ogm">>
     \/ todo = <<"ogm">> /\ EthernetDone
     \/ todo = <<>> /\ EthernetDone /\ OGMDone

SenderInv ==
  \/ call = NoCall /\ todo = <<>>
  \/ call \in Calls /\ (BuildsTCP \/ BuildsICMP \/ BuildsOGM)

PacketInv ==
  /\ DOMAIN packet = Layer
  /\ \A l \in Layer : Fits(packet[l], Widths[l])

AirInv == \A f \in air : f.call \in Calls /\ f.bytes = FrameOf(f.call)

(* As far as the buffer reaches it has the frame that came last, and the   *)
(* line was printed of it.                                                 *)
SnifferInv ==
  /\ reader \in {"DumpWiFiTraffic", "CapturePackets"}
  /\ shown.bytes \in Seq(Byte)
  /\ buffer \in IF reader = "DumpWiFiTraffic" THEN [1 .. BufferSize -> Byte]
                                               ELSE Seq(Byte)
  /\ shown.bytes # <<>> =>
       /\ shown.line = PrintPacketInfo(buffer)
       /\ \A i \in 1 .. Len(shown.bytes) : i <= BufferSize =>
            buffer[i] = shown.bytes[i]
       /\ Len(buffer) >= BufferSize

PacketsInv == SenderInv /\ PacketInv /\ AirInv /\ SnifferInv

-----------------------------------------------------------------------------
(* The calls                                                               *)

(* Which headers a packet has tells what kind of packet it is.             *)
LEMMA Domains ==
  /\ DOMAIN NoCall = {"none"}
  /\ \A c \in TCPCalls : DOMAIN c = {"zeroed", "ethernet", "ip", "tcp"}
  /\ \A c \in ICMPCalls : DOMAIN c = {"zeroed", "ethernet", "ip", "icmp"}
  /\ \A c \in OGMCalls : DOMAIN c = {"zeroed", "ethernet", "ogm"}
<1>1. DOMAIN NoCall = {"none"}
  BY DEF NoCall
<1>2. \A c \in TCPCalls : DOMAIN c = {"zeroed", "ethernet", "ip", "tcp"}
  BY DEF TCPCalls
<1>3. \A c \in ICMPCalls : DOMAIN c = {"zeroed", "ethernet", "ip", "icmp"}
  BY DEF ICMPCalls
<1>4. \A c \in OGMCalls : DOMAIN c = {"zeroed", "ethernet", "ogm"}
  BY DEF OGMCalls
<1> QED
  BY <1>1, <1>2, <1>3, <1>4

(* What the arguments of a packet can be.                                  *)
LEMMA Arguments ==
  /\ \A c \in TCPCalls :
       /\ c.ethernet \in EthernetParameters /\ c.ip \in IPv4Parameters
       /\ c.tcp \in TCPParameters /\ TCPArgumentsAllowed(c.tcp)
       /\ c.ip.protocol = IPPROTO_TCP
       /\ c.ip.packetLength = 20 + 20 + Len(c.tcp.options) + Len(c.tcp.data)
  /\ \A c \in ICMPCalls :
       /\ c.ethernet \in EthernetParameters /\ c.ip \in IPv4Parameters
       /\ c.icmp \in ICMPParameters /\ c.ip.packetLength = 20 + 8
  /\ \A c \in OGMCalls :
       c.ethernet \in EthernetParameters /\ c.ogm \in OGMParameters
<1>1. ASSUME NEW c \in TCPCalls
      PROVE  /\ c.ethernet \in EthernetParameters /\ c.ip \in IPv4Parameters
             /\ c.tcp \in TCPParameters /\ TCPArgumentsAllowed(c.tcp)
             /\ c.ip.protocol = IPPROTO_TCP
             /\ c.ip.packetLength = 20 + 20 + Len(c.tcp.options) + Len(c.tcp.data)
  <2>1. c \in [zeroed : BOOLEAN, ethernet : EthernetParameters, ip : IPv4Parameters,
               tcp : TCPParameters]
    BY DEF TCPCalls
  <2>2. /\ TCPArgumentsAllowed(c.tcp)
        /\ c.ip.protocol = IPPROTO_TCP
        /\ c.ip.packetLength = 20 + 20 + Len(c.tcp.options) + Len(c.tcp.data)
    BY DEF TCPCalls
  <2> QED
    BY ONLY <2>1, <2>2
<1>2. ASSUME NEW c \in ICMPCalls
      PROVE  /\ c.ethernet \in EthernetParameters /\ c.ip \in IPv4Parameters
             /\ c.icmp \in ICMPParameters /\ c.ip.packetLength = 20 + 8
  BY DEF ICMPCalls
<1>3. ASSUME NEW c \in OGMCalls
      PROVE  c.ethernet \in EthernetParameters /\ c.ogm \in OGMParameters
  BY DEF OGMCalls
<1> QED
  BY ONLY <1>1, <1>2, <1>3

(* The headers of each kind of packet.                                     *)
LEMMA LayersAre ==
  /\ \A c \in TCPCalls : Layers(c) = <<"ethernet", "ip", "tcp">>
  /\ \A c \in ICMPCalls : Layers(c) = <<"ethernet", "ip", "icmp">>
  /\ \A c \in OGMCalls : Layers(c) = <<"ethernet", "ogm">>
BY Domains DEF Layers

(* What is behind the Ethernet header of each kind of packet.              *)
LEMMA PayloadsAre ==
  /\ \A c \in TCPCalls : PayloadOf(c) = Datagram(c, TCPMessage(c))
  /\ \A c \in ICMPCalls : PayloadOf(c) = Datagram(c, ICMPMessage(c))
  /\ \A c \in OGMCalls : PayloadOf(c) = OGMLayout(c.ogm)
BY Domains DEF PayloadOf

(* The kinds of header.                                                    *)
LEMMA LayerIs == Layer = {"ethernet", "ip", "tcp", "icmp", "ogm"}
  BY DEF Layer, Widths

(* What is left to do after one header.                                    *)
LEMMA Lists ==
  \A a, b, c : /\ Head(<<a, b, c>>) = a /\ Tail(<<a, b, c>>) = <<b, c>>
               /\ Head(<<a, b>>) = a /\ Tail(<<a, b>>) = <<b>>
               /\ Head(<<a>>) = a /\ Tail(<<a>>) = <<>>
               /\ <<a, b, c>> # <<>> /\ <<a, b>> # <<>> /\ <<a>> # <<>>
OBVIOUS

-----------------------------------------------------------------------------
(* The initial states                                                      *)

(* A buffer fits before anything is filled in.                             *)
LEMMA BlankFits ==
  ASSUME NEW bit \in {0, 1}
  PROVE  LET m == [l \in Layer |-> Memory(Widths[l], bit)]
         IN  DOMAIN m = Layer /\ \A l \in Layer : Fits(m[l], Widths[l])
BY MemoryFits

(* The inductive invariant holds at the start ...                          *)
LEMMA PacketsInvInit == Init => PacketsInv
<1> SUFFICES ASSUME Init PROVE PacketsInv
  OBVIOUS
<1>1. SenderInv
  BY DEF Init, SenderInv
<1>2. PacketInv
  BY BlankFits DEF Init, PacketInv, NoPacket
<1>3. AirInv
  BY DEF Init, AirInv
<1>4. SnifferInv
  <2>1. PICK bit \in {0, 1} : buffer = [i \in 1 .. BufferSize |-> 255 * bit]
    BY DEF Init
  <2>2. 255 * bit \in Byte
    BY DEF Byte
  <2>3. buffer \in [1 .. BufferSize -> Byte]
    BY <2>1, <2>2
  <2>4. BufferSize \in Nat
    BY PacketsAssumption
  <2>5. buffer \in Seq(Byte)
    BY <2>3, <2>4, SeqDef
  <2>6. shown.bytes = <<>> /\ reader \in {"DumpWiFiTraffic", "CapturePackets"}
    BY DEF Init
  <2> QED
    BY <2>3, <2>5, <2>6 DEF SnifferInv
<1> QED
  BY <1>1, <1>2, <1>3, <1>4 DEF PacketsInv

-----------------------------------------------------------------------------
(* The steps of a sender                                                   *)

(* A step of a sender leaves the sniffer as it is.                         *)
LEMMA SnifferWaits ==
  ASSUME SnifferInv, UNCHANGED <<reader, buffer, shown>>
  PROVE  SnifferInv'
<1>1. reader' = reader /\ buffer' = buffer /\ shown' = shown
  OBVIOUS
<1>2. PrintPacketInfo(buffer)' = PrintPacketInfo(buffer)
  BY <1>1 DEF PrintPacketInfo, EthernetAt, GetType, UDPGet, UDPAt, TransportAt,
              EndPoint, IpToStr, LoadLong, LoadWord
<1> QED
  BY <1>1, <1>2 DEF SnifferInv

(* Filling in one header leaves the air, the sniffer and all other         *)
(* headers.                                                                *)
LEMMA FillKeeps ==
  ASSUME PacketsInv, NEW l \in Layer, NEW header, Fits(header, Widths[l]),
         Fill(l, header)
  PROVE  /\ PacketInv' /\ AirInv' /\ SnifferInv'
         /\ packet'[l] = header /\ \A k \in Layer : k # l => packet'[k] = packet[k]
         /\ call' = call /\ todo # <<>> /\ Head(todo) = l /\ todo' = Tail(todo)
<1>1. /\ packet' = [packet EXCEPT ![l] = header]
      /\ call' = call /\ todo # <<>> /\ Head(todo) = l /\ todo' = Tail(todo)
      /\ air' = air /\ UNCHANGED <<reader, buffer, shown>>
  BY DEF Fill
<1>2. DOMAIN packet = Layer /\ \A k \in Layer : Fits(packet[k], Widths[k])
  BY DEF PacketsInv, PacketInv
<1>3. /\ DOMAIN packet' = Layer /\ packet'[l] = header
      /\ \A k \in Layer : k # l => packet'[k] = packet[k]
  BY <1>1, <1>2
<1>4. PacketInv'
  BY <1>2, <1>3 DEF PacketInv
<1>5. AirInv'
  BY <1>1 DEF PacketsInv, AirInv
<1>6. SnifferInv'
  BY <1>1, SnifferWaits DEF PacketsInv
<1> QED
  BY <1>1, <1>3, <1>4, <1>5, <1>6

(* What is left to do, by what comes next.                                 *)
LEMMA NextHeader ==
  ASSUME SenderInv, todo # <<>>
  PROVE  /\ call \in Calls
         /\ Head(todo) = "ethernet" =>
              \/ call \in TCPCalls /\ Tail(todo) = <<"ip", "tcp">>
              \/ call \in ICMPCalls /\ Tail(todo) = <<"ip", "icmp">>
              \/ call \in OGMCalls /\ Tail(todo) = <<"ogm">>
         /\ Head(todo) = "ip" =>
              \/ call \in TCPCalls /\ EthernetDone /\ Tail(todo) = <<"tcp">>
              \/ call \in ICMPCalls /\ EthernetDone /\ Tail(todo) = <<"icmp">>
         /\ Head(todo) = "tcp" =>
              call \in TCPCalls /\ EthernetDone /\ IPv4Done /\ Tail(todo) = <<>>
         /\ Head(todo) = "icmp" =>
              call \in ICMPCalls /\ EthernetDone /\ IPv4Done /\ Tail(todo) = <<>>
         /\ Head(todo) = "ogm" =>
              call \in OGMCalls /\ EthernetDone /\ Tail(todo) = <<>>
<1>1. call \in Calls /\ (BuildsTCP \/ BuildsICMP \/ BuildsOGM)
  BY DEF SenderInv
<1>2. CASE BuildsTCP
  <2>1. call \in TCPCalls
    BY <1>2 DEF BuildsTCP
  <2>2. CASE todo = <<"ethernet", "ip", "tcp">>
    BY <1>1, <2>1, <2>2, Lists
  <2>3. CASE todo = <<"ip", "tcp">> /\ EthernetDone
    BY <1>1, <2>1, <2>3, Lists
  <2>4. CASE todo = <<"tcp">> /\ EthernetDone /\ IPv4Done
    BY <1>1, <2>1, <2>4, Lists
  <2> QED
    BY <1>2, <2>2, <2>3, <2>4 DEF BuildsTCP
<1>3. CASE BuildsICMP
  <2>1. call \in ICMPCalls
    BY <1>3 DEF BuildsICMP
  <2>2. CASE todo = <<"ethernet", "ip", "icmp">>
    BY <1>1, <2>1, <2>2, Lists
  <2>3. CASE todo = <<"ip", "icmp">> /\ EthernetDone
    BY <1>1, <2>1, <2>3, Lists
  <2>4. CASE todo = <<"icmp">> /\ EthernetDone /\ IPv4Done
    BY <1>1, <2>1, <2>4, Lists
  <2> QED
    BY <1>3, <2>2, <2>3, <2>4 DEF BuildsICMP
<1>4. CASE BuildsOGM
  <2>1. call \in OGMCalls
    BY <1>4 DEF BuildsOGM
  <2>2. CASE todo = <<"ethernet", "ogm">>
    BY <1>1, <2>1, <2>2, Lists
  <2>3. CASE todo = <<"ogm">> /\ EthernetDone
    BY <1>1, <2>1, <2>3, Lists
  <2> QED
    BY <1>4, <2>2, <2>3 DEF BuildsOGM
<1> QED
  BY <1>1, <1>2, <1>3, <1>4

(* ... every step keeps it: a buffer on the stack, whatever is in it,      *)
LEMMA BeginStep == ASSUME PacketsInv, Begin PROVE PacketsInv'
<1>1. /\ call' \in Calls /\ todo' = Layers(call')
      /\ air' = air /\ UNCHANGED <<reader, buffer, shown>>
  BY DEF Begin
<1>2. PICK bit \in {0, 1} : packet' = [l \in Layer |-> Memory(Widths[l], bit)]
  BY DEF Begin
<1>3. PacketInv'
  BY <1>2, BlankFits DEF PacketInv
<1>4. SenderInv'
  <2>1. call' \in TCPCalls \/ call' \in ICMPCalls \/ call' \in OGMCalls
    BY <1>1, PacketsAssumption
  <2>2. CASE call' \in TCPCalls
    BY <1>1, <2>2, LayersAre DEF SenderInv, BuildsTCP
  <2>3. CASE call' \in ICMPCalls
    BY <1>1, <2>3, LayersAre DEF SenderInv, BuildsICMP
  <2>4. CASE call' \in OGMCalls
    BY <1>1, <2>4, LayersAre DEF SenderInv, BuildsOGM
  <2> QED
    BY <2>1, <2>2, <2>3, <2>4
<1>5. AirInv'
  BY <1>1 DEF PacketsInv, AirInv
<1>6. SnifferInv'
  BY <1>1, SnifferWaits DEF PacketsInv
<1> QED
  BY <1>3, <1>4, <1>5, <1>6 DEF PacketsInv

(* the Ethernet header, which always comes first,                          *)
LEMMA EthernetStep == ASSUME PacketsInv, FillEthernet PROVE PacketsInv'
<1> DEFINE e == initEthernetHeader(packet.ethernet, call.ethernet)
<1>1. Fill("ethernet", e) /\ todo # <<>> /\ Head(todo) = "ethernet" /\ SenderInv
  BY DEF FillEthernet, Fill, PacketsInv
<1>2. /\ call \in Calls
      /\ \/ call \in TCPCalls /\ Tail(todo) = <<"ip", "tcp">>
         \/ call \in ICMPCalls /\ Tail(todo) = <<"ip", "icmp">>
         \/ call \in OGMCalls /\ Tail(todo) = <<"ogm">>
  BY <1>1, NextHeader
<1>3. call.ethernet \in EthernetParameters
  BY <1>2, Arguments
<1>4. "ethernet" \in Layer /\ Widths["ethernet"] = EthernetWidths
  BY LayerIs DEF Widths
<1>5. DOMAIN packet.ethernet = DOMAIN EthernetWidths
  BY <1>4 DEF PacketsInv, PacketInv, Fits
<1>6. EthernetBytes(e) = EthernetLayout(call.ethernet) /\ Fits(e, EthernetWidths)
  BY <1>3, <1>5, EthernetFits
<1> HIDE DEF e
<1>7. /\ PacketInv' /\ AirInv' /\ SnifferInv' /\ packet'["ethernet"] = e
      /\ call' = call /\ todo' = Tail(todo)
  BY <1>1, <1>4, <1>6, FillKeeps
<1>8. EthernetDone'
  BY <1>6, <1>7 DEF EthernetDone
<1>9. SenderInv'
  <2>1. CASE call \in TCPCalls /\ Tail(todo) = <<"ip", "tcp">>
    BY <1>2, <1>7, <1>8, <2>1 DEF SenderInv, BuildsTCP
  <2>2. CASE call \in ICMPCalls /\ Tail(todo) = <<"ip", "icmp">>
    BY <1>2, <1>7, <1>8, <2>2 DEF SenderInv, BuildsICMP
  <2>3. CASE call \in OGMCalls /\ Tail(todo) = <<"ogm">>
    BY <1>2, <1>7, <1>8, <2>3 DEF SenderInv, BuildsOGM
  <2> QED
    BY <1>2, <2>1, <2>2, <2>3
<1> QED
  BY <1>7, <1>9 DEF PacketsInv

(* What has been filled in is not touched again.                           *)
LEMMA EthernetStays ==
  ASSUME EthernetDone, packet'["ethernet"] = packet["ethernet"], call' = call
  PROVE  EthernetDone'
BY DEF EthernetDone

(* the IP header,                                                          *)
LEMMA IPv4Step == ASSUME PacketsInv, FillIPv4 PROVE PacketsInv'
<1> DEFINE i == initIPv4Header(packet.ip, call.ip)
<1>1. Fill("ip", i) /\ todo # <<>> /\ Head(todo) = "ip" /\ SenderInv
  BY DEF FillIPv4, Fill, PacketsInv
<1>2. /\ call \in Calls /\ EthernetDone
      /\ \/ call \in TCPCalls /\ Tail(todo) = <<"tcp">>
         \/ call \in ICMPCalls /\ Tail(todo) = <<"icmp">>
  BY <1>1, NextHeader
<1>3. call.ip \in IPv4Parameters
  BY <1>2, Arguments
<1>4. "ip" \in Layer /\ "ethernet" \in Layer /\ Widths["ip"] = IPv4Widths
  BY LayerIs DEF Widths
<1>5. IPv4Filled(i, call.ip, IPv4Sum(call.ip))
  BY <1>3, IPv4Fits DEF IPv4Sum
<1>6. Fits(i, IPv4Widths)
  BY <1>3, <1>5, IPv4AddsUp, IPv4FilledFits
<1> HIDE DEF i
<1>7. /\ PacketInv' /\ AirInv' /\ SnifferInv' /\ packet'["ip"] = i
      /\ packet'["ethernet"] = packet["ethernet"]
      /\ call' = call /\ todo' = Tail(todo)
  BY <1>1, <1>4, <1>6, FillKeeps
<1>8. EthernetDone' /\ IPv4Done'
  BY <1>2, <1>5, <1>7, EthernetStays DEF IPv4Done
<1>9. SenderInv'
  <2>1. CASE call \in TCPCalls /\ Tail(todo) = <<"tcp">>
    BY <1>2, <1>7, <1>8, <2>1 DEF SenderInv, BuildsTCP
  <2>2. CASE call \in ICMPCalls /\ Tail(todo) = <<"icmp">>
    BY <1>2, <1>7, <1>8, <2>2 DEF SenderInv, BuildsICMP
  <2> QED
    BY <1>2, <2>1, <2>2
<1> QED
  BY <1>7, <1>9 DEF PacketsInv

(* the TCP header, whose checksum reads addresses of the IP header,        *)
LEMMA TCPStep == ASSUME PacketsInv, FillTCP PROVE PacketsInv'
<1> DEFINE t == initTCPHeader(packet.tcp, packet.ip, call.tcp)
<1>1. Fill("tcp", t) /\ todo # <<>> /\ Head(todo) = "tcp" /\ SenderInv
  BY DEF FillTCP, Fill, PacketsInv
<1>2. /\ call \in Calls /\ call \in TCPCalls /\ EthernetDone /\ IPv4Done
      /\ Tail(todo) = <<>>
  BY <1>1, NextHeader
<1>3. /\ call.ip \in IPv4Parameters /\ call.tcp \in TCPParameters
      /\ TCPArgumentsAllowed(call.tcp)
  BY <1>2, Arguments
<1>4. /\ "tcp" \in Layer /\ "ip" \in Layer /\ "ethernet" \in Layer
      /\ Widths["tcp"] = TCPWidths
  BY LayerIs DEF Widths
<1>5. TCPFilled(t, call.tcp, SegmentSum(call.ip, call.tcp))
  BY <1>2, <1>3, TCPFits DEF IPv4Done
<1>6. Fits(t, TCPWidths)
  BY <1>3, <1>5, SegmentAddsUp, TCPFilledFits
<1> HIDE DEF t
<1>7. /\ PacketInv' /\ AirInv' /\ SnifferInv' /\ packet'["tcp"] = t
      /\ packet'["ethernet"] = packet["ethernet"] /\ packet'["ip"] = packet["ip"]
      /\ call' = call /\ todo' = Tail(todo)
  BY <1>1, <1>4, <1>6, FillKeeps
<1>8. EthernetDone' /\ IPv4Done' /\ TCPDone'
  BY <1>2, <1>5, <1>7, EthernetStays DEF IPv4Done, TCPDone
<1>9. SenderInv'
  BY <1>2, <1>7, <1>8 DEF SenderInv, BuildsTCP
<1> QED
  BY <1>7, <1>9 DEF PacketsInv

(* the ICMP header,                                                        *)
LEMMA ICMPStep == ASSUME PacketsInv, FillICMP PROVE PacketsInv'
<1> DEFINE i == initICMPHeader(packet.icmp, call.icmp)
<1>1. Fill("icmp", i) /\ todo # <<>> /\ Head(todo) = "icmp" /\ SenderInv
  BY DEF FillICMP, Fill, PacketsInv
<1>2. /\ call \in Calls /\ call \in ICMPCalls /\ EthernetDone /\ IPv4Done
      /\ Tail(todo) = <<>>
  BY <1>1, NextHeader
<1>3. call.icmp \in ICMPParameters
  BY <1>2, Arguments
<1>4. /\ "icmp" \in Layer /\ "ip" \in Layer /\ "ethernet" \in Layer
      /\ Widths["icmp"] = ICMPWidths
  BY LayerIs DEF Widths
<1>5. ICMPFilled(i, call.icmp, ICMPSum(call.icmp))
  BY <1>3, ICMPFits DEF ICMPSum
<1>6. Fits(i, ICMPWidths)
  BY <1>3, <1>5, ICMPAddsUp, ICMPFilledFits
<1> HIDE DEF i
<1>7. /\ PacketInv' /\ AirInv' /\ SnifferInv' /\ packet'["icmp"] = i
      /\ packet'["ethernet"] = packet["ethernet"] /\ packet'["ip"] = packet["ip"]
      /\ call' = call /\ todo' = Tail(todo)
  BY <1>1, <1>4, <1>6, FillKeeps
<1>8. EthernetDone' /\ IPv4Done' /\ ICMPDone'
  BY <1>2, <1>5, <1>7, EthernetStays DEF IPv4Done, ICMPDone
<1>9. SenderInv'
  BY <1>2, <1>7, <1>8 DEF SenderInv, BuildsICMP
<1> QED
  BY <1>7, <1>9 DEF PacketsInv

(* the OGM,                                                                *)
LEMMA OGMStep == ASSUME PacketsInv, FillOGM PROVE PacketsInv'
<1> DEFINE o == initOGMHeader(packet.ogm, call.ogm)
<1>1. Fill("ogm", o) /\ todo # <<>> /\ Head(todo) = "ogm" /\ SenderInv
  BY DEF FillOGM, Fill, PacketsInv
<1>2. call \in Calls /\ call \in OGMCalls /\ EthernetDone /\ Tail(todo) = <<>>
  BY <1>1, NextHeader
<1>3. call.ogm \in OGMParameters
  BY <1>2, Arguments
<1>4. "ogm" \in Layer /\ "ethernet" \in Layer /\ Widths["ogm"] = OGMWidths
  BY LayerIs DEF Widths
<1>5. DOMAIN packet.ogm = DOMAIN OGMWidths
  BY <1>4 DEF PacketsInv, PacketInv, Fits
<1>6. OGMBytes(o) = OGMLayout(call.ogm) /\ Fits(o, OGMWidths)
  BY <1>3, <1>5, OGMFits
<1> HIDE DEF o
<1>7. /\ PacketInv' /\ AirInv' /\ SnifferInv' /\ packet'["ogm"] = o
      /\ packet'["ethernet"] = packet["ethernet"]
      /\ call' = call /\ todo' = Tail(todo)
  BY <1>1, <1>4, <1>6, FillKeeps
<1>8. EthernetDone' /\ OGMDone'
  BY <1>2, <1>6, <1>7, EthernetStays DEF OGMDone
<1>9. SenderInv'
  BY <1>2, <1>7, <1>8 DEF SenderInv, BuildsOGM
<1> QED
  BY <1>7, <1>9 DEF PacketsInv

(* A datagram in a frame, put together from the left.                      *)
FromLeft(I, T, O, D) == I \o T \o O \o D = I \o (T \o O \o D)

(* Where the brackets are does not matter.                                 *)
LEMMA FromTheLeft ==
  ASSUME NEW I \in Seq(Byte), NEW T \in Seq(Byte), NEW O \in Seq(Byte),
         NEW D \in Seq(Byte)
  PROVE  FromLeft(I, T, O, D)
<1> DEFINE u == T \o O
<1>1. u \in Seq(Byte)
  BY ConcatProperties
<1>2. I \o T \o O = I \o u
  BY ConcatAssociative, SMTT(30)
<1> HIDE DEF u
<1>3. (I \o u) \o D = I \o (u \o D)
  BY <1>1, ConcatAssociative, SMTT(30)
<1> QED
  BY <1>2, <1>3, Zenon DEF u, FromLeft

(* What is sent when all headers are filled in.                            *)
LEMMA Finished ==
  ASSUME PacketsInv, call # NoCall, todo = <<>>
  PROVE  call \in Calls /\ PacketBytes = FrameOf(call)
<1>1. call \in Calls /\ (BuildsTCP \/ BuildsICMP \/ BuildsOGM)
  BY DEF PacketsInv, SenderInv
<1> DEFINE rest ==
             CASE "tcp" \in DOMAIN call ->
                    IPv4Bytes(packet.ip) \o TCPBytes(packet.tcp)
                      \o call.tcp.options \o call.tcp.data
               [] "icmp" \in DOMAIN call -> IPv4Bytes(packet.ip) \o ICMPBytes(packet.icmp)
               [] "ogm" \in DOMAIN call -> OGMBytes(packet.ogm)
<1>2. PacketBytes = EthernetBytes(packet.ethernet) \o rest
  BY DEF PacketBytes
<1>3. EthernetDone /\ rest = PayloadOf(call)
  <2>1. CASE BuildsTCP
    <3>1. call \in TCPCalls /\ EthernetDone /\ IPv4Done /\ TCPDone
      BY <2>1, Lists DEF BuildsTCP
    <3>2. /\ call.ip \in IPv4Parameters /\ call.tcp \in TCPParameters
          /\ TCPArgumentsAllowed(call.tcp)
      BY <3>1, Arguments
    <3> DEFINE I == IPv4Layout(call.ip, IPv4Sum(call.ip))
               T == TCPLayout(call.tcp, SegmentSum(call.ip, call.tcp))
    <3>3. IPv4Bytes(packet.ip) = I /\ TCPBytes(packet.tcp) = T
      BY <3>1, <3>2, IPv4FilledBytes, TCPFilledBytes DEF IPv4Done, TCPDone
    <3>4. rest = IPv4Bytes(packet.ip) \o TCPBytes(packet.tcp)
                   \o call.tcp.options \o call.tcp.data
      BY <3>1, Domains
    <3>5. I \in Seq(Byte) /\ T \in Seq(Byte)
      BY <3>2, IPv4AddsUp, IPv4LayoutBytes, SegmentAddsUp, TCPLayoutBytes
    <3>6. call.tcp.options \in Seq(Byte) /\ call.tcp.data \in Seq(Byte)
      BY <3>2 DEF TCPParameters
    <3>7. PayloadOf(call) = I \o (T \o call.tcp.options \o call.tcp.data)
      BY <3>1, PayloadsAre DEF Datagram, TCPMessage
    <3> HIDE DEF I, T, rest
    <3>8. FromLeft(I, T, call.tcp.options, call.tcp.data)
      BY <3>5, <3>6, FromTheLeft
    <3>9. I \o T \o call.tcp.options \o call.tcp.data
            = I \o (T \o call.tcp.options \o call.tcp.data)
      BY ONLY <3>8, Zenon DEF FromLeft
    <3> QED
      BY <3>1, <3>3, <3>4, <3>7, <3>9
  <2>2. CASE BuildsICMP
    <3>1. call \in ICMPCalls /\ EthernetDone /\ IPv4Done /\ ICMPDone
      BY <2>2, Lists DEF BuildsICMP
    <3>2. call.ip \in IPv4Parameters /\ call.icmp \in ICMPParameters
      BY <3>1, Arguments
    <3>3. /\ IPv4Bytes(packet.ip) = IPv4Layout(call.ip, IPv4Sum(call.ip))
          /\ ICMPBytes(packet.icmp) = ICMPLayout(call.icmp, ICMPSum(call.icmp))
      BY <3>1, <3>2, IPv4FilledBytes, ICMPFilledBytes DEF IPv4Done, ICMPDone
    <3>4. rest = IPv4Bytes(packet.ip) \o ICMPBytes(packet.icmp)
      <4>1. /\ "tcp" \notin DOMAIN call /\ "icmp" \in DOMAIN call
            /\ "ogm" \notin DOMAIN call
        BY <3>1, Domains
      <4> QED
        BY ONLY <4>1
    <3>5. PayloadOf(call) = Datagram(call, ICMPMessage(call))
      BY <3>1, PayloadsAre
    <3> HIDE DEF rest
    <3> QED
      BY <3>1, <3>3, <3>4, <3>5 DEF Datagram, ICMPMessage
  <2>3. CASE BuildsOGM
    <3>1. call \in OGMCalls /\ EthernetDone /\ OGMDone
      BY <2>3, Lists DEF BuildsOGM
    <3>2. rest = OGMBytes(packet.ogm) /\ PayloadOf(call) = OGMLayout(call.ogm)
      BY <3>1, Domains, PayloadsAre
    <3> HIDE DEF rest
    <3> QED
      BY <3>1, <3>2 DEF OGMDone
  <2> QED
    BY <1>1, <2>1, <2>2, <2>3
<1> HIDE DEF rest
<1> QED
  BY <1>1, <1>2, <1>3 DEF FrameOf, EthernetDone

(* sendto(): what goes on the air is FrameOf the packet,                   *)
LEMMA SendStep == ASSUME PacketsInv, Send PROVE PacketsInv'
<1>1. /\ call # NoCall /\ todo = <<>>
      /\ air' = air \cup {[call |-> call, bytes |-> PacketBytes]}
      /\ call' = NoCall /\ packet' = NoPacket
      /\ UNCHANGED <<todo, reader, buffer, shown>>
  BY DEF Send
<1>2. SenderInv'
  BY <1>1 DEF SenderInv
<1>3. PacketInv'
  BY <1>1, BlankFits DEF PacketInv, NoPacket
<1>4. AirInv'
  BY <1>1, Finished DEF PacketsInv, AirInv
<1>5. SnifferInv'
  BY <1>1, SnifferWaits DEF PacketsInv
<1> QED
  BY <1>2, <1>3, <1>4, <1>5 DEF PacketsInv

-----------------------------------------------------------------------------
(* The frames are made of bytes                                            *)

(* The parts of the frame of a TCP segment are bytes, so many of them.     *)
LEMMA TCPFrame ==
  ASSUME NEW c \in TCPCalls
  PROVE  /\ EthernetLayout(c.ethernet) \in Seq(Byte)
         /\ Len(EthernetLayout(c.ethernet)) = 14
         /\ IPv4Layout(c.ip, IPv4Sum(c.ip)) \in Seq(Byte)
         /\ Len(IPv4Layout(c.ip, IPv4Sum(c.ip))) = 20
         /\ TCPLayout(c.tcp, SegmentSum(c.ip, c.tcp)) \in Seq(Byte)
         /\ Len(TCPLayout(c.tcp, SegmentSum(c.ip, c.tcp))) = 20
         /\ c.tcp.options \in Seq(Byte) /\ c.tcp.data \in Seq(Byte)
<1>1. /\ c.ethernet \in EthernetParameters /\ c.ip \in IPv4Parameters
      /\ c.tcp \in TCPParameters /\ TCPArgumentsAllowed(c.tcp)
  BY Arguments
<1>2. c.tcp.options \in Seq(Byte) /\ c.tcp.data \in Seq(Byte)
  BY <1>1 DEF TCPParameters
<1>3. /\ IPv4Sum(c.ip) \in Nat /\ IPv4Sum(c.ip) <= 65535
      /\ SegmentSum(c.ip, c.tcp) \in Nat /\ SegmentSum(c.ip, c.tcp) <= 65535
  BY <1>1, IPv4AddsUp, SegmentAddsUp
<1> QED
  BY <1>1, <1>2, <1>3, EthernetLayoutBytes, IPv4LayoutBytes, TCPLayoutBytes

(* ... of a ping ...                                                       *)
LEMMA ICMPFrame ==
  ASSUME NEW c \in ICMPCalls
  PROVE  /\ EthernetLayout(c.ethernet) \in Seq(Byte)
         /\ Len(EthernetLayout(c.ethernet)) = 14
         /\ IPv4Layout(c.ip, IPv4Sum(c.ip)) \in Seq(Byte)
         /\ Len(IPv4Layout(c.ip, IPv4Sum(c.ip))) = 20
         /\ ICMPMessage(c) \in Seq(Byte) /\ Len(ICMPMessage(c)) = 8
<1>1. /\ c.ethernet \in EthernetParameters /\ c.ip \in IPv4Parameters
      /\ c.icmp \in ICMPParameters
  BY Arguments
<1>2. /\ IPv4Sum(c.ip) \in Nat /\ IPv4Sum(c.ip) <= 65535
      /\ ICMPSum(c.icmp) \in Nat /\ ICMPSum(c.icmp) <= 65535
  BY <1>1, IPv4AddsUp, ICMPAddsUp
<1> QED
  BY <1>1, <1>2, EthernetLayoutBytes, IPv4LayoutBytes, ICMPLayoutBytes DEF ICMPMessage

(* ... and of an OGM.                                                      *)
LEMMA OGMFrame ==
  ASSUME NEW c \in OGMCalls
  PROVE  /\ EthernetLayout(c.ethernet) \in Seq(Byte)
         /\ Len(EthernetLayout(c.ethernet)) = 14
         /\ OGMLayout(c.ogm) \in Seq(Byte) /\ Len(OGMLayout(c.ogm)) = 24
BY Arguments, EthernetLayoutBytes, OGMLayoutBytes

(* The message behind the IP header of a TCP segment.                      *)
LEMMA TCPMessageBytes ==
  ASSUME NEW c \in TCPCalls
  PROVE  /\ TCPMessage(c) \in Seq(Byte)
         /\ Len(TCPMessage(c)) = 20 + Len(c.tcp.options) + Len(c.tcp.data)
         /\ \A i \in 1 .. 20 :
              TCPMessage(c)[i] = TCPLayout(c.tcp, SegmentSum(c.ip, c.tcp))[i]
<1> DEFINE T == TCPLayout(c.tcp, SegmentSum(c.ip, c.tcp))
           O == c.tcp.options
           D == c.tcp.data
           n == Len(O)
           m == Len(D)
           u == T \o O
           v == u \o D
<1>1. T \in Seq(Byte) /\ Len(T) = 20 /\ O \in Seq(Byte) /\ D \in Seq(Byte)
  BY TCPFrame
<1>2. n \in Nat /\ m \in Nat
  BY <1>1, LenProperties
<1>3. TCPMessage(c) = v
  BY DEF TCPMessage
<1> HIDE DEF T, O, D
<1>4. Joined(u, T, 20, O, n)
  BY <1>1, <1>2, JoinedAt
<1>5. u \in Seq(Byte) /\ Len(u) = 20 + n /\ 20 + n \in Nat
  BY <1>2, <1>4 DEF Joined
<1>6. \A i \in 1 .. 20 : u[i] = T[i]
  BY <1>4 DEF Joined
<1> HIDE DEF u, n, m
<1>7. Joined(v, u, 20 + n, D, m)
  BY <1>1, <1>2, <1>5, JoinedAt DEF m
<1>8. v \in Seq(Byte) /\ Len(v) = 20 + n + m /\ \A i \in 1 .. 20 + n : v[i] = u[i]
  BY <1>7 DEF Joined
<1> HIDE DEF v
<1>9. \A i \in 1 .. 20 : v[i] = T[i]
  <2> TAKE i \in 1 .. 20
  <2>1. i \in 1 .. 20 + n
    BY <1>2
  <2> QED
    BY <1>6, <1>8, <2>1
<1>10. Len(v) = 20 + Len(c.tcp.options) + Len(c.tcp.data)
  BY ONLY <1>8 DEF n, m, O, D
<1>11. \A i \in 1 .. 20 : v[i] = TCPLayout(c.tcp, SegmentSum(c.ip, c.tcp))[i]
  BY ONLY <1>9 DEF T
<1> QED
  BY ONLY <1>3, <1>8, <1>10, <1>11

(* The frame of a call with an IP header.                                  *)
LEMMA DatagramBytes ==
  ASSUME NEW c, NEW R \in Seq(Byte),
         EthernetLayout(c.ethernet) \in Seq(Byte), IPv4Layout(c.ip, IPv4Sum(c.ip)) \in Seq(Byte)
  PROVE  EthernetLayout(c.ethernet) \o Datagram(c, R) \in Seq(Byte)
BY ConcatProperties DEF Datagram

(* Every frame of a sender is made of bytes.                               *)
LEMMA FrameBytes ==
  ASSUME NEW c \in Calls
  PROVE  FrameOf(c) \in Seq(Byte)
<1>1. CASE c \in TCPCalls
  BY <1>1, TCPFrame, TCPMessageBytes, DatagramBytes, PayloadsAre DEF FrameOf
<1>2. CASE c \in ICMPCalls
  BY <1>2, ICMPFrame, DatagramBytes, PayloadsAre DEF FrameOf
<1>3. CASE c \in OGMCalls
  <2>1. PayloadOf(c) = OGMLayout(c.ogm)
    BY <1>3, PayloadsAre
  <2> QED
    BY <1>3, <2>1, OGMFrame, ConcatProperties DEF FrameOf
<1> QED
  BY <1>1, <1>2, <1>3, PacketsAssumption

-----------------------------------------------------------------------------
(* The steps of the sniffer                                                *)

(* ... and so is everything on the air.                                    *)
LEMMA BytesOnTheAir ==
  ASSUME AirInv, NEW b \in OnTheAir
  PROVE  b \in Seq(Byte)
BY FrameBytes, PacketsAssumption DEF AirInv, OnTheAir

(* A step of the sniffer leaves the sender as it is.                       *)
LEMMA SenderWaits ==
  ASSUME PacketsInv, UNCHANGED <<call, todo, packet, air>>
  PROVE  SenderInv' /\ PacketInv' /\ AirInv'
<1>1. call' = call /\ todo' = todo /\ packet' = packet /\ air' = air
  OBVIOUS
<1>2. SenderInv'
  BY <1>1 DEF PacketsInv, SenderInv, BuildsTCP, BuildsICMP, BuildsOGM,
              EthernetDone, IPv4Done, TCPDone, ICMPDone, OGMDone
<1>3. PacketInv' /\ AirInv'
  BY <1>1 DEF PacketsInv, PacketInv, AirInv
<1> QED
  BY <1>2, <1>3

(* recvfrom(), with what is left of an earlier frame behind this one,      *)
LEMMA ReceiveStep == ASSUME PacketsInv, Receive PROVE PacketsInv'
<1>1. PICK b \in OnTheAir : buffer' = ReceivedInto(b) /\ Shows(b)
  BY DEF Receive
<1>2. /\ shown'.bytes = b /\ shown'.line = PrintPacketInfo(buffer')
      /\ UNCHANGED <<call, todo, packet, air>> /\ reader' = reader
      /\ reader = "DumpWiFiTraffic"
  BY <1>1 DEF Shows, Receive
<1>3. b \in Seq(Byte)
  BY BytesOnTheAir DEF PacketsInv
<1>4. buffer' = [i \in 1 .. BufferSize |-> IF i <= Len(b) THEN b[i] ELSE buffer[i]]
  BY <1>1 DEF ReceivedInto
<1>5. buffer \in [1 .. BufferSize -> Byte] /\ BufferSize \in Nat
  BY <1>2, PacketsAssumption DEF PacketsInv, SnifferInv
<1>6. Len(b) \in Nat /\ \A i \in 1 .. Len(b) : b[i] \in Byte
  BY <1>3, LenProperties, ElementOfSeq
<1>7. buffer' \in [1 .. BufferSize -> Byte]
  <2>1. ASSUME NEW i \in 1 .. BufferSize
        PROVE  (IF i <= Len(b) THEN b[i] ELSE buffer[i]) \in Byte
    BY <1>5, <1>6
  <2> QED
    BY <1>4, <2>1
<1>8. \A i \in 1 .. Len(b) : i <= BufferSize => buffer'[i] = b[i]
  BY <1>4, <1>5, <1>6
<1>9. Len(buffer') >= BufferSize
  <2>1. buffer' \in Seq(Byte) /\ Len(buffer') = BufferSize
    BY <1>5, <1>7, SeqDef, LenProperties
  <2> QED
    BY <1>5, <2>1
<1>10. SnifferInv'
  BY <1>2, <1>3, <1>7, <1>8, <1>9 DEF SnifferInv
<1> QED
  BY <1>2, <1>10, SenderWaits DEF PacketsInv

(* pcap_loop(), with whatever is behind the frame.                         *)
LEMMA CaptureStep == ASSUME PacketsInv, Capture PROVE PacketsInv'
<1>1. PICK b \in OnTheAir, bit \in {0, 1} :
        buffer' = b \o [i \in 1 .. BufferSize |-> 255 * bit] /\ Shows(b)
  BY DEF Capture
<1> DEFINE t == [i \in 1 .. BufferSize |-> 255 * bit]
           x == b \o t
<1>2. /\ shown'.bytes = b /\ shown'.line = PrintPacketInfo(buffer')
      /\ UNCHANGED <<call, todo, packet, air>> /\ reader' = reader
      /\ reader = "CapturePackets" /\ buffer' = x
  BY <1>1 DEF Shows, Capture
<1>3. b \in Seq(Byte) /\ Len(b) \in Nat /\ BufferSize \in Nat
  BY BytesOnTheAir, LenProperties, PacketsAssumption DEF PacketsInv
<1>4. t \in Seq(Byte) /\ Len(t) = BufferSize
  <2>1. 255 * bit \in Byte
    BY DEF Byte
  <2>2. t \in [1 .. BufferSize -> Byte]
    BY <2>1
  <2> HIDE DEF t
  <2> QED
    BY <1>3, <2>2, SeqDef, LenProperties
<1> HIDE DEF t
<1>5. Joined(x, b, Len(b), t, BufferSize)
  BY <1>3, <1>4, JoinedAt
<1> HIDE DEF x
<1>6. /\ buffer' \in Seq(Byte)
      /\ \A i \in 1 .. Len(b) : buffer'[i] = b[i]
      /\ Len(buffer') = Len(b) + BufferSize
  BY <1>2, <1>5 DEF Joined
<1>7. Len(buffer') >= BufferSize
  BY <1>3, <1>6
<1>8. SnifferInv'
  BY <1>2, <1>3, <1>6, <1>7 DEF SnifferInv
<1> QED
  BY <1>2, <1>8, SenderWaits DEF PacketsInv

(* All steps keep the inductive invariant.                                 *)
LEMMA PacketsInvNext == PacketsInv /\ [Next]_vars => PacketsInv'
<1> SUFFICES ASSUME PacketsInv, [Next]_vars PROVE PacketsInv'
  OBVIOUS
<1>1. CASE Begin
  BY <1>1, BeginStep
<1>2. CASE FillEthernet
  BY <1>2, EthernetStep
<1>3. CASE FillIPv4
  BY <1>3, IPv4Step
<1>4. CASE FillTCP
  BY <1>4, TCPStep
<1>5. CASE FillICMP
  BY <1>5, ICMPStep
<1>6. CASE FillOGM
  BY <1>6, OGMStep
<1>7. CASE Send
  BY <1>7, SendStep
<1>8. CASE Receive
  BY <1>8, ReceiveStep
<1>9. CASE Capture
  BY <1>9, CaptureStep
<1>10. CASE UNCHANGED vars
  BY <1>10, SenderWaits, SnifferWaits DEF vars, PacketsInv
<1> QED
  BY <1>1, <1>2, <1>3, <1>4, <1>5, <1>6, <1>7, <1>8, <1>9, <1>10 DEF Next

(* So it holds of every reachable state.                                   *)
LEMMA PacketsInvHolds == Spec => []PacketsInv
  BY PacketsInvInit, PacketsInvNext, PTL DEF Spec

(* src/Networking/Headers: no setter, given what its parameter allows,     *)
(* puts more into a bit-field or an integer of a header than it has room   *)
(* for; and what is sent, and what a sniffer has in its buffer, is bytes.  *)
(* For every set of packets, every content of the buffer before, and all   *)
(* frames of other machines.                                               *)
THEOREM FieldsStayApart == Spec => []PacketsTypeOK
<1>1. PacketsInv => PacketsTypeOK
  <2> SUFFICES ASSUME PacketsInv PROVE PacketsTypeOK
    OBVIOUS
  <2>1. call \in Calls \cup {NoCall}
    BY DEF PacketsInv, SenderInv
  <2>2. todo \in Seq(Layer)
    <3>1. /\ "ethernet" \in Layer /\ "ip" \in Layer /\ "tcp" \in Layer
          /\ "icmp" \in Layer /\ "ogm" \in Layer
      BY LayerIs
    <3>2. \A a, b, c \in Layer :
            /\ <<a, b, c>> \in Seq(Layer) /\ <<a, b>> \in Seq(Layer)
            /\ <<a>> \in Seq(Layer) /\ <<>> \in Seq(Layer)
      OBVIOUS
    <3>3. /\ <<"ethernet", "ip", "tcp">> \in Seq(Layer)
          /\ <<"ip", "tcp">> \in Seq(Layer) /\ <<"tcp">> \in Seq(Layer)
          /\ <<"ethernet", "ip", "icmp">> \in Seq(Layer)
          /\ <<"ip", "icmp">> \in Seq(Layer) /\ <<"icmp">> \in Seq(Layer)
          /\ <<"ethernet", "ogm">> \in Seq(Layer) /\ <<"ogm">> \in Seq(Layer)
          /\ <<>> \in Seq(Layer)
      BY <3>1, <3>2
    <3>4. SenderInv
      BY DEF PacketsInv
    <3> QED
      BY <3>3, <3>4, Zenon DEF SenderInv, BuildsTCP, BuildsICMP, BuildsOGM
  <2>3. \A l \in Layer : Fits(packet[l], Widths[l])
    BY DEF PacketsInv, PacketInv
  <2>4. \A f \in air : f.call \in Calls /\ f.bytes \in Seq(Byte)
    BY FrameBytes DEF PacketsInv, AirInv
  <2>5. buffer \in IF reader = "DumpWiFiTraffic" THEN [1 .. BufferSize -> Byte]
                                                  ELSE Seq(Byte)
    BY DEF PacketsInv, SnifferInv
  <2> QED
    BY <2>1, <2>2, <2>3, <2>4, <2>5 DEF PacketsTypeOK
<1> QED
  BY <1>1, PacketsInvHolds, PTL

-----------------------------------------------------------------------------
(* What the receiver checks                                                *)

(* b is a frame: an Ethernet header of a, an IP header of p, and then R.   *)
Framed(b, a, p, R) ==
  /\ b \in Seq(Byte) /\ R \in Seq(Byte) /\ Len(b) = 34 + Len(R) /\ Len(R) \in Nat
  /\ \A i \in 1 .. 14 : b[i] = EthernetLayout(a)[i]
  /\ \A i \in 15 .. 34 : b[i] = IPv4Layout(p, IPv4Sum(p))[i - 14]
  /\ \A i \in 35 .. 34 + Len(R) : b[i] = R[i - 34]
  /\ BytesAt(b, 14, 20) = IPv4Layout(p, IPv4Sum(p)) /\ Behind(b, 34) = R

(* Where the three parts of a datagram are in its frame.                   *)
LEMMA FramedAt ==
  ASSUME NEW a \in EthernetParameters, NEW p \in IPv4Parameters, NEW R \in Seq(Byte)
  PROVE  Framed(EthernetLayout(a) \o (IPv4Layout(p, IPv4Sum(p)) \o R), a, p, R)
<1> DEFINE E == EthernetLayout(a)
           I == IPv4Layout(p, IPv4Sum(p))
<1>1. E \in Seq(Byte) /\ Len(E) = 14
  BY EthernetLayoutBytes
<1>2. I \in Seq(Byte) /\ Len(I) = 20
  BY IPv4AddsUp, IPv4LayoutBytes
<1>3. Len(R) \in Nat
  BY LenProperties
<1> HIDE DEF E, I
<1> DEFINE b == E \o (I \o R)
<1>4. /\ b \in Seq(Byte) /\ Len(b) = 34 + Len(R)
      /\ \A i \in 1 .. 14 : b[i] = E[i]
      /\ \A i \in 15 .. 34 : b[i] = I[i - 14]
      /\ \A i \in 35 .. 34 + Len(R) : b[i] = R[i - 34]
      /\ BytesAt(b, 14, 20) = I /\ Behind(b, 34) = R
  BY <1>1, <1>2, FrameAt, ZenonT(60)
<1> HIDE DEF b
<1>5. Framed(b, a, p, R)
  BY <1>3, <1>4 DEF Framed, E, I
<1> QED
  BY <1>5 DEF b, E, I

(* ... and the frames of the senders are like that.                        *)
LEMMA FramesAre ==
  /\ \A c \in TCPCalls : Framed(FrameOf(c), c.ethernet, c.ip, TCPMessage(c))
  /\ \A c \in ICMPCalls : Framed(FrameOf(c), c.ethernet, c.ip, ICMPMessage(c))
<1>1. ASSUME NEW c \in TCPCalls
      PROVE  Framed(FrameOf(c), c.ethernet, c.ip, TCPMessage(c))
  <2>1. /\ c.ethernet \in EthernetParameters /\ c.ip \in IPv4Parameters
        /\ TCPMessage(c) \in Seq(Byte)
    BY Arguments, TCPMessageBytes
  <2>2. FrameOf(c) = EthernetLayout(c.ethernet)
                       \o (IPv4Layout(c.ip, IPv4Sum(c.ip)) \o TCPMessage(c))
    BY PayloadsAre DEF FrameOf, Datagram
  <2> QED
    BY <2>1, <2>2, FramedAt
<1>2. ASSUME NEW c \in ICMPCalls
      PROVE  Framed(FrameOf(c), c.ethernet, c.ip, ICMPMessage(c))
  <2>1. /\ c.ethernet \in EthernetParameters /\ c.ip \in IPv4Parameters
        /\ ICMPMessage(c) \in Seq(Byte)
    BY Arguments, ICMPFrame
  <2>2. FrameOf(c) = EthernetLayout(c.ethernet)
                       \o (IPv4Layout(c.ip, IPv4Sum(c.ip)) \o ICMPMessage(c))
    BY PayloadsAre DEF FrameOf, Datagram
  <2> QED
    BY <2>1, <2>2, FramedAt
<1> QED
  BY ONLY <1>1, <1>2

(* Its first 34 bytes.                                                     *)
StartsEthernet(b, a) ==
  /\ b[1] = a.dst[1] /\ b[2] = a.dst[2] /\ b[3] = a.dst[3]
  /\ b[4] = a.dst[4] /\ b[5] = a.dst[5] /\ b[6] = a.dst[6]
  /\ b[7] = a.src[1] /\ b[8] = a.src[2] /\ b[9] = a.src[3]
  /\ b[10] = a.src[4] /\ b[11] = a.src[5] /\ b[12] = a.src[6]
  /\ b[13] = a.type \div 256 /\ b[14] = a.type % 256

StartsIPv4(b, p) ==
  /\ b[15] = 5 + 16 * p.version /\ b[16] = p.serviceType
  /\ b[17] = p.packetLength \div 256 /\ b[18] = p.packetLength % 256
  /\ b[19] = p.packetId \div 256 /\ b[20] = p.packetId % 256
  /\ b[21] = 64 /\ b[22] = 0 /\ b[23] = p.ttl /\ b[24] = p.protocol
  /\ b[27] = p.source[1] /\ b[28] = p.source[2]
  /\ b[29] = p.source[3] /\ b[30] = p.source[4]
  /\ b[31] = p.dest[1] /\ b[32] = p.dest[2]
  /\ b[33] = p.dest[3] /\ b[34] = p.dest[4]

(* The 14 bytes of the Ethernet header of a frame.                         *)
LEMMA EthernetStart ==
  ASSUME NEW a, NEW b, \A i \in 1 .. 14 : b[i] = EthernetLayout(a)[i]
  PROVE  StartsEthernet(b, a)
<1> DEFINE E == EthernetLayout(a)
<1>1. \A i \in 1 .. 14 : b[i] = E[i]
  OBVIOUS
<1>2. /\ E[1] = a.dst[1] /\ E[2] = a.dst[2] /\ E[3] = a.dst[3]
      /\ E[4] = a.dst[4] /\ E[5] = a.dst[5] /\ E[6] = a.dst[6]
      /\ E[7] = a.src[1] /\ E[8] = a.src[2] /\ E[9] = a.src[3]
      /\ E[10] = a.src[4] /\ E[11] = a.src[5] /\ E[12] = a.src[6]
      /\ E[13] = a.type \div 256 /\ E[14] = a.type % 256
  BY DEF EthernetLayout
<1> HIDE DEF E
<1>3. /\ b[1] = E[1] /\ b[2] = E[2] /\ b[3] = E[3] /\ b[4] = E[4] /\ b[5] = E[5]
      /\ b[6] = E[6] /\ b[7] = E[7] /\ b[8] = E[8] /\ b[9] = E[9] /\ b[10] = E[10]
      /\ b[11] = E[11] /\ b[12] = E[12] /\ b[13] = E[13] /\ b[14] = E[14]
  BY ONLY <1>1
<1> QED
  BY ONLY <1>2, <1>3 DEF StartsEthernet

(* The 20 bytes of the IP header behind it.                                *)
LEMMA IPv4Start ==
  ASSUME NEW a, NEW p, NEW b, NEW R, Framed(b, a, p, R)
  PROVE  StartsIPv4(b, p)
<1> DEFINE I == IPv4Layout(p, IPv4Sum(p))
<1>1. \A i \in 15 .. 34 : b[i] = I[i - 14]
  BY DEF Framed
<1>3. /\ I[1] = 5 + 16 * p.version /\ I[2] = p.serviceType
      /\ I[3] = p.packetLength \div 256 /\ I[4] = p.packetLength % 256
      /\ I[5] = p.packetId \div 256 /\ I[6] = p.packetId % 256
      /\ I[7] = 64 /\ I[8] = 0 /\ I[9] = p.ttl /\ I[10] = p.protocol
      /\ I[13] = p.source[1] /\ I[14] = p.source[2]
      /\ I[15] = p.source[3] /\ I[16] = p.source[4]
      /\ I[17] = p.dest[1] /\ I[18] = p.dest[2]
      /\ I[19] = p.dest[3] /\ I[20] = p.dest[4]
  BY DEF IPv4Layout
<1> HIDE DEF I
<1>5. /\ b[15] = I[1] /\ b[16] = I[2] /\ b[17] = I[3] /\ b[18] = I[4]
      /\ b[19] = I[5] /\ b[20] = I[6] /\ b[21] = I[7] /\ b[22] = I[8]
      /\ b[23] = I[9] /\ b[24] = I[10]
  BY ONLY <1>1
<1>6. /\ b[27] = I[13] /\ b[28] = I[14] /\ b[29] = I[15] /\ b[30] = I[16]
      /\ b[31] = I[17] /\ b[32] = I[18] /\ b[33] = I[19] /\ b[34] = I[20]
  BY ONLY <1>1
<1> QED
  BY ONLY <1>3, <1>5, <1>6 DEF StartsIPv4

(* The header of a datagram announces its length, and adds up.             *)
LEMMA HeaderAccepted ==
  ASSUME NEW a \in EthernetParameters, NEW p \in IPv4Parameters, NEW b, NEW R,
         Framed(b, a, p, R), p.packetLength = 20 + Len(R)
  PROVE  U16At(b, 16) = Len(b) - 14 /\ AddsUp(BytesAt(b, 14, 20))
<1>1. BytesAt(b, 14, 20) = IPv4Layout(p, IPv4Sum(p))
  BY DEF Framed
<1>2. AddsUp(BytesAt(b, 14, 20))
  BY <1>1, IPv4AddsUp
<1>3. p.packetLength \in Holds(16)
  BY DEF IPv4Parameters
<1>4. U16At(b, 16) = 256 * (p.packetLength \div 256) + (p.packetLength % 256)
  <2>1. StartsIPv4(b, p)
    BY IPv4Start
  <2>2. b[17] = p.packetLength \div 256 /\ b[18] = p.packetLength % 256
    BY <2>1 DEF StartsIPv4
  <2> QED
    BY ONLY <2>2 DEF U16At
<1>5. U16At(b, 16) = p.packetLength
  BY <1>3, <1>4, SwappedWord
<1>6. 20 + Len(R) = Len(b) - 14
  <2> DEFINE n == Len(R)
             m == Len(b)
  <2>1. m = 34 + n /\ n \in Nat
    BY DEF Framed
  <2> HIDE DEF n, m
  <2>2. 20 + n = m - 14
    BY <2>1
  <2> QED
    BY ONLY <2>2 DEF n, m
<1> QED
  BY <1>2, <1>5, <1>6

(* The pseudo-header that the receiver puts before a segment.              *)
ReadPseudoHeader(b) ==
  BytesAt(b, 26, 8) \o <<0, b[24]>> \o Word(htons(Len(b) - 34))

(* It is the one that CalcChecksum has put before it.                      *)
LEMMA PseudoHeaderRead ==
  ASSUME NEW a \in EthernetParameters, NEW p \in IPv4Parameters, NEW b, NEW R,
         Framed(b, a, p, R), p.protocol = IPPROTO_TCP, Len(R) <= 65535
  PROVE  ReadPseudoHeader(b) = PseudoLayout(p, Len(R))
<1> DEFINE n == Len(R)
<1>1. b \in Seq(Byte) /\ Len(b) = 34 + n /\ n \in Nat
  BY DEF Framed
<1>2. n <= 65535
  OBVIOUS
<1> HIDE DEF n
<1>0. StartsIPv4(b, p)
  BY IPv4Start
<1>3. b[24] = 6
  BY <1>0 DEF StartsIPv4, IPPROTO_TCP
<1>4. /\ b[27] = p.source[1] /\ b[28] = p.source[2]
      /\ b[29] = p.source[3] /\ b[30] = p.source[4]
      /\ b[31] = p.dest[1] /\ b[32] = p.dest[2]
      /\ b[33] = p.dest[3] /\ b[34] = p.dest[4]
  BY <1>0 DEF StartsIPv4
<1>5. BytesAt(b, 26, 8) = <<p.source[1], p.source[2], p.source[3], p.source[4],
                            p.dest[1], p.dest[2], p.dest[3], p.dest[4]>>
  <2>1. 34 <= Len(b)
    BY ONLY <1>1
  <2>2. BytesAt(b, 26, 8) = <<b[27], b[28], b[29], b[30], b[31], b[32], b[33], b[34]>>
    BY ONLY <1>1, <2>1, EightAt
  <2> QED
    BY ONLY <1>4, <2>2
<1>6. Len(b) - 34 = n
  BY ONLY <1>1
<1>7. n \in Holds(16)
  BY ONLY <1>1, <1>2, HoldsAre
<1>8. Word(htons(Len(b) - 34)) = <<n \div 256, n % 256>>
  BY ONLY <1>6, <1>7, SwappedWord
<1>9. PseudoLayout(p, n)
        = <<p.source[1], p.source[2], p.source[3], p.source[4],
            p.dest[1], p.dest[2], p.dest[3], p.dest[4]>>
            \o <<0, 6>> \o <<n \div 256, n % 256>>
  BY DEF PseudoLayout
<1>10. ReadPseudoHeader(b) = PseudoLayout(p, n)
  BY ONLY <1>3, <1>5, <1>8, <1>9 DEF ReadPseudoHeader
<1> QED
  BY ONLY <1>10, Zenon DEF n

(* The segment adds up with the pseudo-header.                             *)
LEMMA SegmentAccepted ==
  ASSUME NEW c \in TCPCalls
  PROVE  LET b == FrameOf(c) IN
         /\ U16At(b, 16) = Len(b) - 14 /\ AddsUp(BytesAt(b, 14, 20))
         /\ AddsUp(BytesAt(b, 26, 8) \o <<0, b[24]>> \o Word(htons(Len(b) - 34))
                     \o Behind(b, 34))
<1> DEFINE R == TCPMessage(c)
           b == FrameOf(c)
           n == Len(c.tcp.options)
           m == Len(c.tcp.data)
           P == PseudoLayout(c.ip, 20 + n + m)
           T == TCPLayout(c.tcp, SegmentSum(c.ip, c.tcp))
           read == ReadPseudoHeader(b)
<1>1. /\ c.ethernet \in EthernetParameters /\ c.ip \in IPv4Parameters
      /\ c.tcp \in TCPParameters /\ TCPArgumentsAllowed(c.tcp)
      /\ c.ip.protocol = IPPROTO_TCP /\ c.ip.packetLength = 20 + 20 + n + m
  BY Arguments
<1>2. Framed(b, c.ethernet, c.ip, R)
  BY FramesAre
<1>3. Len(R) = 20 + n + m
  BY TCPMessageBytes
<1>4. n \in Nat /\ m \in Nat /\ 20 + n + m \in Nat /\ 20 + n + m <= 65535
  <2>1. n \in Nat /\ m \in Nat
    BY <1>1, LenProperties DEF TCPParameters
  <2>2. 12 + 20 + n + m <= pseudoBufferSize
    BY <1>1 DEF TCPArgumentsAllowed
  <2> HIDE DEF n, m
  <2> QED
    BY <2>1, <2>2 DEF pseudoBufferSize
<1>5. /\ c.tcp.options \in Seq(Byte) /\ c.tcp.data \in Seq(Byte) /\ T \in Seq(Byte)
  BY TCPFrame
<1>6. P \in Seq(Byte)
  <2> DEFINE l == 20 + n + m
  <2>1. l \in Nat /\ l <= 65535
    <3> HIDE DEF n, m
    <3> QED
      BY ONLY <1>4
  <2> HIDE DEF l
  <2>2. PseudoLayout(c.ip, l) \in Seq(Byte)
    BY <1>1, <2>1, PseudoLayoutBytes
  <2> QED
    BY ONLY <2>2 DEF l
<1>7. R = T \o c.tcp.options \o c.tcp.data
  BY DEF TCPMessage
<1>8. SegmentBytes(c.ip, c.tcp) = P \o T \o c.tcp.options \o c.tcp.data
  BY DEF SegmentBytes
<1>9. c.ip.packetLength = 20 + Len(R)
  <2> HIDE DEF n, m, R
  <2> QED
    BY ONLY <1>1, <1>3, <1>4
<1>10. Len(R) <= 65535
  <2> HIDE DEF n, m, R
  <2> QED
    BY ONLY <1>3, <1>4
<1> HIDE DEF R, b, n, m
<1>11. U16At(b, 16) = Len(b) - 14 /\ AddsUp(BytesAt(b, 14, 20))
  BY <1>1, <1>2, <1>9, HeaderAccepted
<1>12. read = P
  <2>1. read = PseudoLayout(c.ip, Len(R))
    BY <1>1, <1>2, <1>10, PseudoHeaderRead
  <2> QED
    BY ONLY <1>3, <2>1, Zenon DEF P
<1>13. Behind(b, 34) = R
  BY <1>2 DEF Framed
<1> HIDE DEF P, T, read
<1>14. FromLeft(P, T, c.tcp.options, c.tcp.data)
  BY <1>5, <1>6, FromTheLeft
<1>15. SegmentBytes(c.ip, c.tcp) = P \o (T \o c.tcp.options \o c.tcp.data)
  BY ONLY <1>8, <1>14, Zenon DEF FromLeft
<1>16. read \o Behind(b, 34) = SegmentBytes(c.ip, c.tcp)
  BY ONLY <1>7, <1>12, <1>13, <1>15, Zenon
<1>17. AddsUp(read \o Behind(b, 34))
  <2>1. AddsUp(SegmentBytes(c.ip, c.tcp))
    BY <1>1, SegmentAddsUp
  <2> QED
    BY ONLY <1>16, <2>1, Zenon
<1>18. AddsUp(BytesAt(b, 26, 8) \o <<0, b[24]>> \o Word(htons(Len(b) - 34))
                \o Behind(b, 34))
  BY ONLY <1>17, Zenon DEF read, ReadPseudoHeader
<1> QED
  BY ONLY <1>11, <1>18, Zenon DEF b

(* The bytes of a ping add up.                                             *)
LEMMA PingAccepted ==
  ASSUME NEW c \in ICMPCalls
  PROVE  LET b == FrameOf(c) IN
         /\ U16At(b, 16) = Len(b) - 14 /\ AddsUp(BytesAt(b, 14, 20))
         /\ AddsUp(Behind(b, 34))
<1> DEFINE b == FrameOf(c)
           R == ICMPMessage(c)
<1>1. /\ c.ethernet \in EthernetParameters /\ c.ip \in IPv4Parameters
      /\ c.icmp \in ICMPParameters /\ c.ip.packetLength = 20 + 8
  BY Arguments
<1>2. Framed(b, c.ethernet, c.ip, R) /\ Len(R) = 8
  BY FramesAre, ICMPFrame
<1>3. AddsUp(R)
  BY <1>1, ICMPAddsUp DEF ICMPMessage
<1> HIDE DEF b, R
<1>4. Behind(b, 34) = R
  BY <1>2 DEF Framed
<1>5. c.ip.packetLength = 20 + Len(R)
  BY <1>1, <1>2
<1>6. U16At(b, 16) = Len(b) - 14 /\ AddsUp(BytesAt(b, 14, 20))
  BY <1>1, <1>2, <1>5, HeaderAccepted
<1> QED
  BY <1>3, <1>4, <1>6 DEF b

(* Networking.cpp:49-112, 249-262: whatever packet a sender builds, with    *)
(* any addresses, ports, options and data, in whatever memory, the         *)
(* receiver finds its length and all its checksums right.                  *)
THEOREM FramesAreAccepted == Spec => []ReceiverAccepts
<1>1. PacketsInv => ReceiverAccepts
  <2> SUFFICES ASSUME PacketsInv, NEW f \in air
               PROVE  LET b == f.bytes IN
                 /\ "ip" \in DOMAIN f.call =>
                      U16At(b, 16) = Len(b) - 14 /\ AddsUp(BytesAt(b, 14, 20))
                 /\ "tcp" \in DOMAIN f.call =>
                      AddsUp(BytesAt(b, 26, 8) \o <<0, b[24]>>
                               \o Word(htons(Len(b) - 34)) \o Behind(b, 34))
                 /\ "icmp" \in DOMAIN f.call => AddsUp(Behind(b, 34))
    BY DEF ReceiverAccepts
  <2>1. f.call \in Calls /\ f.bytes = FrameOf(f.call)
    BY DEF PacketsInv, AirInv
  <2>2. CASE f.call \in TCPCalls
    <3>1. "icmp" \notin DOMAIN f.call
      BY <2>2, Domains
    <3> QED
      BY ONLY <2>1, <2>2, <3>1, SegmentAccepted, Zenon
  <2>3. CASE f.call \in ICMPCalls
    <3>1. "tcp" \notin DOMAIN f.call
      BY <2>3, Domains
    <3> QED
      BY ONLY <2>1, <2>3, <3>1, PingAccepted, Zenon
  <2>4. CASE f.call \in OGMCalls
    <3>1. /\ "ip" \notin DOMAIN f.call /\ "tcp" \notin DOMAIN f.call
          /\ "icmp" \notin DOMAIN f.call
      BY <2>4, Domains
    <3> QED
      BY ONLY <3>1, Zenon
  <2> QED
    BY <2>1, <2>2, <2>3, <2>4, PacketsAssumption, Zenon
<1> QED
  BY <1>1, PacketsInvHolds, PTL

-----------------------------------------------------------------------------
(* What the frames say                                                     *)

(* What the bytes of an Ethernet header say is what was asked for.         *)
LEMMA EthernetRead ==
  ASSUME NEW a \in EthernetParameters, NEW b \in Seq(Byte), 14 <= Len(b),
         StartsEthernet(b, a)
  PROVE  EthernetSays(b, a)
<1>1. a.dst \in Holds(48) /\ a.src \in Holds(48) /\ a.type \in Holds(16)
  BY DEF EthernetParameters
<1>2. /\ a.dst = <<a.dst[1], a.dst[2], a.dst[3], a.dst[4], a.dst[5], a.dst[6]>>
      /\ a.src = <<a.src[1], a.src[2], a.src[3], a.src[4], a.src[5], a.src[6]>>
  BY <1>1, SixOf
<1>3. BytesAt(b, 0, 6)
        = <<a.dst[1], a.dst[2], a.dst[3], a.dst[4], a.dst[5], a.dst[6]>>
  <2>1. /\ b[0 + 1] = a.dst[1] /\ b[0 + 2] = a.dst[2] /\ b[0 + 3] = a.dst[3]
        /\ b[0 + 4] = a.dst[4] /\ b[0 + 5] = a.dst[5] /\ b[6] = a.dst[6]
        /\ 0 \in Nat /\ 6 \in Nat /\ 6 = 0 + 6 /\ 6 <= Len(b)
    BY LenProperties DEF StartsEthernet
  <2> QED
    BY ONLY <2>1, SixAt, b \in Seq(Byte)
<1>4. BytesAt(b, 6, 6)
        = <<a.src[1], a.src[2], a.src[3], a.src[4], a.src[5], a.src[6]>>
  <2>1. /\ b[6 + 1] = a.src[1] /\ b[6 + 2] = a.src[2] /\ b[6 + 3] = a.src[3]
        /\ b[6 + 4] = a.src[4] /\ b[6 + 5] = a.src[5] /\ b[12] = a.src[6]
        /\ 6 \in Nat /\ 12 \in Nat /\ 12 = 6 + 6 /\ 12 <= Len(b)
    BY LenProperties DEF StartsEthernet
  <2> QED
    BY ONLY <2>1, SixAt, b \in Seq(Byte)
<1>5. U16At(b, 12) = a.type
  <2>1. U16At(b, 12) = 256 * (a.type \div 256) + (a.type % 256)
    BY DEF StartsEthernet, U16At
  <2> QED
    BY <1>1, <2>1, SwappedWord
<1> QED
  BY <1>2, <1>3, <1>4, <1>5 DEF EthernetSays

(* ... what those of an IP header say ...                                  *)
LEMMA IPv4Read ==
  ASSUME NEW a \in IPv4Parameters, NEW b \in Seq(Byte), 34 <= Len(b),
         StartsIPv4(b, a)
  PROVE  IPv4Says(b, a)
<1>1. /\ a.packetLength \in Holds(16) /\ a.packetId \in Holds(16)
      /\ a.source \in Holds(32) /\ a.dest \in Holds(32) /\ a.version \in Holds(4)
  BY DEF IPv4Parameters
<1>2. /\ a.source = <<a.source[1], a.source[2], a.source[3], a.source[4]>>
      /\ a.dest = <<a.dest[1], a.dest[2], a.dest[3], a.dest[4]>>
  BY <1>1, Reversed
<1>3. BytesAt(b, 26, 4) = <<a.source[1], a.source[2], a.source[3], a.source[4]>>
  <2>1. /\ b[26 + 1] = a.source[1] /\ b[26 + 2] = a.source[2]
        /\ b[26 + 3] = a.source[3] /\ b[30] = a.source[4]
        /\ 26 \in Nat /\ 30 \in Nat /\ 30 = 26 + 4 /\ 30 <= Len(b)
    BY LenProperties DEF StartsIPv4
  <2> QED
    BY ONLY <2>1, FourAt, b \in Seq(Byte)
<1>4. BytesAt(b, 30, 4) = <<a.dest[1], a.dest[2], a.dest[3], a.dest[4]>>
  <2>1. /\ b[30 + 1] = a.dest[1] /\ b[30 + 2] = a.dest[2]
        /\ b[30 + 3] = a.dest[3] /\ b[34] = a.dest[4]
        /\ 30 \in Nat /\ 34 \in Nat /\ 34 = 30 + 4 /\ 34 <= Len(b)
    BY LenProperties DEF StartsIPv4
  <2> QED
    BY ONLY <2>1, FourAt, b \in Seq(Byte)
<1>5. U16At(b, 16) = a.packetLength /\ U16At(b, 18) = a.packetId
  <2>1. /\ U16At(b, 16) = 256 * (a.packetLength \div 256) + (a.packetLength % 256)
        /\ U16At(b, 18) = 256 * (a.packetId \div 256) + (a.packetId % 256)
    <3>1. /\ b[16 + 1] = a.packetLength \div 256 /\ b[16 + 2] = a.packetLength % 256
          /\ b[18 + 1] = a.packetId \div 256 /\ b[18 + 2] = a.packetId % 256
      BY DEF StartsIPv4
    <3> QED
      BY ONLY <3>1 DEF U16At
  <2> QED
    BY <1>1, <2>1, SwappedWord
<1>6. U16At(b, 20) = 2 ^ 14
  <2>1. b[20 + 1] = 64 /\ b[20 + 2] = 0
    BY DEF StartsIPv4
  <2>2. U16At(b, 20) = 256 * 64 + 0
    BY ONLY <2>1 DEF U16At
  <2>3. 256 * 64 + 0 = 2 ^ 14
    OBVIOUS
  <2> QED
    BY ONLY <2>2, <2>3
<1>7. b[15] = 16 * a.version + 5
  <2>1. b[15] = 5 + 16 * a.version /\ a.version \in 0 .. 15
    BY <1>1, HoldsAre DEF StartsIPv4
  <2> QED
    BY ONLY <2>1
<1>8. b[16] = a.serviceType /\ b[23] = a.ttl /\ b[24] = a.protocol
  BY DEF StartsIPv4
<1> QED
  BY ONLY <1>2, <1>3, <1>4, <1>5, <1>6, <1>7, <1>8 DEF IPv4Says

(* The bits of the flags of a TCP header.                                  *)
LEMMA FlagBits ==
  ASSUME NEW f \in 0 .. 1, NEW s \in 0 .. 1, NEW r \in 0 .. 1, NEW p \in 0 .. 1,
         NEW k \in 0 .. 1
  PROVE  LET n == f + 2 * s + 4 * r + 8 * p + 16 * k
         IN  /\ (n \div 1) % 2 = f /\ (n \div 2) % 2 = s /\ (n \div 4) % 2 = r
             /\ (n \div 8) % 2 = p /\ (n \div 16) % 2 = k /\ n < 32
<1> DEFINE n == f + 2 * s + 4 * r + 8 * p + 16 * k
<1>1. n \in 0 .. 31 /\ n < 32
  OBVIOUS
<1>2. n % 2 = f /\ n \div 1 = n
  OBVIOUS
<1>3. n \div 2 = s + 2 * r + 4 * p + 8 * k /\ (n \div 2) % 2 = s
  OBVIOUS
<1>4. n \div 4 = r + 2 * p + 4 * k /\ (n \div 4) % 2 = r
  OBVIOUS
<1>5. n \div 8 = p + 2 * k /\ (n \div 8) % 2 = p
  OBVIOUS
<1>6. n \div 16 = k /\ (n \div 16) % 2 = k
  OBVIOUS
<1> QED
  BY <1>1, <1>2, <1>3, <1>4, <1>5, <1>6

(* The flags byte says which flags were asked for.                         *)
LEMMA FlagsRead ==
  ASSUME NEW a \in TCPParameters, NEW b, b[48] = FlagsOf(a)
  PROVE  /\ (BitAt(b, 47, 0) = 1) = a.FIN /\ (BitAt(b, 47, 1) = 1) = a.SYN
         /\ (BitAt(b, 47, 2) = 1) = a.RST /\ (BitAt(b, 47, 3) = 1) = a.PSH
         /\ (BitAt(b, 47, 4) = 1) = a.ACK /\ b[48] < 32
<1>1. /\ a.FIN \in BOOLEAN /\ a.SYN \in BOOLEAN /\ a.RST \in BOOLEAN
      /\ a.PSH \in BOOLEAN /\ a.ACK \in BOOLEAN
  BY DEF TCPParameters
<1> DEFINE f == Bit(a.FIN)
           s == Bit(a.SYN)
           r == Bit(a.RST)
           p == Bit(a.PSH)
           k == Bit(a.ACK)
           n == b[48]
<1>2. f \in 0 .. 1 /\ s \in 0 .. 1 /\ r \in 0 .. 1 /\ p \in 0 .. 1 /\ k \in 0 .. 1
  BY <1>1, BitRange
<1>3. n = f + 2 * s + 4 * r + 8 * p + 16 * k
  BY DEF FlagsOf
<1>4. /\ (f = 1) = a.FIN /\ (s = 1) = a.SYN /\ (r = 1) = a.RST
      /\ (p = 1) = a.PSH /\ (k = 1) = a.ACK
  BY <1>1, Bits, Zenon
<1> HIDE DEF f, s, r, p, k, n
<1>5. /\ (n \div 1) % 2 = f /\ (n \div 2) % 2 = s /\ (n \div 4) % 2 = r
      /\ (n \div 8) % 2 = p /\ (n \div 16) % 2 = k /\ n < 32
  BY ONLY <1>2, <1>3, FlagBits
<1>6. 47 + 1 = 48 /\ 2 ^ 0 = 1 /\ 2 ^ 1 = 2 /\ 2 ^ 2 = 4 /\ 2 ^ 3 = 8 /\ 2 ^ 4 = 16
  OBVIOUS
<1>7. /\ BitAt(b, 47, 0) = (n \div 1) % 2 /\ BitAt(b, 47, 1) = (n \div 2) % 2
      /\ BitAt(b, 47, 2) = (n \div 4) % 2 /\ BitAt(b, 47, 3) = (n \div 8) % 2
      /\ BitAt(b, 47, 4) = (n \div 16) % 2
  BY <1>6 DEF BitAt, n
<1>8. /\ BitAt(b, 47, 0) = f /\ BitAt(b, 47, 1) = s /\ BitAt(b, 47, 2) = r
      /\ BitAt(b, 47, 3) = p /\ BitAt(b, 47, 4) = k
  BY ONLY <1>5, <1>7
<1>9. b[48] < 32
  BY ONLY <1>5 DEF n
<1> QED
  BY ONLY <1>4, <1>8, <1>9, Zenon

(* The first 20 bytes of the message of a segment, where the frame has     *)
(* them.                                                                   *)
StartsTCP(b, a) ==
  /\ b[35] = a.sourcePort \div 256 /\ b[36] = a.sourcePort % 256
  /\ b[37] = a.destPort \div 256 /\ b[38] = a.destPort % 256
  /\ b[39] = a.sequence[1] /\ b[40] = a.sequence[2]
  /\ b[41] = a.sequence[3] /\ b[42] = a.sequence[4]
  /\ b[43] = a.acknowledge[1] /\ b[44] = a.acknowledge[2]
  /\ b[45] = a.acknowledge[3] /\ b[46] = a.acknowledge[4]
  /\ b[47] = 16 * ((20 + Len(a.options)) \div 4) /\ b[48] = FlagsOf(a)
  /\ b[49] = a.window \div 256 /\ b[50] = a.window % 256
  /\ b[53] = 0 /\ b[54] = 0

(* The 20 bytes of the TCP header of a segment.                            *)
LEMMA TCPStart ==
  ASSUME NEW a, NEW c, NEW b, \A i \in 35 .. 54 : b[i] = TCPLayout(a, c)[i - 34]
  PROVE  StartsTCP(b, a)
<1> DEFINE T == TCPLayout(a, c)
           offset == 16 * ((20 + Len(a.options)) \div 4)
           flags == FlagsOf(a)
<1>1. \A i \in 35 .. 54 : b[i] = T[i - 34]
  OBVIOUS
<1>2. T = <<a.sourcePort \div 256, a.sourcePort % 256,
            a.destPort \div 256, a.destPort % 256,
            a.sequence[1], a.sequence[2], a.sequence[3], a.sequence[4],
            a.acknowledge[1], a.acknowledge[2], a.acknowledge[3], a.acknowledge[4],
            offset, flags,
            a.window \div 256, a.window % 256, c % 256, c \div 256, 0, 0>>
  BY DEF TCPLayout
<1> HIDE DEF T, offset, flags
<1>3. /\ T[1] = a.sourcePort \div 256 /\ T[2] = a.sourcePort % 256
      /\ T[3] = a.destPort \div 256 /\ T[4] = a.destPort % 256
      /\ T[5] = a.sequence[1] /\ T[6] = a.sequence[2]
      /\ T[7] = a.sequence[3] /\ T[8] = a.sequence[4]
      /\ T[9] = a.acknowledge[1] /\ T[10] = a.acknowledge[2]
      /\ T[11] = a.acknowledge[3] /\ T[12] = a.acknowledge[4]
      /\ T[13] = offset /\ T[14] = flags
      /\ T[15] = a.window \div 256 /\ T[16] = a.window % 256
      /\ T[19] = 0 /\ T[20] = 0
  BY ONLY <1>2
<1>4. /\ b[35] = T[1] /\ b[36] = T[2] /\ b[37] = T[3] /\ b[38] = T[4]
      /\ b[39] = T[5] /\ b[40] = T[6] /\ b[41] = T[7] /\ b[42] = T[8]
      /\ b[43] = T[9] /\ b[44] = T[10] /\ b[45] = T[11] /\ b[46] = T[12]
  BY ONLY <1>1
<1>5. /\ b[47] = T[13] /\ b[48] = T[14] /\ b[49] = T[15] /\ b[50] = T[16]
      /\ b[53] = T[19] /\ b[54] = T[20]
  BY ONLY <1>1
<1>6. b[47] = offset /\ b[48] = flags
  BY ONLY <1>3, <1>5
<1>7. b[47] = 16 * ((20 + Len(a.options)) \div 4) /\ b[48] = FlagsOf(a)
  BY ONLY <1>6, Zenon DEF offset, flags
<1> QED
  BY ONLY <1>3, <1>4, <1>5, <1>7 DEF StartsTCP

(* What they say is what was asked for.                                    *)
LEMMA TCPRead ==
  ASSUME NEW a \in TCPParameters, NEW b \in Seq(Byte), 54 <= Len(b), StartsTCP(b, a)
  PROVE  TCPSays(b, a)
<1>1. /\ a.sourcePort \in Holds(16) /\ a.destPort \in Holds(16)
      /\ a.window \in Holds(16)
      /\ a.sequence \in Holds(32) /\ a.acknowledge \in Holds(32)
  BY DEF TCPParameters
<1>2. U16At(b, 34) = a.sourcePort /\ U16At(b, 36) = a.destPort
  <2>1. /\ b[34 + 1] = a.sourcePort \div 256 /\ b[34 + 2] = a.sourcePort % 256
        /\ b[36 + 1] = a.destPort \div 256 /\ b[36 + 2] = a.destPort % 256
    BY DEF StartsTCP
  <2>2. /\ U16At(b, 34) = 256 * (a.sourcePort \div 256) + (a.sourcePort % 256)
        /\ U16At(b, 36) = 256 * (a.destPort \div 256) + (a.destPort % 256)
    BY ONLY <2>1 DEF U16At
  <2> QED
    BY <1>1, <2>2, SwappedWord
<1>3. U16At(b, 48) = a.window /\ U16At(b, 52) = 0
  <2>1. /\ b[48 + 1] = a.window \div 256 /\ b[48 + 2] = a.window % 256
        /\ b[52 + 1] = 0 /\ b[52 + 2] = 0
    BY DEF StartsTCP
  <2>2. /\ U16At(b, 48) = 256 * (a.window \div 256) + (a.window % 256)
        /\ U16At(b, 52) = 256 * 0 + 0
    BY ONLY <2>1 DEF U16At
  <2>3. 256 * 0 + 0 = 0
    OBVIOUS
  <2> QED
    BY <1>1, <2>2, <2>3, SwappedWord
<1>4. BytesAt(b, 38, 4) = a.sequence
  <2>1. /\ b[38 + 1] = a.sequence[1] /\ b[38 + 2] = a.sequence[2]
        /\ b[38 + 3] = a.sequence[3] /\ b[42] = a.sequence[4]
        /\ 38 \in Nat /\ 42 \in Nat /\ 42 = 38 + 4 /\ 42 <= Len(b)
    BY LenProperties DEF StartsTCP
  <2>2. BytesAt(b, 38, 4)
          = <<a.sequence[1], a.sequence[2], a.sequence[3], a.sequence[4]>>
    BY ONLY <2>1, FourAt, b \in Seq(Byte)
  <2>3. a.sequence
          = <<a.sequence[1], a.sequence[2], a.sequence[3], a.sequence[4]>>
    BY <1>1, Reversed
  <2> QED
    BY ONLY <2>2, <2>3
<1>5. BytesAt(b, 42, 4) = a.acknowledge
  <2>1. /\ b[42 + 1] = a.acknowledge[1] /\ b[42 + 2] = a.acknowledge[2]
        /\ b[42 + 3] = a.acknowledge[3] /\ b[46] = a.acknowledge[4]
        /\ 42 \in Nat /\ 46 \in Nat /\ 46 = 42 + 4 /\ 46 <= Len(b)
    BY LenProperties DEF StartsTCP
  <2>2. BytesAt(b, 42, 4) = <<a.acknowledge[1], a.acknowledge[2],
                              a.acknowledge[3], a.acknowledge[4]>>
    BY ONLY <2>1, FourAt, b \in Seq(Byte)
  <2>3. a.acknowledge = <<a.acknowledge[1], a.acknowledge[2],
                          a.acknowledge[3], a.acknowledge[4]>>
    BY <1>1, Reversed
  <2> QED
    BY ONLY <2>2, <2>3
<1>6. b[47] = 16 * ((20 + Len(a.options)) \div 4) /\ b[48] = FlagsOf(a)
  BY Zenon DEF StartsTCP
<1>7. /\ (BitAt(b, 47, 0) = 1) = a.FIN /\ (BitAt(b, 47, 1) = 1) = a.SYN
      /\ (BitAt(b, 47, 2) = 1) = a.RST /\ (BitAt(b, 47, 3) = 1) = a.PSH
      /\ (BitAt(b, 47, 4) = 1) = a.ACK /\ b[48] < 32
  BY <1>6, FlagsRead, Zenon
<1>8. [FIN |-> BitAt(b, 47, 0) = 1, SYN |-> BitAt(b, 47, 1) = 1,
       RST |-> BitAt(b, 47, 2) = 1, PSH |-> BitAt(b, 47, 3) = 1,
       ACK |-> BitAt(b, 47, 4) = 1]
        = [FIN |-> a.FIN, SYN |-> a.SYN, RST |-> a.RST, PSH |-> a.PSH, ACK |-> a.ACK]
  BY ONLY <1>7, Zenon
<1>9. b[47] = 16 * ((20 + Len(a.options)) \div 4)
  BY <1>6, Zenon
<1>10. b[48] < 32
  BY <1>7, Zenon
<1> QED
  BY ONLY <1>2, <1>3, <1>4, <1>5, <1>8, <1>9, <1>10, Zenon DEF TCPSays

StartsICMP(b, a, c) == \A i \in 35 .. 42 : b[i] = ICMPLayout(a, c)[i - 34]

(* ... and what the bytes of an ICMP header say ...                        *)
LEMMA ICMPRead ==
  ASSUME NEW a \in ICMPParameters, NEW c, NEW b, StartsICMP(b, a, c)
  PROVE  ICMPSays(b, a)
<1> DEFINE M == ICMPLayout(a, c)
<1>1. a.identifier \in Holds(16) /\ a.sequence \in Holds(16)
  BY DEF ICMPParameters
<1>2. \A i \in 35 .. 42 : b[i] = M[i - 34]
  BY DEF StartsICMP
<1>3. /\ M[1] = a.type /\ M[2] = a.code
      /\ M[5] = a.identifier \div 256 /\ M[6] = a.identifier % 256
      /\ M[7] = a.sequence \div 256 /\ M[8] = a.sequence % 256
  BY DEF ICMPLayout
<1> HIDE DEF M
<1>4. /\ b[35] = M[1] /\ b[36] = M[2] /\ b[38 + 1] = M[5] /\ b[38 + 2] = M[6]
      /\ b[40 + 1] = M[7] /\ b[40 + 2] = M[8]
  BY ONLY <1>2
<1>5. /\ U16At(b, 38) = 256 * (a.identifier \div 256) + (a.identifier % 256)
      /\ U16At(b, 40) = 256 * (a.sequence \div 256) + (a.sequence % 256)
  BY ONLY <1>3, <1>4 DEF U16At
<1>6. U16At(b, 38) = a.identifier /\ U16At(b, 40) = a.sequence
  BY <1>1, <1>5, SwappedWord
<1> QED
  BY ONLY <1>3, <1>4, <1>6 DEF ICMPSays

(* ... and those of an OGM.                                                *)
LEMMA OGMRead ==
  ASSUME NEW a \in OGMParameters, NEW b \in Seq(Byte), 38 <= Len(b),
         \A i \in 15 .. 38 : b[i] = OGMLayout(a)[i - 14]
  PROVE  OGMSays(b, a)
<1> DEFINE G == OGMLayout(a)
<1>1. a.seqNumber \in Holds(32) /\ a.originator \in Holds(48) /\ a.tvlvLength \in Holds(16)
  BY DEF OGMParameters
<1>2. \A i \in 15 .. 38 : b[i] = G[i - 14]
  OBVIOUS
<1>3. /\ G[1] = 0 /\ G[2] = 15 /\ G[3] = a.ttl /\ G[4] = 0
      /\ G[5] = a.seqNumber[1] /\ G[6] = a.seqNumber[2]
      /\ G[7] = a.seqNumber[3] /\ G[8] = a.seqNumber[4]
      /\ G[9] = a.originator[1] /\ G[10] = a.originator[2]
      /\ G[11] = a.originator[3] /\ G[12] = a.originator[4]
      /\ G[13] = a.originator[5] /\ G[14] = a.originator[6]
      /\ G[15] = a.originator[1] /\ G[16] = a.originator[2]
      /\ G[17] = a.originator[3] /\ G[18] = a.originator[4]
      /\ G[19] = a.originator[5] /\ G[20] = a.originator[6]
      /\ G[21] = 0 /\ G[22] = a.tq
      /\ G[23] = a.tvlvLength \div 256 /\ G[24] = a.tvlvLength % 256
  BY DEF OGMLayout
<1> HIDE DEF G
<1>4. /\ b[15] = G[1] /\ b[16] = G[2] /\ b[17] = G[3] /\ b[18] = G[4]
      /\ b[19] = G[5] /\ b[20] = G[6] /\ b[21] = G[7] /\ b[22] = G[8]
  BY ONLY <1>2
<1>5. /\ b[23] = G[9] /\ b[24] = G[10] /\ b[25] = G[11]
      /\ b[26] = G[12] /\ b[27] = G[13] /\ b[28] = G[14]
      /\ b[29] = G[15] /\ b[30] = G[16] /\ b[31] = G[17]
      /\ b[32] = G[18] /\ b[33] = G[19] /\ b[34] = G[20]
  BY ONLY <1>2
<1>6. /\ b[35] = G[21] /\ b[36] = G[22] /\ b[37] = G[23] /\ b[38] = G[24]
  BY ONLY <1>2
<1>7. BytesAt(b, 14, 4) = <<0, 15, a.ttl, 0>>
  <2>1. /\ b[14 + 1] = 0 /\ b[14 + 2] = 15 /\ b[14 + 3] = a.ttl /\ b[18] = 0
        /\ 14 \in Nat /\ 18 \in Nat /\ 18 = 14 + 4 /\ 18 <= Len(b)
    BY <1>3, <1>4, LenProperties
  <2> QED
    BY ONLY <2>1, FourAt, b \in Seq(Byte)
<1>8. BytesAt(b, 18, 4) = a.seqNumber
  <2>1. /\ b[18 + 1] = a.seqNumber[1] /\ b[18 + 2] = a.seqNumber[2]
        /\ b[18 + 3] = a.seqNumber[3] /\ b[22] = a.seqNumber[4]
        /\ 18 \in Nat /\ 22 \in Nat /\ 22 = 18 + 4 /\ 22 <= Len(b)
    BY <1>3, <1>4, LenProperties
  <2>2. BytesAt(b, 18, 4)
          = <<a.seqNumber[1], a.seqNumber[2], a.seqNumber[3], a.seqNumber[4]>>
    BY ONLY <2>1, FourAt, b \in Seq(Byte)
  <2>3. a.seqNumber
          = <<a.seqNumber[1], a.seqNumber[2], a.seqNumber[3], a.seqNumber[4]>>
    BY <1>1, Reversed
  <2> QED
    BY ONLY <2>2, <2>3
<1>9. a.originator = <<a.originator[1], a.originator[2], a.originator[3],
                       a.originator[4], a.originator[5], a.originator[6]>>
  BY <1>1, SixOf
<1>10. BytesAt(b, 22, 6) = a.originator
  <2>1. /\ b[22 + 1] = a.originator[1] /\ b[22 + 2] = a.originator[2]
        /\ b[22 + 3] = a.originator[3] /\ b[22 + 4] = a.originator[4]
        /\ b[22 + 5] = a.originator[5] /\ b[28] = a.originator[6]
        /\ 22 \in Nat /\ 28 \in Nat /\ 28 = 22 + 6 /\ 28 <= Len(b)
    BY <1>3, <1>5, LenProperties
  <2>2. BytesAt(b, 22, 6) = <<a.originator[1], a.originator[2], a.originator[3],
                              a.originator[4], a.originator[5], a.originator[6]>>
    BY ONLY <2>1, SixAt, b \in Seq(Byte), SMTT(30)
  <2> QED
    BY ONLY <1>9, <2>2
<1>11. BytesAt(b, 28, 6) = a.originator
  <2>1. /\ b[28 + 1] = a.originator[1] /\ b[28 + 2] = a.originator[2]
        /\ b[28 + 3] = a.originator[3] /\ b[28 + 4] = a.originator[4]
        /\ b[28 + 5] = a.originator[5] /\ b[34] = a.originator[6]
        /\ 28 \in Nat /\ 34 \in Nat /\ 34 = 28 + 6 /\ 34 <= Len(b)
    BY <1>3, <1>5, LenProperties
  <2>2. BytesAt(b, 28, 6) = <<a.originator[1], a.originator[2], a.originator[3],
                              a.originator[4], a.originator[5], a.originator[6]>>
    BY ONLY <2>1, SixAt, b \in Seq(Byte), SMTT(30)
  <2> QED
    BY ONLY <1>9, <2>2
<1>12. U16At(b, 36) = a.tvlvLength
  <2>1. b[36 + 1] = a.tvlvLength \div 256 /\ b[36 + 2] = a.tvlvLength % 256
    BY <1>3, <1>6
  <2>2. U16At(b, 36) = 256 * (a.tvlvLength \div 256) + (a.tvlvLength % 256)
    BY ONLY <2>1 DEF U16At
  <2> QED
    BY <1>1, <2>2, SwappedWord, ZenonT(60)
<1> QED
  BY ONLY <1>3, <1>6, <1>7, <1>8, <1>10, <1>11, <1>12 DEF OGMSays

(* A TCP segment on the air says what was asked for,                       *)
LEMMA SegmentRead ==
  ASSUME NEW c \in TCPCalls
  PROVE  LET b == FrameOf(c)
         IN  EthernetSays(b, c.ethernet) /\ IPv4Says(b, c.ip) /\ TCPSays(b, c.tcp)
<1> DEFINE b == FrameOf(c)
           R == TCPMessage(c)
           T == TCPLayout(c.tcp, SegmentSum(c.ip, c.tcp))
           r == Len(R)
           l == Len(b)
<1>1. /\ c.ethernet \in EthernetParameters /\ c.ip \in IPv4Parameters
      /\ c.tcp \in TCPParameters
  BY Arguments
<1>2. Framed(b, c.ethernet, c.ip, R)
  BY FramesAre
<1>3. \A i \in 1 .. 20 : R[i] = T[i]
  BY TCPMessageBytes
<1>4. 20 <= r
  <2> DEFINE n == Len(c.tcp.options)
             m == Len(c.tcp.data)
  <2>1. n \in Nat /\ m \in Nat /\ r = 20 + n + m
    BY TCPFrame, TCPMessageBytes, LenProperties
  <2> HIDE DEF n, m, r
  <2> QED
    BY <2>1
<1> HIDE DEF b, R, T
<1>5. /\ b \in Seq(Byte) /\ l = 34 + r /\ r \in Nat
      /\ \A i \in 1 .. 14 : b[i] = EthernetLayout(c.ethernet)[i]
      /\ \A i \in 35 .. 34 + r : b[i] = R[i - 34]
  BY <1>2 DEF Framed
<1> HIDE DEF r, l
<1>6. 54 <= l /\ 34 <= l /\ 14 <= l
  BY ONLY <1>4, <1>5, SMTT(30)
<1>7. \A i \in 35 .. 54 : b[i] = T[i - 34]
  <2> TAKE i \in 35 .. 54
  <2>1. i \in 35 .. 34 + r /\ i - 34 \in 1 .. 20
    BY <1>4, <1>5
  <2> QED
    BY ONLY <1>3, <1>5, <2>1
<1>8. StartsEthernet(b, c.ethernet) /\ StartsIPv4(b, c.ip)
  BY <1>2, <1>5, EthernetStart, IPv4Start
<1>9. StartsTCP(b, c.tcp)
  BY <1>7, TCPStart DEF T
<1>10. 54 <= Len(b) /\ 34 <= Len(b) /\ 14 <= Len(b)
  BY ONLY <1>6 DEF l
<1>11. EthernetSays(b, c.ethernet)
  BY ONLY <1>1, <1>5, <1>8, <1>10, EthernetRead
<1>12. IPv4Says(b, c.ip)
  BY ONLY <1>1, <1>5, <1>8, <1>10, IPv4Read
<1>13. TCPSays(b, c.tcp)
  BY ONLY <1>1, <1>5, <1>9, <1>10, TCPRead
<1> QED
  BY <1>11, <1>12, <1>13 DEF b

(* so does a ping,                                                         *)
LEMMA PingRead ==
  ASSUME NEW c \in ICMPCalls
  PROVE  LET b == FrameOf(c)
         IN  EthernetSays(b, c.ethernet) /\ IPv4Says(b, c.ip) /\ ICMPSays(b, c.icmp)
<1> DEFINE b == FrameOf(c)
           R == ICMPMessage(c)
<1>1. /\ c.ethernet \in EthernetParameters /\ c.ip \in IPv4Parameters
      /\ c.icmp \in ICMPParameters
  BY Arguments
<1>2. Framed(b, c.ethernet, c.ip, R) /\ Len(R) = 8
  BY FramesAre, ICMPFrame
<1>3. R = ICMPLayout(c.icmp, ICMPSum(c.icmp))
  BY DEF ICMPMessage
<1> HIDE DEF b, R
<1>4. /\ b \in Seq(Byte) /\ Len(b) = 42
      /\ \A i \in 1 .. 14 : b[i] = EthernetLayout(c.ethernet)[i]
      /\ \A i \in 35 .. 42 : b[i] = R[i - 34]
  BY <1>2 DEF Framed
<1>5. StartsEthernet(b, c.ethernet) /\ StartsIPv4(b, c.ip)
  BY <1>2, <1>4, EthernetStart, IPv4Start
<1>6. 34 <= Len(b) /\ 14 <= Len(b)
  BY ONLY <1>4
<1>7. EthernetSays(b, c.ethernet)
  BY ONLY <1>1, <1>4, <1>5, <1>6, EthernetRead
<1>8. IPv4Says(b, c.ip)
  BY ONLY <1>1, <1>4, <1>5, <1>6, IPv4Read
<1>9. StartsICMP(b, c.icmp, ICMPSum(c.icmp))
  BY ONLY <1>3, <1>4 DEF StartsICMP
<1>10. ICMPSays(b, c.icmp)
  BY ONLY <1>1, <1>9, ICMPRead, Zenon
<1> QED
  BY <1>7, <1>8, <1>10 DEF b

(* and an OGM.                                                             *)
LEMMA OGMMessageRead ==
  ASSUME NEW c \in OGMCalls
  PROVE  LET b == FrameOf(c)
         IN  EthernetSays(b, c.ethernet) /\ OGMSays(b, c.ogm)
<1> DEFINE E == EthernetLayout(c.ethernet)
           G == OGMLayout(c.ogm)
           b == FrameOf(c)
<1>1. c.ethernet \in EthernetParameters /\ c.ogm \in OGMParameters
  BY Arguments
<1>2. E \in Seq(Byte) /\ Len(E) = 14 /\ G \in Seq(Byte) /\ Len(G) = 24
  BY OGMFrame
<1>3. b = E \o G
  BY PayloadsAre DEF FrameOf
<1> HIDE DEF E, G, b
<1>4. Joined(b, E, 14, G, 24)
  BY <1>2, <1>3, JoinedAt
<1>5. /\ b \in Seq(Byte) /\ Len(b) = 38
      /\ \A i \in 1 .. 14 : b[i] = E[i]
      /\ \A i \in 15 .. 38 : b[i] = G[i - 14]
  BY <1>4 DEF Joined
<1>6. StartsEthernet(b, c.ethernet)
  BY <1>5, EthernetStart DEF E
<1>7. 14 <= Len(b) /\ 38 <= Len(b)
  BY ONLY <1>5
<1>8. EthernetSays(b, c.ethernet)
  BY ONLY <1>1, <1>5, <1>6, <1>7, EthernetRead
<1>9. OGMSays(b, c.ogm)
  BY ONLY <1>1, <1>5, <1>7, OGMRead DEF G
<1> QED
  BY <1>8, <1>9 DEF b

(* Networking.cpp:29-112, 249-262, 459-469: whatever was in the memory that *)
(* a packet was built in, each field that its receiver reads at its place  *)
(* in the frame has the value that the sender was called with, in network  *)
(* order.                                                                  *)
THEOREM FramesSayWhatWasAsked == Spec => []SaysWhatWasAsked
<1>1. PacketsInv => SaysWhatWasAsked
  <2> SUFFICES ASSUME PacketsInv, NEW f \in air
               PROVE  /\ EthernetSays(f.bytes, f.call.ethernet)
                      /\ "ip" \in DOMAIN f.call => IPv4Says(f.bytes, f.call.ip)
                      /\ "tcp" \in DOMAIN f.call => TCPSays(f.bytes, f.call.tcp)
                      /\ "icmp" \in DOMAIN f.call => ICMPSays(f.bytes, f.call.icmp)
                      /\ "ogm" \in DOMAIN f.call => OGMSays(f.bytes, f.call.ogm)
    BY DEF SaysWhatWasAsked
  <2>1. f.call \in Calls /\ f.bytes = FrameOf(f.call)
    BY DEF PacketsInv, AirInv
  <2>2. CASE f.call \in TCPCalls
    <3>1. "icmp" \notin DOMAIN f.call /\ "ogm" \notin DOMAIN f.call
      BY <2>2, Domains
    <3> QED
      BY ONLY <2>1, <2>2, <3>1, SegmentRead, Zenon
  <2>3. CASE f.call \in ICMPCalls
    <3>1. "tcp" \notin DOMAIN f.call /\ "ogm" \notin DOMAIN f.call
      BY <2>3, Domains
    <3> QED
      BY ONLY <2>1, <2>3, <3>1, PingRead, Zenon
  <2>4. CASE f.call \in OGMCalls
    <3>1. /\ "ip" \notin DOMAIN f.call /\ "tcp" \notin DOMAIN f.call
          /\ "icmp" \notin DOMAIN f.call
      BY <2>4, Domains
    <3> QED
      BY ONLY <2>1, <2>4, <3>1, OGMMessageRead, Zenon
  <2> QED
    BY <2>1, <2>2, <2>3, <2>4, PacketsAssumption, Zenon
<1> QED
  BY <1>1, PacketsInvHolds, PTL

-----------------------------------------------------------------------------
(* A sniffer reads in its buffer what is in the frame                      *)

(* The buffer has the frame as far as the ports behind its IP header.      *)
Holding(m, b) ==
  /\ m \in Seq(Byte) /\ b \in Seq(Byte)
  /\ 78 <= Len(m)
  /\ \A i \in 1 .. Len(b) : i <= 78 => m[i] = b[i]

(* A port is stored with the more significant byte first, and htons() of   *)
(* what a little-endian machine loads from there puts it right.            *)
LEMMA PortRead ==
  ASSUME NEW x \in Byte, NEW y \in Byte
  PROVE  htons(x + 256 * y) = 256 * x + y
BY DEF htons, Byte

(* The ports are within the first 78 bytes of a frame that reaches so far. *)
LEMMA PortsAreThere ==
  ASSUME NEW b \in Seq(Byte), HasPorts(b)
  PROVE  LET k == TransportAt(b)
         IN  /\ k \in 14 .. 74 /\ k + 4 <= Len(b)
             /\ 34 <= Len(b) /\ Len(b) \in Nat
             /\ k = 14 + 4 * (b[15] % 16)
<1> DEFINE x == b[15]
           n == Len(b)
           z == x % 16
<1>1. n \in Nat /\ 34 <= n
  BY DEF HasPorts
<1>2. x \in Byte
  BY <1>1, ElementOfSeq
<1>3. 14 + 4 * z + 4 <= n
  BY DEF HasPorts
<1>4. TransportAt(b) = 14 + z * 4
  BY DEF TransportAt
<1> HIDE DEF x, n
<1>5. z \in 0 .. 15
  BY <1>2 DEF Byte
<1> HIDE DEF z
<1>6. 14 + z * 4 \in 14 .. 74 /\ 14 + z * 4 + 4 <= n /\ 14 + z * 4 = 14 + 4 * z
  BY ONLY <1>1, <1>3, <1>5
<1> QED
  BY ONLY <1>1, <1>4, <1>6, Zenon DEF n, z, x

(* The buffer has the bytes of the frame there.                            *)
LEMMA SameBytes ==
  ASSUME NEW m, NEW b, Holding(m, b), HasPorts(b),
         NEW i \in Nat, 1 <= i, i <= 34 \/ i <= TransportAt(b) + 4
  PROVE  m[i] = b[i] /\ b[i] \in Byte
<1> DEFINE k == TransportAt(b)
           n == Len(b)
<1>1. k \in 14 .. 74 /\ k + 4 <= n /\ 34 <= n /\ n \in Nat
  BY PortsAreThere DEF Holding
<1>2. i <= 34 \/ i <= k + 4
  OBVIOUS
<1> HIDE DEF k, n
<1>3. i \in 1 .. n /\ i <= 78
  BY ONLY <1>1, <1>2, i \in Nat, 1 <= i
<1> USE <1>3 DEF n
<1> QED
  BY ElementOfSeq DEF Holding

(* The type, the protocol and the place of the ports.                      *)
LEMMA SameHeaders ==
  ASSUME NEW m, NEW b, Holding(m, b), HasPorts(b)
  PROVE  /\ GetType(EthernetAt(m)) = ETHERTYPE_IP
         /\ m[24] \in {IPPROTO_TCP, IPPROTO_UDP}
         /\ TransportAt(m) = TransportAt(b)
<1>1. \A i \in 1 .. 34 : m[i] = b[i] /\ b[i] \in Byte
  BY SameBytes
<1>2. /\ m[13] = b[13] /\ m[14] = b[14] /\ m[15] = b[15] /\ m[24] = b[24]
      /\ b[13] \in Byte /\ b[14] \in Byte
  BY ONLY <1>1
<1> DEFINE x == b[13]
           y == b[14]
<1>3. 256 * x + y = ETHERTYPE_IP
  BY DEF HasPorts, U16At
<1>4. GetType(EthernetAt(m)) = x * 256 + y
  BY <1>2 DEF GetType, EthernetAt
<1>5. x \in Int /\ y \in Int
  BY <1>2 DEF Byte
<1> HIDE DEF x, y
<1>6. x * 256 + y = 256 * x + y
  BY ONLY <1>5
<1>7. TransportAt(m) = TransportAt(b)
  BY <1>2 DEF TransportAt
<1>8. m[24] \in {IPPROTO_TCP, IPPROTO_UDP}
  BY <1>2 DEF HasPorts
<1> QED
  BY ONLY <1>3, <1>4, <1>6, <1>7, <1>8, Zenon

(* The ports.                                                              *)
LEMMA SamePorts ==
  ASSUME NEW m, NEW b, Holding(m, b), HasPorts(b)
  PROVE  LET k == TransportAt(b)
             ports == UDPGet(UDPAt(m, k))
         IN  /\ ports.sourcePort = U16At(b, k)
             /\ ports.destinationPort = U16At(b, k + 2)
<1> DEFINE k == TransportAt(b)
<1>1. k \in 14 .. 74
  BY PortsAreThere DEF Holding
<1>2. \A i \in Nat : 1 <= i /\ i <= k + 4 => m[i] = b[i] /\ b[i] \in Byte
  BY SameBytes
<1> HIDE DEF k
<1>3. \A j \in {k, k + 2} : htons(LoadWord(m, j)) = U16At(b, j)
  <2> TAKE j \in {k, k + 2}
  <2>1. /\ j + 1 \in Nat /\ 1 <= j + 1 /\ j + 1 <= k + 4
        /\ j + 2 \in Nat /\ 1 <= j + 2 /\ j + 2 <= k + 4
    BY ONLY <1>1
  <2> DEFINE x == b[j + 1]
             y == b[j + 2]
  <2>2. m[j + 1] = x /\ m[j + 2] = y /\ x \in Byte /\ y \in Byte
    BY ONLY <1>2, <2>1
  <2>3. LoadWord(m, j) = x + 256 * y /\ U16At(b, j) = 256 * x + y
    BY <2>2 DEF LoadWord, U16At
  <2> HIDE DEF x, y
  <2> QED
    BY ONLY <2>2, <2>3, PortRead
<1> QED
  BY <1>3 DEF UDPGet, UDPAt, k

(* The two hardware addresses at the start of a frame.                     *)
LEMMA AddressesAt ==
  ASSUME NEW m \in Seq(Byte), 14 <= Len(m)
  PROVE  /\ BytesAt(m, 0, 6) = <<m[1], m[2], m[3], m[4], m[5], m[6]>>
         /\ BytesAt(m, 6, 6) = <<m[7], m[8], m[9], m[10], m[11], m[12]>>
<1>1. BytesAt(m, 0, 6) = <<m[1], m[2], m[3], m[4], m[5], m[6]>>
  <2>1. /\ m[0 + 1] = m[1] /\ m[0 + 2] = m[2] /\ m[0 + 3] = m[3]
        /\ m[0 + 4] = m[4] /\ m[0 + 5] = m[5] /\ m[6] = m[6]
        /\ 0 \in Nat /\ 6 \in Nat /\ 6 = 0 + 6 /\ 6 <= Len(m)
    BY LenProperties
  <2> QED
    BY ONLY <2>1, SixAt, m \in Seq(Byte)
<1>2. BytesAt(m, 6, 6) = <<m[7], m[8], m[9], m[10], m[11], m[12]>>
  <2>1. /\ m[6 + 1] = m[7] /\ m[6 + 2] = m[8] /\ m[6 + 3] = m[9]
        /\ m[6 + 4] = m[10] /\ m[6 + 5] = m[11] /\ m[12] = m[12]
        /\ 6 \in Nat /\ 12 \in Nat /\ 12 = 6 + 6 /\ 12 <= Len(m)
    BY LenProperties
  <2> QED
    BY ONLY <2>1, SixAt, m \in Seq(Byte)
<1> QED
  BY <1>1, <1>2

(* A frame with a whole Ethernet header: the buffer has that header.       *)
LEMMA SameStart ==
  ASSUME NEW m, NEW b, Holding(m, b), 14 <= Len(b), NEW i \in 1 .. 14
  PROVE  m[i] = b[i] /\ b[i] \in Byte
<1> DEFINE n == Len(b)
<1>1. n \in Nat
  BY LenProperties DEF Holding
<1>2. 14 <= n
  OBVIOUS
<1> HIDE DEF n
<1>3. i \in 1 .. n /\ i <= 78
  BY ONLY <1>1, <1>2, i \in 1 .. 14
<1> USE <1>3 DEF n
<1> QED
  BY ElementOfSeq DEF Holding

(* The sniffer reads the frame's type ...                                  *)
LEMMA SameType ==
  ASSUME NEW m, NEW b, Holding(m, b), 14 <= Len(b)
  PROVE  GetType(EthernetAt(m)) = U16At(b, 12)
<1> DEFINE x == b[13]
           y == b[14]
<1>1. m[13] = x /\ m[14] = y /\ x \in Byte /\ y \in Byte
  BY SameStart
<1>2. GetType(EthernetAt(m)) = x * 256 + y
  BY <1>1 DEF GetType, EthernetAt
<1>3. U16At(b, 12) = 256 * x + y
  BY DEF U16At
<1> HIDE DEF x, y
<1>4. x \in Int /\ y \in Int
  BY ONLY <1>1 DEF Byte
<1>5. x * 256 + y = 256 * x + y
  BY ONLY <1>4
<1> QED
  BY ONLY <1>2, <1>3, <1>5, Zenon

(* ... and its two addresses.                                              *)
LEMMA SameAddresses ==
  ASSUME NEW m, NEW b, Holding(m, b), 14 <= Len(b)
  PROVE  /\ EthernetAt(m).destMac = BytesAt(b, 0, 6)
         /\ EthernetAt(m).sourceMac = BytesAt(b, 6, 6)
<1>1. \A i \in 1 .. 14 : m[i] = b[i]
  BY SameStart
<1>2. /\ m[1] = b[1] /\ m[2] = b[2] /\ m[3] = b[3] /\ m[4] = b[4]
      /\ m[5] = b[5] /\ m[6] = b[6] /\ m[7] = b[7] /\ m[8] = b[8]
      /\ m[9] = b[9] /\ m[10] = b[10] /\ m[11] = b[11] /\ m[12] = b[12]
  BY ONLY <1>1
<1>3. m \in Seq(Byte) /\ b \in Seq(Byte) /\ 78 <= Len(m) /\ 14 <= Len(b)
  BY DEF Holding
<1>4. 14 <= Len(m)
  BY <1>3, LenProperties
<1>5. /\ BytesAt(m, 0, 6) = <<m[1], m[2], m[3], m[4], m[5], m[6]>>
      /\ BytesAt(m, 6, 6) = <<m[7], m[8], m[9], m[10], m[11], m[12]>>
      /\ BytesAt(b, 0, 6) = <<b[1], b[2], b[3], b[4], b[5], b[6]>>
      /\ BytesAt(b, 6, 6) = <<b[7], b[8], b[9], b[10], b[11], b[12]>>
  BY ONLY <1>3, <1>4, AddressesAt
<1>6. BytesAt(m, 0, 6) = SubSeq(m, 1, 6) /\ BytesAt(m, 6, 6) = SubSeq(m, 7, 12)
  BY DEF BytesAt
<1> QED
  BY ONLY <1>2, <1>5, <1>6, Zenon DEF EthernetAt

(* Networking.cpp PrintPacketInfo and LibPcapExperiments.cpp               *)
(* print_packet_info: for every sequence of frames from any machine,       *)
(* nothing is printed of a frame that is not IP; the line of an IP frame   *)
(* has the hardware addresses of that frame and not of one before it; and  *)
(* if the frame reaches to the ports, it has those of that frame, however  *)
(* long its IP header is, and whatever is left behind it in the buffer.    *)
THEOREM LinesShowTheFrame == Spec => []PrintsWhatCame
<1>1. PacketsInv => PrintsWhatCame
  <2> DEFINE b == shown.bytes
             k == TransportAt(b)
             line == PrintPacketInfo(buffer)
             Macs == shown.line.macs = [source |-> BytesAt(b, 6, 6),
                                        dest |-> BytesAt(b, 0, 6)]
             Ports == /\ shown.line.from.port = U16At(b, k)
                      /\ shown.line.to.port = U16At(b, k + 2)
  <2>0. PacketsInv => b \in Seq(Byte)
    BY DEF PacketsInv, SnifferInv
  <2> SUFFICES ASSUME PacketsInv, 14 <= Len(b)
               PROVE  /\ U16At(b, 12) # ETHERTYPE_IP => shown.line = NoLine
                      /\ U16At(b, 12) = ETHERTYPE_IP => Macs
                      /\ HasPorts(b) => U16At(b, 12) = ETHERTYPE_IP /\ Ports
    <3>1. HasPorts(b) /\ PacketsInv => k = 14 + 4 * (b[15] % 16)
      BY <2>0, PortsAreThere
    <3>2. Len(b) >= 14 => 14 <= Len(b)
      BY <2>0, LenProperties
    <3> QED
      BY <3>1, <3>2 DEF PrintsWhatCame
  <2>1. b \in Seq(Byte) /\ b # <<>>
    BY ONLY <2>0, PacketsInv, 14 <= Len(b)
  <2>2. shown.line = line /\ Holding(buffer, b)
    <3>1. buffer \in Seq(Byte)
      <4>1. [1 .. BufferSize -> Byte] \subseteq Seq(Byte)
        BY PacketsAssumption, SeqDef
      <4> QED
        BY <4>1 DEF PacketsInv, SnifferInv
    <3>2. /\ \A i \in 1 .. Len(b) : i <= BufferSize => buffer[i] = b[i]
          /\ Len(buffer) >= BufferSize /\ shown.line = line
      BY <2>1 DEF PacketsInv, SnifferInv
    <3>3. BufferSize \in Nat /\ 78 <= BufferSize
      BY PacketsAssumption
    <3> QED
      BY <2>1, <3>1, <3>2, <3>3 DEF Holding
  <2>3. GetType(EthernetAt(buffer)) = U16At(b, 12)
    BY <2>2, SameType
  <2>4. ASSUME U16At(b, 12) # ETHERTYPE_IP
        PROVE  shown.line = NoLine
    BY <2>2, <2>3, <2>4 DEF PrintPacketInfo
  <2>5. ASSUME U16At(b, 12) = ETHERTYPE_IP
        PROVE  Macs
    <3>1. line.macs = [source |-> EthernetAt(buffer).sourceMac,
                       dest |-> EthernetAt(buffer).destMac]
      BY <2>3, <2>5 DEF PrintPacketInfo
    <3>2. /\ EthernetAt(buffer).destMac = BytesAt(b, 0, 6)
          /\ EthernetAt(buffer).sourceMac = BytesAt(b, 6, 6)
      BY <2>2, SameAddresses
    <3> QED
      BY ONLY <2>2, <3>1, <3>2, Zenon
  <2>6. ASSUME HasPorts(b)
        PROVE  U16At(b, 12) = ETHERTYPE_IP /\ Ports
    <3>1. U16At(b, 12) = ETHERTYPE_IP
      BY <2>6 DEF HasPorts
    <3>2. /\ GetType(EthernetAt(buffer)) = ETHERTYPE_IP
          /\ buffer[24] \in {IPPROTO_TCP, IPPROTO_UDP}
          /\ TransportAt(buffer) = k
      BY <2>2, <2>6, SameHeaders
    <3>3. /\ line.from.port = UDPGet(UDPAt(buffer, k)).sourcePort
          /\ line.to.port = UDPGet(UDPAt(buffer, k)).destinationPort
      BY <3>2 DEF PrintPacketInfo, EndPoint
    <3>4. /\ UDPGet(UDPAt(buffer, k)).sourcePort = U16At(b, k)
          /\ UDPGet(UDPAt(buffer, k)).destinationPort = U16At(b, k + 2)
      BY <2>2, <2>6, SamePorts
    <3> QED
      BY ONLY <2>2, <3>1, <3>3, <3>4, Zenon
  <2> QED
    BY ONLY <2>4, <2>5, <2>6
<1> QED
  BY <1>1, PacketsInvHolds, PTL

=============================================================================
