------------------------ MODULE PacketHeadersProofs ------------------------
(***************************************************************************)
(* What the setters and getters of the headers do, for every value that    *)
(* their parameters can have, and for whatever the memory held before;     *)
(* that Utilities::Checksum makes a message add up for its receiver; and   *)
(* which bytes the functions of Networking.cpp that fill headers in make   *)
(* of their arguments: the layouts.                                        *)
(***************************************************************************)
EXTENDS PacketHeaders, SequenceTheorems, WellFoundedInduction, TLAPS

(* Parameters of 8 and 16 bits.                                            *)
U8 == {v \in Nat : v < 256}
U16 == {v \in Nat : v < 65536}

(* Four bytes: an address, or a sequence number; and six.                  *)
Address == [1 .. 4 -> U8]
MACAddress == [1 .. 6 -> U8]

-----------------------------------------------------------------------------
(* The conversions                                                         *)

(* htons() undoes itself, and its results are 16-bit numbers.              *)
LEMMA SwapTwice == \A v \in U16 : htons(v) \in U16 /\ htons(htons(v)) = v
<1> TAKE v \in U16
<1> DEFINE low == v % 256
           high == v \div 256
<1>1. v \in Nat /\ v < 65536
  BY DEF U16
<1>2. low \in Nat /\ high \in Nat /\ low < 256 /\ high < 256 /\ v = 256 * high + low
  BY <1>1
<1>3. htons(v) = 256 * low + high
  BY DEF htons
<1> HIDE DEF low, high
<1>4. (256 * low + high) % 256 = high /\ (256 * low + high) \div 256 = low
  BY <1>2
<1>5. htons(v) \in Nat /\ htons(v) < 65536
  BY <1>2, <1>3
<1>6. htons(htons(v)) = 256 * high + low
  BY <1>3, <1>4 DEF htons
<1> QED
  BY <1>2, <1>5, <1>6 DEF U16

(* A 32-bit number is the tuple of its four bytes.                         *)
LEMMA FourBytes ==
  ASSUME NEW s \in Address
  PROVE  s \in Seq(U8) /\ Len(s) = 4
<1>1. s \in Seq(U8)
  BY SeqDef DEF Address
<1>2. DOMAIN s = 1 .. 4 /\ DOMAIN s = 1 .. Len(s) /\ Len(s) \in Nat
  BY <1>1, LenProperties DEF Address
<1> QED
  BY <1>1, <1>2

(* A hardware address is the tuple of its six bytes.                       *)
LEMMA SixBytes ==
  ASSUME NEW s \in MACAddress
  PROVE  s \in Seq(U8) /\ Len(s) = 6
<1>1. s \in Seq(U8)
  BY SeqDef DEF MACAddress
<1>2. DOMAIN s = 1 .. 6 /\ DOMAIN s = 1 .. Len(s) /\ Len(s) \in Nat
  BY <1>1, LenProperties DEF MACAddress
<1> QED
  BY <1>1, <1>2

(* htonl(), inet_addr() and inet_ntoa() undo each other.                   *)
LEMMA ReverseTwice ==
  ASSUME NEW s \in Address
  PROVE  Reverse(s) \in Address /\ Reverse(Reverse(s)) = s
<1>1. \A t \in Address : Reverse(t) = [i \in 1 .. 4 |-> t[5 - i]]
  <2> TAKE t \in Address
  <2>1. Len(t) = 4 /\ \A i \in 1 .. 4 : 4 - i + 1 = 5 - i
    BY FourBytes
  <2> QED
    BY <2>1 DEF Reverse
<1>2. Reverse(s) \in Address
  BY <1>1 DEF Address
<1>3. Reverse(Reverse(s)) \in [1 .. 4 -> U8]
      /\ \A i \in 1 .. 4 : Reverse(Reverse(s))[i] = s[i]
  BY <1>1, <1>2 DEF Address
<1> QED
  BY <1>2, <1>3 DEF Address

(* A flag comes back from the bit that it was put into.                    *)
LEMMA Bits == \A b \in BOOLEAN : (Bit(b) = 1) = b
  BY DEF Bit

-----------------------------------------------------------------------------
(* TCPHeader                                                               *)

(* TCPHeader.h:83: SetDataOffset and GetDataOffset, four bits between      *)
(* them, agree for whole words up to 60 bytes and for no other length.     *)
THEOREM DataOffsetLimit ==
  ASSUME NEW n \in U16
  PROVE  SetDataOffset(n) * 4 = n <=> n % 4 = 0 /\ n <= 60
BY DEF U16, SetDataOffset

(* Options and data that calcChecksum can cover: whole words of options,   *)
(* 40 bytes at most.                                                       *)
LEMMA OptionsLimit ==
  ASSUME NEW n \in Nat, n < 65516
  PROVE  OptionsLength(SetDataOffset(20 + n) * 4) = n <=> n % 4 = 0 /\ n <= 40
<1> DEFINE m == 20 + n
           offset == SetDataOffset(m) * 4
<1>1. m \in U16
  BY DEF U16
<1> HIDE DEF m
<1>2. offset \in Nat /\ offset <= 60
  BY <1>1 DEF SetDataOffset, U16
<1>3. offset = m <=> m % 4 = 0 /\ m <= 60
  BY <1>1, DataOffsetLimit
<1> HIDE DEF offset
<1>4. OptionsLength(offset) = IF offset >= 20 THEN offset - 20 ELSE 65516 + offset
  BY <1>2 DEF OptionsLength
<1>5. OptionsLength(offset) = n <=> offset = m
  BY <1>2, <1>4 DEF m
<1>6. (m % 4 = 0 <=> n % 4 = 0) /\ (m <= 60 <=> n <= 40)
  BY DEF m
<1> QED
  BY <1>3, <1>5, <1>6 DEF offset, m

(* TCPHeader.h:222: the memcpy of CalcChecksum takes the length of the     *)
(* options back out of the header.  It is the length of what follows the   *)
(* header exactly when the options are whole words, 40 bytes at most; the  *)
(* subtraction never wraps then, and everything fits pseudoBuffer.         *)
THEOREM OptionsAreCovered ==
  ASSUME NEW options \in Seq(U8), NEW data \in Seq(U8), Len(options) < 65516
  PROVE  LET length == OptionsLength(SetDataOffset(20 + Len(options)) * 4)
         IN  /\ length = Len(options) <=> Len(options) % 4 = 0 /\ Len(options) <= 40
             /\ TCPArgumentsAllowed([options |-> options, data |-> data])
                  => /\ length = Len(options)
                     /\ 12 + 20 + length + Len(data) <= pseudoBufferSize
<1> DEFINE n == Len(options)
           d == Len(data)
           length == OptionsLength(SetDataOffset(20 + n) * 4)
<1>1. n \in Nat /\ d \in Nat /\ n < 65516
  BY LenProperties
<1>2. TCPArgumentsAllowed([options |-> options, data |-> data])
        <=> n % 4 = 0 /\ 20 + n <= 60 /\ 12 + 20 + n + d <= 10240
  BY DEF TCPArgumentsAllowed, pseudoBufferSize
<1> HIDE DEF n, d
<1>3. length = n <=> n % 4 = 0 /\ n <= 40
  BY ONLY <1>1, OptionsLimit
<1> HIDE DEF length
<1>4. TCPArgumentsAllowed([options |-> options, data |-> data])
        => length = n /\ 12 + 20 + length + d <= 10240
  BY <1>1, <1>2, <1>3, SMTT(30)
<1> QED
  BY <1>3, <1>4 DEF length, n, d, pseudoBufferSize

TCPFields ==
  [sourcePort : U16, destinationPort : U16, sequence : Address, acknowledge : Address,
   reserved_part1 : U8, dataOffset : U8, FYN : U8, SYN : U8, RST : U8, PSH : U8,
   ACK : U8, URG : U8, reserved2 : U8, window : U16, checksum : U16,
   urgent_pointer : U16]

TCPValues ==
  [sourcePort : U16, destinationPort : U16, window : U16, acknowledge : Address,
   sequence : Address, dataOffset : U16, URG : BOOLEAN, ACK : BOOLEAN, PSH : BOOLEAN,
   RST : BOOLEAN, SYN : BOOLEAN, FYN : BOOLEAN, checksum : U16, urgentPointer : U16]

(* TCPHeader.h: every getter returns what its setter was given, but for    *)
(* the checksum and the urgent pointer, which come back with their bytes   *)
(* swapped, and for lengths that the data offset cannot say.               *)
THEOREM TCPReadsBack ==
  ASSUME NEW h \in TCPFields, NEW v \in TCPValues
  PROVE  LET g == TCPGet(TCPSet(h, v))
         IN  /\ \A f \in {"sourcePort", "destinationPort", "window", "acknowledge",
                          "sequence", "URG", "ACK", "PSH", "RST", "SYN", "FYN"} :
                  g[f] = v[f]
             /\ g.checksum = htons(v.checksum)
             /\ g.urgentPointer = htons(v.urgentPointer)
             /\ g.dataOffset = v.dataOffset
                  <=> v.dataOffset % 4 = 0 /\ v.dataOffset <= 60
<1> DEFINE s == TCPSet(h, v)
<1>1. /\ s.sourcePort = htons(v.sourcePort)
      /\ s.destinationPort = htons(v.destinationPort)
      /\ s.window = htons(v.window)
      /\ s.acknowledge = htonl(v.acknowledge)
      /\ s.sequence = htonl(v.sequence)
      /\ s.dataOffset = SetDataOffset(v.dataOffset)
      /\ s.URG = Bit(v.URG) /\ s.ACK = Bit(v.ACK) /\ s.PSH = Bit(v.PSH)
      /\ s.RST = Bit(v.RST) /\ s.SYN = Bit(v.SYN) /\ s.FYN = Bit(v.FYN)
      /\ s.checksum = v.checksum /\ s.urgent_pointer = v.urgentPointer
  BY DEF TCPSet, TCPFields
<1> HIDE DEF s
<1>2. htonl(s.sequence) = v.sequence /\ htonl(s.acknowledge) = v.acknowledge
  BY <1>1, ReverseTwice DEF htonl, TCPValues
<1>3. /\ htons(s.sourcePort) = v.sourcePort
      /\ htons(s.destinationPort) = v.destinationPort
      /\ htons(s.window) = v.window
  BY <1>1, SwapTwice DEF TCPValues
<1>4. s.dataOffset * 4 = v.dataOffset
        <=> v.dataOffset % 4 = 0 /\ v.dataOffset <= 60
  BY <1>1, DataOffsetLimit DEF TCPValues
<1>5. /\ (s.URG = 1) = v.URG /\ (s.ACK = 1) = v.ACK /\ (s.PSH = 1) = v.PSH
      /\ (s.RST = 1) = v.RST /\ (s.SYN = 1) = v.SYN /\ (s.FYN = 1) = v.FYN
  BY <1>1, Bits, Zenon DEF TCPValues
<1> QED
  BY <1>1, <1>2, <1>3, <1>4, <1>5 DEF TCPGet, s

-----------------------------------------------------------------------------
(* IPv4Header, UDPHeader, EthernetHeader                                   *)

IPv4Fields ==
  [ipHeaderLength : U8, ipVersion : U8, serviceType : U8, packetLength : U16,
   packetId : U16, frag_offset : U8, more_fragment : U8, dont_fragment : U8,
   reserved_zero : U8, frag_offset1 : U8, timeToLive : U8, protocol : U8,
   checksum : U16, srcaddr : Address, destaddr : Address]

IPv4Values ==
  [version : {v \in Nat : v < 16}, headerLength : U8, serviceType : U8,
   packetLength : U16, packetId : U16, timeToLive : U8, protocol : U8,
   checksum : U16, dontFragment : {0, 1}, source : Address, dest : Address]

(* IPv4Header.h: every getter returns what its setter was given, the       *)
(* addresses as the texts they were; the length, if it is whole words.     *)
THEOREM IPv4ReadsBack ==
  ASSUME NEW h \in IPv4Fields, NEW v \in IPv4Values
  PROVE  LET g == IPv4Get(IPv4Set(h, v))
         IN  /\ \A f \in {"version", "serviceType", "packetLength", "packetId",
                          "timeToLive", "protocol", "checksum", "dontFragment",
                          "source", "dest"} : g[f] = v[f]
             /\ g.headerLength = v.headerLength
                  <=> v.headerLength % 4 = 0 /\ v.headerLength <= 60
<1> DEFINE s == IPv4Set(h, v)
<1>1. /\ s.ipVersion = v.version % 16
      /\ s.ipHeaderLength = (v.headerLength \div 4) % 16
      /\ s.serviceType = v.serviceType % 256
      /\ s.packetLength = htons(v.packetLength)
      /\ s.packetId = htons(v.packetId)
      /\ s.timeToLive = v.timeToLive % 256
      /\ s.protocol = v.protocol % 256
      /\ s.checksum = v.checksum
      /\ s.dont_fragment = v.dontFragment % 2
      /\ s.srcaddr = inet_addr(v.source)
      /\ s.destaddr = inet_addr(v.dest)
  BY DEF IPv4Set, IPv4Fields
<1> HIDE DEF s
<1>2. inet_ntoa(s.srcaddr) = v.source /\ inet_ntoa(s.destaddr) = v.dest
  BY <1>1, ReverseTwice DEF inet_addr, inet_ntoa, IPv4Values
<1>3. htons(s.packetLength) = v.packetLength /\ htons(s.packetId) = v.packetId
  BY <1>1, SwapTwice DEF IPv4Values
<1>4. \A n \in U8 : n % 256 = n
  BY DEF U8
<1>5. /\ s.serviceType = v.serviceType /\ s.timeToLive = v.timeToLive
      /\ s.protocol = v.protocol
  BY <1>1, <1>4 DEF IPv4Values
<1>6. s.ipVersion = v.version /\ s.dont_fragment = v.dontFragment
  BY <1>1 DEF IPv4Values
<1>7. s.ipHeaderLength * 4 = v.headerLength
        <=> v.headerLength % 4 = 0 /\ v.headerLength <= 60
  BY <1>1 DEF IPv4Values, U8
<1> QED
  BY <1>1, <1>2, <1>3, <1>5, <1>6, <1>7 DEF IPv4Get, s

(* UDPHeader.h: ports and length come back, the checksum comes swapped.    *)
THEOREM UDPReadsBack ==
  ASSUME NEW h \in [sourcePort : U16, destinationPort : U16, length : U16,
                    checksum : U16],
         NEW v \in [sourcePort : U16, destinationPort : U16, packetLength : U16,
                    checksum : U16]
  PROVE  UDPGet(UDPSet(h, v))
           = [sourcePort |-> v.sourcePort, destinationPort |-> v.destinationPort,
              packetLength |-> v.packetLength, checksum |-> htons(v.checksum)]
<1>1. /\ htons(htons(v.sourcePort)) = v.sourcePort
      /\ htons(htons(v.destinationPort)) = v.destinationPort
      /\ htons(htons(v.packetLength)) = v.packetLength
  BY SwapTwice
<1> QED
  BY <1>1 DEF UDPSet, UDPGet

(* The two bytes of a type make up the type.                               *)
LEMMA HighAndLow == \A t \in U16 : (t \div 256) * 256 + (t % 256) = t
  BY DEF U16

(* EthernetHeader.h: the type comes back, and a frame that is given both   *)
(* addresses keeps nothing of what its memory held before.                 *)
THEOREM EthernetFilledIn ==
  ASSUME NEW a \in [dst : MACAddress, src : MACAddress, type : U16],
         NEW h, NEW g,
         DOMAIN h = DOMAIN EthernetWidths, DOMAIN g = DOMAIN EthernetWidths
  PROVE  /\ GetType(initEthernetHeader(h, a)) = a.type
         /\ initEthernetHeader(g, a) = initEthernetHeader(h, a)
<1>1. a.dst \in MACAddress /\ a.src \in MACAddress /\ a.type \in U16
  OBVIOUS
<1>2. \A d : SetMACAddress(d, a.dst) = a.dst /\ SetMACAddress(d, a.src) = a.src
  BY <1>1, SixBytes DEF SetMACAddress
<1>3. initEthernetHeader(g, a) = initEthernetHeader(h, a)
  BY <1>2, ZenonT(60) DEF initEthernetHeader, SetType, EthernetWidths
<1>4. /\ initEthernetHeader(h, a).typeHigh = a.type \div 256
      /\ initEthernetHeader(h, a).typeLow = a.type % 256
  BY DEF initEthernetHeader, SetType, EthernetWidths
<1>5. GetType(initEthernetHeader(h, a)) = a.type
  BY <1>1, <1>4, HighAndLow DEF GetType
<1> QED
  BY <1>3, <1>5

(* Networking.cpp:460-469: SendOGMMessage leaves no byte of the OGM header *)
(* as it found it, so that it does not rest on the zeros of its buffer.    *)
THEOREM OGMFilledIn ==
  ASSUME NEW a \in [ttl : U8, seqNumber : Address, originator : MACAddress, tq : U8,
                    tvlvLength : U16],
         NEW h, NEW g,
         DOMAIN h = DOMAIN OGMWidths, DOMAIN g = DOMAIN OGMWidths
  PROVE  initOGMHeader(h, a) = initOGMHeader(g, a)
  BY SixBytes, ZenonT(60) DEF initOGMHeader, SetMACAddress, OGMWidths

-----------------------------------------------------------------------------
(* Induction.  The theorems of the library that take a predicate cannot be *)
(* used here; this one, about sets, can.                                   *)

(* A set of natural numbers that is not empty has a least element.         *)
LEMMA LeastNumber ==
  ASSUME NEW T, T \subseteq Nat, T # {}
  PROVE  \E x \in T : \A y \in T : x <= y
<1> DEFINE R == OpToRel(<, Nat)
<1>1. IsWellFoundedOn(R, Nat)
  BY NatLessThanWellFounded
<1>2. \A x, y \in Nat : x < y => <<x, y>> \in R
  BY DEF OpToRel
<1> HIDE DEF R
<1>3. PICK x \in T : \A y \in T : ~ (<<y, x>> \in R)
  BY ONLY <1>1, WFMin, T \subseteq Nat, T # {}
<1>4. \A y \in T : ~ (y < x)
  BY <1>2, <1>3
<1> QED
  BY <1>3, <1>4, \A y \in T : y \in Nat

(* A set of natural numbers that has 0, and with each number the next, has *)
(* all of them.                                                            *)
LEMMA Induction ==
  ASSUME NEW T, 0 \in T, \A n \in Nat : n \in T => n + 1 \in T
  PROVE  Nat \subseteq T
<1> DEFINE U == Nat \ T
<1> SUFFICES ASSUME U # {} PROVE FALSE
  OBVIOUS
<1>1. PICK x \in U : \A y \in U : x <= y
  BY LeastNumber
<1>2. x \in Nat /\ x # 0 /\ x - 1 \in Nat /\ ~ (x <= x - 1)
  BY <1>1
<1>3. x - 1 \in T
  BY <1>1, <1>2
<1> QED
  BY <1>1, <1>2, <1>3

-----------------------------------------------------------------------------
(* Sums                                                                    *)

(* g has the first n partial sums of s.                                    *)
SumsUpTo(s, g, n) ==
  g[0] = 0 /\ \A k \in 1 .. n : g[k] = g[k - 1] + s[k]

(* There is a function of the first n partial sums, for every n.           *)
LEMMA SumsExist ==
  ASSUME NEW s, NEW n \in Nat
  PROVE  \E g : SumsUpTo(s, g, n)
<1> DEFINE T == {m \in Nat : \E g : SumsUpTo(s, g, m)}
<1>1. 0 \in T
  <2>1. SumsUpTo(s, [k \in Nat |-> 0], 0)
    BY DEF SumsUpTo
  <2> QED
    BY <2>1
<1>2. ASSUME NEW m \in Nat, m \in T PROVE m + 1 \in T
  <2>1. PICK g : SumsUpTo(s, g, m)
    BY <1>2
  <2> DEFINE h == [k \in Nat |-> IF k = m + 1 THEN g[m] + s[m + 1] ELSE g[k]]
  <2>2. h[0] = 0
    BY <2>1 DEF SumsUpTo
  <2>3. ASSUME NEW k \in 1 .. m + 1 PROVE h[k] = h[k - 1] + s[k]
    <3>1. CASE k = m + 1
      BY <3>1
    <3>2. CASE k # m + 1
      BY <3>2, <2>1 DEF SumsUpTo
    <3> QED
      BY <3>1, <3>2
  <2>4. SumsUpTo(s, h, m + 1)
    BY <2>2, <2>3 DEF SumsUpTo
  <2> QED
    BY <2>4
<1> HIDE DEF T
<1>3. Nat \subseteq T
  BY <1>1, <1>2, Induction
<1> QED
  BY <1>3 DEF T

(* ... and only one.                                                       *)
LEMMA SumsUnique ==
  ASSUME NEW s, NEW g, NEW h, NEW n \in Nat,
         SumsUpTo(s, g, n), SumsUpTo(s, h, n),
         NEW k \in 0 .. n
  PROVE  g[k] = h[k]
<1> DEFINE T == {m \in Nat : m <= n => g[m] = h[m]}
<1>1. 0 \in T
  BY DEF SumsUpTo
<1>2. ASSUME NEW m \in Nat, m \in T PROVE m + 1 \in T
  BY <1>2 DEF SumsUpTo
<1> HIDE DEF T
<1>3. Nat \subseteq T
  BY <1>1, <1>2, Induction
<1> QED
  BY <1>3 DEF T

(* The recursive function is what its definition says it is.               *)
LEMMA PartialSumsDef ==
  ASSUME NEW s
  PROVE  /\ PartialSums(s)[0] = 0
         /\ \A n \in Nat \ {0} : PartialSums(s)[n] = PartialSums(s)[n - 1] + s[n]
<1> DEFINE G(n) == CHOOSE g : SumsUpTo(s, g, n)
           F == [n \in Nat |-> G(n)[n]]
           Def(f) == [n \in Nat |-> IF n = 0 THEN 0 ELSE f[n - 1] + s[n]]
<1>1. \A n \in Nat : SumsUpTo(s, G(n), n)
  BY SumsExist
<1> HIDE DEF G
<1>2. F[0] = 0
  BY <1>1 DEF SumsUpTo
<1>3. ASSUME NEW n \in Nat \ {0} PROVE F[n] = F[n - 1] + s[n]
  <2>1. n - 1 \in Nat /\ n \in 1 .. n /\ n - 1 \in 0 .. n - 1
    OBVIOUS
  <2>2. SumsUpTo(s, G(n), n) /\ SumsUpTo(s, G(n - 1), n - 1)
    BY <1>1, <2>1
  <2>3. SumsUpTo(s, G(n), n - 1)
    BY <2>2 DEF SumsUpTo
  <2>4. G(n)[n - 1] = G(n - 1)[n - 1]
    BY <2>1, <2>2, <2>3, SumsUnique
  <2>5. G(n)[n] = G(n)[n - 1] + s[n]
    BY <2>1, <2>2 DEF SumsUpTo
  <2> QED
    BY <2>1, <2>4, <2>5
<1>4. F = Def(F)
  BY <1>2, <1>3
<1>5. PartialSums(s) = CHOOSE f : f = Def(f)
  BY DEF PartialSums
<1>6. PartialSums(s) = Def(PartialSums(s))
  <2> HIDE DEF F, Def
  <2> QED
    BY <1>4, <1>5
<1> QED
  BY <1>6

-----------------------------------------------------------------------------
(* The checksum                                                            *)

(* What the same n bytes count as when the first byte of each word is the  *)
(* less significant one, l, and when it is the more significant one, r.    *)
Counted(l, r, n) ==
  /\ l \in Nat /\ r \in Nat
  /\ l <= 65280 * n /\ l <= 256 * r
  /\ \E e \in Nat : 256 * l = r + 65535 * e

(* One byte more, whichever of the two bytes of its word it is.            *)
LEMMA NextByte ==
  ASSUME NEW l, NEW r, NEW n \in Nat, NEW x \in 0 .. 255, Counted(l, r, n)
  PROVE  /\ Counted(l + x, r + 256 * x, n + 1)
         /\ Counted(l + 256 * x, r + x, n + 1)
<1>1. PICK e \in Nat : 256 * l = r + 65535 * e
  BY DEF Counted
<1>2. /\ l \in Nat /\ r \in Nat /\ l <= 65280 * n /\ l <= 256 * r
      /\ x \in Nat /\ x <= 255
  BY DEF Counted
<1>3. 65280 * (n + 1) = 65280 * n + 65280
  BY ONLY n \in Nat
<1> DEFINE m == 65280 * n
<1>4. m \in Nat
  BY ONLY n \in Nat
<1> HIDE DEF m
<1>5. l <= m
  BY ONLY <1>2 DEF m
<1>6. l + x <= m + 65280 /\ l + 256 * x <= m + 65280
  BY ONLY <1>2, <1>4, <1>5
<1>7. l + x <= 65280 * (n + 1) /\ l + 256 * x <= 65280 * (n + 1)
  BY ONLY <1>3, <1>6 DEF m
<1>8. l + x <= 256 * (r + 256 * x) /\ l + 256 * x <= 256 * (r + x)
  BY ONLY <1>2
<1>9. 256 * (l + x) = (r + 256 * x) + 65535 * e
  BY ONLY <1>1, <1>2, e \in Nat
<1>10. 256 * (l + 256 * x) = (r + x) + 65535 * (e + x) /\ e + x \in Nat
  BY ONLY <1>1, <1>2, e \in Nat
<1>11. /\ l + x \in Nat /\ r + 256 * x \in Nat
       /\ l + 256 * x \in Nat /\ r + x \in Nat
  BY ONLY <1>2
<1>12. Counted(l + x, r + 256 * x, n + 1)
  BY ONLY <1>7, <1>8, <1>9, <1>11, e \in Nat DEF Counted
<1>13. Counted(l + 256 * x, r + x, n + 1)
  BY ONLY <1>7, <1>8, <1>10, <1>11 DEF Counted
<1> QED
  BY <1>12, <1>13

(* The sum of the words as the machine loads them and their sum as they    *)
(* were sent: 256 times the one is the other, but for multiples of 65535.  *)
LEMMA TwoByteOrders ==
  ASSUME NEW b \in Seq(Byte)
  PROVE  LET l == SumOf(AsLoaded(b))
             r == SumOf(AsSent(b))
         IN  /\ l \in Nat /\ r \in Nat
             /\ l <= 65280 * Len(b) /\ l <= 256 * r
             /\ \E e \in Nat : 256 * l = r + 65535 * e
<1> DEFINE L == PartialSums(AsLoaded(b))
           R == PartialSums(AsSent(b))
           P(n) == Counted(L[n], R[n], n)
           T == {n \in Nat : n <= Len(b) => P(n)}
<1>1. Len(b) \in Nat /\ DOMAIN b = 1 .. Len(b) /\ \A i \in 1 .. Len(b) : b[i] \in 0 .. 255
  BY LenProperties, ElementOfSeq DEF Byte
<1>2. L[0] = 0 /\ R[0] = 0
  BY PartialSumsDef
<1>3. ASSUME NEW i \in 1 .. Len(b)
      PROVE  /\ L[i] = L[i - 1] + (IF i % 2 = 1 THEN b[i] ELSE 256 * b[i])
             /\ R[i] = R[i - 1] + (IF i % 2 = 1 THEN 256 * b[i] ELSE b[i])
  <2>1. i \in Nat \ {0}
    BY <1>1
  <2>2. L[i] = L[i - 1] + AsLoaded(b)[i] /\ R[i] = R[i - 1] + AsSent(b)[i]
    BY <2>1, PartialSumsDef
  <2> QED
    BY <1>1, <2>2 DEF AsLoaded, AsSent
<1> HIDE DEF L, R
<1>4. P(0)
  BY <1>2 DEF Counted
<1>5. ASSUME NEW n \in Nat, P(n), n + 1 <= Len(b) PROVE P(n + 1)
  <2> DEFINE x == b[n + 1]
  <2>1. n + 1 \in 1 .. Len(b) /\ (n + 1) - 1 = n
    BY <1>1, <1>5
  <2>2. x \in 0 .. 255
    BY <1>1, <2>1
  <2>3. IF (n + 1) % 2 = 1
          THEN L[n + 1] = L[n] + x /\ R[n + 1] = R[n] + 256 * x
          ELSE L[n + 1] = L[n] + 256 * x /\ R[n + 1] = R[n] + x
    BY <1>3, <2>1
  <2>4. /\ Counted(L[n] + x, R[n] + 256 * x, n + 1)
        /\ Counted(L[n] + 256 * x, R[n] + x, n + 1)
    BY ONLY <1>5, <2>2, n \in Nat, NextByte
  <2> QED
    BY ONLY <2>3, <2>4, Zenon
<1>6. Nat \subseteq T
  <2>1. 0 \in T
    BY <1>4
  <2>2. ASSUME NEW n \in Nat, n \in T PROVE n + 1 \in T
    <3>1. CASE n + 1 <= Len(b)
      <4>1. P(n)
        BY <1>1, <2>2, <3>1
      <4>2. P(n + 1)
        BY <1>5, <3>1, <4>1
      <4> QED
        BY <4>2
    <3>2. CASE ~ (n + 1 <= Len(b))
      BY <3>2
    <3> QED
      BY <3>1, <3>2
  <2> HIDE DEF T
  <2> QED
    BY <2>1, <2>2, Induction
<1>7. P(Len(b))
  BY <1>1, <1>6
<1>8. Len(AsLoaded(b)) = Len(b) /\ Len(AsSent(b)) = Len(b)
  BY <1>1 DEF AsLoaded, AsSent
<1> QED
  BY <1>7, <1>8 DEF Counted, SumOf, L, R

(* The two folds of Checksum and its complement: what is added to a sum to *)
(* make it a multiple of 65535, and never of 0.  h and l are its halves.   *)
Complement(n) ==
  LET once == (n \div 65536) + (n % 65536)
  IN  (-1 - (once + once \div 65536)) % 65536

(* Added to n it is a multiple of 65535 that is not 0, for every sum that  *)
(* a packet can come to.                                                   *)
LEMMA ComplementFills ==
  ASSUME NEW n \in Nat, n <= 65280 * 32768
  PROVE  /\ Complement(n) \in Nat /\ Complement(n) <= 65535
         /\ \E k \in Nat : n + Complement(n) = 65535 * k + 65535
<1> DEFINE h == n \div 65536
           l == n % 65536
           f == h + l
<1>1. /\ h \in Nat /\ h <= 32768 /\ l \in Nat /\ l <= 65535
      /\ n = 65536 * h + l
  BY SMT
<1> HIDE DEF h, l
<1>2. f \in Nat /\ f <= 98303 /\ n = 65535 * h + f
  BY <1>1
<1>3. Complement(n) = (-1 - (f + f \div 65536)) % 65536
  BY DEF Complement, f, h, l
<1> HIDE DEF f
<1>4. CASE f <= 65535
  <2>1. f \div 65536 = 0
    BY <1>2, <1>4
  <2>2. (-1 - f) % 65536 = 65535 - f
    BY <1>2, <1>4
  <2>3. Complement(n) = 65535 - f
    BY <1>2, <1>3, <2>1, <2>2
  <2>4. n + Complement(n) = 65535 * h + 65535
    BY <1>1, <1>2, <2>3
  <2>5. Complement(n) \in Nat /\ Complement(n) <= 65535
    BY <1>2, <1>4, <2>3
  <2> QED
    BY <1>1, <2>4, <2>5
<1>5. CASE f > 65535
  <2>1. f \div 65536 = 1
    BY <1>2, <1>5
  <2>2. (-1 - (f + 1)) % 65536 = 131070 - f
    BY <1>2, <1>5
  <2>3. Complement(n) = 131070 - f
    BY <1>2, <1>3, <2>1, <2>2
  <2> DEFINE k == h + 1
  <2>4. n + Complement(n) = 65535 * k + 65535 /\ k \in Nat
    BY <1>1, <1>2, <2>3
  <2>5. Complement(n) \in Nat /\ Complement(n) <= 65535
    BY <1>2, <1>5, <2>3
  <2> HIDE DEF k
  <2> QED
    BY <2>4, <2>5
<1> QED
  BY <1>2, <1>4, <1>5

(* A checksum fits uint16_t.                                               *)
LEMMA ChecksumRange ==
  ASSUME NEW b \in Seq(Byte)
  PROVE  ChecksumOf(b) \in Nat /\ ChecksumOf(b) <= 65535
<1> DEFINE n == SumOf(AsLoaded(b))
           once == (n \div 65536) + (n % 65536)
           v == -1 - (once + once \div 65536)
<1>1. n \in Nat
  BY TwoByteOrders
<1>2. ChecksumOf(b) = v % 65536
  BY DEF ChecksumOf
<1> HIDE DEF n
<1>3. once \in Int
  BY <1>1
<1> HIDE DEF once
<1>4. v \in Int
  BY <1>3
<1> HIDE DEF v
<1> QED
  BY <1>2, <1>4

(* What is divisible is divisible.                                         *)
LEMMA MultipleOf65535 == \A q \in Int : (65535 * q) % 65535 = 0
  BY SMT

(* Sums of integers, and how one changes with two neighbours that were 0.  *)
LEMMA SumsAreIntegers ==
  ASSUME NEW s, NEW n \in Nat, \A i \in 1 .. n : s[i] \in Int
  PROVE  \A m \in 0 .. n : PartialSums(s)[m] \in Int
<1> DEFINE S == PartialSums(s)
           T == {m \in Nat : m <= n => S[m] \in Int}
<1>1. S[0] = 0 /\ \A m \in Nat \ {0} : S[m] = S[m - 1] + s[m]
  BY PartialSumsDef
<1> HIDE DEF S
<1>2. 0 \in T
  BY <1>1
<1>3. ASSUME NEW m \in Nat, m \in T PROVE m + 1 \in T
  <2> SUFFICES ASSUME m + 1 <= n PROVE S[m + 1] \in Int
    OBVIOUS
  <2>1. S[m] \in Int /\ m + 1 \in 1 .. n /\ m + 1 \in Nat \ {0} /\ (m + 1) - 1 = m
    BY <1>3
  <2>2. S[m + 1] = S[m] + s[m + 1]
    BY <1>1, <2>1
  <2>3. s[m + 1] \in Int
    BY <2>1
  <2> QED
    BY <2>1, <2>2, <2>3
<1> HIDE DEF T
<1>4. Nat \subseteq T
  BY <1>2, <1>3, Induction
<1> QED
  BY <1>4 DEF T, S

TwoMore(t, s, n, k) ==
  PartialSums(t)[n] = PartialSums(s)[n] + t[k] + t[k + 1]

(* Two numbers x and y in the place of two zeros add x + y to the sum.     *)
LEMMA SumsDiffer ==
  ASSUME NEW s, NEW t, NEW n \in Nat, NEW k \in 1 .. n - 1,
         \A i \in 1 .. n : s[i] \in Int /\ t[i] \in Int,
         \A i \in 1 .. n : i # k /\ i # k + 1 => t[i] = s[i],
         s[k] = 0, s[k + 1] = 0
  PROVE  TwoMore(t, s, n, k)
<1> DEFINE S == PartialSums(s)
           R == PartialSums(t)
           x == t[k]
           y == t[k + 1]
           Extra(m) == IF m < k THEN 0 ELSE IF m = k THEN x ELSE x + y
           T == {m \in Nat : m <= n => R[m] = S[m] + Extra(m)}
<1>1. /\ S[0] = 0 /\ \A m \in Nat \ {0} : S[m] = S[m - 1] + s[m]
      /\ R[0] = 0 /\ \A m \in Nat \ {0} : R[m] = R[m - 1] + t[m]
  BY PartialSumsDef
<1>2. \A m \in 0 .. n : S[m] \in Int
  BY SumsAreIntegers
<1>3. x \in Int /\ y \in Int
  OBVIOUS
<1> HIDE DEF S, R
<1>4. 0 \in T
  BY <1>1
<1>5. ASSUME NEW m \in Nat, m \in T PROVE m + 1 \in T
  <2> SUFFICES ASSUME m + 1 <= n PROVE R[m + 1] = S[m + 1] + Extra(m + 1)
    OBVIOUS
  <2>1. /\ m \in 0 .. n /\ m + 1 \in 1 .. n /\ m + 1 \in Nat \ {0}
        /\ (m + 1) - 1 = m
    OBVIOUS
  <2>2. R[m] = S[m] + Extra(m) /\ S[m] \in Int
    BY <1>2, <1>5, <2>1
  <2>3. R[m + 1] = R[m] + t[m + 1] /\ S[m + 1] = S[m] + s[m + 1]
    BY <1>1, <2>1
  <2>4. CASE m + 1 # k /\ m + 1 # k + 1
    <3>1. Extra(m + 1) = Extra(m) /\ Extra(m) \in Int
      BY <1>3, <2>4
    <3>2. t[m + 1] = s[m + 1] /\ s[m + 1] \in Int
      BY <2>1, <2>4
    <3> HIDE DEF Extra
    <3> QED
      BY <2>2, <2>3, <3>1, <3>2
  <2>5. CASE m + 1 = k
    <3>1. Extra(m) = 0 /\ Extra(m + 1) = x /\ t[m + 1] = x /\ s[m + 1] = 0
      BY <2>5
    <3> HIDE DEF Extra, x
    <3> QED
      BY <1>3, <2>2, <2>3, <3>1
  <2>6. CASE m + 1 = k + 1
    <3>1. Extra(m) = x /\ Extra(m + 1) = x + y /\ t[m + 1] = y /\ s[m + 1] = 0
      BY <2>6
    <3> HIDE DEF Extra, x, y
    <3> QED
      BY <1>3, <2>2, <2>3, <3>1
  <2> QED
    BY <2>4, <2>5, <2>6
<1> HIDE DEF T
<1>6. Nat \subseteq T
  BY <1>4, <1>5, Induction
<1>7. R[n] = S[n] + Extra(n)
  BY <1>6 DEF T
<1>8. Extra(n) = x + y /\ S[n] \in Int
  BY <1>2
<1> HIDE DEF Extra, x, y
<1>9. R[n] = S[n] + x + y
  BY <1>3, <1>7, <1>8
<1> QED
  BY <1>9 DEF R, S, x, y, TwoMore

(* Bytes are numbers.                                                      *)
LEMMA BytesInt ==
  ASSUME NEW b \in Seq(Byte)
  PROVE  /\ Len(b) \in Nat /\ DOMAIN b = 1 .. Len(b)
         /\ \A i \in 1 .. Len(b) : b[i] \in 0 .. 255
BY LenProperties, ElementOfSeq DEF Byte

(* What bytes count as are numbers, in either order.                       *)
LEMMA LoadedInt ==
  ASSUME NEW b \in Seq(Byte)
  PROVE  /\ Len(AsLoaded(b)) = Len(b)
         /\ \A i \in 1 .. Len(b) :
              /\ AsLoaded(b)[i] \in Int
              /\ AsLoaded(b)[i] = IF i % 2 = 1 THEN b[i] ELSE 256 * b[i]
<1>1. Len(b) \in Nat /\ DOMAIN b = 1 .. Len(b) /\ \A i \in 1 .. Len(b) : b[i] \in 0 .. 255
  BY BytesInt
<1>2. ASSUME NEW i \in 1 .. Len(b)
      PROVE  /\ AsLoaded(b)[i] \in Int
             /\ AsLoaded(b)[i] = IF i % 2 = 1 THEN b[i] ELSE 256 * b[i]
  <2> DEFINE x == b[i]
  <2>1. x \in 0 .. 255
    BY <1>1
  <2>2. AsLoaded(b)[i] = IF i % 2 = 1 THEN x ELSE 256 * x
    BY <1>1 DEF AsLoaded
  <2> HIDE DEF x
  <2>3. x \in Int /\ 256 * x \in Int
    BY <2>1
  <2>4. AsLoaded(b)[i] \in Int
    BY <2>2, <2>3
  <2> QED
    BY <2>2, <2>4 DEF x
<1>3. Len(AsLoaded(b)) = Len(b)
  BY <1>1 DEF AsLoaded
<1> QED
  BY <1>2, <1>3

(* d is the message b with the checksum of b in the word at k and m, which *)
(* are the bytes of one word, and which b has as 0.                        *)
Filled(b, d, k, m) ==
  /\ b \in Seq(Byte) /\ d \in Seq(Byte) /\ Len(d) = Len(b) /\ Len(b) <= 32768
  /\ k \in Nat /\ k % 2 = 1 /\ m = k + 1 /\ m <= Len(b)
  /\ b[k] = 0 /\ b[m] = 0
  /\ d[k] = ChecksumOf(b) % 256 /\ d[m] = ChecksumOf(b) \div 256
  /\ \A i \in 1 .. Len(b) : i # k /\ i # m => d[i] = b[i]

(* RFC 1071 of Utilities::Checksum: a message of any length and content    *)
(* with its checksum filled in adds up, as the receiver counts.            *)
THEOREM FilledAddsUp ==
  ASSUME NEW b, NEW d, NEW k, NEW m, Filled(b, d, k, m)
  PROVE  AddsUp(d)
<1>0. /\ b \in Seq(Byte) /\ d \in Seq(Byte) /\ Len(d) = Len(b) /\ Len(b) <= 32768
      /\ k \in Nat /\ k % 2 = 1 /\ k + 1 <= Len(b) /\ b[k] = 0 /\ b[k + 1] = 0
      /\ d[k] = ChecksumOf(b) % 256 /\ d[k + 1] = ChecksumOf(b) \div 256
      /\ \A i \in 1 .. Len(b) : i # k /\ i # k + 1 => d[i] = b[i]
  BY DEF Filled
<1> DEFINE n == Len(b)
           S == AsLoaded(b)
           D == AsLoaded(d)
           c == ChecksumOf(b)
<1>1. n \in Nat /\ k \in 1 .. n - 1 /\ k \in 1 .. n /\ k + 1 \in 1 .. n
  BY <1>0, LenProperties
<1>2. Len(S) = n /\ \A i \in 1 .. n : S[i] \in Int /\ S[i] = IF i % 2 = 1 THEN b[i] ELSE 256 * b[i]
  BY <1>0, LoadedInt
<1>3. Len(D) = n /\ \A i \in 1 .. n : D[i] \in Int /\ D[i] = IF i % 2 = 1 THEN d[i] ELSE 256 * d[i]
  BY <1>0, LoadedInt
<1> HIDE DEF S, D, n
<1>4. S[k] = 0 /\ S[k + 1] = 0
  <2>1. (k + 1) % 2 # 1 /\ 256 * 0 = 0 /\ k % 2 = 1
    BY <1>0
  <2>2. S[k] = b[k] /\ S[k + 1] = 256 * b[k + 1]
    BY <1>1, <1>2, <2>1
  <2> QED
    BY ONLY <1>0, <2>1, <2>2
<1>5. D[k] = d[k] /\ D[k + 1] = 256 * d[k + 1]
  <2>1. (k + 1) % 2 # 1 /\ k % 2 = 1
    BY <1>0
  <2> QED
    BY <1>1, <1>3, <2>1
<1>6. ASSUME NEW i \in 1 .. n, i # k, i # k + 1 PROVE D[i] = S[i]
  <2>1. d[i] = b[i]
    BY <1>0, <1>6 DEF n
  <2>2. /\ D[i] = IF i % 2 = 1 THEN d[i] ELSE 256 * d[i]
        /\ S[i] = IF i % 2 = 1 THEN b[i] ELSE 256 * b[i]
    BY <1>2, <1>3
  <2> QED
    BY ONLY <2>1, <2>2
<1>7. TwoMore(D, S, n, k)
  <2>1. \A i \in 1 .. n : S[i] \in Int /\ D[i] \in Int
    BY <1>2, <1>3
  <2>2. \A i \in 1 .. n : i # k /\ i # k + 1 => D[i] = S[i]
    BY <1>6
  <2> QED
    BY ONLY <1>1, <1>4, <2>1, <2>2, SumsDiffer
<1> DEFINE l == SumOf(AsLoaded(d))
           r == SumOf(AsSent(d))
           s == SumOf(AsLoaded(b))
<1>9. s \in Nat /\ s <= 65280 * Len(b)
  BY <1>0, TwoByteOrders
<1>8. l = s + c
  <2> DEFINE x == D[k]
             y == D[k + 1]
  <2>1. l = s + x + y
    BY <1>2, <1>3, <1>7 DEF SumOf, S, D, TwoMore
  <2>2. x \in Int /\ y \in Int
    BY <1>1, <1>3
  <2>3. x + y = c
    <3>1. c \in Nat
      BY <1>0, ChecksumRange
    <3>2. x = c % 256 /\ y = 256 * (c \div 256)
      BY <1>0, <1>5
    <3> HIDE DEF x, y, c
    <3> QED
      BY <3>1, <3>2
  <2> HIDE DEF x, y, l, s, c
  <2> QED
    BY <1>9, <2>1, <2>2, <2>3
<1>10. c = Complement(s)
  BY DEF ChecksumOf, Complement
<1>11. /\ l \in Nat /\ r \in Nat /\ l <= 256 * r
       /\ \E e \in Nat : 256 * l = r + 65535 * e
  BY <1>0, TwoByteOrders
<1>14. PICK e \in Nat : 256 * l = r + 65535 * e
  BY ONLY <1>11
<1> HIDE DEF l, r, s, c
<1>12. s <= 65280 * 32768
  BY <1>0, <1>1, <1>9 DEF n
<1>13. PICK j \in Nat : l = 65535 * j + 65535
  <2>1. \E j \in Nat : s + Complement(s) = 65535 * j + 65535
    BY ONLY <1>9, <1>12, ComplementFills
  <2> QED
    BY ONLY <1>8, <1>10, <2>1
<1> DEFINE q == 256 * j + 256 - e
<1>15. q \in Int /\ r = 65535 * q
  BY <1>11, <1>13, <1>14
<1>16. r > 0
  BY <1>11, <1>13
<1> HIDE DEF q
<1>17. r % 65535 = 0
  BY <1>15, MultipleOf65535
<1> QED
  BY <1>16, <1>17 DEF AddsUp, r

-----------------------------------------------------------------------------
(* Layouts                                                                 *)

(* How a 16-bit number lies in memory.                                     *)
LEMMA Word2 == \A v : Word(v) = <<v % 256, v \div 256>>
  BY DEF Word

(* The values of fields of 8, 16, 32 and 48 bits.                          *)
LEMMA HoldsAre ==
  /\ Holds(1) = 0 .. 1 /\ Holds(2) = 0 .. 3 /\ Holds(4) = 0 .. 15
  /\ Holds(5) = 0 .. 31 /\ Holds(8) = 0 .. 255
  /\ \A v : v \in Holds(16) <=> v \in Nat /\ v <= 65535
  /\ Holds(32) = [1 .. 4 -> Byte] /\ Holds(48) = [1 .. 6 -> Byte]
  BY DEF Holds

(* A swapped number lies in memory with its most significant byte first.   *)
LEMMA SwappedWord ==
  ASSUME NEW v \in Holds(16)
  PROVE  /\ Word(htons(v)) = <<v \div 256, v % 256>>
         /\ v \div 256 \in Byte /\ v % 256 \in Byte
         /\ v = 256 * (v \div 256) + (v % 256)
         /\ htons(v) \in Holds(16)
<1> DEFINE low == v % 256
           high == v \div 256
<1>1. v \in Nat /\ v <= 65535
  BY DEF Holds
<1>2. low \in 0 .. 255 /\ high \in 0 .. 255 /\ v = 256 * high + low
  BY <1>1
<1>3. htons(v) = 256 * low + high
  BY DEF htons
<1> HIDE DEF low, high
<1>4. (256 * low + high) % 256 = high /\ (256 * low + high) \div 256 = low
  BY <1>2
<1>5. htons(v) \in 0 .. 2 ^ 16 - 1
  BY <1>2, <1>3
<1> QED
  BY <1>2, <1>3, <1>4, <1>5 DEF Word, low, high, Byte, Holds

(* A reversed number lies in memory with its most significant byte first.  *)
LEMMA Reversed ==
  ASSUME NEW s \in Holds(32)
  PROVE  /\ Reverse(s) = [i \in 1 .. 4 |-> s[5 - i]]
         /\ Reverse(s) = <<s[4], s[3], s[2], s[1]>>
         /\ Reverse(s) \in Holds(32) /\ Reverse(Reverse(s)) = s
         /\ s = <<s[1], s[2], s[3], s[4]>>
         /\ s[1] \in Byte /\ s[2] \in Byte /\ s[3] \in Byte /\ s[4] \in Byte
<1>1. \A t \in [1 .. 4 -> Byte] : t \in Seq(Byte) /\ Len(t) = 4
  <2> TAKE t \in [1 .. 4 -> Byte]
  <2>1. t \in Seq(Byte)
    BY SeqDef
  <2> QED
    BY <2>1, LenProperties
<1>2. \A t \in [1 .. 4 -> Byte] : Reverse(t) = [i \in 1 .. 4 |-> t[5 - i]]
  <2> TAKE t \in [1 .. 4 -> Byte]
  <2>1. Len(t) = 4 /\ \A i \in 1 .. 4 : 4 - i + 1 = 5 - i
    BY <1>1
  <2> QED
    BY <2>1 DEF Reverse
<1>3. s \in [1 .. 4 -> Byte]
  BY DEF Holds
<1>4. Reverse(s) \in [1 .. 4 -> Byte]
  BY <1>2, <1>3
<1>5. Reverse(Reverse(s)) = s
  BY <1>2, <1>3, <1>4
<1>6. Reverse(s) = <<s[4], s[3], s[2], s[1]>>
  BY <1>2, <1>3
<1> QED
  BY <1>2, <1>3, <1>4, <1>5, <1>6 DEF Holds

(* A hardware address as a parameter is six bytes.                         *)
LEMMA SixOf ==
  ASSUME NEW s \in Holds(48)
  PROVE  /\ s = <<s[1], s[2], s[3], s[4], s[5], s[6]>>
         /\ \A i \in 1 .. 6 : s[i] \in Byte
         /\ Len(s) = 6
         /\ s \in Seq(Byte)
<1>1. s \in [1 .. 6 -> Byte]
  BY DEF Holds
<1>2. \A t \in [1 .. 6 -> Byte] : t \in Seq(Byte)
  BY SeqDef
<1>3. Len(s) = 6
  BY <1>1, <1>2, LenProperties
<1> QED
  BY <1>1, <1>2, <1>3

-----------------------------------------------------------------------------
(* What the bytes of a header are, from the arguments that it is made of   *)
(* and its checksum.                                                       *)

EthernetLayout(a) ==
  <<a.dst[1], a.dst[2], a.dst[3], a.dst[4], a.dst[5], a.dst[6],
    a.src[1], a.src[2], a.src[3], a.src[4], a.src[5], a.src[6],
    a.type \div 256, a.type % 256>>

IPv4Layout(a, c) ==
  <<5 + 16 * a.version, a.serviceType,
    a.packetLength \div 256, a.packetLength % 256,
    a.packetId \div 256, a.packetId % 256, 64, 0, a.ttl, a.protocol,
    c % 256, c \div 256, a.source[1], a.source[2], a.source[3], a.source[4],
    a.dest[1], a.dest[2], a.dest[3], a.dest[4]>>

(* initEthernetHeader makes a header of bytes that has this layout.        *)
LEMMA EthernetFits ==
  ASSUME NEW h, DOMAIN h = DOMAIN EthernetWidths, NEW a \in EthernetParameters
  PROVE  /\ EthernetBytes(initEthernetHeader(h, a)) = EthernetLayout(a)
         /\ Fits(initEthernetHeader(h, a), EthernetWidths)
<1> DEFINE e == initEthernetHeader(h, a)
<1>1. a.dst \in Holds(48) /\ a.src \in Holds(48) /\ a.type \in Holds(16)
  BY DEF EthernetParameters
<1>2. \A d : SetMACAddress(d, a.dst) = a.dst /\ SetMACAddress(d, a.src) = a.src
  BY <1>1, SixOf DEF SetMACAddress
<1>3. /\ e.destMac = a.dst /\ e.sourceMac = a.src
      /\ e.typeHigh = a.type \div 256 /\ e.typeLow = a.type % 256
      /\ DOMAIN e = DOMAIN EthernetWidths
  BY <1>2 DEF initEthernetHeader, SetType, EthernetWidths
<1> HIDE DEF e
<1>4. /\ a.dst = <<a.dst[1], a.dst[2], a.dst[3], a.dst[4], a.dst[5], a.dst[6]>>
      /\ a.src = <<a.src[1], a.src[2], a.src[3], a.src[4], a.src[5], a.src[6]>>
  BY <1>1, SixOf
<1>5. EthernetLayout(a)
        = <<a.dst[1], a.dst[2], a.dst[3], a.dst[4], a.dst[5], a.dst[6]>>
            \o <<a.src[1], a.src[2], a.src[3], a.src[4], a.src[5], a.src[6]>>
            \o <<a.type \div 256, a.type % 256>>
  BY DEF EthernetLayout
<1>6. EthernetBytes(e) = EthernetLayout(a)
  BY <1>3, <1>4, <1>5 DEF EthernetBytes
<1>7. a.type \div 256 \in Holds(8) /\ a.type % 256 \in Holds(8)
  BY <1>1 DEF Holds
<1>8. Fits(e, EthernetWidths)
  BY <1>1, <1>3, <1>7 DEF Fits, EthernetWidths
<1> QED
  BY <1>6, <1>8 DEF e

(* The fields of an IP header of these arguments and with this checksum.   *)
IPv4Filled(h, a, c) ==
  /\ DOMAIN h = DOMAIN IPv4Widths
  /\ h.ipHeaderLength = 5 /\ h.ipVersion = a.version
  /\ h.serviceType = a.serviceType
  /\ h.packetLength = htons(a.packetLength) /\ h.packetId = htons(a.packetId)
  /\ h.frag_offset = 0 /\ h.more_fragment = 0 /\ h.dont_fragment = 1
  /\ h.reserved_zero = 0 /\ h.frag_offset1 = 0
  /\ h.timeToLive = a.ttl /\ h.protocol = a.protocol /\ h.checksum = c
  /\ h.srcaddr = Reverse(a.source) /\ h.destaddr = Reverse(a.dest)

(* The memory of a filled IP header has this layout.                       *)
LEMMA IPv4FilledBytes ==
  ASSUME NEW a \in IPv4Parameters, NEW h, NEW c, IPv4Filled(h, a, c)
  PROVE  IPv4Bytes(h) = IPv4Layout(a, c)
<1>1. /\ a.packetLength \in Holds(16) /\ a.packetId \in Holds(16)
      /\ a.source \in Holds(32) /\ a.dest \in Holds(32)
  BY DEF IPv4Parameters
<1>2. /\ Word(h.packetLength) = <<a.packetLength \div 256, a.packetLength % 256>>
      /\ Word(h.packetId) = <<a.packetId \div 256, a.packetId % 256>>
      /\ Word(h.checksum) = <<c % 256, c \div 256>>
  BY <1>1, SwappedWord, Word2 DEF IPv4Filled
<1>3. /\ Long(h.srcaddr) = <<a.source[1], a.source[2], a.source[3], a.source[4]>>
      /\ Long(h.destaddr) = <<a.dest[1], a.dest[2], a.dest[3], a.dest[4]>>
  BY <1>1, Reversed DEF IPv4Filled, Long
<1>4. h.frag_offset + 32 * h.more_fragment + 64 * h.dont_fragment
        + 128 * h.reserved_zero = 64
  BY DEF IPv4Filled
<1>5. IPv4Layout(a, c)
        = <<5 + 16 * a.version, a.serviceType>>
            \o <<a.packetLength \div 256, a.packetLength % 256>>
            \o <<a.packetId \div 256, a.packetId % 256>>
            \o <<64, 0, a.ttl, a.protocol>> \o <<c % 256, c \div 256>>
            \o <<a.source[1], a.source[2], a.source[3], a.source[4]>>
            \o <<a.dest[1], a.dest[2], a.dest[3], a.dest[4]>>
  BY DEF IPv4Layout
<1> QED
  BY <1>2, <1>3, <1>4, <1>5 DEF IPv4Bytes, IPv4Filled

(* initIPv4Header fills the header in, with the checksum of what it filled *)
(* in before.                                                              *)
LEMMA IPv4Fits ==
  ASSUME NEW h, NEW a \in IPv4Parameters
  PROVE  LET c == ChecksumOf(IPv4Layout(a, 0))
             i == initIPv4Header(h, a)
         IN  IPv4Filled(i, a, c) /\ IPv4Bytes(i) = IPv4Layout(a, c)
<1> DEFINE values ==
             [version |-> a.version, headerLength |-> 20,
              serviceType |-> a.serviceType, packetLength |-> a.packetLength,
              packetId |-> a.packetId, timeToLive |-> a.ttl,
              protocol |-> a.protocol, checksum |-> 0, dontFragment |-> 1,
              source |-> a.source, dest |-> a.dest]
           zeroed == Memory(IPv4Widths, 0)
           filled == IPv4Set(zeroed, values)
           i == initIPv4Header(h, a)
           c == ChecksumOf(IPv4Layout(a, 0))
<1>1. /\ zeroed.frag_offset = 0 /\ zeroed.more_fragment = 0
      /\ zeroed.reserved_zero = 0 /\ zeroed.frag_offset1 = 0
      /\ DOMAIN zeroed = DOMAIN IPv4Widths
  BY DEF Memory, IPv4Widths
<1>2. /\ a.version % 16 = a.version /\ a.serviceType % 256 = a.serviceType
      /\ a.ttl % 256 = a.ttl /\ a.protocol % 256 = a.protocol
      /\ (20 \div 4) % 16 = 5 /\ 1 % 2 = 1
  <2>1. /\ a.version \in 0 .. 15 /\ a.serviceType \in 0 .. 255
        /\ a.ttl \in 0 .. 255 /\ a.protocol \in 0 .. 255
    BY HoldsAre DEF IPv4Parameters
  <2>2. (\A n \in 0 .. 15 : n % 16 = n) /\ (\A n \in 0 .. 255 : n % 256 = n)
    OBVIOUS
  <2>3. (20 \div 4) % 16 = 5 /\ 1 % 2 = 1
    OBVIOUS
  <2> QED
    BY <2>1, <2>2, <2>3
<1> HIDE DEF zeroed
<1>3. DOMAIN IPv4Widths = {"ipHeaderLength", "ipVersion", "serviceType",
        "packetLength", "packetId", "frag_offset", "more_fragment",
        "dont_fragment", "reserved_zero", "frag_offset1", "timeToLive",
        "protocol", "checksum", "srcaddr", "destaddr"}
  BY DEF IPv4Widths
<1>4. IPv4Filled(filled, a, 0)
  <2>1. DOMAIN filled = DOMAIN zeroed
    BY ZenonT(60) DEF IPv4Set
  <2>2. /\ filled.ipHeaderLength = (20 \div 4) % 16
        /\ filled.ipVersion = a.version % 16
        /\ filled.serviceType = a.serviceType % 256
        /\ filled.packetLength = htons(a.packetLength)
        /\ filled.packetId = htons(a.packetId)
    BY <1>1, <1>3 DEF IPv4Set
  <2>3. /\ filled.timeToLive = a.ttl % 256 /\ filled.protocol = a.protocol % 256
        /\ filled.checksum = 0 /\ filled.dont_fragment = 1 % 2
        /\ filled.srcaddr = Reverse(a.source) /\ filled.destaddr = Reverse(a.dest)
    BY <1>1, <1>3 DEF IPv4Set, inet_addr
  <2>4. /\ filled.frag_offset = zeroed.frag_offset
        /\ filled.more_fragment = zeroed.more_fragment
        /\ filled.reserved_zero = zeroed.reserved_zero
        /\ filled.frag_offset1 = zeroed.frag_offset1
    BY <1>1, <1>3 DEF IPv4Set
  <2> HIDE DEF filled
  <2> QED
    BY <1>1, <1>2, <2>1, <2>2, <2>3, <2>4 DEF IPv4Filled
<1>5. i = [filled EXCEPT !.checksum = ChecksumOf(IPv4Bytes(filled))]
  BY DEF initIPv4Header, Cleared, zeroed
<1> HIDE DEF filled, i
<1>6. IPv4Bytes(filled) = IPv4Layout(a, 0)
  BY <1>4, IPv4FilledBytes
<1>7. IPv4Filled(i, a, c)
  BY <1>3, <1>4, <1>5, <1>6 DEF IPv4Filled
<1> QED
  BY <1>7, IPv4FilledBytes DEF i

FlagsOf(a) ==
  Bit(a.FIN) + 2 * Bit(a.SYN) + 4 * Bit(a.RST) + 8 * Bit(a.PSH) + 16 * Bit(a.ACK)

TCPLayout(a, c) ==
  <<a.sourcePort \div 256, a.sourcePort % 256,
    a.destPort \div 256, a.destPort % 256,
    a.sequence[1], a.sequence[2], a.sequence[3], a.sequence[4],
    a.acknowledge[1], a.acknowledge[2], a.acknowledge[3], a.acknowledge[4],
    16 * ((20 + Len(a.options)) \div 4), FlagsOf(a),
    a.window \div 256, a.window % 256, c % 256, c \div 256, 0, 0>>

(* The pseudo-header before a segment of n bytes.                          *)
PseudoLayout(p, n) ==
  <<p.source[1], p.source[2], p.source[3], p.source[4],
    p.dest[1], p.dest[2], p.dest[3], p.dest[4], 0, 6, n \div 256, n % 256>>

ICMPLayout(a, c) ==
  <<a.type, a.code, c % 256, c \div 256, a.identifier \div 256, a.identifier % 256,
    a.sequence \div 256, a.sequence % 256>>

OGMLayout(a) ==
  <<0, 15, a.ttl, 0,
    a.seqNumber[1], a.seqNumber[2], a.seqNumber[3], a.seqNumber[4],
    a.originator[1], a.originator[2], a.originator[3],
    a.originator[4], a.originator[5], a.originator[6],
    a.originator[1], a.originator[2], a.originator[3],
    a.originator[4], a.originator[5], a.originator[6],
    0, a.tq, a.tvlvLength \div 256, a.tvlvLength % 256>>

TCPFilled(h, a, c) ==
  /\ DOMAIN h = DOMAIN TCPWidths
  /\ h.sourcePort = htons(a.sourcePort) /\ h.destinationPort = htons(a.destPort)
  /\ h.sequence = Reverse(a.sequence) /\ h.acknowledge = Reverse(a.acknowledge)
  /\ h.reserved_part1 = 0 /\ h.dataOffset = (20 + Len(a.options)) \div 4
  /\ h.FYN = Bit(a.FIN) /\ h.SYN = Bit(a.SYN) /\ h.RST = Bit(a.RST)
  /\ h.PSH = Bit(a.PSH) /\ h.ACK = Bit(a.ACK) /\ h.URG = 0 /\ h.reserved2 = 0
  /\ h.window = htons(a.window) /\ h.checksum = c /\ h.urgent_pointer = 0

(* A flag is one bit.                                                      *)
LEMMA BitRange == \A flag \in BOOLEAN : Bit(flag) \in 0 .. 1
  BY DEF Bit

(* The memory of a filled TCP header has this layout.                      *)
LEMMA TCPFilledBytes ==
  ASSUME NEW a \in TCPParameters, NEW h, NEW c, TCPFilled(h, a, c)
  PROVE  TCPBytes(h) = TCPLayout(a, c)
<1>1. /\ a.sourcePort \in Holds(16) /\ a.destPort \in Holds(16)
      /\ a.window \in Holds(16)
      /\ a.sequence \in Holds(32) /\ a.acknowledge \in Holds(32)
      /\ a.FIN \in BOOLEAN /\ a.SYN \in BOOLEAN /\ a.RST \in BOOLEAN
      /\ a.PSH \in BOOLEAN /\ a.ACK \in BOOLEAN /\ a.options \in Seq(Byte)
  BY DEF TCPParameters
<1>2. /\ Word(h.sourcePort) = <<a.sourcePort \div 256, a.sourcePort % 256>>
      /\ Word(h.destinationPort) = <<a.destPort \div 256, a.destPort % 256>>
      /\ Word(h.window) = <<a.window \div 256, a.window % 256>>
  BY <1>1, SwappedWord DEF TCPFilled
<1>3. /\ Word(h.checksum) = <<c % 256, c \div 256>>
      /\ Word(h.urgent_pointer) = <<0, 0>>
  <2>1. 0 % 256 = 0 /\ 0 \div 256 = 0
    OBVIOUS
  <2> QED
    BY <2>1, Word2 DEF TCPFilled
<1>4. /\ Long(h.sequence) = <<a.sequence[1], a.sequence[2], a.sequence[3], a.sequence[4]>>
      /\ Long(h.acknowledge) = <<a.acknowledge[1], a.acknowledge[2],
                                 a.acknowledge[3], a.acknowledge[4]>>
  BY <1>1, Reversed DEF TCPFilled, Long
<1>5. h.reserved_part1 + 16 * h.dataOffset = 16 * ((20 + Len(a.options)) \div 4)
  <2> DEFINE m == (20 + Len(a.options)) \div 4
  <2>1. m \in Int
    BY <1>1, LenProperties
  <2>2. h.reserved_part1 = 0 /\ h.dataOffset = m
    BY DEF TCPFilled
  <2> HIDE DEF m
  <2>3. 0 + 16 * m = 16 * m
    BY <2>1
  <2> QED
    BY <2>2, <2>3 DEF m
<1>6. h.FYN + 2 * h.SYN + 4 * h.RST + 8 * h.PSH + 16 * h.ACK + 32 * h.URG
        + 64 * h.reserved2 = FlagsOf(a)
  <2> DEFINE f == Bit(a.FIN)
             s == Bit(a.SYN)
             r == Bit(a.RST)
             p == Bit(a.PSH)
             k == Bit(a.ACK)
  <2>1. f \in 0 .. 1 /\ s \in 0 .. 1 /\ r \in 0 .. 1 /\ p \in 0 .. 1 /\ k \in 0 .. 1
    BY <1>1, BitRange
  <2>2. FlagsOf(a) = f + 2 * s + 4 * r + 8 * p + 16 * k
    BY DEF FlagsOf
  <2>3. /\ h.FYN = f /\ h.SYN = s /\ h.RST = r /\ h.PSH = p /\ h.ACK = k
        /\ h.URG = 0 /\ h.reserved2 = 0
    BY DEF TCPFilled
  <2> HIDE DEF f, s, r, p, k
  <2> QED
    BY <2>1, <2>2, <2>3
<1> DEFINE Joined(offset, flags) ==
             <<a.sourcePort \div 256, a.sourcePort % 256>>
               \o <<a.destPort \div 256, a.destPort % 256>>
               \o <<a.sequence[1], a.sequence[2], a.sequence[3], a.sequence[4]>>
               \o <<a.acknowledge[1], a.acknowledge[2],
                    a.acknowledge[3], a.acknowledge[4]>>
               \o <<offset, flags>>
               \o <<a.window \div 256, a.window % 256>>
               \o <<c % 256, c \div 256>> \o <<0, 0>>
<1>7. \A offset, flags :
        <<a.sourcePort \div 256, a.sourcePort % 256,
          a.destPort \div 256, a.destPort % 256,
          a.sequence[1], a.sequence[2], a.sequence[3], a.sequence[4],
          a.acknowledge[1], a.acknowledge[2], a.acknowledge[3], a.acknowledge[4],
          offset, flags,
          a.window \div 256, a.window % 256, c % 256, c \div 256, 0, 0>>
          = Joined(offset, flags)
  OBVIOUS
<1>8. TCPBytes(h) = Joined(16 * ((20 + Len(a.options)) \div 4), FlagsOf(a))
  BY <1>2, <1>3, <1>4, <1>5, <1>6, ZenonT(60) DEF TCPBytes
<1> HIDE DEF Joined
<1>9. TCPLayout(a, c) = Joined(16 * ((20 + Len(a.options)) \div 4), FlagsOf(a))
  BY ONLY <1>7 DEF TCPLayout
<1> QED
  BY <1>8, <1>9

(* The checksum of a segment of these arguments, between the addresses p.  *)
SegmentSum(p, a) ==
  ChecksumOf(PseudoLayout(p, 20 + Len(a.options) + Len(a.data))
               \o TCPLayout(a, 0) \o a.options \o a.data)

(* initTCPHeader fills the header in; its checksum is the one of the       *)
(* pseudo-header, the header, the options and the data.                    *)
LEMMA TCPFits ==
  ASSUME NEW h, NEW a \in TCPParameters, TCPArgumentsAllowed(a),
         NEW p \in IPv4Parameters, NEW ip, NEW checksum, IPv4Filled(ip, p, checksum)
  PROVE  LET i == initTCPHeader(h, ip, a)
         IN  TCPFilled(i, a, SegmentSum(p, a))
             /\ TCPBytes(i) = TCPLayout(a, SegmentSum(p, a))
<1> DEFINE values ==
             [sourcePort |-> a.sourcePort, destinationPort |-> a.destPort,
              window |-> a.window, acknowledge |-> a.acknowledge,
              sequence |-> a.sequence, dataOffset |-> 20 + Len(a.options),
              URG |-> FALSE, ACK |-> a.ACK, PSH |-> a.PSH, RST |-> a.RST,
              SYN |-> a.SYN, FYN |-> a.FIN, checksum |-> 0, urgentPointer |-> 0]
           zeroed == Memory(TCPWidths, 0)
           filled == TCPSet(zeroed, values)
           i == initTCPHeader(h, ip, a)
           n == Len(a.options)
           m == Len(a.data)
<1>0. /\ a.options \in Seq(Byte) /\ a.data \in Seq(Byte)
      /\ n \in Nat /\ n % 4 = 0 /\ n <= 40 /\ m \in Nat /\ 32 + n + m <= 10240
  <2>1. a.options \in Seq(Byte) /\ a.data \in Seq(Byte)
    BY DEF TCPParameters
  <2>2. n \in Nat /\ m \in Nat
    BY <2>1, LenProperties
  <2>3. n % 4 = 0 /\ 20 + n <= 60 /\ 12 + 20 + n + m <= pseudoBufferSize
    BY DEF TCPArgumentsAllowed
  <2> HIDE DEF n, m
  <2> QED
    BY <2>1, <2>2, <2>3 DEF pseudoBufferSize
<1>1. /\ zeroed.reserved_part1 = 0 /\ zeroed.reserved2 = 0
      /\ DOMAIN zeroed = DOMAIN TCPWidths
  BY DEF Memory, TCPWidths
<1> HIDE DEF zeroed
<1>2. SetDataOffset(20 + n) = (20 + n) \div 4 /\ 4 * ((20 + n) \div 4) = 20 + n
  <2> HIDE DEF n
  <2> QED
    BY <1>0 DEF SetDataOffset
<1>3. DOMAIN TCPWidths = {"sourcePort", "destinationPort", "sequence",
        "acknowledge", "reserved_part1", "dataOffset", "FYN", "SYN", "RST", "PSH",
        "ACK", "URG", "reserved2", "window", "checksum", "urgent_pointer"}
  BY DEF TCPWidths
<1>4. TCPFilled(filled, a, 0)
  <2>1. DOMAIN filled = DOMAIN zeroed
    BY DEF TCPSet
  <2>2. /\ filled.sourcePort = htons(a.sourcePort)
        /\ filled.destinationPort = htons(a.destPort)
        /\ filled.sequence = Reverse(a.sequence)
        /\ filled.acknowledge = Reverse(a.acknowledge)
        /\ filled.window = htons(a.window)
    BY <1>1, <1>3 DEF TCPSet, htonl
  <2>3. /\ filled.dataOffset = SetDataOffset(20 + n)
        /\ filled.checksum = 0 /\ filled.urgent_pointer = 0
        /\ filled.reserved_part1 = zeroed.reserved_part1
        /\ filled.reserved2 = zeroed.reserved2
    BY <1>1, <1>3 DEF TCPSet
  <2>4. /\ filled.FYN = Bit(a.FIN) /\ filled.SYN = Bit(a.SYN)
        /\ filled.RST = Bit(a.RST) /\ filled.PSH = Bit(a.PSH)
        /\ filled.ACK = Bit(a.ACK) /\ filled.URG = Bit(FALSE)
    BY <1>1, <1>3 DEF TCPSet
  <2>5. Bit(FALSE) = 0
    BY DEF Bit
  <2> HIDE DEF filled
  <2> QED
    BY <1>1, <1>2, <2>1, <2>2, <2>3, <2>4, <2>5 DEF TCPFilled
<1>5. i = [filled EXCEPT !.checksum = CalcChecksum(ip, filled, a.options, a.data)]
  BY DEF initTCPHeader, Cleared, zeroed
<1> HIDE DEF filled, i
<1>6. TCPBytes(filled) = TCPLayout(a, 0)
  BY <1>4, TCPFilledBytes
<1>7. TCPGet(filled).dataOffset = 20 + n
  <2>1. TCPGet(filled).dataOffset = filled.dataOffset * 4
    BY DEF TCPGet
  <2>2. filled.dataOffset = (20 + n) \div 4
    BY <1>4 DEF TCPFilled
  <2> HIDE DEF n
  <2> QED
    BY <1>0, <1>2, <2>1, <2>2
<1>8. OptionsLength(20 + n) = n
  <2> HIDE DEF n
  <2> QED
    BY <1>0 DEF OptionsLength
<1>9. SubSeq(a.options, 1, n) = a.options
  BY <1>0, SubSeqFull
<1>10. PseudoHeader(ip, 20 + n, a.data) = PseudoLayout(p, 20 + n + m)
  <2>1. /\ p.source \in Holds(32) /\ p.dest \in Holds(32)
    BY DEF IPv4Parameters
  <2>2. /\ Long(ip.srcaddr) = <<p.source[1], p.source[2], p.source[3], p.source[4]>>
        /\ Long(ip.destaddr) = <<p.dest[1], p.dest[2], p.dest[3], p.dest[4]>>
    BY <2>1, Reversed DEF IPv4Filled, Long
  <2>3. 20 + n + m \in Holds(16)
    <3> HIDE DEF n, m
    <3> QED
      BY <1>0, HoldsAre
  <2>4. Word(htons(20 + n + m)) = <<(20 + n + m) \div 256, (20 + n + m) % 256>>
    BY <2>3, SwappedWord
  <2> DEFINE length == 20 + n + m
  <2> HIDE DEF length
  <2>5. PseudoLayout(p, length)
          = <<p.source[1], p.source[2], p.source[3], p.source[4]>>
              \o <<p.dest[1], p.dest[2], p.dest[3], p.dest[4]>>
              \o <<0, 6>> \o <<length \div 256, length % 256>>
    BY DEF PseudoLayout
  <2> QED
    BY <2>2, <2>4, <2>5 DEF PseudoHeader, IPPROTO_TCP, length
<1>11. CalcChecksum(ip, filled, a.options, a.data) = SegmentSum(p, a)
  BY <1>6, <1>7, <1>8, <1>9, <1>10 DEF CalcChecksum, SegmentSum
<1>12. TCPFilled(i, a, SegmentSum(p, a))
  BY <1>3, <1>4, <1>5, <1>11 DEF TCPFilled
<1> QED
  BY <1>12, TCPFilledBytes DEF i

ICMPFilled(h, a, c) ==
  /\ DOMAIN h = DOMAIN ICMPWidths
  /\ h.type = a.type /\ h.code = a.code /\ h.checksum = c
  /\ h.identifier = htons(a.identifier) /\ h.sequence = htons(a.sequence)

(* The memory of a filled ICMP header has this layout.                     *)
LEMMA ICMPFilledBytes ==
  ASSUME NEW a \in ICMPParameters, NEW h, NEW c, ICMPFilled(h, a, c)
  PROVE  ICMPBytes(h) = ICMPLayout(a, c)
<1>1. a.identifier \in Holds(16) /\ a.sequence \in Holds(16)
  BY DEF ICMPParameters
<1>2. /\ Word(h.identifier) = <<a.identifier \div 256, a.identifier % 256>>
      /\ Word(h.sequence) = <<a.sequence \div 256, a.sequence % 256>>
      /\ Word(h.checksum) = <<c % 256, c \div 256>>
  BY <1>1, SwappedWord, Word2 DEF ICMPFilled
<1>3. ICMPLayout(a, c)
        = <<a.type, a.code>> \o <<c % 256, c \div 256>>
            \o <<a.identifier \div 256, a.identifier % 256>>
            \o <<a.sequence \div 256, a.sequence % 256>>
  BY DEF ICMPLayout
<1> QED
  BY <1>2, <1>3 DEF ICMPBytes, ICMPFilled

(* initICMPHeader fills the header in, with the checksum of the eight      *)
(* bytes.                                                                  *)
LEMMA ICMPFits ==
  ASSUME NEW h, NEW a \in ICMPParameters
  PROVE  LET c == ChecksumOf(ICMPLayout(a, 0))
             i == initICMPHeader(h, a)
         IN  ICMPFilled(i, a, c) /\ ICMPBytes(i) = ICMPLayout(a, c)
<1> DEFINE values == [type |-> a.type, code |-> a.code, checksum |-> 0,
                      identifier |-> a.identifier, sequence |-> a.sequence]
           zeroed == Memory(ICMPWidths, 0)
           filled == ICMPSet(zeroed, values)
           i == initICMPHeader(h, a)
<1>1. DOMAIN zeroed = DOMAIN ICMPWidths
  BY DEF Memory
<1> HIDE DEF zeroed
<1>2. a.type % 256 = a.type /\ a.code % 256 = a.code
  <2>1. a.type \in 0 .. 255 /\ a.code \in 0 .. 255
    BY HoldsAre DEF ICMPParameters
  <2>2. \A n \in 0 .. 255 : n % 256 = n
    OBVIOUS
  <2> QED
    BY <2>1, <2>2
<1>3. DOMAIN ICMPWidths = {"type", "code", "checksum", "identifier", "sequence"}
  BY DEF ICMPWidths
<1>4. ICMPFilled(filled, a, 0)
  BY <1>1, <1>2, <1>3 DEF ICMPFilled, ICMPSet
<1>5. i = [filled EXCEPT !.checksum = ChecksumOf(ICMPBytes(filled))]
  BY DEF initICMPHeader, Cleared, zeroed
<1> HIDE DEF filled, i
<1>6. ICMPBytes(filled) = ICMPLayout(a, 0)
  BY <1>4, ICMPFilledBytes
<1>7. ICMPFilled(i, a, ChecksumOf(ICMPLayout(a, 0)))
  BY <1>3, <1>4, <1>5, <1>6 DEF ICMPFilled
<1> QED
  BY <1>7, ICMPFilledBytes DEF i

(* initOGMHeader makes a header of this layout whose fields fit.           *)
LEMMA OGMFits ==
  ASSUME NEW h, DOMAIN h = DOMAIN OGMWidths, NEW a \in OGMParameters
  PROVE  /\ OGMBytes(initOGMHeader(h, a)) = OGMLayout(a)
         /\ Fits(initOGMHeader(h, a), OGMWidths)
<1> DEFINE o == initOGMHeader(h, a)
<1>1. /\ a.ttl \in Holds(8) /\ a.seqNumber \in Holds(32) /\ a.originator \in Holds(48)
      /\ a.tq \in Holds(8) /\ a.tvlvLength \in Holds(16)
  BY DEF OGMParameters
<1>2. \A d : SetMACAddress(d, a.originator) = a.originator
  BY <1>1, SixOf DEF SetMACAddress
<1>3. /\ o.packetType = 0 /\ o.version = 15 /\ o.ttl = a.ttl /\ o.flags = 0
      /\ o.seqNumber = Reverse(a.seqNumber)
      /\ o.originatorMAC = a.originator /\ o.prevSenderMAC = a.originator
      /\ o.reserved = 0 /\ o.tq = a.tq /\ o.tvlvLength = htons(a.tvlvLength)
      /\ DOMAIN o = DOMAIN OGMWidths
  BY <1>2 DEF initOGMHeader, OGMWidths, htonl
<1> HIDE DEF o
<1>4. a.originator = <<a.originator[1], a.originator[2], a.originator[3],
                       a.originator[4], a.originator[5], a.originator[6]>>
  BY <1>1, SixOf
<1>5. Long(o.seqNumber) = <<a.seqNumber[1], a.seqNumber[2], a.seqNumber[3], a.seqNumber[4]>>
  BY <1>1, <1>3, Reversed DEF Long
<1>6. Word(o.tvlvLength) = <<a.tvlvLength \div 256, a.tvlvLength % 256>>
  BY <1>1, <1>3, SwappedWord
<1>7. OGMLayout(a)
        = <<0, 15, a.ttl, 0>>
            \o <<a.seqNumber[1], a.seqNumber[2], a.seqNumber[3], a.seqNumber[4]>>
            \o <<a.originator[1], a.originator[2], a.originator[3],
                 a.originator[4], a.originator[5], a.originator[6]>>
            \o <<a.originator[1], a.originator[2], a.originator[3],
                 a.originator[4], a.originator[5], a.originator[6]>>
            \o <<0, a.tq>> \o <<a.tvlvLength \div 256, a.tvlvLength % 256>>
  BY DEF OGMLayout
<1>8. OGMBytes(o) = OGMLayout(a)
  BY <1>3, <1>4, <1>5, <1>6, <1>7, ZenonT(60) DEF OGMBytes
<1>9. Fits(o, OGMWidths)
  <2>1. Reverse(a.seqNumber) \in Holds(32) /\ htons(a.tvlvLength) \in Holds(16)
    BY <1>1, Reversed, SwappedWord
  <2>2. 0 \in Holds(8) /\ 15 \in Holds(8)
    BY HoldsAre
  <2> QED
    BY <1>1, <1>3, <2>1, <2>2 DEF Fits, OGMWidths
<1> QED
  BY <1>8, <1>9 DEF o

(* So many bits of a value never hold more than they can.                  *)
LEMMA IPv4FilledFits ==
  ASSUME NEW a \in IPv4Parameters, NEW h, NEW c \in Nat, c <= 65535, IPv4Filled(h, a, c)
  PROVE  Fits(h, IPv4Widths)
<1>1. /\ a.protocol \in Holds(8) /\ a.packetLength \in Holds(16)
      /\ a.source \in Holds(32) /\ a.dest \in Holds(32) /\ a.packetId \in Holds(16)
      /\ a.serviceType \in Holds(8) /\ a.ttl \in Holds(8) /\ a.version \in Holds(4)
  BY DEF IPv4Parameters
<1>2. /\ Reverse(a.source) \in Holds(32) /\ Reverse(a.dest) \in Holds(32)
      /\ htons(a.packetLength) \in Holds(16) /\ htons(a.packetId) \in Holds(16)
  BY <1>1, Reversed, SwappedWord
<1>3. /\ 5 \in Holds(4) /\ 0 \in Holds(5) /\ 0 \in Holds(1) /\ 1 \in Holds(1)
      /\ 0 \in Holds(8) /\ c \in Holds(16)
  BY HoldsAre
<1> QED
  BY <1>1, <1>2, <1>3 DEF Fits, IPv4Widths, IPv4Filled

(* ... of a TCP header ...                                                 *)
LEMMA TCPFilledFits ==
  ASSUME NEW a \in TCPParameters, TCPArgumentsAllowed(a), NEW h,
         NEW c \in Nat, c <= 65535, TCPFilled(h, a, c)
  PROVE  Fits(h, TCPWidths)
<1>1. /\ a.sourcePort \in Holds(16) /\ a.destPort \in Holds(16)
      /\ a.window \in Holds(16)
      /\ a.sequence \in Holds(32) /\ a.acknowledge \in Holds(32)
      /\ a.FIN \in BOOLEAN /\ a.SYN \in BOOLEAN /\ a.RST \in BOOLEAN
      /\ a.PSH \in BOOLEAN /\ a.ACK \in BOOLEAN /\ a.options \in Seq(Byte)
  BY DEF TCPParameters
<1>2. /\ Reverse(a.sequence) \in Holds(32) /\ Reverse(a.acknowledge) \in Holds(32)
      /\ htons(a.sourcePort) \in Holds(16) /\ htons(a.destPort) \in Holds(16)
      /\ htons(a.window) \in Holds(16)
  BY <1>1, Reversed, SwappedWord
<1>3. /\ Bit(a.FIN) \in Holds(1) /\ Bit(a.SYN) \in Holds(1) /\ Bit(a.RST) \in Holds(1)
      /\ Bit(a.PSH) \in Holds(1) /\ Bit(a.ACK) \in Holds(1)
  BY <1>1, BitRange, HoldsAre
<1>4. /\ 0 \in Holds(1) /\ 0 \in Holds(2) /\ 0 \in Holds(4) /\ 0 \in Holds(16)
      /\ c \in Holds(16)
  BY HoldsAre
<1>5. (20 + Len(a.options)) \div 4 \in Holds(4)
  <2> DEFINE n == Len(a.options)
  <2>1. n \in Nat /\ 20 + n <= 60
    BY <1>1, LenProperties DEF TCPArgumentsAllowed
  <2> HIDE DEF n
  <2>2. (20 + n) \div 4 \in 0 .. 15
    BY <2>1
  <2>3. (20 + n) \div 4 \in Holds(4)
    BY <2>2, HoldsAre
  <2> QED
    BY ONLY <2>3, Zenon DEF n
<1>6. h.dataOffset \in Holds(4) /\ DOMAIN h = DOMAIN TCPWidths
  <2>1. /\ h.dataOffset = (20 + Len(a.options)) \div 4
        /\ DOMAIN h = DOMAIN TCPWidths
    BY DEF TCPFilled
  <2> QED
    BY ONLY <1>5, <2>1, Zenon
<1>7. /\ h.sourcePort = htons(a.sourcePort) /\ h.destinationPort = htons(a.destPort)
      /\ h.sequence = Reverse(a.sequence) /\ h.acknowledge = Reverse(a.acknowledge)
      /\ h.reserved_part1 = 0 /\ h.reserved2 = 0 /\ h.urgent_pointer = 0
      /\ h.window = htons(a.window) /\ h.checksum = c
  BY DEF TCPFilled
<1>8. /\ h.FYN = Bit(a.FIN) /\ h.SYN = Bit(a.SYN) /\ h.RST = Bit(a.RST)
      /\ h.PSH = Bit(a.PSH) /\ h.ACK = Bit(a.ACK) /\ h.URG = 0
  BY DEF TCPFilled
<1> QED
  BY ONLY <1>2, <1>3, <1>4, <1>6, <1>7, <1>8 DEF Fits, TCPWidths

(* ... and of an ICMP header.                                              *)
LEMMA ICMPFilledFits ==
  ASSUME NEW a \in ICMPParameters, NEW h, NEW c \in Nat, c <= 65535, ICMPFilled(h, a, c)
  PROVE  Fits(h, ICMPWidths)
<1>1. /\ a.type \in Holds(8) /\ a.code \in Holds(8)
      /\ a.identifier \in Holds(16) /\ a.sequence \in Holds(16)
  BY DEF ICMPParameters
<1>2. htons(a.identifier) \in Holds(16) /\ htons(a.sequence) \in Holds(16)
  BY <1>1, SwappedWord
<1>3. c \in Holds(16)
  BY HoldsAre
<1> QED
  BY <1>1, <1>2, <1>3 DEF Fits, ICMPWidths, ICMPFilled

(* A 16-bit number is two bytes.                                           *)
LEMMA Halves ==
  ASSUME NEW c \in Nat, c <= 65535
  PROVE  c % 256 \in Byte /\ c \div 256 \in Byte /\ (c % 256) + 256 * (c \div 256) = c
BY DEF Byte

(* ... and 0 is, too.                                                      *)
LEMMA ZeroHalves == 0 % 256 = 0 /\ 0 \div 256 = 0 /\ 0 \in Nat /\ 0 <= 65535 /\ 0 \in Byte
  BY DEF Byte

(* The layouts are bytes, so many of them.                                 *)
LEMMA EthernetLayoutBytes ==
  ASSUME NEW a \in EthernetParameters
  PROVE  EthernetLayout(a) \in Seq(Byte) /\ Len(EthernetLayout(a)) = 14
<1>1. a.dst \in Holds(48) /\ a.src \in Holds(48) /\ a.type \in Holds(16)
  BY DEF EthernetParameters
<1>2. /\ \A i \in 1 .. 6 : a.dst[i] \in Byte
      /\ \A i \in 1 .. 6 : a.src[i] \in Byte
  BY <1>1, SixOf
<1>3. a.type \div 256 \in Byte /\ a.type % 256 \in Byte
  BY <1>1, SwappedWord
<1> QED
  BY <1>2, <1>3 DEF EthernetLayout

(* ... of an IP header ...                                                 *)
LEMMA IPv4LayoutBytes ==
  ASSUME NEW a \in IPv4Parameters, NEW c \in Nat, c <= 65535
  PROVE  IPv4Layout(a, c) \in Seq(Byte) /\ Len(IPv4Layout(a, c)) = 20
<1>1. /\ a.protocol \in Byte /\ a.packetLength \in Holds(16)
      /\ a.source \in Holds(32) /\ a.dest \in Holds(32) /\ a.packetId \in Holds(16)
      /\ a.serviceType \in Byte /\ a.ttl \in Byte /\ a.version \in 0 .. 15
  BY HoldsAre DEF IPv4Parameters, Byte
<1>2. /\ a.source[1] \in Byte /\ a.source[2] \in Byte
      /\ a.source[3] \in Byte /\ a.source[4] \in Byte
      /\ a.dest[1] \in Byte /\ a.dest[2] \in Byte
      /\ a.dest[3] \in Byte /\ a.dest[4] \in Byte
  BY <1>1, Reversed
<1>3. /\ a.packetLength \div 256 \in Byte /\ a.packetLength % 256 \in Byte
      /\ a.packetId \div 256 \in Byte /\ a.packetId % 256 \in Byte
      /\ c % 256 \in Byte /\ c \div 256 \in Byte
  BY <1>1, SwappedWord, Halves
<1>4. 5 + 16 * a.version \in Byte /\ 64 \in Byte /\ 0 \in Byte
  BY <1>1 DEF Byte
<1> QED
  BY <1>1, <1>2, <1>3, <1>4 DEF IPv4Layout

(* ... of a TCP header ...                                                 *)
LEMMA TCPLayoutBytes ==
  ASSUME NEW a \in TCPParameters, TCPArgumentsAllowed(a), NEW c \in Nat, c <= 65535
  PROVE  TCPLayout(a, c) \in Seq(Byte) /\ Len(TCPLayout(a, c)) = 20
<1>1. /\ a.sourcePort \in Holds(16) /\ a.destPort \in Holds(16)
      /\ a.window \in Holds(16)
      /\ a.sequence \in Holds(32) /\ a.acknowledge \in Holds(32)
      /\ a.FIN \in BOOLEAN /\ a.SYN \in BOOLEAN /\ a.RST \in BOOLEAN
      /\ a.PSH \in BOOLEAN /\ a.ACK \in BOOLEAN /\ a.options \in Seq(Byte)
  BY DEF TCPParameters
<1>2. /\ a.sequence[1] \in Byte /\ a.sequence[2] \in Byte
      /\ a.sequence[3] \in Byte /\ a.sequence[4] \in Byte
      /\ a.acknowledge[1] \in Byte /\ a.acknowledge[2] \in Byte
      /\ a.acknowledge[3] \in Byte /\ a.acknowledge[4] \in Byte
  BY <1>1, Reversed
<1>3. /\ a.sourcePort \div 256 \in Byte /\ a.sourcePort % 256 \in Byte
      /\ a.destPort \div 256 \in Byte /\ a.destPort % 256 \in Byte
      /\ a.window \div 256 \in Byte /\ a.window % 256 \in Byte
      /\ c % 256 \in Byte /\ c \div 256 \in Byte /\ 0 \in Byte
  BY <1>1, SwappedWord, Halves, ZeroHalves
<1> DEFINE offset == 16 * ((20 + Len(a.options)) \div 4)
           flags == FlagsOf(a)
<1>4. offset \in Byte
  <2> DEFINE n == Len(a.options)
  <2>1. n \in Nat /\ 20 + n <= 60
    BY <1>1, LenProperties DEF TCPArgumentsAllowed
  <2>2. offset = 16 * ((20 + n) \div 4)
    OBVIOUS
  <2> HIDE DEF n, offset
  <2>3. 16 * ((20 + n) \div 4) \in 0 .. 255
    BY <2>1
  <2> QED
    BY <2>2, <2>3 DEF Byte
<1>5. flags \in Byte
  <2> DEFINE f == Bit(a.FIN)
             s == Bit(a.SYN)
             r == Bit(a.RST)
             p == Bit(a.PSH)
             k == Bit(a.ACK)
  <2>1. f \in 0 .. 1 /\ s \in 0 .. 1 /\ r \in 0 .. 1 /\ p \in 0 .. 1 /\ k \in 0 .. 1
    BY <1>1, BitRange
  <2>2. flags = f + 2 * s + 4 * r + 8 * p + 16 * k
    BY DEF FlagsOf
  <2> HIDE DEF f, s, r, p, k, flags
  <2>3. f + 2 * s + 4 * r + 8 * p + 16 * k \in 0 .. 255
    BY <2>1
  <2> QED
    BY <2>2, <2>3 DEF Byte
<1>6. TCPLayout(a, c)
        = <<a.sourcePort \div 256, a.sourcePort % 256,
            a.destPort \div 256, a.destPort % 256,
            a.sequence[1], a.sequence[2], a.sequence[3], a.sequence[4],
            a.acknowledge[1], a.acknowledge[2], a.acknowledge[3], a.acknowledge[4],
            offset, flags,
            a.window \div 256, a.window % 256, c % 256, c \div 256, 0, 0>>
  BY DEF TCPLayout
<1> HIDE DEF offset, flags
<1> QED
  BY <1>2, <1>3, <1>4, <1>5, <1>6

(* ... of a pseudo-header ...                                              *)
LEMMA PseudoLayoutBytes ==
  ASSUME NEW p \in IPv4Parameters, NEW n \in Nat, n <= 65535
  PROVE  PseudoLayout(p, n) \in Seq(Byte) /\ Len(PseudoLayout(p, n)) = 12
<1>1. p.source \in Holds(32) /\ p.dest \in Holds(32)
  BY DEF IPv4Parameters
<1>2. /\ p.source[1] \in Byte /\ p.source[2] \in Byte
      /\ p.source[3] \in Byte /\ p.source[4] \in Byte
      /\ p.dest[1] \in Byte /\ p.dest[2] \in Byte
      /\ p.dest[3] \in Byte /\ p.dest[4] \in Byte
  BY <1>1, Reversed
<1>3. n \div 256 \in Byte /\ n % 256 \in Byte /\ 0 \in Byte /\ 6 \in Byte
  BY Halves DEF Byte
<1> QED
  BY <1>2, <1>3 DEF PseudoLayout

(* ... of an ICMP header ...                                               *)
LEMMA ICMPLayoutBytes ==
  ASSUME NEW a \in ICMPParameters, NEW c \in Nat, c <= 65535
  PROVE  ICMPLayout(a, c) \in Seq(Byte) /\ Len(ICMPLayout(a, c)) = 8
<1>1. /\ a.type \in Byte /\ a.code \in Byte
      /\ a.identifier \in Holds(16) /\ a.sequence \in Holds(16)
  BY HoldsAre DEF ICMPParameters, Byte
<1>2. /\ a.identifier \div 256 \in Byte /\ a.identifier % 256 \in Byte
      /\ a.sequence \div 256 \in Byte /\ a.sequence % 256 \in Byte
      /\ c % 256 \in Byte /\ c \div 256 \in Byte
  BY <1>1, SwappedWord, Halves
<1> QED
  BY <1>1, <1>2 DEF ICMPLayout

(* ... and of an OGM.                                                      *)
LEMMA OGMLayoutBytes ==
  ASSUME NEW a \in OGMParameters
  PROVE  OGMLayout(a) \in Seq(Byte) /\ Len(OGMLayout(a)) = 24
<1>1. /\ a.ttl \in Byte /\ a.seqNumber \in Holds(32) /\ a.originator \in Holds(48)
      /\ a.tq \in Byte /\ a.tvlvLength \in Holds(16)
  BY HoldsAre DEF OGMParameters, Byte
<1>2. /\ a.seqNumber[1] \in Byte /\ a.seqNumber[2] \in Byte
      /\ a.seqNumber[3] \in Byte /\ a.seqNumber[4] \in Byte
      /\ \A i \in 1 .. 6 : a.originator[i] \in Byte
  BY <1>1, Reversed, SixOf
<1>3. /\ a.tvlvLength \div 256 \in Byte /\ a.tvlvLength % 256 \in Byte
      /\ 0 \in Byte /\ 15 \in Byte
  BY <1>1, SwappedWord DEF Byte
<1> QED
  BY <1>1, <1>2, <1>3 DEF OGMLayout

IPv4Sum(a) == ChecksumOf(IPv4Layout(a, 0))
ICMPSum(a) == ChecksumOf(ICMPLayout(a, 0))

(* The checksum of initIPv4Header makes the 20 bytes of the header add up. *)
LEMMA IPv4AddsUp ==
  ASSUME NEW a \in IPv4Parameters
  PROVE  /\ IPv4Sum(a) \in Nat /\ IPv4Sum(a) <= 65535
         /\ AddsUp(IPv4Layout(a, IPv4Sum(a)))
<1> DEFINE c == IPv4Sum(a)
           b == IPv4Layout(a, 0)
           d == IPv4Layout(a, c)
<1>1. b \in Seq(Byte) /\ Len(b) = 20
  BY ZeroHalves, IPv4LayoutBytes
<1>2. c \in Nat /\ c <= 65535
  BY <1>1, ChecksumRange DEF IPv4Sum
<1>3. d \in Seq(Byte) /\ Len(d) = 20
  BY <1>2, IPv4LayoutBytes
<1>4. b[11] = 0 /\ b[12] = 0
  BY ZeroHalves DEF IPv4Layout
<1>5. d[11] = c % 256 /\ d[12] = c \div 256
  BY DEF IPv4Layout
<1>6. \A i \in 1 .. 20 : i # 11 /\ i # 12 => d[i] = b[i]
  BY DEF IPv4Layout
<1>7. c = ChecksumOf(b)
  BY DEF IPv4Sum
<1> HIDE DEF b, c, d
<1>8. 11 \in Nat /\ 11 % 2 = 1 /\ 12 = 11 + 1 /\ 12 <= 20 /\ 20 <= 32768
  OBVIOUS
<1>10. Filled(b, d, 11, 12)
  BY <1>1, <1>3, <1>4, <1>5, <1>6, <1>7, <1>8 DEF Filled
<1>9. AddsUp(d)
  BY <1>10, FilledAddsUp
<1> QED
  BY <1>2, <1>9 DEF b, c, d

(* The checksum of initICMPHeader makes the 8 bytes of the message add up. *)
LEMMA ICMPAddsUp ==
  ASSUME NEW a \in ICMPParameters
  PROVE  /\ ICMPSum(a) \in Nat /\ ICMPSum(a) <= 65535
         /\ AddsUp(ICMPLayout(a, ICMPSum(a)))
<1> DEFINE c == ICMPSum(a)
           b == ICMPLayout(a, 0)
           d == ICMPLayout(a, c)
<1>1. b \in Seq(Byte) /\ Len(b) = 8
  BY ZeroHalves, ICMPLayoutBytes
<1>2. c \in Nat /\ c <= 65535
  BY <1>1, ChecksumRange DEF ICMPSum
<1>3. d \in Seq(Byte) /\ Len(d) = 8
  BY <1>2, ICMPLayoutBytes
<1>4. b[3] = 0 /\ b[4] = 0
  BY ZeroHalves DEF ICMPLayout
<1>5. d[3] = c % 256 /\ d[4] = c \div 256
  BY DEF ICMPLayout
<1>6. \A i \in 1 .. 8 : i # 3 /\ i # 4 => d[i] = b[i]
  BY DEF ICMPLayout
<1>7. c = ChecksumOf(b)
  BY DEF ICMPSum
<1> HIDE DEF b, c, d
<1>8. 3 \in Nat /\ 3 % 2 = 1 /\ 4 = 3 + 1 /\ 4 <= 8 /\ 8 <= 32768
  OBVIOUS
<1>10. Filled(b, d, 3, 4)
  BY <1>1, <1>3, <1>4, <1>5, <1>6, <1>7, <1>8 DEF Filled
<1>9. AddsUp(d)
  BY <1>10, FilledAddsUp
<1> QED
  BY <1>2, <1>9 DEF b, c, d

=============================================================================
