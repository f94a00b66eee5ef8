--------------------------- MODULE PacketHeaders ---------------------------
(***************************************************************************)
(* The header structures of src/Networking/Headers, the functions of       *)
(* Networking.cpp that fill them in, and PrintPacketInfo, which reads      *)
(* them.  A header is the record of what its fields hold; XxxBytes is the  *)
(* memory of the structure, and XxxSet and XxxGet are all its setters and  *)
(* all its getters, with the conversions and the widths that each has.     *)
(*                                                                         *)
(* The machine is little-endian.  A 16-bit number is a natural number; a   *)
(* 32-bit one is the sequence of its four bytes, most significant first,   *)
(* so that a dotted address and the number it is the text of look alike.   *)
(***************************************************************************)
EXTENDS Integers, SequencesExt

Byte == 0 .. 255

(* External: arpa/inet.h.                                                  *)
htons(v) == 256 * (v % 256) + (v \div 256)
htonl(v) == Reverse(v)
inet_addr(text) == Reverse(text)
inet_ntoa(address) == Reverse(address)

(* How the machine stores numbers, and loads them from offset k.           *)
Word(v) == <<v % 256, v \div 256>>
Long(v) == Reverse(v)
LoadWord(b, k) == b[k + 1] + 256 * b[k + 2]
LoadLong(b, k) == Reverse(SubSeq(b, k + 1, k + 4))

(* The addresses and the sequence numbers of the code as 32-bit numbers.   *)
U32(n) == <<n \div 16777216, (n \div 65536) % 256, (n \div 256) % 256, n % 256>>

Bit(flag) == IF flag THEN 1 ELSE 0

-----------------------------------------------------------------------------
(* What a field of so many bits can hold, and what one reads as that has   *)
(* never been written: here all zeros or all ones.                         *)

Holds(width) ==
  CASE width = 32 -> [1 .. 4 -> Byte]
    [] width = 48 -> [1 .. 6 -> Byte]
    [] OTHER -> 0 .. 2 ^ width - 1

Fits(h, widths) ==
  /\ DOMAIN h = DOMAIN widths
  /\ \A f \in DOMAIN widths : h[f] \in Holds(widths[f])

Memory(widths, bit) ==
  [f \in DOMAIN widths |->
     IF widths[f] >= 32 THEN [i \in 1 .. widths[f] \div 8 |-> 255 * bit]
                        ELSE bit * (2 ^ widths[f] - 1)]

(* As if the call of memset were not there.                                *)
NotCleared(h, widths) == h

(* memset(header, 0, size)                                                 *)
Cleared(h, widths) == Memory(widths, 0)

-----------------------------------------------------------------------------
(* EthernetHeader                                                          *)

EthernetWidths == [destMac |-> 48, sourceMac |-> 48, typeHigh |-> 8, typeLow |-> 8]

(* The text of an address is the list of the numbers that sscanf() finds,  *)
(* two hexadecimal digits each.                                            *)
SetMACAddress(d, text) == IF Len(text) = 6 THEN text ELSE d

SetType(h, type) == [h EXCEPT !.typeHigh = type \div 256, !.typeLow = type % 256]

GetType(h) == h.typeHigh * 256 + h.typeLow

EthernetBytes(h) == h.destMac \o h.sourceMac \o <<h.typeHigh, h.typeLow>>

EthernetParameters == [src : Holds(48), dst : Holds(48), type : Holds(16)]

initEthernetHeader(h, a) ==
  SetType([h EXCEPT !.destMac = SetMACAddress(h.destMac, a.dst),
                    !.sourceMac = SetMACAddress(h.sourceMac, a.src)],
          a.type)

-----------------------------------------------------------------------------
(* IPv4Header                                                              *)

IPv4Widths ==
  [ipHeaderLength |-> 4, ipVersion |-> 4, serviceType |-> 8, packetLength |-> 16,
   packetId |-> 16, frag_offset |-> 5, more_fragment |-> 1, dont_fragment |-> 1,
   reserved_zero |-> 1, frag_offset1 |-> 8, timeToLive |-> 8, protocol |-> 8,
   checksum |-> 16, srcaddr |-> 32, destaddr |-> 32]

IPv4Set(h, v) ==
  [h EXCEPT !.ipVersion = v.version % 16,
            !.ipHeaderLength = (v.headerLength \div 4) % 16,
            !.serviceType = v.serviceType % 256,
            !.packetLength = htons(v.packetLength),
            !.packetId = htons(v.packetId),
            !.timeToLive = v.timeToLive % 256,
            !.protocol = v.protocol % 256,
            !.checksum = v.checksum,
            !.dont_fragment = v.dontFragment % 2,
            !.srcaddr = inet_addr(v.source),
            !.destaddr = inet_addr(v.dest)]

IPv4Get(h) ==
  [version |-> h.ipVersion, headerLength |-> h.ipHeaderLength * 4,
   serviceType |-> h.serviceType, packetLength |-> htons(h.packetLength),
   packetId |-> htons(h.packetId), timeToLive |-> h.timeToLive,
   protocol |-> h.protocol, checksum |-> h.checksum,
   dontFragment |-> h.dont_fragment,
   source |-> inet_ntoa(h.srcaddr), dest |-> inet_ntoa(h.destaddr)]

IPv4Bytes(h) ==
  <<h.ipHeaderLength + 16 * h.ipVersion, h.serviceType>>
    \o Word(h.packetLength) \o Word(h.packetId)
    \o <<h.frag_offset + 32 * h.more_fragment + 64 * h.dont_fragment
           + 128 * h.reserved_zero, h.frag_offset1, h.timeToLive, h.protocol>>
    \o Word(h.checksum) \o Long(h.srcaddr) \o Long(h.destaddr)

(* The sums of the first n numbers of a sequence, and of all of them.      *)
PartialSums(s) == LET sum[n \in Nat] == IF n = 0 THEN 0 ELSE sum[n - 1] + s[n] IN sum
SumOf(s) == PartialSums(s)[Len(s)]

(* What the bytes of b count in the words that the machine loads.          *)
AsLoaded(b) == [i \in DOMAIN b |-> IF i % 2 = 1 THEN b[i] ELSE 256 * b[i]]

(* Utilities::Checksum of the bytes of a buffer; Checksum has its loop.    *)
ChecksumOf(b) ==
  LET sum == SumOf(AsLoaded(b))
      once == (sum \div 65536) + (sum % 65536)
  IN  (-1 - (once + once \div 65536)) % 65536

(* What a receiver of b checks, by RFC 1071: counted with the first byte   *)
(* of each word on the left, the words of b, odd ones padded, add up to a  *)
(* zero in ones' complement, and not to the zero of zeros only.            *)
AsSent(b) == [i \in DOMAIN b |-> IF i % 2 = 1 THEN 256 * b[i] ELSE b[i]]
AddsUp(b) == SumOf(AsSent(b)) > 0 /\ SumOf(AsSent(b)) % 65535 = 0

(* Numbers that their fields can say.  protocol, serviceType, ttl and      *)
(* version are uint16_t; the setters cut off what is more.                 *)
IPv4Parameters ==
  [protocol : Holds(8), packetLength : Holds(16), source : Holds(32),
   dest : Holds(32), packetId : Holds(16), serviceType : Holds(8),
   ttl : Holds(8), version : Holds(4)]

initIPv4Header(h, a) ==
  LET zeroed == Cleared(h, IPv4Widths)
      filled == IPv4Set(zeroed,
                  [version |-> a.version, headerLength |-> 20,
                   serviceType |-> a.serviceType, packetLength |-> a.packetLength,
                   packetId |-> a.packetId, timeToLive |-> a.ttl,
                   protocol |-> a.protocol, checksum |-> 0, dontFragment |-> 1,
                   source |-> a.source, dest |-> a.dest])
  IN  [filled EXCEPT !.checksum = ChecksumOf(IPv4Bytes(filled))]

-----------------------------------------------------------------------------
(* TCPHeader                                                               *)

TCPWidths ==
  [sourcePort |-> 16, destinationPort |-> 16, sequence |-> 32, acknowledge |-> 32,
   reserved_part1 |-> 4, dataOffset |-> 4, FYN |-> 1, SYN |-> 1, RST |-> 1,
   PSH |-> 1, ACK |-> 1, URG |-> 1, reserved2 |-> 2, window |-> 16,
   checksum |-> 16, urgent_pointer |-> 16]

(* dataOffset has four bits: a header has at most 60 bytes.                *)
SetDataOffset(offset) == (offset \div 4) % 16

(* SetChecksum and SetUrgentPointer store what they are given, unswapped;  *)
(* their getters swap.                                                     *)
TCPSet(h, v) ==
  [h EXCEPT !.sourcePort = htons(v.sourcePort),
            !.destinationPort = htons(v.destinationPort),
            !.window = htons(v.window),
            !.acknowledge = htonl(v.acknowledge),
            !.sequence = htonl(v.sequence),
            !.dataOffset = SetDataOffset(v.dataOffset),
            !.URG = Bit(v.URG), !.ACK = Bit(v.ACK), !.PSH = Bit(v.PSH),
            !.RST = Bit(v.RST), !.SYN = Bit(v.SYN), !.FYN = Bit(v.FYN),
            !.checksum = v.checksum,
            !.urgent_pointer = v.urgentPointer]

TCPGet(h) ==
  [sourcePort |-> htons(h.sourcePort), destinationPort |-> htons(h.destinationPort),
   window |-> htons(h.window), acknowledge |-> htonl(h.acknowledge),
   sequence |-> htonl(h.sequence), dataOffset |-> h.dataOffset * 4,
   URG |-> h.URG = 1, ACK |-> h.ACK = 1, PSH |-> h.PSH = 1, RST |-> h.RST = 1,
   SYN |-> h.SYN = 1, FYN |-> h.FYN = 1, checksum |-> htons(h.checksum),
   urgentPointer |-> htons(h.urgent_pointer)]

TCPBytes(h) ==
  Word(h.sourcePort) \o Word(h.destinationPort)
    \o Long(h.sequence) \o Long(h.acknowledge)
    \o <<h.reserved_part1 + 16 * h.dataOffset,
         h.FYN + 2 * h.SYN + 4 * h.RST + 8 * h.PSH + 16 * h.ACK + 32 * h.URG
           + 64 * h.reserved2>>
    \o Word(h.window) \o Word(h.checksum) \o Word(h.urgent_pointer)

IPPROTO_ICMP == 1
IPPROTO_TCP == 6
IPPROTO_UDP == 17

(* As if totalLength counted the header but not the data behind it.        *)
PseudoHeaderWithoutData(ip, length, data) ==
  Long(ip.srcaddr) \o Long(ip.destaddr) \o <<0, IPPROTO_TCP>> \o Word(htons(length))

PseudoHeader(ip, length, data) ==
  Long(ip.srcaddr) \o Long(ip.destaddr)
    \o <<0, IPPROTO_TCP>> \o Word(htons(length + Len(data)))

(* How many bytes of options a header of data offset length stands for,    *)
(* as an unsigned short.                                                   *)
OptionsLength(length) == (length - 20) % 65536

CalcChecksum(ip, h, options, data) ==
  LET length == TCPGet(h).dataOffset
  IN  ChecksumOf(PseudoHeader(ip, length, data) \o TCPBytes(h)
                   \o SubSeq(options, 1, OptionsLength(length)) \o data)

TCPParameters ==
  [sourcePort : Holds(16), destPort : Holds(16), sequence : Holds(32),
   acknowledge : Holds(32), window : Holds(16), SYN : BOOLEAN, ACK : BOOLEAN,
   FIN : BOOLEAN, PSH : BOOLEAN, RST : BOOLEAN, options : Seq(Byte),
   data : Seq(Byte)]

initTCPHeader(h, ip, a) ==
  LET zeroed == Cleared(h, TCPWidths)
      filled == TCPSet(zeroed,
                  [sourcePort |-> a.sourcePort, destinationPort |-> a.destPort,
                   window |-> a.window, acknowledge |-> a.acknowledge,
                   sequence |-> a.sequence, dataOffset |-> 20 + Len(a.options),
                   URG |-> FALSE, ACK |-> a.ACK, PSH |-> a.PSH, RST |-> a.RST,
                   SYN |-> a.SYN, FYN |-> a.FIN, checksum |-> 0,
                   urgentPointer |-> 0])
  IN  [filled EXCEPT !.checksum = CalcChecksum(ip, filled, a.options, a.data)]

(* What initTCPHeader needs: whole words of options, and no more of them   *)
(* than four bits can say; everything must fit pseudoBuffer.               *)
pseudoBufferSize == 10240

TCPArgumentsAllowed(a) ==
  /\ Len(a.options) % 4 = 0 /\ 20 + Len(a.options) <= 60
  /\ 12 + 20 + Len(a.options) + Len(a.data) <= pseudoBufferSize

-----------------------------------------------------------------------------
(* ICMPHeader, and what SendICMP_PING makes of it                          *)

ICMPWidths ==
  [type |-> 8, code |-> 8, checksum |-> 16, identifier |-> 16, sequence |-> 16]

ICMPSet(h, v) ==
  [h EXCEPT !.type = v.type % 256, !.code = v.code % 256, !.checksum = v.checksum,
            !.identifier = htons(v.identifier), !.sequence = htons(v.sequence)]

ICMPGet(h) ==
  [type |-> h.type, code |-> h.code, checksum |-> htons(h.checksum),
   identifier |-> htons(h.identifier), sequence |-> htons(h.sequence)]

ICMPBytes(h) ==
  <<h.type, h.code>> \o Word(h.checksum) \o Word(h.identifier) \o Word(h.sequence)

ICMPParameters ==
  [type : Holds(8), code : Holds(8), identifier : Holds(16), sequence : Holds(16)]

initICMPHeader(h, a) ==
  LET filled == ICMPSet(Cleared(h, ICMPWidths),
                  [type |-> a.type, code |-> a.code, checksum |-> 0,
                   identifier |-> a.identifier, sequence |-> a.sequence])
  IN  [filled EXCEPT !.checksum = ChecksumOf(ICMPBytes(filled))]

-----------------------------------------------------------------------------
(* UDPHeader; nothing in the repository sends one.                         *)

UDPSet(h, v) ==
  [h EXCEPT !.sourcePort = htons(v.sourcePort),
            !.destinationPort = htons(v.destinationPort),
            !.length = htons(v.packetLength),
            !.checksum = v.checksum]

UDPGet(h) ==
  [sourcePort |-> htons(h.sourcePort), destinationPort |-> htons(h.destinationPort),
   packetLength |-> htons(h.length), checksum |-> htons(h.checksum)]

(* The header at offset k of a packet.                                     *)
UDPAt(b, k) ==
  [sourcePort |-> LoadWord(b, k), destinationPort |-> LoadWord(b, k + 2),
   length |-> LoadWord(b, k + 4), checksum |-> LoadWord(b, k + 6)]

-----------------------------------------------------------------------------
(* BatmanOGMHeader, as SendOGMMessage fills it in                          *)

OGMWidths ==
  [packetType |-> 8, version |-> 8, ttl |-> 8, flags |-> 8, seqNumber |-> 32,
   originatorMAC |-> 48, prevSenderMAC |-> 48, reserved |-> 8, tq |-> 8,
   tvlvLength |-> 16]

OGMParameters ==
  [ttl : Holds(8), seqNumber : Holds(32), originator : Holds(48), tq : Holds(8),
   tvlvLength : Holds(16)]

initOGMHeader(h, a) ==
  [h EXCEPT !.packetType = 0, !.version = 15, !.ttl = a.ttl, !.flags = 0,
            !.seqNumber = htonl(a.seqNumber),
            !.originatorMAC = SetMACAddress(h.originatorMAC, a.originator),
            !.prevSenderMAC = SetMACAddress(h.prevSenderMAC, a.originator),
            !.reserved = 0, !.tq = a.tq, !.tvlvLength = htons(a.tvlvLength)]

OGMBytes(h) ==
  <<h.packetType, h.version, h.ttl, h.flags>> \o Long(h.seqNumber)
    \o h.originatorMAC \o h.prevSenderMAC \o <<h.reserved, h.tq>>
    \o Word(h.tvlvLength)

=============================================================================
