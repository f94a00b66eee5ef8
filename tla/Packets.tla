------------------------------ MODULE Packets ------------------------------
(***************************************************************************)
(* The packets that the senders of Networking.cpp build, byte by byte, and *)
(* what a sniffer on another machine, DumpWiFiTraffic or CapturePackets of *)
(* LibPcapExperiments.cpp, prints of what gets through.                    *)
(* A sender takes a buffer, sometimes uninitialised memory, fills in one   *)
(* header after the other in place, and sends; the air loses, repeats and  *)
(* reorders frames, and carries those of other machines.  Which step of a  *)
(* sender may fail, and its socket, is the subject of Networking.          *)
(***************************************************************************)
EXTENDS PacketHeaders, FiniteSets

CONSTANTS
  Calls,       \* the packets to build: see Layers and the calls below
  Foreign,     \* the frames of other machines, as bytes
  BufferSize,  \* the bytes of the sniffer's buffer, 2048 in the code
  MaxAir       \* bound: so many frames of the senders are on the air at most

ETHERTYPE_IP == 2048
ETH_P_BATMAN == 17157

Widths ==
  [ethernet |-> EthernetWidths, ip |-> IPv4Widths, tcp |-> TCPWidths,
   icmp |-> ICMPWidths, ogm |-> OGMWidths]

Layer == DOMAIN Widths

(* The headers of a packet, in the order in which they are filled in.      *)
Layers(call) ==
  CASE "tcp" \in DOMAIN call -> <<"ethernet", "ip", "tcp">>
    [] "icmp" \in DOMAIN call -> <<"ethernet", "ip", "icmp">>
    [] "ogm" \in DOMAIN call -> <<"ethernet", "ogm">>

(* What the senders may be told to build.  All callers announce the length *)
(* that the datagram really has, and the protocol that they put into it.   *)
TCPCalls ==
  {c \in [zeroed : BOOLEAN, ethernet : EthernetParameters, ip : IPv4Parameters,
          tcp : TCPParameters] :
     /\ TCPArgumentsAllowed(c.tcp)
     /\ c.ip.protocol = IPPROTO_TCP
     /\ c.ip.packetLength = 20 + 20 + Len(c.tcp.options) + Len(c.tcp.data)}

ICMPCalls ==
  {c \in [zeroed : BOOLEAN, ethernet : EthernetParameters, ip : IPv4Parameters,
          icmp : ICMPParameters] : c.ip.packetLength = 20 + 8}

OGMCalls ==
  [zeroed : BOOLEAN, ethernet : EthernetParameters, ogm : OGMParameters]

(* The buffer of the sniffer has room for an Ethernet header, an IP header *)
(* of 15 words and four bytes more.                                        *)
ASSUME PacketsAssumption ==
  /\ Calls \subseteq TCPCalls \cup ICMPCalls \cup OGMCalls
  /\ Foreign \subseteq Seq(Byte)
  /\ MaxAir \in Nat \ {0}
  /\ BufferSize \in Nat /\ BufferSize >= 14 + 60 + 4

VARIABLES
  call,     \* the packet that is built, or NoCall
  todo,     \* its headers that are still to be filled in
  packet,   \* the buffer: the structure at the place of each header
  air,      \* the frames sent so far: [call, bytes]
  reader,   \* which sniffer runs: "DumpWiFiTraffic" or "CapturePackets"
  buffer,   \* the memory from where it reads a packet
  shown     \* history: the bytes that came last, and the line printed of them

vars == <<call, todo, packet, air, reader, buffer, shown>>

NoCall == [none |-> TRUE]
NoPacket == [l \in Layer |-> Memory(Widths[l], 0)]
NoLine == [none |-> TRUE]

-----------------------------------------------------------------------------
(* The calls, with the arguments that the code has in them.  device is the *)
(* address that ResolveInterfaceAddress found.                             *)

IPv4Arguments(protocol, length, source, dest, ttl) ==
  [protocol |-> protocol, packetLength |-> length, source |-> source,
   dest |-> dest, packetId |-> 12345, serviceType |-> 0, ttl |-> ttl,
   version |-> 4]

TCPArguments(sourcePort, destPort) ==
  [sourcePort |-> sourcePort, destPort |-> destPort, sequence |-> U32(1000001),
   acknowledge |-> U32(1000002), window |-> 1024, SYN |-> TRUE, ACK |-> FALSE,
   FIN |-> FALSE, PSH |-> FALSE, RST |-> FALSE, options |-> <<>>, data |-> <<>>]

(* initEthernetHeader(header, src, dst) of Test: the addresses are texts.  *)
Test ==
  [zeroed |-> FALSE,
   ethernet |-> [src |-> <<188, 110, 226, 3, 116, 186>>,
                 dst |-> <<0, 0, 0, 0, 0, 1>>, type |-> ETHERTYPE_IP],
   ip |-> IPv4Arguments(IPPROTO_TCP, 20 + 20, <<127, 0, 0, 1>>, <<127, 0, 0, 2>>, 128),
   tcp |-> TCPArguments(52525, 443)]

TrySendPacket(device) ==
  [zeroed |-> FALSE,
   ethernet |-> [src |-> device, dst |-> <<228, 95, 1, 97, 91, 252>>,
                 type |-> ETHERTYPE_IP],
   ip |-> IPv4Arguments(IPPROTO_TCP, 20 + 20, <<192, 168, 0, 184>>,
                        <<192, 168, 1, 5>>, 128),
   tcp |-> TCPArguments(12121, 52525)]

SendICMP_PING(device) ==
  [zeroed |-> TRUE,
   ethernet |-> [src |-> device, dst |-> <<228, 95, 1, 97, 91, 252>>,
                 type |-> ETHERTYPE_IP],
   ip |-> IPv4Arguments(IPPROTO_ICMP, 20 + 8, <<192, 168, 1, 0>>,
                        <<192, 168, 1, 5>>, 65),
   icmp |-> [type |-> 8, code |-> 0, identifier |-> 33245, sequence |-> 256]]

SendOGMMessage(device) ==
  [zeroed |-> TRUE,
   ethernet |-> [src |-> device, dst |-> <<0, 48, 26, 79, 141, 196>>,
                 type |-> ETH_P_BATMAN],
   ogm |-> [ttl |-> 50, seqNumber |-> U32(100000001),
            originator |-> <<168, 147, 74, 78, 0, 107>>, tq |-> 191,
            tvlvLength |-> 36]]

-----------------------------------------------------------------------------
(* The senders                                                             *)

(* A buffer on the stack is zeroed or has whatever was there before.       *)
Begin ==
  /\ call = NoCall /\ Cardinality(air) < MaxAir
  /\ call' \in Calls
  /\ todo' = Layers(call')
  /\ \E bit \in IF call'.zeroed THEN {0} ELSE {0, 1} :
       packet' = [l \in Layer |-> Memory(Widths[l], bit)]
  /\ UNCHANGED <<air, reader, buffer, shown>>

Fill(l, header) ==
  /\ todo # <<>> /\ Head(todo) = l
  /\ packet' = [packet EXCEPT ![l] = header]
  /\ todo' = Tail(todo)
  /\ UNCHANGED <<call, air, reader, buffer, shown>>

FillEthernet ==
  Fill("ethernet", initEthernetHeader(packet.ethernet, call.ethernet))

FillIPv4 == Fill("ip", initIPv4Header(packet.ip, call.ip))

(* Its checksum covers addresses of the IP header as it is by then.        *)
FillTCP == Fill("tcp", initTCPHeader(packet.tcp, packet.ip, call.tcp))

FillICMP == Fill("icmp", initICMPHeader(packet.icmp, call.icmp))

FillOGM == Fill("ogm", initOGMHeader(packet.ogm, call.ogm))

(* The buffer as sendto() reads it.  The callers in Networking.cpp have    *)
(* neither options nor data; one that had would put them behind.           *)
PacketBytes ==
  EthernetBytes(packet.ethernet) \o
    CASE "tcp" \in DOMAIN call ->
           IPv4Bytes(packet.ip) \o TCPBytes(packet.tcp)
             \o call.tcp.options \o call.tcp.data
      [] "icmp" \in DOMAIN call -> IPv4Bytes(packet.ip) \o ICMPBytes(packet.icmp)
      [] "ogm" \in DOMAIN call -> OGMBytes(packet.ogm)

Send ==
  /\ call # NoCall /\ todo = <<>>
  /\ air' = air \cup {[call |-> call, bytes |-> PacketBytes]}
  /\ call' = NoCall
  /\ packet' = NoPacket
  /\ UNCHANGED <<todo, reader, buffer, shown>>

-----------------------------------------------------------------------------
(* The sniffer                                                             *)

EthernetAt(b) ==
  [destMac |-> SubSeq(b, 1, 6), sourceMac |-> SubSeq(b, 7, 12),
   typeHigh |-> b[13], typeLow |-> b[14]]

(* As if every IP header had 20 bytes.                                     *)
TransportAlwaysAt34(b) == 34

(* Where the header behind the IP header starts: ihl * 4.                  *)
TransportAt(b) == 14 + (b[15] % 16) * 4

(* The addresses are printed as they are, in network order, through        *)
(* IpToStr, which swaps them first.                                        *)
IpToStr(address) == inet_ntoa(htonl(address))

EndPoint(address, port) == [ip |-> IpToStr(address), port |-> port]

(* TCPHeader and UDPHeader have their ports at the same place.             *)
PrintPacketInfo(b) ==
  LET eth == EthernetAt(b)
      protocol == b[24]
      ports == UDPGet(UDPAt(b, TransportAt(b)))
      macs == [source |-> eth.sourceMac, dest |-> eth.destMac]
  IN  IF GetType(eth) # ETHERTYPE_IP THEN NoLine
      ELSE IF protocol \in {IPPROTO_TCP, IPPROTO_UDP}
        THEN [macs |-> macs, protocol |-> protocol,
              from |-> EndPoint(LoadLong(b, 26), ports.sourcePort),
              to |-> EndPoint(LoadLong(b, 30), ports.destinationPort)]
        ELSE [macs |-> macs]

(* As if recvfrom() were told of a longer buffer.                          *)
ReceivedUncut(b) ==
  [i \in 1 .. Max({BufferSize, Len(b)}) |-> IF i <= Len(b) THEN b[i] ELSE buffer[i]]

(* recvfrom() cuts a frame off that is too long, and leaves what is in the *)
(* buffer behind a shorter one.                                            *)
ReceivedInto(b) == [i \in 1 .. BufferSize |-> IF i <= Len(b) THEN b[i] ELSE buffer[i]]

OnTheAir == {f.bytes : f \in air} \cup Foreign

Shows(b) ==
  /\ shown' = [bytes |-> b, line |-> PrintPacketInfo(buffer')]
  /\ UNCHANGED <<call, todo, packet, air, reader>>

Receive ==
  /\ reader = "DumpWiFiTraffic"
  /\ \E b \in OnTheAir : buffer' = ReceivedInto(b) /\ Shows(b)

(* pcap_loop hands a packet over where libpcap has it, whatever follows it *)
(* there; print_packet_info is PrintPacketInfo, word for word, and does    *)
(* not look at header->caplen.                                             *)
Capture ==
  /\ reader = "CapturePackets"
  /\ \E b \in OnTheAir, bit \in {0, 1} :
       /\ buffer' = b \o [i \in 1 .. BufferSize |-> 255 * bit]
       /\ Shows(b)

-----------------------------------------------------------------------------

Init ==
  /\ call = NoCall /\ todo = <<>>
  /\ packet = NoPacket
  /\ air = {}
  /\ reader \in {"DumpWiFiTraffic", "CapturePackets"}
  /\ buffer \in {[i \in 1 .. BufferSize |-> 255 * bit] : bit \in {0, 1}}
  /\ shown = [bytes |-> <<>>, line |-> NoLine]

Next ==
  \/ Begin \/ FillEthernet \/ FillIPv4 \/ FillTCP \/ FillICMP \/ FillOGM \/ Send
  \/ Receive \/ Capture

Spec == Init /\ [][Next]_vars

-----------------------------------------------------------------------------

(* No field of a header ever holds more than its bits, so that none spills *)
(* into its neighbour, and the buffers are made of bytes.                  *)
PacketsTypeOK ==
  /\ call \in Calls \cup {NoCall}
  /\ todo \in Seq(Layer)
  /\ \A l \in Layer : Fits(packet[l], Widths[l])
  /\ \A f \in air : f.call \in Calls /\ f.bytes \in Seq(Byte)
  /\ buffer \in IF reader = "DumpWiFiTraffic" THEN [1 .. BufferSize -> Byte]
                                               ELSE Seq(Byte)

(* What the bytes of a frame say by RFC 791, 793 and 792: numbers with the *)
(* most significant byte first, at offsets from the start of the frame.    *)
U16At(b, k) == 256 * b[k + 1] + b[k + 2]
BytesAt(b, k, n) == SubSeq(b, k + 1, k + n)
BitAt(b, k, n) == (b[k + 1] \div 2 ^ n) % 2

EthernetSays(b, a) ==
  /\ BytesAt(b, 0, 6) = a.dst /\ BytesAt(b, 6, 6) = a.src
  /\ U16At(b, 12) = a.type

(* Type of service, length, identification, "do not fragment" and no other *)
(* flag and no offset, time to live, protocol and addresses.               *)
IPv4Says(b, a) ==
  /\ b[15] = 16 * a.version + 5
  /\ b[16] = a.serviceType /\ U16At(b, 16) = a.packetLength
  /\ U16At(b, 18) = a.packetId /\ U16At(b, 20) = 2 ^ 14
  /\ b[23] = a.ttl /\ b[24] = a.protocol
  /\ BytesAt(b, 26, 4) = a.source /\ BytesAt(b, 30, 4) = a.dest

TCPSays(b, a) ==
  /\ U16At(b, 34) = a.sourcePort /\ U16At(b, 36) = a.destPort
  /\ BytesAt(b, 38, 4) = a.sequence /\ BytesAt(b, 42, 4) = a.acknowledge
  /\ b[47] = 16 * ((20 + Len(a.options)) \div 4)
  /\ [FIN |-> BitAt(b, 47, 0) = 1, SYN |-> BitAt(b, 47, 1) = 1,
      RST |-> BitAt(b, 47, 2) = 1, PSH |-> BitAt(b, 47, 3) = 1,
      ACK |-> BitAt(b, 47, 4) = 1]
       = [FIN |-> a.FIN, SYN |-> a.SYN, RST |-> a.RST, PSH |-> a.PSH, ACK |-> a.ACK]
  /\ b[48] < 32 /\ U16At(b, 48) = a.window /\ U16At(b, 52) = 0

ICMPSays(b, a) ==
  /\ b[35] = a.type /\ b[36] = a.code
  /\ U16At(b, 38) = a.identifier /\ U16At(b, 40) = a.sequence

OGMSays(b, a) ==
  /\ BytesAt(b, 14, 4) = <<0, 15, a.ttl, 0>> /\ BytesAt(b, 18, 4) = a.seqNumber
  /\ BytesAt(b, 22, 6) = a.originator /\ BytesAt(b, 28, 6) = a.originator
  /\ b[35] = 0 /\ b[36] = a.tq /\ U16At(b, 36) = a.tvlvLength

(* A frame says what the caller asked for, in every header, whatever was   *)
(* in the memory that it was built in.                                     *)
SaysWhatWasAsked ==
  \A f \in air :
    /\ EthernetSays(f.bytes, f.call.ethernet)
    /\ "ip" \in DOMAIN f.call => IPv4Says(f.bytes, f.call.ip)
    /\ "tcp" \in DOMAIN f.call => TCPSays(f.bytes, f.call.tcp)
    /\ "icmp" \in DOMAIN f.call => ICMPSays(f.bytes, f.call.icmp)
    /\ "ogm" \in DOMAIN f.call => OGMSays(f.bytes, f.call.ogm)

Behind(b, k) == SubSeq(b, k + 1, Len(b))

(* The receiver of a frame accepts it: it has the length that its IP       *)
(* header announces, and the checksums of the IP header and of the message *)
(* in it are right, the one of TCP over the pseudo-header, the options and *)
(* the data too.                                                           *)
ReceiverAccepts ==
  \A f \in air :
    LET b == f.bytes IN
    /\ "ip" \in DOMAIN f.call =>
         U16At(b, 16) = Len(b) - 14 /\ AddsUp(BytesAt(b, 14, 20))
    /\ "tcp" \in DOMAIN f.call =>
         AddsUp(BytesAt(b, 26, 8) \o <<0, b[24]>> \o Word(htons(Len(b) - 34))
                  \o Behind(b, 34))
    /\ "icmp" \in DOMAIN f.call => AddsUp(Behind(b, 34))

(* The frame reaches as far as the ports behind its IP header, and it is   *)
(* the start of its datagram.                                              *)
HasPorts(b) ==
  /\ Len(b) >= 34 /\ U16At(b, 12) = ETHERTYPE_IP
  /\ b[24] \in {IPPROTO_TCP, IPPROTO_UDP} /\ U16At(b, 20) % 2 ^ 13 = 0
  /\ Len(b) >= 14 + 4 * (b[15] % 16) + 4

(* Of a frame that is not IP a sniffer prints nothing.  The line of an IP  *)
(* frame has its own hardware addresses in it, and its ports if there are  *)
(* any, with the sender's first: whatever frames came before it, however   *)
(* long their IP headers were, and whatever is in the memory behind it.    *)
PrintsWhatCame ==
  LET b == shown.bytes
      k == 14 + 4 * (b[15] % 16)
  IN  Len(b) >= 14 =>
        IF U16At(b, 12) # ETHERTYPE_IP THEN shown.line = NoLine
        ELSE /\ shown.line.macs = [source |-> BytesAt(b, 6, 6),
                                   dest |-> BytesAt(b, 0, 6)]
             /\ HasPorts(b) => /\ shown.line.from.port = U16At(b, k)
                               /\ shown.line.to.port = U16At(b, k + 2)

(* LibPcapExperiments.cpp:202: inet_ntoa() takes an address "given in      *)
(* network byte order", such as the ones in a packet; so the line of a     *)
(* frame has the addresses of the frame in it.                             *)
PrintsAddresses ==
  HasPorts(shown.bytes) =>
    /\ shown.line.from.ip = BytesAt(shown.bytes, 26, 4)
    /\ shown.line.to.ip = BytesAt(shown.bytes, 30, 4)

=============================================================================
