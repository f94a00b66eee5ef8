----------------------------- MODULE MCPackets -----------------------------
(* An instance of Packets for TLC.                                         *)
EXTENDS Packets

MCDevice == <<160, 168, 205, 15, 1, 254>>

(* A caller that passes options and data to initTCPHeader, and numbers     *)
(* whose bytes all differ, so that swapped ones show.                      *)
MCSegment(options, data) ==
  [zeroed |-> FALSE,
   ethernet |-> [src |-> MCDevice, dst |-> <<1, 2, 3, 4, 5, 6>>,
                 type |-> ETHERTYPE_IP],
   ip |-> [IPv4Arguments(IPPROTO_TCP, 40 + Len(options) + Len(data),
                         <<10, 1, 2, 255>>, <<224, 0, 0, 251>>, 255)
             EXCEPT !.packetId = 65535, !.serviceType = 16],
   tcp |-> [TCPArguments(65534, 80) EXCEPT
              !.sequence = <<255, 254, 253, 252>>, !.acknowledge = <<0, 128, 0, 1>>,
              !.window = 65535, !.SYN = FALSE, !.ACK = TRUE, !.PSH = TRUE,
              !.FIN = TRUE, !.options = options, !.data = data]]

(* The senders of the code; then some options and data of an odd length,   *)
(* and as many options as a header can have with data of an even length.   *)
MCCalls ==
  {Test, TrySendPacket(MCDevice), SendICMP_PING(MCDevice),
   SendOGMMessage(MCDevice),
   MCSegment(<<2, 4, 5, 180>>, <<71, 69, 84>>),
   MCSegment([i \in 1 .. 40 |-> i], <<255, 255>>)}

(* A frame as RFC 791 lays it out, with words words of IP header.          *)
MCFrame(words, flags, protocol, rest) ==
  <<9, 8, 7, 6, 5, 4, 3, 2, 1, 0, 1, 2, 8, 0, 64 + words, 0, 0, 60, 1, 2,
    flags, 0, 64, protocol, 0, 0, 172, 16, 0, 9, 8, 8, 4, 4>>
    \o [i \in 1 .. 4 * (words - 5) |-> 1] \o rest

(* A UDP datagram behind a longer IP header, a fragment from the middle of *)
(* one, a TCP segment that ends before its ports, a protocol that has no   *)
(* ports, an ARP frame and an IP frame without anything behind, and not    *)
(* even an Ethernet header.                                                *)
MCForeign ==
  {MCFrame(6, 64, 17, <<18, 52, 86, 120, 0, 12, 0, 0>>),
   MCFrame(5, 32 + 1, 17, <<1, 2, 3, 4>>),
   MCFrame(5, 64, 6, <<>>),
   MCFrame(5, 64, 2, <<17, 0, 0, 0>>),
   SubSeq(MCFrame(5, 0, 0, <<>>), 1, 12) \o <<8, 6>>,
   SubSeq(MCFrame(5, 0, 0, <<>>), 1, 14),
   <<255, 255, 255, 255, 255, 255>>}

=============================================================================
