---------------------------- MODULE MCNetworking ----------------------------
(* An instance of Networking for TLC.                                      *)
EXTENDS Networking

CONSTANTS socket, lookup, libc, nobody, elsewhere, noFile

(* The calls of TestAll in their order; any of them may be commented out.  *)
MCCalls == <<"Test", "GetInterfaceInfo_WiFi", "TrySendPacket", "SendICMP_PING",
             "DumpWiFiTraffic", "SniffNetworkPackets", "SendOGMMessage">>

MCAgendas == {SelectSeq(MCCalls, LAMBDA f : f \in S) : S \in SUBSET Function}

MCFd == 0 .. 2

(* IP, the OGM that SendOGMMessage sends, and the protocol whose number    *)
(* InspectPacket has.                                                      *)
MCOnTheAir == {2048, ETH_P_BATMAN, batmanProtocolId}
=============================================================================
