----------------------------- MODULE MCLibPcap -----------------------------
(* An instance of LibPcap for TLC.                                         *)
EXTENDS LibPcap

(* The calls of TestAll in their order; any of them may be commented out.  *)
MCCalls == <<"ListDevices", "GetDeviceInfo", "CapturePackets",
             "pcap_lookupdev_TEST">>

MCAgendas == {SelectSeq(MCCalls, LAMBDA f : f \in S) : S \in SUBSET Function}

(* No device at all, one, and the usual ones.                              *)
MCLists == {<<>>, <<"wlp4s0">>, <<"wlp4s0", "any", "lo">>}

(* A network, its mask, and the zeros of a device that has no address.     *)
MCAddress == {<<0, 1, 168, 192>>, <<0, 255, 255, 255>>, <<0, 0, 0, 0>>}
=============================================================================
