------------------------------ MODULE LibPcap ------------------------------
(***************************************************************************)
(* LibPcapExperiments.cpp: four functions that LibPcapExperiments::TestAll *)
(* runs or has commented out.  They ask libpcap for devices and for their  *)
(* networks, any question may go unanswered, and the answers are kept in   *)
(* variables that are uninitialised at first and reused from device to     *)
(* device.  What my_packet_handler prints of a packet is in Packets.       *)
(***************************************************************************)
EXTENDS PacketHeaders

CONSTANTS
  Agendas,  \* the lists of calls that TestAll may be compiled to
  Lists,    \* the lists of devices that libpcap may find
  Address   \* the addresses and masks there are, as 32-bit numbers

Function == {"ListDevices", "GetDeviceInfo", "CapturePackets", "pcap_lookupdev_TEST"}

None == "none"

ASSUME LibPcapAssumption ==
  /\ Agendas \subseteq Seq(Function)
  /\ Lists \subseteq Seq(STRING)
  /\ Address # {} /\ Address \subseteq [1 .. 4 -> Byte]

VARIABLES
  process,  \* "running" or "ended"
  agenda,   \* the calls that TestAll still has before it
  fn,       \* the function that TestAll is in
  stage,    \* where it is
  found,    \* history: the list that pcap_findalldevs gave
  device,   \* the rest of it from the current device on
  net,      \* srcIp and netmask, or ip_raw and subnet_mask_raw
  static_,  \* the buffer that inet_ntoa() returns a pointer to
  texts,    \* the arrays ip and subnet_mask
  names,    \* history: the names that the function has printed
  told,     \* history: what pcap_lookupnet last said, and about which device
  shown     \* history: the network that the last step printed

pcapVars == <<process, agenda, fn, stage, found, device, net, static_, texts,
              names, told, shown>>

Net == [ip : Address, mask : Address]

Empty == <<>>

NoNet == [ip |-> Empty, mask |-> Empty]

NoAnswer == [name |-> None, answered |-> FALSE, net |-> NoNet]

NothingShown == [name |-> None, ip |-> Empty, mask |-> Empty]

-----------------------------------------------------------------------------
(* Control                                                                 *)

At(f, s) == process = "running" /\ fn = f /\ stage = s

Start == [ListDevices |-> "find", GetDeviceInfo |-> "find",
          CapturePackets |-> "open", pcap_lookupdev_TEST |-> "find"]

Begin ==
  /\ process = "running" /\ fn = None /\ agenda # <<>>
  /\ fn' = Head(agenda)
  /\ agenda' = Tail(agenda)
  /\ stage' = Start[fn']
  /\ net' \in Net
  /\ texts' = NoNet
  /\ found' = <<>> /\ device' = <<>> /\ names' = <<>>
  /\ told' = NoAnswer /\ shown' = NothingShown
  /\ UNCHANGED <<process, static_>>

(* Neither the list of devices nor the capture handle is given back.       *)
Return ==
  /\ process = "running" /\ stage = "return"
  /\ fn' = None /\ stage' = None
  /\ shown' = NothingShown
  /\ UNCHANGED <<process, agenda, found, device, net, static_, texts, names, told>>

Exit ==
  /\ process = "running" /\ fn = None /\ agenda = <<>>
  /\ process' = "ended"
  /\ UNCHANGED <<agenda, fn, stage, found, device, net, static_, texts, names,
                 told, shown>>

-----------------------------------------------------------------------------
(* ListDevices and GetDeviceInfo                                           *)

FindAllDevs ==
  /\ At("ListDevices", "find") \/ At("GetDeviceInfo", "find")
  /\ \/ /\ found' \in Lists /\ device' = found'
        /\ stage' = "loop"
     \/ stage' = "return" /\ UNCHANGED <<found, device>>
  /\ UNCHANGED <<process, agenda, fn, net, static_, texts, names, told, shown>>

(* As if the loop ran while device->next is not null.                      *)
MoreAfterThis == Len(device) > 1

(* while (nullptr != device)                                               *)
MoreDevices == device # <<>>

LoopEnds ==
  /\ At("ListDevices", "loop") \/ At("GetDeviceInfo", "loop")
  /\ ~ MoreDevices
  /\ stage' = "return"
  /\ shown' = NothingShown
  /\ UNCHANGED <<process, agenda, fn, found, device, net, static_, texts, names, told>>

PrintName ==
  /\ MoreDevices
  /\ names' = Append(names, Head(device))
  /\ \/ At("ListDevices", "loop") /\ device' = Tail(device) /\ UNCHANGED stage
     \/ At("GetDeviceInfo", "loop") /\ stage' = "lookup" /\ UNCHANGED device
  /\ shown' = NothingShown
  /\ UNCHANGED <<process, agenda, fn, found, net, static_, texts, told>>

(* As if the message about the failure were not followed by a break.       *)
NoBreak == "print"

OnLookupFailure == "return"

(* pcap_lookupnet, in GetDeviceInfo and pcap_lookupdev_TEST.               *)
LookupNet ==
  /\ At("GetDeviceInfo", "lookup") \/ At("pcap_lookupdev_TEST", "lookup")
  /\ \/ /\ net' \in Net
        /\ told' = [name |-> Head(device), answered |-> TRUE, net |-> net']
        /\ stage' = IF fn = "GetDeviceInfo" THEN "print" ELSE "formatIp"
     \/ /\ stage' = OnLookupFailure
        /\ told' = [name |-> Head(device), answered |-> FALSE, net |-> NoNet]
        /\ UNCHANGED net
  /\ UNCHANGED <<process, agenda, fn, found, device, static_, texts, names, shown>>

(* The numbers as they are, then device = device->next.                    *)
PrintNet ==
  /\ At("GetDeviceInfo", "print")
  /\ shown' = [name |-> Head(device), ip |-> net.ip, mask |-> net.mask]
  /\ device' = Tail(device)
  /\ stage' = "loop"
  /\ UNCHANGED <<process, agenda, fn, found, net, static_, texts, names, told>>

-----------------------------------------------------------------------------
(* pcap_lookupdev_TEST                                                     *)

(* pcap_lookupdev: the first device, if there is one.                      *)
LookupDev ==
  /\ At("pcap_lookupdev_TEST", "find")
  /\ \/ /\ \E list \in Lists : list # <<>> /\ found' = <<Head(list)>>
        /\ device' = found'
        /\ stage' = "lookup"
     \/ stage' = "return" /\ UNCHANGED <<found, device>>
  /\ UNCHANGED <<process, agenda, fn, net, static_, texts, names, told, shown>>

FormatIp ==
  /\ At("pcap_lookupdev_TEST", "formatIp")
  /\ static_' = inet_ntoa(net.ip)
  /\ texts' = [texts EXCEPT !.ip = static_']
  /\ stage' = "formatMask"
  /\ UNCHANGED <<process, agenda, fn, found, device, net, names, told, shown>>

FormatMask ==
  /\ At("pcap_lookupdev_TEST", "formatMask")
  /\ static_' = inet_ntoa(net.mask)
  /\ texts' = [texts EXCEPT !.mask = static_']
  /\ stage' = "print"
  /\ UNCHANGED <<process, agenda, fn, found, device, net, names, told, shown>>

(* As if the pointer that inet_ntoa() returned had been kept, not a copy.  *)
PointerKept == static_

IpText == texts.ip

PrintTexts ==
  /\ At("pcap_lookupdev_TEST", "print")
  /\ shown' = [name |-> Head(device), ip |-> IpText, mask |-> texts.mask]
  /\ stage' = "return"
  /\ UNCHANGED <<process, agenda, fn, found, device, net, static_, texts, names, told>>

-----------------------------------------------------------------------------
(* CapturePackets                                                          *)

OpenLive ==
  /\ At("CapturePackets", "open")
  /\ stage' \in {"capture", "return"}
  /\ UNCHANGED <<process, agenda, fn, found, device, net, static_, texts, names,
                 told, shown>>

(* As if CapturePackets opened the device again when its capture ended.    *)
OpenAgain == "open"

OnCaptureError == "return"

(* pcap_loop(handle, 0, ...) has no limit: it ends only by an error.       *)
CaptureEnds ==
  /\ At("CapturePackets", "capture")
  /\ stage' = OnCaptureError
  /\ UNCHANGED <<process, agenda, fn, found, device, net, static_, texts, names,
                 told, shown>>

-----------------------------------------------------------------------------

Init ==
  /\ process = "running" /\ agenda \in Agendas
  /\ fn = None /\ stage = None
  /\ found = <<>> /\ device = <<>> /\ names = <<>>
  /\ net = NoNet /\ static_ = Empty /\ texts = NoNet
  /\ told = NoAnswer /\ shown = NothingShown

(* What the process does by itself.                                        *)
Progress ==
  \/ Begin \/ Return \/ Exit \/ FindAllDevs \/ LoopEnds \/ PrintName \/ LookupNet
  \/ PrintNet \/ LookupDev \/ FormatIp \/ FormatMask \/ PrintTexts \/ OpenLive

Next == Progress \/ CaptureEnds

(* The process runs when it can; nobody promises that a capture fails.     *)
Spec == Init /\ [][Next]_pcapVars /\ WF_pcapVars(Progress)

-----------------------------------------------------------------------------

(* The network that a function prints for a device is the one that libpcap *)
(* gave for this device: never what the uninitialised variables hold, what *)
(* is left of the device before, nor a text that the second inet_ntoa()    *)
(* wrote over the first.                                                   *)
PrintsOwnNet ==
  shown # NothingShown =>
    /\ told.answered /\ told.name = shown.name
    /\ shown = IF fn = "GetDeviceInfo"
                 THEN [name |-> told.name, ip |-> told.net.ip, mask |-> told.net.mask]
                 ELSE [name |-> told.name, ip |-> inet_ntoa(told.net.ip),
                       mask |-> inet_ntoa(told.net.mask)]

(* The names come in the order of the list, and all of them do, unless     *)
(* there was a device whose network libpcap did not know.                  *)
NamesAllDevices ==
  /\ IsPrefix(names, found)
  /\ fn \in {"ListDevices", "GetDeviceInfo"} /\ stage = "return" =>
       \/ names = found
       \/ names # <<>> /\ told.name = Last(names) /\ ~ told.answered

(* Only a capture that does not fail keeps the program from ending.        *)
OnlyCaptureStays ==
  <>(process = "ended") \/ <>[](fn = "CapturePackets" /\ stage = "capture")

=============================================================================
