----------------------------- MODULE Networking -----------------------------
(***************************************************************************)
(* The functions of Networking.cpp that Networking::TestAll runs or has    *)
(* commented out: five senders and two sniffers on packet sockets, and the *)
(* lookup of an interface, ResolveInterfaceAddress, that comes first in    *)
(* each.  A function is its list of steps; how it goes on when one of them *)
(* fails differs from function to function.  Sockets are SocketScoped      *)
(* variables of the functions: socket_ here, and lookup_ in the lookup.    *)
(***************************************************************************)
EXTENDS Descriptors, Sequences

CONSTANTS
  Agendas,  \* the lists of calls that TestAll may be compiled to
  Socket,   \* the function's SocketScoped, as an owner of descriptors
  Lookup,   \* the SocketScoped of ResolveInterfaceAddress
  Repeats,  \* how often TrySendPacket sends, 10000000 in the code
  OnTheAir  \* the EtherTypes of the frames on the air, as GetType() reads them

None == "none"

Program ==
  [Test                  |-> <<"build", "socket", "resolve", "send">>,
   GetInterfaceInfo_WiFi |-> <<"resolve", "print">>,
   TrySendPacket         |-> <<"resolve", "build", "socket", "option", "send">>,
   SendICMP_PING         |-> <<"resolve", "build", "socket", "send">>,
   DumpWiFiTraffic       |-> <<"resolve", "socket", "receive">>,
   SniffNetworkPackets   |-> <<"root", "resolve", "socket", "receive">>,
   SendOGMMessage        |-> <<"resolve", "build", "socket", "option", "send">>]

Function == DOMAIN Program

Sniffers == {"DumpWiFiTraffic", "SniffNetworkPackets"}

(* As if no function looked at the result of the lookup.                   *)
OnFailureUnresolved(f, step) ==
  CASE step = "root" -> "exit"
    [] step = "resolve" -> "ignore"
    [] step = "socket" -> IF f \in Sniffers THEN "ignore" ELSE "return"
    [] step \in {"option", "send"} -> "return"

(* What a step that fails makes of its function.  "throw": the overload of *)
(* ResolveInterfaceAddress that throws, and nobody catches; "exit":        *)
(* std::exit, which destroys no local variable.                            *)
OnFailure(f, step) ==
  CASE step = "root" -> "exit"
    [] step = "resolve" -> IF f = "GetInterfaceInfo_WiFi" THEN "ignore"
                           ELSE IF f \in Sniffers THEN "return" ELSE "throw"
    [] step = "socket" -> IF f \in Sniffers THEN "ignore"
                          ELSE IF f = "SendOGMMessage" THEN "exit" ELSE "return"
    [] step = "option" -> IF f = "SendOGMMessage" THEN "exit" ELSE "return"
    [] step = "send" -> "return"

(* The EtherType of SendOGMMessage, as GetType() reads it, and the value   *)
(* that InspectPacket compares with.                                       *)
ETH_P_BATMAN == 17157
batmanProtocolId == 1347

(* What GetType() can return: an unsigned short.                           *)
EtherType == 0 .. 65535

(* Nothing was received.                                                   *)
Nothing == -1

ASSUME NetworkingAssumption ==
  /\ Agendas \subseteq Seq(Function)
  /\ {Socket, Lookup} \subseteq Holder /\ Socket # Lookup
  /\ Repeats \in Nat \ {0}
  /\ OnTheAir \subseteq EtherType

VARIABLES
  process,  \* "running", "dying" or "ended"
  agenda,   \* the calls that TestAll still has before it
  fn,       \* the function that TestAll is in
  todo,     \* the steps it still has before it
  sends,    \* how often the loop of TrySendPacket has sent
  socket_,  \* the handle of the function's SocketScoped
  lookup_,  \* the handle of the one in ResolveInterfaceAddress
  stage,    \* where ResolveInterfaceAddress is
  device,   \* what of the sockaddr_ll is filled in
  buffer,   \* the type of the frame in the receive buffer, if there was one
  len,      \* the len of recvfrom(), "unset" until a recvfrom() sets it
  line      \* history: what the last step received and said of it, or sent

netVars == <<process, agenda, fn, todo, sends, socket_, lookup_, stage, device,
             buffer, len, line>>
vars == <<owner, file, netVars>>

NothingPrinted ==
  [op |-> "none", type |-> Nothing, recognised |-> FALSE]

-----------------------------------------------------------------------------
(* Control                                                                 *)

Begin ==
  /\ process = "running" /\ fn = None /\ agenda # <<>>
  /\ fn' = Head(agenda)
  /\ agenda' = Tail(agenda)
  /\ todo' = Program[fn']
  /\ sends' = 0
  /\ device' = "unset"
  /\ buffer' = Nothing
  /\ len' = "unset"
  /\ line' = NothingPrinted
  /\ UNCHANGED <<owner, file, process, socket_, lookup_, stage>>

(* The step at the head of the list.                                       *)
At(step) == process = "running" /\ todo # <<>> /\ Head(todo) = step

Done == todo' = Tail(todo) /\ UNCHANGED process

Failed(step) ==
  LET way == OnFailure(fn, step)
  IN  /\ todo' = IF way = "ignore" THEN Tail(todo) ELSE <<>>
      /\ process' = IF way \in {"throw", "exit"} THEN "dying" ELSE process

(* As if an early return of the lookup left its socket open.               *)
UnwindsNever(step) == FALSE

(* Only an exception nobody catches destroys no local variable on its way. *)
Unwinds(step) == OnFailure(fn, step) # "throw"

(* As if SocketScoped had no destructor.                                   *)
ScopeEndForgotten(h) == UNCHANGED <<owner, file>>

(* The end of a function's scope destroys its socket.                      *)
ScopeEnd(h) == IF h = -1 THEN UNCHANGED <<owner, file>> ELSE KernelClose(h)

Return ==
  /\ process = "running" /\ fn # None /\ todo = <<>>
  /\ ScopeEnd(socket_)
  /\ socket_' = -1
  /\ fn' = None
  /\ line' = NothingPrinted
  /\ UNCHANGED <<process, agenda, todo, sends, lookup_, stage, device, buffer, len>>

(* The process ends: main returns, std::exit, or an uncaught exception.    *)
Exit ==
  /\ \/ process = "dying"
     \/ process = "running" /\ fn = None /\ agenda = <<>>
  /\ process' = "ended"
  /\ KernelExit
  /\ socket_' = -1 /\ lookup_' = -1
  /\ line' = NothingPrinted
  /\ UNCHANGED <<agenda, fn, todo, sends, stage, device, buffer, len>>

-----------------------------------------------------------------------------
(* ResolveInterfaceAddress                                                 *)

ResolveSocket ==
  /\ At("resolve") /\ stage = "start"
  /\ \/ /\ \E fd \in Fd : KernelOpen(Lookup, Elsewhere, fd) /\ lookup_' = fd
        /\ stage' = "address"
        /\ UNCHANGED <<process, todo>>
     \/ /\ Failed("resolve")
        /\ UNCHANGED <<owner, file, lookup_, stage>>
  /\ UNCHANGED device

(* SIOCGIFHWADDR; then device is cleared and gets the MAC address.         *)
ResolveAddress ==
  /\ At("resolve") /\ stage = "address"
  /\ \/ stage' = "index" /\ device' = "address"
     \/ stage' = "failed" /\ UNCHANGED device
  /\ UNCHANGED <<owner, file, process, todo, lookup_>>

(* if_nametoindex; its failure leaves the address in device.               *)
ResolveIndex ==
  /\ At("resolve") /\ stage = "index"
  /\ \/ stage' = "resolved" /\ device' = "resolved"
     \/ stage' = "failed" /\ UNCHANGED device
  /\ UNCHANGED <<owner, file, process, todo, lookup_>>

(* The lookup's socket is destroyed, but for an exception nobody catches.  *)
ResolveReturns ==
  /\ At("resolve") /\ stage \in {"resolved", "failed"}
  /\ IF stage = "resolved" THEN Done ELSE Failed("resolve")
  /\ IF stage = "resolved" \/ Unwinds("resolve")
       THEN ScopeEnd(lookup_) /\ lookup_' = -1
       ELSE UNCHANGED <<owner, file, lookup_>>
  /\ stage' = "start"
  /\ UNCHANGED device

Resolve ==
  /\ ResolveSocket \/ ResolveAddress \/ ResolveIndex \/ ResolveReturns
  /\ line' = NothingPrinted
  /\ UNCHANGED <<agenda, fn, sends, socket_, buffer, len>>

-----------------------------------------------------------------------------
(* The other steps of a function                                           *)

(* checkRunningUnderRoot, and setsockopt: PACKET_QDISC_BYPASS, or          *)
(* SO_BROADCAST in enableBroadcast.                                        *)
CheckOrOption ==
  /\ \E step \in {"root", "option"} : At(step) /\ (Done \/ Failed(step))
  /\ line' = NothingPrinted
  /\ UNCHANGED <<owner, file, agenda, fn, sends, socket_, lookup_, stage, device,
                 buffer, len>>

(* The headers are filled in, in memory; GetInterfaceInfo_WiFi prints the  *)
(* address whatever the lookup said.                                       *)
BuildOrPrint ==
  /\ At("build") \/ At("print")
  /\ Done
  /\ line' = NothingPrinted
  /\ UNCHANGED <<owner, file, agenda, fn, sends, socket_, lookup_, stage, device,
                 buffer, len>>

(* ::socket(PF_PACKET, ...).  createSocket returns its SocketScoped by     *)
(* value; the copy is elided, so that the function has the one object.     *)
OpenSocket ==
  /\ At("socket")
  /\ \/ /\ \E fd \in Fd : KernelOpen(Socket, Elsewhere, fd) /\ socket_' = fd
        /\ Done
     \/ /\ Failed("socket")
        /\ UNCHANGED <<owner, file, socket_>>
  /\ line' = NothingPrinted
  /\ UNCHANGED <<agenda, fn, sends, lookup_, stage, device, buffer, len>>

(* As if the loop ran to idx <= Repeats.                                   *)
LastSendLate == fn = "TrySendPacket" => sends = Repeats

(* sendto() once, and in the loop of TrySendPacket until idx is at its end. *)
LastSend == fn = "TrySendPacket" => sends + 1 = Repeats

Send ==
  /\ At("send")
  /\ \/ LastSend /\ Done /\ UNCHANGED sends
     \/ ~ LastSend /\ sends' = sends + 1 /\ UNCHANGED <<process, todo>>
     \/ Failed("send") /\ UNCHANGED sends
  /\ line' = [NothingPrinted EXCEPT !.op = "send"]
  /\ UNCHANGED <<owner, file, agenda, fn, socket_, lookup_, stage, device, buffer,
                 len>>

-----------------------------------------------------------------------------
(* The sniffers                                                            *)

(* Uninitialised memory may read as any type.                              *)
Reading(b) == IF b = Nothing THEN EtherType ELSE {b}

(* InspectPacket says "Got B.A.T.M.A.N packet".                            *)
Recognised(type) == type = batmanProtocolId

(* received is what recvfrom() returned, and b is what is in the buffer,   *)
(* which is all that InspectPacket looks at.  What PrintPacketInfo prints  *)
(* of it is the subject of Packets.                                        *)
Inspected(received, b) ==
  \E says \in {Recognised(type) : type \in Reading(b)} :
    line' = [op |-> fn, type |-> received,
             recognised |-> fn = "SniffNetworkPackets" /\ says]

(* One iteration of while (bytes >= 0): recvfrom, then the inspection.  It *)
(* takes its first len as it finds it; a small one cuts device off.        *)
Receive ==
  /\ At("receive") /\ IsOpen(socket_)
  /\ buffer' \in OnTheAir
  /\ Inspected(buffer', buffer')
  /\ device' \in IF len = "set" THEN {"sender"} ELSE {"sender", device}
  /\ len' = "set"
  /\ UNCHANGED <<owner, file, process, agenda, fn, todo, sends, socket_, lookup_,
                 stage>>

(* As if the loop went on after a recvfrom() that failed.                  *)
LoopGoesOn == UNCHANGED <<todo, process>>

LoopEnds == Done

(* The last one: the buffer is inspected although recvfrom() failed.  A    *)
(* negative len makes it fail when the frame is already in the buffer.     *)
ReceiveFails ==
  /\ At("receive")
  /\ \/ UNCHANGED buffer
     \/ IsOpen(socket_) /\ len = "unset" /\ buffer' \in OnTheAir
  /\ Inspected(Nothing, buffer')
  /\ LoopEnds
  /\ UNCHANGED <<owner, file, agenda, fn, sends, socket_, lookup_, stage, device,
                 len>>

(* recvfrom() on -1, after a socket() that failed: EBADF.                  *)
ReceiveRefused == ReceiveFails /\ ~ IsOpen(socket_)

-----------------------------------------------------------------------------

Others ==
  /\ \E fd \in Fd :
       \/ \E who \in Holder \ {Socket, Lookup} : KernelOpen(who, Elsewhere, fd)
       \/ owner[fd] \in Holder \ {Socket, Lookup} /\ KernelClose(fd)
  /\ process # "ended"
  /\ UNCHANGED netVars

Init ==
  /\ owner \in [Fd -> (Holder \ {Socket, Lookup}) \cup {Nobody}]
  /\ file = [fd \in Fd |-> IF owner[fd] = Nobody THEN NoFile ELSE Elsewhere]
  /\ process = "running" /\ agenda \in Agendas
  /\ fn = None /\ todo = <<>> /\ sends = 0
  /\ socket_ = -1 /\ lookup_ = -1 /\ stage = "start" /\ device = "unset"
  /\ buffer = Nothing /\ len = "unset"
  /\ line = NothingPrinted

(* What the process does without waiting for anybody.                      *)
Progress ==
  \/ Begin \/ Return \/ Exit \/ Resolve \/ CheckOrOption \/ BuildOrPrint
  \/ OpenSocket \/ Send \/ ReceiveRefused

Next == Progress \/ Receive \/ ReceiveFails \/ Others

(* The process runs when it can; frames and failures of recvfrom() on a    *)
(* good socket are promised by nobody.                                     *)
Spec == Init /\ [][Next]_vars /\ WF_vars(Progress)

-----------------------------------------------------------------------------

TypeOK ==
  /\ DescriptorsTypeOK
  /\ process \in {"running", "dying", "ended"}
  /\ agenda \in Seq(Function)
  /\ fn \in Function \cup {None}
  /\ todo \in Seq({"root", "resolve", "build", "print", "socket", "option",
                  "send", "receive"})
  /\ sends \in 0 .. Repeats - 1
  /\ {socket_, lookup_} \subseteq Fd \cup {-1}
  /\ stage \in {"start", "address", "index", "resolved", "failed"}
  /\ device \in {"unset", "address", "resolved", "sender"}
  /\ buffer \in OnTheAir \cup {Nothing}
  /\ len \in {"unset", "set"}

(* However a function fails, and in whatever order it opens its socket and *)
(* looks the interface up, what it sends goes out on a socket of its own   *)
(* that is open, to an interface it has found.                             *)
SendsOnOwnSocketToResolved ==
  line.op = "send" /\ process = "running" =>
    device = "resolved" /\ IsOpen(socket_) /\ owner[socket_] = Socket

Mine(who) == {fd \in Fd : owner[fd] = who}

(* While the program runs, no function leaves a socket behind for the next *)
(* one, and no lookup for the function it is in, whatever step failed;     *)
(* and only Test, which opens its socket first, ever holds two at once.    *)
NothingLeftOpen ==
  process = "running" =>
    /\ fn = None => Mine(Socket) = {}
    /\ ~ At("resolve") => Mine(Lookup) = {}
    /\ Mine(Socket) # {} /\ Mine(Lookup) # {} => fn = "Test"

(* Networking.cpp:424: the sniffer says "Got B.A.T.M.A.N packet" of the    *)
(* frames that are one, such as those of SendOGMMessage, and only when it  *)
(* has got one: not of another protocol's, and not when recvfrom() failed. *)
RecognisesBatman ==
  line.op = "SniffNetworkPackets"
    => (line.recognised <=> line.type = ETH_P_BATMAN)

(* The program ends, or a sniffer waits for frames on an open socket       *)
(* forever; no failure makes it hang or repeat anything without end.       *)
OnlySniffersStay ==
  \/ <>(process = "ended")
  \/ <>[](fn \in Sniffers /\ todo = <<"receive">> /\ IsOpen(socket_))

(* The socket of a function and the one of the lookup in it each are an    *)
(* object with one descriptor as DescriptorHolder has it: opened and       *)
(* closed once on every way through the functions, std::exit and uncaught  *)
(* exceptions included, where the kernel closes it.                        *)
Outer == INSTANCE DescriptorHolder WITH Me <- Socket, held <- {socket_} \ {-1}

SocketHoldsOneDescriptor == Outer!HolderSpec

Inner == INSTANCE DescriptorHolder WITH Me <- Lookup, held <- {lookup_} \ {-1}

LookupHoldsOneDescriptor == Inner!HolderSpec

=============================================================================
