-------------------------- MODULE NetworkingProofs --------------------------
(***************************************************************************)
(* Proofs about Networking, for any order of the calls in TestAll, any     *)
(* descriptor table, any number of sends and any frames.                   *)
(***************************************************************************)
EXTENDS Networking, TLAPS

USE DescriptorsAssumption, NetworkingAssumption

Step == {"root", "resolve", "build", "print", "socket", "option", "send", "receive"}

(* The steps that the function has behind it are the first of its program. *)
Passed(step) ==
  \E i \in 1 .. Len(Program[fn]) - Len(todo) : Program[fn][i] = step

TableInv ==
  /\ DescriptorsTypeOK
  /\ {socket_, lookup_} \subseteq Fd \cup {-1}
  /\ Mine(Socket) = {socket_} \ {-1}
  /\ Mine(Lookup) = {lookup_} \ {-1}

(* Where the function is in its program.                                   *)
PlaceInv ==
  /\ process \in {"running", "dying", "ended"}
  /\ agenda \in Seq(Function)
  /\ fn \in Function \cup {None}
  /\ todo \in Seq(Step)
  /\ fn = None \/ process # "running" => todo = <<>>
  /\ fn # None =>
       /\ Len(todo) <= Len(Program[fn])
       /\ \A i \in 1 .. Len(todo) :
            todo[i] = Program[fn][i + (Len(Program[fn]) - Len(todo))]

(* What the steps that are passed have left behind: a socket, and an       *)
(* address of the interface in device.                                     *)
BehindInv ==
  /\ fn = None => socket_ = -1
  /\ process = "running" => (lookup_ = -1 <=> stage = "start")
  /\ stage # "start" => process = "running" /\ At("resolve")
  /\ stage = "resolved" => device = "resolved"
  /\ todo # <<>> =>
       /\ ~ Passed("socket") => socket_ = -1
       /\ fn \notin Sniffers /\ Passed("socket") => socket_ # -1
       /\ fn \notin Sniffers \cup {"GetInterfaceInfo_WiFi"} /\ Passed("resolve")
            => device = "resolved"

(* The other variables.                                                    *)
DataInv ==
  /\ sends \in 0 .. Repeats - 1
  /\ stage \in {"start", "address", "index", "resolved", "failed"}
  /\ device \in {"unset", "address", "resolved", "sender"}
  /\ buffer \in OnTheAir \cup {Nothing}
  /\ len \in {"unset", "set"}

LineInv ==
  line.op = "send" /\ process = "running" => device = "resolved" /\ socket_ # -1

NetInv == TableInv /\ PlaceInv /\ BehindInv /\ DataInv /\ LineInv

-----------------------------------------------------------------------------
(* The programs                                                            *)

LEMMA Programs ==
  ASSUME NEW f \in Function
  PROVE  /\ Program[f] \in Seq(Step)
         /\ Len(Program[f]) \in Nat
         /\ \A i \in 1 .. Len(Program[f]) : Program[f][i] \in Step
<1>1. CASE f = "Test"
  BY <1>1 DEF Program, Step
<1>2. CASE f = "GetInterfaceInfo_WiFi"
  BY <1>2 DEF Program, Step
<1>3. CASE f = "TrySendPacket"
  BY <1>3 DEF Program, Step
<1>4. CASE f = "SendICMP_PING"
  BY <1>4 DEF Program, Step
<1>5. CASE f = "DumpWiFiTraffic"
  BY <1>5 DEF Program, Step
<1>6. CASE f = "SniffNetworkPackets"
  BY <1>6 DEF Program, Step
<1>7. CASE f = "SendOGMMessage"
  BY <1>7 DEF Program, Step
<1> QED
  BY <1>1, <1>2, <1>3, <1>4, <1>5, <1>6, <1>7 DEF Function, Program

(* Nothing is done twice; a sender sends behind its lookup and its socket; *)
(* receiving is the last step of all.                                      *)
LEMMA Order ==
  ASSUME NEW f \in Function, NEW k \in 1 .. Len(Program[f])
  PROVE  /\ \A i \in 1 .. Len(Program[f]) : Program[f][i] = Program[f][k] => i = k
         /\ Program[f][k] = "send" =>
              /\ f \notin Sniffers \cup {"GetInterfaceInfo_WiFi"}
              /\ k = Len(Program[f])
              /\ \E i \in 1 .. k - 1 : Program[f][i] = "resolve"
              /\ \E i \in 1 .. k - 1 : Program[f][i] = "socket"
         /\ Program[f][k] = "receive" => k = Len(Program[f]) /\ f \in Sniffers
<1> USE DEF Sniffers
<1>1. CASE f = "Test"
  BY <1>1 DEF Program
<1>2. CASE f = "GetInterfaceInfo_WiFi"
  BY <1>2 DEF Program
<1>3. CASE f = "TrySendPacket"
  BY <1>3 DEF Program
<1>4. CASE f = "SendICMP_PING"
  BY <1>4 DEF Program
<1>5. CASE f = "DumpWiFiTraffic"
  BY <1>5 DEF Program
<1>6. CASE f = "SniffNetworkPackets"
  BY <1>6 DEF Program
<1>7. CASE f = "SendOGMMessage"
  BY <1>7 DEF Program
<1> QED
  BY <1>1, <1>2, <1>3, <1>4, <1>5, <1>6, <1>7 DEF Function, Program

LEMMA TailOf ==
  ASSUME NEW S, NEW t \in Seq(S), t # <<>>
  PROVE  /\ Tail(t) \in Seq(S) /\ Len(t) \in Nat \ {0}
         /\ Head(t) = t[1] /\ Len(Tail(t)) = Len(t) - 1
         /\ \A i \in 1 .. Len(t) - 1 : Tail(t)[i] = t[i + 1]
  OBVIOUS

LEMMA NoneIsNoFunction == None \notin Function /\ "send" \notin Function /\ None # "send"
  BY DEF None, Function, Program

(* What is behind a function when step s is next.                          *)
LEMMA Here ==
  ASSUME PlaceInv, NEW s \in Step, At(s)
  PROVE  LET k == Len(Program[fn]) - Len(todo) + 1
         IN  /\ fn \in Function /\ fn # None /\ process = "running"
             /\ todo \in Seq(Step) /\ todo # <<>> /\ Len(todo) \in Nat \ {0}
             /\ Len(Program[fn]) \in Nat
             /\ k \in 1 .. Len(Program[fn]) /\ Program[fn][k] = s
             /\ ~ Passed(s)
             /\ s = "send" => /\ fn \notin Sniffers \cup {"GetInterfaceInfo_WiFi"}
                              /\ Passed("resolve") /\ Passed("socket")
                              /\ Len(todo) = 1
             /\ s = "receive" => fn \in Sniffers /\ Len(todo) = 1
<1> DEFINE n == Len(Program[fn])
           k == n - Len(todo) + 1
<1>1. /\ fn \in Function /\ fn # None /\ process = "running"
      /\ todo \in Seq(Step) /\ todo # <<>> /\ Head(todo) = s
  BY NoneIsNoFunction DEF At, PlaceInv
<1>2. n \in Nat /\ Len(todo) \in Nat \ {0} /\ Len(todo) <= n
  BY <1>1, Programs, TailOf DEF PlaceInv
<1>3. k \in 1 .. n /\ Program[fn][k] = s
  <2>1. 1 \in 1 .. Len(todo) /\ todo[1] = s
    BY <1>1, <1>2, TailOf
  <2>2. todo[1] = Program[fn][1 + (n - Len(todo))]
    BY <1>1, <2>1 DEF PlaceInv
  <2> QED
    BY <1>2, <2>1, <2>2
<1>4. n - Len(todo) = k - 1
  BY <1>2
<1>5. ~ Passed(s)
  BY <1>1, <1>3, <1>4, Order, SMTT(30) DEF Passed
<1>6. s = "send" => /\ fn \notin Sniffers \cup {"GetInterfaceInfo_WiFi"}
                    /\ Passed("resolve") /\ Passed("socket") /\ k = n
  BY <1>1, <1>3, <1>4, Order DEF Passed
<1>7. s = "receive" => fn \in Sniffers /\ k = n
  BY <1>1, <1>3, Order
<1> HIDE DEF n, k
<1>8. k = n => Len(todo) = 1
  <2>1. n \in Int /\ k \in Int /\ Len(todo) \in Int
    BY <1>2, <1>3
  <2> QED
    BY ONLY <1>4, <2>1
<1> QED
  BY <1>1, <1>2, <1>3, <1>5, <1>6, <1>7, <1>8 DEF k, n

(* The next step is done.                                                  *)
LEMMA StepDone ==
  ASSUME PlaceInv, NEW s \in Step, At(s), todo' = Tail(todo), fn' = fn,
         agenda' = agenda, process' = "running"
  PROVE  /\ PlaceInv' /\ fn \in Function
         /\ \A x \in Step : Passed(x)' <=> Passed(x) \/ x = s
         /\ Len(todo) = 1 => todo' = <<>>
<1> DEFINE n == Len(Program[fn])
           k == n - Len(todo) + 1
<1>1. /\ fn \in Function /\ fn # None
      /\ todo \in Seq(Step) /\ todo # <<>> /\ Len(todo) \in Nat \ {0}
      /\ n \in Nat /\ k \in 1 .. n /\ Program[fn][k] = s
  BY Here
<1>2. /\ todo' \in Seq(Step) /\ Len(todo') = Len(todo) - 1
      /\ \A i \in 1 .. Len(todo') : todo'[i] = todo[i + 1]
  BY <1>1, TailOf
<1>3. \A i \in 1 .. Len(todo') : todo'[i] = Program[fn][i + (n - Len(todo'))]
  <2> TAKE i \in 1 .. Len(todo')
  <2>1. i + 1 \in 1 .. Len(todo) /\ todo'[i] = todo[i + 1]
    BY <1>1, <1>2
  <2>2. todo[i + 1] = Program[fn][i + 1 + (n - Len(todo))]
    BY <1>1, <2>1 DEF PlaceInv
  <2>3. n \in Int /\ Len(todo) \in Int /\ Len(todo') = Len(todo) - 1 /\ i \in Int
    BY <1>1, <1>2
  <2> HIDE DEF n
  <2>4. i + 1 + (n - Len(todo)) = i + (n - Len(todo'))
    BY ONLY <2>3
  <2> QED
    BY <2>1, <2>2, <2>4
<1>4. PlaceInv'
  BY <1>1, <1>2, <1>3 DEF PlaceInv
<1>5. \A x \in Step : Passed(x)' <=> Passed(x) \/ x = s
  <2>1. n - Len(todo') = k /\ n - Len(todo) = k - 1
    BY <1>1, <1>2
  <2>2. \A i : i \in 1 .. k <=> i \in 1 .. k - 1 \/ i = k
    BY <1>1
  <2> QED
    BY <1>1, <2>1, <2>2 DEF Passed
<1> QED
  BY <1>1, <1>2, <1>4, <1>5

LEMMA StopHolds ==
  ASSUME PlaceInv, todo' = <<>>, fn' = fn, agenda' = agenda,
         process' \in {"running", "dying", "ended"}
  PROVE  PlaceInv'
<1>1. fn # None => Len(Program[fn]) \in Nat
  BY Programs DEF PlaceInv
<1>2. todo' \in Seq(Step) /\ Len(todo') = 0
  OBVIOUS
<1> QED
  BY <1>1, <1>2 DEF PlaceInv

(* A failure ends the function, but for the lookup that is only printed    *)
(* and for the socket of a sniffer.                                        *)
LEMMA FailedStep ==
  ASSUME PlaceInv, NEW s \in {"root", "resolve", "socket", "option", "send"}, At(s),
         Failed(s), fn' = fn, agenda' = agenda
  PROVE  /\ PlaceInv' /\ fn \in Function
         /\ process = "running" /\ process' \in {"running", "dying"}
         /\ todo' = <<>> \/ (todo' = Tail(todo) /\ process' = "running"
                             /\ \/ s = "resolve" /\ fn = "GetInterfaceInfo_WiFi"
                                \/ s = "socket" /\ fn \in Sniffers)
<1>1. fn \in Function /\ process = "running" /\ todo # <<>>
  BY DEF At, PlaceInv
<1>2. process' \in {"running", "dying"}
  BY <1>1 DEF Failed
<1>3. todo' = <<>> \/ (todo' = Tail(todo) /\ OnFailure(fn, s) = "ignore")
  BY DEF Failed
<1>4. OnFailure(fn, s) = "ignore"
        => /\ process' = "running"
           /\ \/ s = "resolve" /\ fn = "GetInterfaceInfo_WiFi"
              \/ s = "socket" /\ fn \in Sniffers
  BY <1>1 DEF OnFailure, Failed
<1>5. s \in Step
  BY DEF Step
<1>6. PlaceInv'
  BY <1>2, <1>3, <1>4, <1>5, StepDone, StopHolds
<1> QED
  BY <1>1, <1>2, <1>3, <1>4, <1>6

-----------------------------------------------------------------------------
(* The descriptor table                                                    *)

LEMMA OpenTable ==
  ASSUME DescriptorsTypeOK, NEW who \in Holder, NEW fd \in Fd,
         KernelOpen(who, Elsewhere, fd)
  PROVE  /\ DescriptorsTypeOK'
         /\ Mine(who)' = Mine(who) \cup {fd}
         /\ \A other \in Holder \ {who} : Mine(other)' = Mine(other)
<1>1. /\ owner[fd] = Nobody /\ owner'[fd] = who
      /\ \A other \in Fd \ {fd} : owner'[other] = owner[other]
      /\ DescriptorsTypeOK'
  BY DEF DescriptorsTypeOK, KernelOpen, LowestUnused, Unused, File
<1> QED
  BY <1>1 DEF Mine

LEMMA CloseTable ==
  ASSUME DescriptorsTypeOK, NEW who \in Holder, NEW fd \in Mine(who),
         KernelClose(fd)
  PROVE  /\ DescriptorsTypeOK'
         /\ Mine(who)' = Mine(who) \ {fd}
         /\ \A other \in Holder \ {who} : Mine(other)' = Mine(other)
<1>1. /\ fd \in Fd /\ owner[fd] = who /\ owner'[fd] = Nobody
      /\ \A other \in Fd \ {fd} : owner'[other] = owner[other]
      /\ DescriptorsTypeOK'
  BY DEF DescriptorsTypeOK, KernelClose, IsOpen, Unused, File, Mine
<1> QED
  BY <1>1 DEF Mine

OuterStep == [Outer!HolderNext]_(Outer!holderVars)
InnerStep == [Inner!HolderNext]_(Inner!holderVars)

(* What every action has to show of the table.                             *)
TableStep == TableInv' /\ OuterStep /\ InnerStep

LEMMA QuietTable ==
  ASSUME TableInv, UNCHANGED <<owner, file, socket_, lookup_>>
  PROVE  TableStep
BY DEF TableInv, DescriptorsTypeOK, Mine, TableStep, OuterStep, InnerStep,
       Outer!holderVars, Inner!holderVars

LEMMA OpenSocketTable ==
  ASSUME TableInv, socket_ = -1, NEW fd \in Fd, KernelOpen(Socket, Elsewhere, fd),
         socket_' = fd, lookup_' = lookup_
  PROVE  TableStep
<1>1. TableInv'
  <2>1. /\ DescriptorsTypeOK' /\ Mine(Socket)' = Mine(Socket) \cup {fd}
        /\ Mine(Lookup)' = Mine(Lookup)
    BY OpenTable DEF TableInv
  <2>2. {socket_} \ {-1} = {} /\ {socket_'} \ {-1} = {fd}
    OBVIOUS
  <2> QED
    BY <2>1, <2>2 DEF TableInv
<1>2. OuterStep
  <2>1. {socket_} \ {-1} = {} /\ {socket_'} \ {-1} = {fd}
    OBVIOUS
  <2>2. Outer!KernelOpen(Socket, Elsewhere, fd) /\ Elsewhere \in Outer!File
    BY DEF Outer!KernelOpen, Outer!LowestUnused, Outer!Unused, Outer!File, KernelOpen,
           LowestUnused, Unused
  <2>3. Outer!Acquire
    BY <2>1, <2>2 DEF Outer!Acquire
  <2> QED
    BY <2>3 DEF OuterStep, Outer!HolderNext
<1>3. InnerStep
  BY DEF InnerStep, Inner!HolderNext, Inner!Others, Inner!OthersOpen,
         Inner!KernelOpen, Inner!LowestUnused, Inner!Unused, KernelOpen,
         LowestUnused, Unused
<1> QED
  BY <1>1, <1>2, <1>3 DEF TableStep

LEMMA OpenLookupTable ==
  ASSUME TableInv, lookup_ = -1, NEW fd \in Fd, KernelOpen(Lookup, Elsewhere, fd),
         lookup_' = fd, socket_' = socket_
  PROVE  TableStep
<1>1. TableInv'
  <2>1. /\ DescriptorsTypeOK' /\ Mine(Lookup)' = Mine(Lookup) \cup {fd}
        /\ Mine(Socket)' = Mine(Socket)
    BY OpenTable DEF TableInv
  <2>2. {lookup_} \ {-1} = {} /\ {lookup_'} \ {-1} = {fd}
    OBVIOUS
  <2> QED
    BY <2>1, <2>2 DEF TableInv
<1>2. InnerStep
  <2>1. {lookup_} \ {-1} = {} /\ {lookup_'} \ {-1} = {fd}
    OBVIOUS
  <2>2. Inner!KernelOpen(Lookup, Elsewhere, fd) /\ Elsewhere \in Inner!File
    BY DEF Inner!KernelOpen, Inner!LowestUnused, Inner!Unused, Inner!File, KernelOpen,
           LowestUnused, Unused
  <2>3. Inner!Acquire
    BY <2>1, <2>2 DEF Inner!Acquire
  <2> QED
    BY <2>3 DEF InnerStep, Inner!HolderNext
<1>3. OuterStep
  BY DEF OuterStep, Outer!HolderNext, Outer!Others, Outer!OthersOpen,
         Outer!KernelOpen, Outer!LowestUnused, Outer!Unused, KernelOpen,
         LowestUnused, Unused
<1> QED
  BY <1>1, <1>2, <1>3 DEF TableStep

LEMMA EndSocketTable ==
  ASSUME TableInv, ScopeEnd(socket_), socket_' = -1, lookup_' = lookup_
  PROVE  TableStep
<1>1. CASE socket_ = -1
  BY <1>1, QuietTable DEF ScopeEnd
<1>2. CASE socket_ # -1
  <2>1. KernelClose(socket_) /\ socket_ \in Mine(Socket)
        /\ {socket_} \ {-1} = {socket_} /\ {socket_'} \ {-1} = {}
    BY <1>2 DEF ScopeEnd, TableInv
  <2>2. TableInv'
    BY <2>1, CloseTable DEF TableInv
  <2>3. OuterStep
    BY <2>1
       DEF OuterStep, Outer!HolderNext, Outer!Release, Outer!KernelClose,
           Outer!IsOpen, Outer!Unused, KernelClose, IsOpen, Unused
  <2>4. InnerStep
    BY <2>1
       DEF InnerStep, Inner!HolderNext, Inner!Others, Inner!OthersClose,
           Inner!KernelClose, Inner!IsOpen, Inner!Unused, KernelClose, IsOpen,
           Unused, Mine
  <2> QED
    BY <2>2, <2>3, <2>4 DEF TableStep
<1> QED
  BY <1>1, <1>2

LEMMA EndLookupTable ==
  ASSUME TableInv, ScopeEnd(lookup_), lookup_' = -1, socket_' = socket_
  PROVE  TableStep
<1>1. CASE lookup_ = -1
  BY <1>1, QuietTable DEF ScopeEnd
<1>2. CASE lookup_ # -1
  <2>1. KernelClose(lookup_) /\ lookup_ \in Mine(Lookup)
        /\ {lookup_} \ {-1} = {lookup_} /\ {lookup_'} \ {-1} = {}
    BY <1>2 DEF ScopeEnd, TableInv
  <2>2. TableInv'
    BY <2>1, CloseTable DEF TableInv
  <2>3. InnerStep
    BY <2>1
       DEF InnerStep, Inner!HolderNext, Inner!Release, Inner!KernelClose,
           Inner!IsOpen, Inner!Unused, KernelClose, IsOpen, Unused
  <2>4. OuterStep
    BY <2>1
       DEF OuterStep, Outer!HolderNext, Outer!Others, Outer!OthersClose,
           Outer!KernelClose, Outer!IsOpen, Outer!Unused, KernelClose, IsOpen,
           Unused, Mine
  <2> QED
    BY <2>2, <2>3, <2>4 DEF TableStep
<1> QED
  BY <1>1, <1>2

LEMMA ExitTable ==
  ASSUME TableInv, KernelExit, socket_' = -1, lookup_' = -1
  PROVE  TableStep
<1>1. TableInv'
  BY DEF KernelExit, TableInv, DescriptorsTypeOK, Mine
<1>2. OuterStep
  BY DEF OuterStep, Outer!HolderNext, Outer!Exit, Outer!KernelExit, KernelExit
<1>3. InnerStep
  BY DEF InnerStep, Inner!HolderNext, Inner!Exit, Inner!KernelExit, KernelExit
<1> QED
  BY <1>1, <1>2, <1>3 DEF TableStep

LEMMA OthersTable ==
  ASSUME TableInv, Others
  PROVE  TableStep
<1>1. UNCHANGED <<socket_, lookup_>>
  BY DEF Others, netVars
<1>2. PICK fd \in Fd :
        \/ \E who \in Holder \ {Socket, Lookup} : KernelOpen(who, Elsewhere, fd)
        \/ owner[fd] \in Holder \ {Socket, Lookup} /\ KernelClose(fd)
  BY DEF Others
<1>3. CASE \E who \in Holder \ {Socket, Lookup} : KernelOpen(who, Elsewhere, fd)
  <2>1. PICK who \in Holder \ {Socket, Lookup} : KernelOpen(who, Elsewhere, fd)
    BY <1>3
  <2>2. TableInv'
    BY <1>1, <2>1, OpenTable DEF TableInv
  <2>3. OuterStep
    BY <1>1, <2>1
       DEF OuterStep, Outer!HolderNext, Outer!Others, Outer!OthersOpen,
           Outer!KernelOpen, Outer!LowestUnused, Outer!Unused, KernelOpen,
           LowestUnused, Unused
  <2>4. InnerStep
    BY <1>1, <2>1
       DEF InnerStep, Inner!HolderNext, Inner!Others, Inner!OthersOpen,
           Inner!KernelOpen, Inner!LowestUnused, Inner!Unused, KernelOpen,
           LowestUnused, Unused
  <2> QED
    BY <2>2, <2>3, <2>4 DEF TableStep
<1>4. CASE owner[fd] \in Holder \ {Socket, Lookup} /\ KernelClose(fd)
  <2>1. fd \in Mine(owner[fd])
    BY DEF Mine
  <2>2. TableInv'
    BY <1>1, <1>4, <2>1, CloseTable DEF TableInv
  <2>3. OuterStep
    BY <1>1, <1>4
       DEF OuterStep, Outer!HolderNext, Outer!Others, Outer!OthersClose,
           Outer!KernelClose, Outer!IsOpen, Outer!Unused, KernelClose, IsOpen,
           Unused
  <2>4. InnerStep
    BY <1>1, <1>4
       DEF InnerStep, Inner!HolderNext, Inner!Others, Inner!OthersClose,
           Inner!KernelClose, Inner!IsOpen, Inner!Unused, KernelClose, IsOpen,
           Unused
  <2> QED
    BY <2>2, <2>3, <2>4 DEF TableStep
<1> QED
  BY <1>2, <1>3, <1>4

-----------------------------------------------------------------------------
(* The steps of a function                                                 *)

LEMMA NothingSaid == line' = NothingPrinted => LineInv'
  BY DEF LineInv, NothingPrinted

(* Outside of the lookup it has no socket.                                 *)
LEMMA OutsideLookup ==
  ASSUME BehindInv, process = "running", ~ At("resolve")
  PROVE  stage = "start" /\ lookup_ = -1
BY DEF BehindInv

LEMMA OneStepAtATime ==
  ASSUME NEW s, NEW x, At(s), At(x) PROVE s = x
BY DEF At

(* A step other than the lookup and the socket is done.                    *)
LEMMA DoneHolds ==
  ASSUME PlaceInv, BehindInv, NEW s \in Step \ {"resolve", "socket"}, At(s),
         Done, UNCHANGED <<agenda, fn, socket_, lookup_, stage, device>>
  PROVE  PlaceInv' /\ BehindInv'
<1>1. process = "running" /\ process' = "running" /\ todo # <<>> /\ todo' = Tail(todo)
  BY DEF At, Done
<1>2. /\ PlaceInv' /\ fn \in Function
      /\ \A x \in {"socket", "resolve"} : Passed(x)' <=> Passed(x)
  BY <1>1, StepDone DEF Step
<1>3. stage = "start" /\ lookup_ = -1
  BY <1>1, OutsideLookup, OneStepAtATime
<1> QED
  BY <1>1, <1>2, <1>3, NoneIsNoFunction DEF BehindInv

(* A function that is at its end, or that dies.                            *)
LEMMA StoppedHolds ==
  ASSUME PlaceInv, todo' = <<>>, fn' = fn, fn \in Function, agenda' = agenda,
         process' \in {"running", "dying"}, stage' = "start",
         process' = "running" => lookup_' = -1
  PROVE  PlaceInv' /\ BehindInv'
<1>1. PlaceInv'
  BY StopHolds
<1>2. BehindInv'
  BY NoneIsNoFunction DEF BehindInv
<1> QED
  BY <1>1, <1>2

(* A lookup that failed, and what is left of it.                           *)
LEMMA ResolveFailed ==
  ASSUME PlaceInv, BehindInv, At("resolve"), Failed("resolve"),
         UNCHANGED <<agenda, fn, socket_, device>>, stage' = "start",
         lookup_' = -1 \/ OnFailure(fn, "resolve") = "throw"
  PROVE  PlaceInv' /\ BehindInv'
<1>1. /\ PlaceInv' /\ fn \in Function /\ process' \in {"running", "dying"}
      /\ todo' = <<>> \/ (todo' = Tail(todo) /\ process' = "running"
                          /\ fn = "GetInterfaceInfo_WiFi")
  BY FailedStep
<1>2. process' = "running" => lookup_' = -1
  BY DEF Failed
<1>3. CASE todo' = <<>>
  BY <1>1, <1>2, <1>3, StoppedHolds
<1>4. CASE /\ todo' = Tail(todo) /\ process' = "running"
           /\ fn = "GetInterfaceInfo_WiFi"
  <2>1. todo # <<>> /\ (Passed("socket")' <=> Passed("socket"))
    BY <1>4, StepDone DEF Step, At
  <2> QED
    BY <1>1, <1>2, <1>4, <2>1, NoneIsNoFunction DEF BehindInv
<1> QED
  BY <1>1, <1>3, <1>4

LEMMA BeginHolds ==
  ASSUME NetInv, Begin PROVE NetInv' /\ TableStep
<1> USE DEF NetInv, Begin
<1>1. fn' \in Function /\ agenda' \in Seq(Function) /\ fn' # None
  BY TailOf, NoneIsNoFunction DEF PlaceInv
<1>2. todo' = Program[fn'] /\ todo' \in Seq(Step) /\ Len(todo') \in Nat
  BY <1>1, Programs
<1>3. PlaceInv'
  BY <1>1, <1>2 DEF PlaceInv
<1>4. \A x \in Step : ~ Passed(x)'
  BY <1>1, <1>2 DEF Passed
<1>5. /\ process = "running" /\ ~ At("resolve") /\ socket_ = -1
      /\ todo = <<>>
  BY DEF At, PlaceInv, BehindInv
<1>6. stage = "start" /\ lookup_ = -1
  BY <1>5, OutsideLookup
<1>7. BehindInv'
  BY <1>1, <1>4, <1>5, <1>6 DEF BehindInv, Step
<1>8. DataInv'
  BY DEF DataInv
<1>9. LineInv' /\ TableStep
  BY NothingSaid, QuietTable
<1> QED
  BY <1>3, <1>7, <1>8, <1>9 DEF TableStep

LEMMA ReturnHolds ==
  ASSUME NetInv, Return PROVE NetInv' /\ TableStep
<1> USE DEF NetInv, Return
<1>1. process = "running" /\ ~ At("resolve") /\ todo = <<>> /\ todo' = <<>>
  BY DEF At
<1>2. stage = "start" /\ lookup_ = -1
  BY <1>1, OutsideLookup
<1>3. PlaceInv' /\ BehindInv'
  BY <1>1, <1>2 DEF PlaceInv, BehindInv
<1>4. DataInv'
  BY DEF DataInv
<1>5. LineInv' /\ TableStep
  BY NothingSaid, EndSocketTable
<1> QED
  BY <1>3, <1>4, <1>5 DEF TableStep

LEMMA ExitHolds ==
  ASSUME NetInv, Exit PROVE NetInv' /\ TableStep
<1> USE DEF NetInv, Exit
<1>1. stage = "start"
  BY DEF At, PlaceInv, BehindInv
<1>2. todo' = <<>>
  BY DEF PlaceInv
<1>3. PlaceInv' /\ BehindInv'
  BY <1>1, <1>2 DEF PlaceInv, BehindInv
<1>4. DataInv'
  BY DEF DataInv
<1>5. LineInv' /\ TableStep
  BY NothingSaid, ExitTable
<1> QED
  BY <1>3, <1>4, <1>5 DEF TableStep

LEMMA ResolveSocketHolds ==
  ASSUME NetInv, ResolveSocket,
         line' = NothingPrinted, UNCHANGED <<agenda, fn, sends, socket_, buffer, len>>
  PROVE  NetInv' /\ TableStep
<1> USE DEF NetInv
<1>1. /\ At("resolve") /\ stage = "start" /\ process = "running" /\ todo # <<>>
      /\ device' = device /\ lookup_ = -1
  BY DEF ResolveSocket, At, BehindInv
<1>2. LineInv'
  BY NothingSaid
<1>3. CASE /\ \E fd \in Fd : KernelOpen(Lookup, Elsewhere, fd) /\ lookup_' = fd
           /\ stage' = "address"
           /\ UNCHANGED <<process, todo>>
  <2>1. lookup_' # -1 /\ TableStep
    BY <1>1, <1>3, OpenLookupTable
  <2>2. PlaceInv' /\ (\A x : Passed(x)' <=> Passed(x)) /\ At("resolve")'
    BY <1>1, <1>3 DEF PlaceInv, Passed, At
  <2>3. BehindInv'
    BY <1>1, <1>3, <2>1, <2>2 DEF BehindInv
  <2>4. DataInv'
    BY <1>1, <1>3 DEF DataInv
  <2> QED
    BY <1>2, <2>1, <2>2, <2>3, <2>4 DEF TableStep
<1>4. CASE Failed("resolve") /\ UNCHANGED <<owner, file, lookup_, stage>>
  <2>1. PlaceInv' /\ BehindInv'
    BY <1>1, <1>4, ResolveFailed
  <2>2. DataInv'
    BY <1>1, <1>4 DEF DataInv
  <2>3. TableStep
    BY <1>4, QuietTable
  <2> QED
    BY <1>2, <2>1, <2>2, <2>3 DEF TableStep
<1> QED
  BY <1>1, <1>3, <1>4 DEF ResolveSocket

LEMMA ResolveGoesOn ==
  ASSUME NetInv, ResolveAddress \/ ResolveIndex,
         line' = NothingPrinted, UNCHANGED <<agenda, fn, sends, socket_, buffer, len>>
  PROVE  NetInv' /\ TableStep
<1> USE DEF NetInv
<1>1. /\ At("resolve") /\ stage # "start" /\ stage' \in {"index", "resolved", "failed"}
      /\ UNCHANGED <<owner, file, process, todo, lookup_>>
      /\ device' \in {"address", "resolved", device}
      /\ stage' = "resolved" => device' = "resolved"
  BY DEF ResolveAddress, ResolveIndex
<1>2. PlaceInv' /\ (\A x : Passed(x)' <=> Passed(x)) /\ At("resolve")'
  BY <1>1 DEF PlaceInv, Passed, At
<1>3. ~ Passed("resolve")
  BY <1>1, Here DEF Step
<1>4. BehindInv'
  BY <1>1, <1>2, <1>3 DEF BehindInv
<1>5. DataInv'
  BY <1>1 DEF DataInv
<1>6. LineInv' /\ TableStep
  BY <1>1, NothingSaid, QuietTable
<1> QED
  BY <1>2, <1>4, <1>5, <1>6 DEF TableStep

LEMMA ResolveReturnsHolds ==
  ASSUME NetInv, ResolveReturns,
         line' = NothingPrinted, UNCHANGED <<agenda, fn, sends, socket_, buffer, len>>
  PROVE  NetInv' /\ TableStep
<1> USE DEF NetInv
<1>1. /\ At("resolve") /\ stage' = "start" /\ device' = device
      /\ process = "running" /\ todo # <<>>
      /\ stage \in {"resolved", "failed"}
  BY DEF ResolveReturns, At
<1>2. TableStep
  BY EndLookupTable, QuietTable DEF ResolveReturns
<1>3. DataInv' /\ LineInv'
  BY <1>1, NothingSaid DEF DataInv
<1>4. CASE stage = "resolved"
  <2>1. /\ todo' = Tail(todo) /\ process' = "running" /\ lookup_' = -1
        /\ device' = "resolved"
    BY <1>1, <1>4 DEF ResolveReturns, Done, BehindInv
  <2>2. /\ PlaceInv' /\ fn \in Function
        /\ Passed("socket")' <=> Passed("socket")
    BY <1>1, <2>1, StepDone DEF Step
  <2>3. BehindInv'
    BY <1>1, <2>1, <2>2, NoneIsNoFunction DEF BehindInv
  <2> QED
    BY <1>2, <1>3, <2>2, <2>3 DEF TableStep
<1>5. CASE stage = "failed"
  <2>1. Failed("resolve")
        /\ (lookup_' = -1 \/ OnFailure(fn, "resolve") = "throw")
    BY <1>5 DEF ResolveReturns, Unwinds
  <2>2. PlaceInv' /\ BehindInv'
    BY <1>1, <2>1, ResolveFailed
  <2> QED
    BY <1>2, <1>3, <2>2 DEF TableStep
<1> QED
  BY <1>1, <1>4, <1>5

LEMMA ResolveHolds ==
  ASSUME NetInv, Resolve PROVE NetInv' /\ TableStep
BY ResolveSocketHolds, ResolveGoesOn, ResolveReturnsHolds DEF Resolve

LEMMA CheckOrOptionHolds ==
  ASSUME NetInv, CheckOrOption PROVE NetInv' /\ TableStep
<1> USE DEF NetInv
<1>1. PICK s \in {"root", "option"} : At(s) /\ (Done \/ Failed(s))
  BY DEF CheckOrOption
<1>2. UNCHANGED <<owner, file, agenda, fn, sends, socket_, lookup_, stage, device,
                  buffer, len>> /\ line' = NothingPrinted
  BY DEF CheckOrOption
<1>3. stage = "start" /\ lookup_ = -1
  BY <1>1, OutsideLookup, OneStepAtATime DEF At
<1>4. PlaceInv' /\ BehindInv'
  <2>1. CASE Done
    BY <1>1, <1>2, <2>1, DoneHolds DEF Step
  <2>2. CASE Failed(s)
    <3>1. fn \in Function /\ todo' = <<>> /\ process' \in {"running", "dying"}
      BY <1>1, <1>2, <2>2, FailedStep
    <3> QED
      BY <1>2, <1>3, <3>1, StoppedHolds
  <2> QED
    BY <1>1, <2>1, <2>2
<1>5. DataInv'
  BY <1>2 DEF DataInv
<1>6. LineInv' /\ TableStep
  BY <1>2, NothingSaid, QuietTable
<1> QED
  BY <1>4, <1>5, <1>6 DEF TableStep

LEMMA BuildOrPrintHolds ==
  ASSUME NetInv, BuildOrPrint PROVE NetInv' /\ TableStep
<1> USE DEF NetInv
<1>1. PICK s \in {"build", "print"} : At(s)
  BY DEF BuildOrPrint
<1>2. UNCHANGED <<owner, file, agenda, fn, sends, socket_, lookup_, stage, device,
                  buffer, len>> /\ line' = NothingPrinted /\ Done
  BY DEF BuildOrPrint
<1>3. PlaceInv' /\ BehindInv'
  BY <1>1, <1>2, DoneHolds DEF Step
<1>4. DataInv'
  BY <1>2 DEF DataInv
<1>5. LineInv' /\ TableStep
  BY <1>2, NothingSaid, QuietTable
<1> QED
  BY <1>3, <1>4, <1>5 DEF TableStep

LEMMA OpenSocketHolds ==
  ASSUME NetInv, OpenSocket PROVE NetInv' /\ TableStep
<1> USE DEF NetInv
<1>1. /\ At("socket") /\ process = "running" /\ todo # <<>>
      /\ UNCHANGED <<agenda, fn, sends, lookup_, stage, device, buffer, len>>
      /\ line' = NothingPrinted
  BY DEF OpenSocket, At
<1>2. stage = "start" /\ lookup_ = -1
  BY <1>1, OutsideLookup, OneStepAtATime
<1>3. socket_ = -1
  BY <1>1, Here DEF BehindInv, Step
<1>4. DataInv' /\ LineInv'
  BY <1>1, NothingSaid DEF DataInv
<1>5. CASE (\E fd \in Fd : KernelOpen(Socket, Elsewhere, fd) /\ socket_' = fd) /\ Done
  <2>1. socket_' # -1 /\ TableStep
    BY <1>1, <1>3, <1>5, OpenSocketTable
  <2>2. todo' = Tail(todo) /\ process' = "running"
    BY <1>1, <1>5 DEF Done
  <2>3. /\ PlaceInv' /\ fn \in Function /\ Passed("socket")'
        /\ Passed("resolve")' <=> Passed("resolve")
    BY <1>1, <2>2, StepDone DEF Step
  <2>4. BehindInv'
    BY <1>1, <1>2, <2>1, <2>2, <2>3, NoneIsNoFunction DEF BehindInv
  <2> QED
    BY <1>4, <2>1, <2>3, <2>4 DEF TableStep
<1>6. CASE Failed("socket") /\ UNCHANGED <<owner, file, socket_>>
  <2>1. /\ PlaceInv' /\ fn \in Function /\ process' \in {"running", "dying"}
        /\ todo' = <<>> \/ (todo' = Tail(todo) /\ process' = "running"
                            /\ fn \in Sniffers)
    BY <1>1, <1>6, FailedStep
  <2>2. BehindInv'
    BY <1>1, <1>2, <1>3, <1>6, <2>1, NoneIsNoFunction DEF BehindInv
  <2>3. TableStep
    BY <1>1, <1>6, QuietTable
  <2> QED
    BY <1>4, <2>1, <2>2, <2>3 DEF TableStep
<1> QED
  BY <1>1, <1>5, <1>6 DEF OpenSocket

LEMMA SendHolds ==
  ASSUME NetInv, Send PROVE NetInv' /\ TableStep
<1> USE DEF NetInv
<1>1. /\ At("send") /\ process = "running" /\ todo # <<>>
      /\ UNCHANGED <<owner, file, agenda, fn, socket_, lookup_, stage, device,
                     buffer, len>>
      /\ line' = [NothingPrinted EXCEPT !.op = "send"]
  BY DEF Send, At
<1>2. stage = "start" /\ lookup_ = -1
  BY <1>1, OutsideLookup, OneStepAtATime
<1>3. /\ fn \in Function \ (Sniffers \cup {"GetInterfaceInfo_WiFi"})
      /\ Passed("resolve") /\ Passed("socket")
  BY <1>1, Here DEF Step
<1>4. device = "resolved" /\ socket_ # -1
  BY <1>1, <1>3 DEF BehindInv
<1>5. line'.op = "send"
  BY <1>1 DEF NothingPrinted
<1>6. LineInv'
  BY <1>1, <1>4, <1>5 DEF LineInv
<1>7. TableStep
  BY <1>1, QuietTable
<1>8. CASE LastSend /\ Done /\ UNCHANGED sends
  <2>1. PlaceInv' /\ BehindInv'
    BY <1>1, <1>8, DoneHolds DEF Step
  <2>2. DataInv'
    BY <1>1, <1>8 DEF DataInv
  <2> QED
    BY <1>6, <1>7, <2>1, <2>2 DEF TableStep
<1>9. CASE ~ LastSend /\ sends' = sends + 1 /\ UNCHANGED <<process, todo>>
  <2>1. PlaceInv' /\ BehindInv'
    BY <1>1, <1>9 DEF PlaceInv, BehindInv, Passed, At
  <2>2. sends' \in 0 .. Repeats - 1
    BY <1>9 DEF LastSend, DataInv
  <2>3. DataInv'
    BY <1>1, <2>2 DEF DataInv
  <2> QED
    BY <1>6, <1>7, <2>1, <2>3 DEF TableStep
<1>10. CASE Failed("send") /\ UNCHANGED sends
  <2>1. /\ todo' = <<>> /\ process' \in {"running", "dying"}
    BY <1>1, <1>10, FailedStep
  <2>2. PlaceInv' /\ BehindInv'
    BY <1>1, <1>2, <1>3, <2>1, StoppedHolds
  <2>3. DataInv'
    BY <1>1, <1>10 DEF DataInv
  <2> QED
    BY <1>6, <1>7, <2>2, <2>3 DEF TableStep
<1> QED
  BY <1>8, <1>9, <1>10 DEF Send

(* What is said of a frame is not said of a packet that is sent.           *)
LEMMA InspectedSays ==
  ASSUME NEW received, NEW b, Inspected(received, b), fn \in Sniffers
  PROVE  LineInv'
<1>1. line'.op = fn
  BY DEF Inspected
<1>2. line'.op # "send"
  BY <1>1 DEF Sniffers
<1> QED
  BY <1>2 DEF LineInv

LEMMA ReceiveHolds ==
  ASSUME NetInv, Receive PROVE NetInv' /\ TableStep
<1> USE DEF NetInv
<1>1. buffer' \in OnTheAir /\ Inspected(buffer', buffer')
  BY DEF Receive
<1>2. /\ At("receive") /\ device' \in {"sender", device} /\ len' = "set"
      /\ UNCHANGED <<owner, file, process, agenda, fn, todo, sends, socket_,
                     lookup_, stage>>
  BY DEF Receive
<1>3. fn \in Sniffers /\ stage = "start"
  BY <1>2, Here, OutsideLookup, OneStepAtATime DEF Step, At
<1>4. PlaceInv' /\ BehindInv'
  BY <1>2, <1>3 DEF PlaceInv, BehindInv, Passed, At
<1>5. DataInv'
  BY <1>1, <1>2 DEF DataInv
<1>6. LineInv'
  BY <1>1, <1>3, InspectedSays
<1>7. TableStep
  BY <1>2, QuietTable
<1> QED
  BY <1>4, <1>5, <1>6, <1>7 DEF TableStep

LEMMA ReceiveFailsHolds ==
  ASSUME NetInv, ReceiveFails PROVE NetInv' /\ TableStep
<1> USE DEF NetInv
<1>1. /\ At("receive") /\ Done /\ Inspected(Nothing, buffer')
      /\ UNCHANGED <<owner, file, agenda, fn, sends, socket_, lookup_, stage,
                     device, len>>
  BY DEF ReceiveFails, LoopEnds
<1>2. fn \in Sniffers /\ todo' = <<>>
  <2>1. todo' = Tail(todo) /\ process' = "running"
    BY <1>1 DEF Done, At
  <2> QED
    BY <1>1, <2>1, Here, StepDone DEF Step
<1>3. PlaceInv' /\ BehindInv'
  BY <1>1, DoneHolds DEF Step
<1>4. buffer' \in OnTheAir \cup {Nothing}
  BY DEF ReceiveFails, DataInv
<1>5. DataInv'
  BY <1>1, <1>4 DEF DataInv
<1>6. LineInv'
  BY <1>1, <1>2, InspectedSays
<1>7. TableStep
  BY <1>1, QuietTable
<1> QED
  BY <1>3, <1>5, <1>6, <1>7 DEF TableStep

LEMMA OthersHolds ==
  ASSUME NetInv, Others PROVE NetInv' /\ TableStep
<1> USE DEF NetInv
<1>1. UNCHANGED netVars
  BY DEF Others
<1>2. PlaceInv' /\ BehindInv' /\ DataInv' /\ LineInv'
  BY <1>1
     DEF netVars, PlaceInv, BehindInv, Passed, At, DataInv, LineInv
<1> QED
  BY <1>2, OthersTable DEF TableStep

LEMMA StutterHolds ==
  ASSUME NetInv, UNCHANGED vars PROVE NetInv' /\ TableStep
<1> USE DEF NetInv
<1>1. UNCHANGED netVars /\ UNCHANGED <<owner, file, socket_, lookup_>>
  BY DEF vars, netVars
<1>2. PlaceInv' /\ BehindInv' /\ DataInv' /\ LineInv'
  BY <1>1
     DEF netVars, PlaceInv, BehindInv, Passed, At, DataInv, LineInv
<1> QED
  BY <1>1, <1>2, QuietTable DEF TableStep

-----------------------------------------------------------------------------
(* The theorems                                                            *)

LEMMA InitHolds ==
  Init => NetInv /\ Outer!HolderInit /\ Inner!HolderInit
<1> SUFFICES ASSUME Init PROVE NetInv /\ Outer!HolderInit /\ Inner!HolderInit
  OBVIOUS
<1> USE DEF Init
<1>1. {socket_} \ {-1} = {} /\ {lookup_} \ {-1} = {}
  OBVIOUS
<1>2. TableInv
  BY <1>1 DEF TableInv, DescriptorsTypeOK, Mine, File
<1>3. PlaceInv
  BY DEF PlaceInv
<1>4. BehindInv /\ DataInv
  BY DEF BehindInv, DataInv, At
<1>5. LineInv
  BY DEF LineInv, NothingPrinted
<1>6. Outer!HolderInit /\ Inner!HolderInit
  BY <1>1 DEF Outer!HolderInit, Outer!DescriptorsInit, Inner!HolderInit,
              Inner!DescriptorsInit
<1> QED
  BY <1>2, <1>3, <1>4, <1>5, <1>6 DEF NetInv

LEMMA StepHolds ==
  NetInv /\ [Next]_vars => NetInv' /\ OuterStep /\ InnerStep
<1> SUFFICES ASSUME NetInv, [Next]_vars PROVE NetInv' /\ TableStep
  BY DEF TableStep
<1>1. CASE Begin
  BY <1>1, BeginHolds
<1>2. CASE Return
  BY <1>2, ReturnHolds
<1>3. CASE Exit
  BY <1>3, ExitHolds
<1>4. CASE Resolve
  BY <1>4, ResolveHolds
<1>5. CASE CheckOrOption
  BY <1>5, CheckOrOptionHolds
<1>6. CASE BuildOrPrint
  BY <1>6, BuildOrPrintHolds
<1>7. CASE OpenSocket
  BY <1>7, OpenSocketHolds
<1>8. CASE Send
  BY <1>8, SendHolds
<1>9. CASE Receive
  BY <1>9, ReceiveHolds
<1>10. CASE ReceiveFails \/ ReceiveRefused
  BY <1>10, ReceiveFailsHolds DEF ReceiveRefused
<1>11. CASE Others
  BY <1>11, OthersHolds
<1>12. CASE UNCHANGED vars
  BY <1>12, StutterHolds
<1> QED
  BY <1>1, <1>2, <1>3, <1>4, <1>5, <1>6, <1>7, <1>8, <1>9, <1>10, <1>11, <1>12
     DEF Next, Progress

LEMMA InvHolds == Spec => []NetInv
  BY InitHolds, StepHolds, PTL DEF Spec

(* Every variable keeps its type: the table stays consistent, the handles  *)
(* are descriptors or -1, and the loop counter of TrySendPacket stays in   *)
(* its range.                                                              *)
THEOREM TypeCorrect == Spec => []TypeOK
<1>1. NetInv => TypeOK
  BY DEF NetInv, TableInv, PlaceInv, DataInv, TypeOK, Step
<1> QED
  BY <1>1, InvHolds, PTL

(* A function that sends has got past its lookup and its socket, whichever *)
(* of them it does first: it sends on an open socket of its own, to an     *)
(* interface that was found.                                               *)
THEOREM SendsToResolved == Spec => []SendsOnOwnSocketToResolved
<1>1. NetInv => SendsOnOwnSocketToResolved
  <2> SUFFICES ASSUME NetInv, line.op = "send", process = "running"
               PROVE  device = "resolved" /\ IsOpen(socket_)
                      /\ owner[socket_] = Socket
    BY DEF SendsOnOwnSocketToResolved
  <2>1. device = "resolved" /\ socket_ # -1
    BY DEF NetInv, LineInv
  <2>2. socket_ \in Mine(Socket)
    BY <2>1 DEF NetInv, TableInv
  <2> QED
    BY <2>1, <2>2 DEF Mine, IsOpen, Unused
<1> QED
  BY <1>1, InvHolds, PTL

(* Only one program has its socket when it looks the interface up.         *)
LEMMA SocketBeforeLookup ==
  ASSUME NEW f \in Function, NEW k \in 1 .. Len(Program[f]),
         NEW i \in 1 .. k - 1, Program[f][k] = "resolve", Program[f][i] = "socket"
  PROVE  f = "Test"
<1>1. CASE f = "Test"
  BY <1>1
<1>2. CASE f = "GetInterfaceInfo_WiFi"
  BY <1>2 DEF Program
<1>3. CASE f = "TrySendPacket"
  BY <1>3 DEF Program
<1>4. CASE f = "SendICMP_PING"
  BY <1>4 DEF Program
<1>5. CASE f = "DumpWiFiTraffic"
  BY <1>5 DEF Program
<1>6. CASE f = "SniffNetworkPackets"
  BY <1>6 DEF Program
<1>7. CASE f = "SendOGMMessage"
  BY <1>7 DEF Program
<1> QED
  BY <1>1, <1>2, <1>3, <1>4, <1>5, <1>6, <1>7 DEF Function, Program

(* Whichever step fails, the functions of Networking.cpp give their sockets *)
(* back: while the program runs none is open between two calls of TestAll, *)
(* the lookup's is open in the lookup only, and no function but Test has   *)
(* two of them.                                                            *)
THEOREM FunctionsLeaveNothingOpen == Spec => []NothingLeftOpen
<1>1. NetInv => NothingLeftOpen
  <2> SUFFICES ASSUME NetInv, process = "running" PROVE NothingLeftOpen
    BY DEF NothingLeftOpen
  <2>1. fn = None => Mine(Socket) = {}
    BY DEF NetInv, TableInv, BehindInv
  <2>2. ~ At("resolve") => Mine(Lookup) = {}
    <3>1. ~ At("resolve") => lookup_ = -1
      BY OutsideLookup DEF NetInv
    <3> QED
      BY <3>1 DEF NetInv, TableInv
  <2>3. ASSUME Mine(Socket) # {}, Mine(Lookup) # {} PROVE fn = "Test"
    <3> DEFINE k == Len(Program[fn]) - Len(todo) + 1
    <3>1. At("resolve") /\ socket_ # -1
      BY <2>2, <2>3 DEF NetInv, TableInv
    <3>2. /\ fn \in Function /\ todo # <<>> /\ Len(todo) \in Nat
          /\ Len(Program[fn]) \in Nat
          /\ k \in 1 .. Len(Program[fn]) /\ Program[fn][k] = "resolve"
      BY <3>1, Here DEF NetInv, Step
    <3>3. Passed("socket")
      BY <3>1, <3>2 DEF NetInv, BehindInv
    <3>4. Len(Program[fn]) - Len(todo) = k - 1
      BY <3>2
    <3>5. PICK i \in 1 .. k - 1 : Program[fn][i] = "socket"
      BY <3>3, <3>4 DEF Passed
    <3> HIDE DEF k
    <3> QED
      BY <3>2, <3>5, SocketBeforeLookup
  <2> QED
    BY <2>1, <2>2, <2>3 DEF NothingLeftOpen
<1> QED
  BY <1>1, InvHolds, PTL

(* The SocketScoped of every function implements DescriptorHolder.         *)
THEOREM FunctionsHoldOneSocket == Spec => SocketHoldsOneDescriptor
  BY InitHolds, StepHolds, PTL
     DEF Spec, SocketHoldsOneDescriptor, Outer!HolderSpec, OuterStep

(* So does the one of the lookup, the throw that nobody catches included.  *)
THEOREM LookupHoldsOneSocket == Spec => LookupHoldsOneDescriptor
  BY InitHolds, StepHolds, PTL
     DEF Spec, LookupHoldsOneDescriptor, Inner!HolderSpec, InnerStep
=============================================================================
