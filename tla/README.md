# A verification of SSRC_TII_Experiments

TLA+ specifications of the C++ experiments in `src/`: the serial port class and
the session that `main` runs, the socket wrapper, the Internet checksum, the packet
headers, the functions that send and sniff packets on raw sockets, and the calls of
libpcap.  TLC checks them on small
instances; TLAPS proves every invariant, action property and refinement that TLC
checks, for every instance.

`PROJECT.json` holds the same information for tools: components, runs, mutants,
the map from definitions to source lines, findings, hazards and theorems.

## The system

The program is single-threaded.  `main` (`src/main.cpp`) calls
`LinuxSerial::TestAll`; calls of the other `TestAll` functions are there,
commented out.  What makes it hard is not threads but the following: every system
call may fail, the ways on from a failure differ (exception, return, `std::exit`,
nothing at all), descriptor numbers are reused by the whole process, objects may
be called in any order, and the devices and peers at the other end do what they
like.

| Component | State | Operations | Hard about it |
|---|---|---|---|
| `SerialPort` (`src/Serial/SerialPort.*`) | `state_`, `device_`, `fileDesc_`, the settings; the `termios2` of the line, which the kernel keeps | 5 constructors, destructor, `Set*`, `Open`, `Close`, `Write*`, `Read*`, `Available` | `fileDesc_` is never initialised; `Open` throws half way; `Close` throws before it forgets the number; setters store before they configure; the object and the line are two copies of one setting |
| `LinuxSerial` (`src/Serial/LinuxSerial.cpp`, `src/main.cpp`) | where `Test1` is | construct, `SetTimeout(-1)`, `Open`, `Write`, `Read`, `Read`, `Close`, destroy | reads without a timeout, an `open()` that may wait for carrier; hang-ups; exceptions that nobody catches |
| `Utilities::SocketScoped` (`src/Networking/Utils`) | `handle` | construct, two assignments, implicit copy, destroy | sharing a number and closing it twice |
| `Utilities::Checksum` and its callers | the words of a packet | sum, fold, complement; clear and store the field | carries, odd length, byte order |
| Senders (`src/Networking/Networking.cpp`): `Test`, `TrySendPacket`, `SendICMP_PING`, `SendOGMMessage`; `GetInterfaceInfo_WiFi`; `ResolveInterfaceAddress` | two sockets, `device` | resolve, build, open, set an option, send | each function treats failures in its own way; scopes that `std::exit` and uncaught exceptions leave |
| Sniffers: `DumpWiFiTraffic`, `SniffNetworkPackets` | a socket and a receive buffer that is reused | receive, inspect | the buffer is inspected whatever `recvfrom` said; frames shorter than the headers that are printed |
| Packet headers (`src/Networking/Headers`) and `IpToStr` | fields, with the widths of their bit-fields | setters, getters, `initEthernetHeader`, `initIPv4Header`, `initTCPHeader`, `CalcChecksum` | byte order on one side only; four bits for a length; memory that nobody cleared; what the checksum covers, and when |
| `LibPcapExperiments` (`src/LibPcap`) | a list of devices, a network and a mask, uninitialised at first | `ListDevices`, `GetDeviceInfo`, `CapturePackets`, `pcap_lookupdev_TEST` | answers that do not come, variables that outlive an iteration, the static buffer of `inet_ntoa`, a capture without an end |
| `LibSerial`, `ContikiDCube`, `WiFiScanner`, `config.h` | none | demonstrations | nothing |

Interaction: everything that opens a descriptor (`SerialPort::Open`, `socket()` in
the functions and in `ResolveInterfaceAddress`, the rest of the process) shares the
descriptor table, and POSIX hands out the lowest free number, so that a number
that one part gave back soon belongs to another.  `SerialPort` shares the line's
settings with the kernel and with earlier users of the line.  The functions of
`Networking.cpp` call `ResolveInterfaceAddress`, `Checksum` and `SocketScoped`.

What must be right: an object uses and closes only descriptors of its own, once,
and loses none; an open line behaves as the object says; the session and the
programs come to an end; the checksum is the Internet checksum; what is sent goes
to a resolved interface on an open socket, and says in every field what the caller
asked for; what is printed is what was received.

## The modules

| Module | Models | How |
|---|---|---|
| `Descriptors` | the kernel's descriptor table (external) | `owner`, `file`; `KernelOpen` (lowest free number), `KernelClose`, `KernelHangup`, `KernelExit`; other parts of the process open and close descriptors at any time |
| `DescriptorHolder` | the abstract specification of an object that wraps one descriptor | `Acquire`, `Release`, `Exit`; `HoldsWhatItOwns`, `ReleasesOnlyItsOwn` |
| `Termios` | `SerialPort::ConfigureTermios`, one operator per part of `termios2`; what the line then does, from termios(3) | pure operators |
| `SerialPort` | the class: one action per method; both overloads of a setter, and `Write`/`WriteBinary`, `Read`/`ReadBinary`, whose bodies have the same control, are one action each | extends `Descriptors` and `Termios`; history in `fdStatus` and `call` |
| `SerialSession` | `Test1` and `main`, the peer, the line's input queue and carrier | extends `SerialPort`; program counter `pc`; refines `DescriptorHolder` |
| `SocketScoped` | several objects of the class | extends `Descriptors`; history in `copied` and `closed` |
| `Checksum` | `Utilities::Checksum` word by word, the callers that clear and store the field, the receiver (external) | `pc`, `ptr`, `bytes`, `sum`, `answer` are the variables of the code; history in `sums` and `damage`; `AnswerIsChecksumOf` compares it with the formula of `PacketHeaders` |
| `Networking` | the seven functions of `Networking.cpp` and both overloads of `ResolveInterfaceAddress` | `Program` lists the steps of each function, `OnFailure` what a failed step leads to; the sockets are two `SocketScoped` scopes; refines `DescriptorHolder` twice |
| `PacketHeaders` | the header structures: widths, setters, getters, layout in memory, the functions that fill them in, `CalcChecksum` | pure operators; a header is a record, `...Bytes` its memory |
| `Packets` | the contents: the four senders build their packets header by header, in memory that may be uninitialised; the air; `DumpWiFiTraffic` and `CapturePackets` with the line that `PrintPacketInfo` (or `print_packet_info`, the same code) prints | extends `PacketHeaders`; `call`, `todo` and `packet` are a sender, `buffer` is the sniffer's; history in `shown` |
| `LibPcap` | the four functions of `LibPcapExperiments.cpp`, step by step | `fn` and `stage` are the program counter; `device`, `net`, `texts` and `static_` the variables of the code; history in `found`, `names`, `told`, `shown` |
| `MC...` | instances of these for TLC | |
| `...Proofs` | the theorems, see below | |

A method call is one step: the class takes no locks and runs on its caller's
thread, and nothing else in the process can run within a call.  A blocking call
(`Read`, `recvfrom`, an `open()` that waits for carrier) is a step that is not enabled
yet.  `call` and `line` record
how the last step ended, for the properties; no action reads them.

`SerialPort::fileDesc_` starts as any member of `UninitFd`, since reading it
before `Open` is a read of an uninitialised value; the MC module puts numbers in
the table, out of it, and -1 there.  The `len` of the sniffers is the same: until
`recvfrom` has set it, a call may fail although the frame is in the buffer.

`Termios` reads `termios2` back the way termios(3) defines it (`ReadWait`,
`LineParity`, `InputSpeed`), so that `BehavesAs` compares what was asked for with what
the line does and not with the assignments of `ConfigureTermios`.  Of the flags that
the code never touches it keeps the two that change what the others mean: `CMSPAR` (a
parity bit stuck at one value) and `CIBAUD` (an input rate of its own).  `BehavesAs`
says what becomes of a line whose last user left them on: it is not what was asked
for, and `ConfigureTermios` does not notice.  `CLOCAL` matters before that: `Open` calls
`open()` without `O_NONBLOCK`, which on a line that its last user left without `CLOCAL`
waits for carrier, while `ConfigureTermios`, which sets the flag, comes after it
(`OpenWaits` in `SerialSession`; in `SerialPort`, where nothing is said about time, the
call takes as long as it takes).

Sending and sniffing are in two modules, since nothing in the one reads the state of
the other.  `Networking` has the control (which step follows which, what may fail,
which sockets are open) and abstracts a frame to its type, as `GetType()` reads it,
which is all that `InspectPacket` looks at: the receive buffer holds a frame of some
type, or is uninitialised and reads as any.  `Packets` has the bytes, and steps that
do not fail; what `PrintPacketInfo` prints, of long frames and of short ones, is there.
A structure that is written in place is the record of its fields; a
field holds a number as the machine would load it (a `uint16_t` in network order is a
swapped number), and `...Bytes` is its little-endian memory, so that a byte order that
is wrong on one side only shows on the wire.  Addresses and 32-bit numbers are their
four bytes.  What was in the memory before is all zeros or all ones.

## The runs

| Run | What it shows | Bounds |
|---|---|---|
| `SerialPort_descriptors` | `OwnsItsDescriptor`, `ForeignDescriptorsSafe`, `IoOnOwnDescriptor`, `LeakOnlyByReopen` | 3 descriptor numbers, one line and one ordinary file, all kinds of garbage |
| `SerialPort_line` | `TypeOK`, `LineAsAsked`, `ThrowLeavesLines` | timeouts at and around each boundary, standard and unsupported baud rates, every parity, a line left in odd parity or with a stuck parity bit and an input rate |
| `SerialSession` | `SessionTypeOK`, `EmptyReadMeansHangup`, `HoldsOneDescriptor` (refinement), `OnlyPeerBlocks` (liveness) | the buffer and the input queue a few bytes long: shorter and longer than each other; a line left with `CLOCAL` or without, a carrier that comes and goes |
| `SocketScoped` | `HandlesOwned`, `NothingLeaks`, `StrangersClosedOnlyByCopies` | 3 objects, 4 numbers, symmetric objects |
| `Checksum` | `TypeOK`, `AnswerIsComplement`, `AnswerIsChecksumOf`, `AcceptsIntact`, `DetectsDamage` | messages of 3, 7 and 8 bytes over the words 0, 255, 256, 65279, 65535 |
| `Networking` | `TypeOK`, `SendsOnOwnSocketToResolved`, `NothingLeftOpen`, `OnlySniffersStay` (liveness), `SocketHoldsOneDescriptor`, `LookupHoldsOneDescriptor` (refinements) | all 128 choices of the calls in `TestAll`, 3 numbers, 3 turns of the sending loop instead of 10000000, frames of 3 types |
| `Packets` | `PacketsTypeOK`, `SaysWhatWasAsked`, `ReceiverAccepts`, `PrintsWhatCame` | the packets of the four senders with the arguments in the code; a segment with 4 bytes of options and 3 of data, one with 40 and 2; at most 2 of them on the air, in any order and number, among 7 frames of other machines: longer IP headers, fragments, frames cut off at each layer; a sniffer's buffer of 80 bytes instead of 2048 |
| `LibPcap` | `PrintsOwnNet`, `NamesAllDevices`, `OnlyCaptureStays` (liveness) | all 16 choices of the calls in `TestAll`; no device, one, three; 3 addresses |

Why the bounds are enough: with two numbers beside the object's own, a number that
was given back can be taken by somebody else while another is still in use, which
is all that the descriptor properties are about; a table that is full is a state
of every run.  The timeouts include both ends of what `SetTimeout` accepts, one
below 100 and one that is not a multiple of it.  The words of the checksum run
produce sums with no carry, with one, and with a carry out of the first fold, and
both zeros of ones' complement.  80 bytes of buffer hold the
longest headers that `PrintPacketInfo` can look at (14 + 60 + 4) and are less than the
longest packet, so that one is cut off; two frames of a sender and any number of others
are enough for one to lie behind the end of another in the buffer.  The line run has two
of the data bits and one each of the stop bits and flow controls, since those are
copied to flags of their own and multiply the states; `LineBehaves` has all of them.
Of every run the theorems say the same without bounds, but for liveness.

Runs that end in a violation, each of a sentence that the repository says of
itself (`findings` in `PROJECT.json` quotes them):

| Run | The sentence | What the code does |
|---|---|---|
| `SerialPort_read_closed` | `SerialPort.h:179`, 186: throws Exception if state != OPEN | `Read` never looks at `state_` |
| `SerialPort_destructor` | `SerialPort.h:123`: closes if still open | a second `Open` loses the first descriptor |
| `Networking_batman` | `Networking.cpp:424`: "Got B.A.T.M.A.N packet" | the constant has its bytes swapped; and the buffer is inspected before what `recvfrom` returned, so that with the right constant the run still fails, on the frame before or on uninitialised memory |
| `Packets_address` | `LibPcapExperiments.cpp:202`: `inet_ntoa()` takes an address "given in network byte order" | `IpToStr` swaps the address of the packet first, and prints it backwards |

More sentences do not quite hold, as the actions show without a run of their own:
`SetEcho` configures whether or not the device is open (`SerialPort.h:201`),
`SetDevice` on an open port goes on with the old device (`SerialPort.h:126`), a `Read`
after a hang-up returns nothing although the timeout is -1 (`LinuxSerial.cpp:34`;
`EmptyReadMeansHangup` is what remains true), a timeout is cut off to 100 ms and not
rounded to the nearest (`SerialPort.h:148`; `WaitsAsAsked` in `LineAsAsked` is what
remains true: less than 100 ms are lost), and `Read` takes descriptor 0 for "not
opened" (`SerialPort.cpp:536`), which `open()` may return to a process without a
standard input.

`CHECK_DEADLOCK FALSE` stands where the modelled program ends: `SerialSession`,
`Checksum`, `Networking`, `LibPcap`.

## Fairness

`SerialSession`, `Networking` and `LibPcap` assume weak fairness of what the process
does without waiting for anybody (`PlainCall`, `ReadRefused`, and a `Read` that has
data; `Progress` in the other two): the scheduler runs a process that can run.  The
peer, the line and its carrier, frames on the air, and errors of calls that otherwise
block (`recvfrom`, `pcap_loop`, an `open()` that waits for carrier) are not fair; hence
the properties say that the program ends *or* waits for ever for something that nobody
promised: `OnlyPeerBlocks` names a silent peer in a `Read`, and an absent one in the
`Open` of a line without `CLOCAL`.  `Write` and `Close` do not wait for the peer: six
bytes fit the output queue of a line that was just opened, flow control is off, and the
drain in `close()` is bounded by the driver.  `Progress` is one fairness condition and not one per action,
since there is one thread.

## The proofs

All of it is checked by TLAPS 1.4.5 with Z3, Zenon and LS4; nothing is assumed but
the named assumptions on the constants, which TLC evaluates for the instances.

* `SerialProofs`, in three parts.  About `Termios`: `ConfiguredBehaves`, whatever a
  line was set to before, `Configured` makes it behave as the settings ask, but for the
  two flags that `BehavesAs` lets it inherit; `TimeoutFitsVTime`, the cast to
  an unsigned char never cuts a timeout that `SetTimeout` accepts.  Both rest on
  arithmetic of division by 100.
  About `SerialPort`: `TypeCorrect` (invariant `TypeInv`), then `DescriptorOwned`,
  `LineBehaves` and the action properties `ForeignSafe`, `IoOwned`, `LeakByReopen`,
  `ThrowHarmless`.  `OwnsItsDescriptor` is not enough by itself: `OwnershipInv` adds
  that `state_` is OPEN only with a `fileDesc_` that some `Open` assigned.
  `LineInv` is what makes `LineAsAsked` inductive: it holds only together with
  ownership, because a line could otherwise be exchanged under the number.
  About `SerialSession`, the only part that uses `SessionAssumption`:
  `SessionHoldsOneDescriptor`, the session implements
  `DescriptorHolder`: its initial states are initial states, and each call of
  `Test1` is an `Acquire`, a `Release`, an `Exit` or a stutter.  `SessionInv` relates
  `pc` to whether the object has a descriptor.  `ReadInv` adds what the session has
  asked of the line at each `pc` (VMIN is 1 once the port is open), from which
  `SessionTypeCorrect` and `EmptyReadIsHangup` follow; it rests on the lemmas of
  the second part.
* `DescriptorHolderProofs`: what the abstract object promises.
* `SocketScopedProofs`: the three properties of the run, for any number of objects
  and descriptors.  The invariant must speak of dead objects too (their handle is
  -1), since their numbers come back.
* `ChecksumProofs`: that `Utilities::Checksum` is the ones' complement checksum of
  every message of up to 65535 bytes, that every intact message is accepted and
  every change of one word but a zero for a zero is detected.  The arithmetic is in
  `TwoFolds` (the sum is below 65536 times 65536, so that two folds suffice) and
  `FilledSum`; the induction over the words is in the invariant, which compares the
  two sums (sender's and receiver's) word by word: they differ only behind the
  field and behind the damage, by known amounts.  `LoopComputesChecksumOf` ties the loop
  to the one formula over bytes (`ChecksumOf`) that the headers are modelled with:
  `LoopInv` says that the sum is the one of the bytes that are behind `ptr`, two of
  them for a word and one for the odd byte.
* `NetworkingProofs`: `TypeCorrect`, `SendsToResolved`, `FunctionsLeaveNothingOpen`, and
  the two refinements `FunctionsHoldOneSocket` and `LookupHoldsOneSocket`, for any
  list of calls in `TestAll` and any sets of descriptor numbers and types of frames.  The
  invariant `NetInv` has five parts: `TableInv` (each of the two `SocketScoped`
  variables holds exactly the numbers that its scope owns), `PlaceInv` (what a function
  still has to do is the end of its program), `BehindInv` (what the steps that it has
  behind it have left: a socket that is there, an address that was resolved), `DataInv`
  (the types of the rest) and `LineInv` (what a step that has sent relied on).
  `PlaceInv` with `BehindInv` is the heart: the functions open their socket and look
  the interface up in different orders, and each leaves in a way of its own.
  `FunctionsLeaveNothingOpen` needs one fact more, about the programs themselves:
  `SocketBeforeLookup`, only `Test` has its socket before the lookup.
* `PacketHeadersProofs`: what the headers do for every value and not only for those of
  the run.  `DataOffsetLimit` and `OptionsAreCovered`: four bits for the data offset
  are enough exactly for whole words up to 60 bytes, and then `CalcChecksum` covers
  exactly the options.  `TCPReadsBack`, `IPv4ReadsBack`, `UDPReadsBack`: every getter
  returns what its setter was given, but for the checksums of TCP and UDP and the
  urgent pointer, which come back swapped.  `EthernetFilledIn`, `OGMFilledIn`: these
  headers keep nothing of the memory they were built in.  They rest on `SwapTwice` and on
  facts about sequences of four and six bytes.
  `FilledAddsUp` is RFC 1071: a message of any content and up to 32768 bytes, even or
  odd, adds up for its receiver once the answer of `Checksum` is in a field that was
  zero.  `ChecksumOf` sums with a recursive function (`PartialSums`); that the
  function exists, is unique and satisfies its equation (`SumsExist`, `SumsUnique`,
  `PartialSumsDef`) is proved by induction as a statement about sets: a set of numbers
  that has a counterexample has a least one (`LeastNumber`), from the library's
  well-founded orders.  Last come the layouts (`TCPLayoutBytes` and its like): which
  byte of a filled header is which argument.
* `PacketsProofs`: the four invariants of the run, for every set of packets whose
  arguments the code allows, any memory, any foreign frames and any size of the
  sniffer's buffer from 78 bytes: `FieldsStayApart` (`PacketsTypeOK`),
  `FramesAreAccepted` (`ReceiverAccepts`), `FramesSayWhatWasAsked`
  (`SaysWhatWasAsked`) and `LinesShowTheFrame` (`PrintsWhatCame`).  The first three are
  not inductive: they speak of frames on the air, and those are built in four or five
  steps.  `PacketsInv` has four parts.  `SenderInv` says, for each rest of `todo`, that
  the headers that are no longer to do are those of the call, and nothing of the
  others, which is why it does not matter what was in the memory; `PacketInv`,
  that each field fits its width; `AirInv`, that each frame on the air is exactly
  `FrameOf` its call, the bytes as one formula of the arguments; `SnifferInv`, that the
  buffer begins with the frame that came last and the line was printed of it.  What is
  left is about `FrameOf`: the checksums by `FilledAddsUp`, once for the IP header,
  for the ICMP message and for the segment behind its pseudo-header, and each field at
  its place by the layouts.  The line is the one theorem that is not about own frames:
  `SameType`, `SameAddresses`, `SameHeaders` and `SamePorts` show that each part of it
  depends on no byte behind the frame, as far as the frame reaches: an Ethernet header
  for the type and the addresses, the ports for the ports.
* `LibPcapProofs`: `PrintsOnlyOwnNet` and `NamesEveryDevice`, for any list of
  devices and any addresses.  `PcapInv`: `PlaceInv` (where each function may be),
  `NamesInv` (the names printed so far and the devices left make up what was found; a
  function that returns before the end does so at a device without an answer),
  `AnswerInv` (at the steps that format and print, `net` and then `texts` are
  the answer about the device at hand, and not of an earlier iteration) and `ShownInv`.

Only model-checked: the three liveness properties (`OnlyPeerBlocks`,
`OnlySniffersStay`, `OnlyCaptureStays`), which are out of the prover's reach as is
`ENABLED`; and the runs that end in a violation, which are about one counterexample.
`DescriptorHolder` is proved about but not for itself checked by TLC: the three
modules that implement it are.

The assumptions on the constants are what the code's types and callers give:
`DescriptorsAssumption`, `SerialPortAssumption`, `SocketScopedAssumption` and
`LibPcapAssumption` (numbers, devices and arguments have their types),
`SessionAssumption` (a terminal, a buffer of at least one byte), `ChecksumAssumption`
(at most 65535 bytes, the field within), `NetworkingAssumption` (two scopes, at least
one turn of the loop), `PacketsAssumption` (the arguments of the setters have the widths of their
parameters, and `initTCPHeader` at most 40 bytes of options in whole words, since
`DataOffsetLimit` says what happens beyond; a sniffer's buffer of at least 78 bytes).

## The plan

Done: descriptors, `Termios`, `SerialPort`, `SerialSession`, `SocketScoped`,
`Checksum`, `Networking`, `PacketHeaders`, `Packets`, `LibPcap`, and proofs of every
safety property and refinement of theirs.

Left, in this order:

1. `SerialPort` and `SocketScoped` objects together on one table, as instances of
   `DescriptorHolder`.
2. The control of `Networking` and the bytes of `Packets` composed, so that a packet is
   sent only if each step before it succeeded.

Two of the hazards stay without a property, for the reasons that `PROJECT.json` gives:
`write()` may take less than it was given, and `SendOGMMessage` announces TVLV data that
it does not send.

## Not modelled

* How many bytes a `write()` takes: `Write` and `WriteBinary` only look at -1, and no
  code reads those bytes again.
* `ARPHeader`, `CompareMacs`, `CalcICMPChecksum` and `HostToIp`, which nothing calls.
* What libpcap and the kernel allocate and nobody gives back (the list of devices, the
  capture handle), and the sizes of `pseudoBuffer` and of `CalcICMPChecksum`'s buffer
  but for the bound in `TCPArgumentsAllowed`.
* The implicit copy of a `SerialPort`, which nothing makes: it would share
  `fileDesc_`, as the copy of a `SocketScoped` shares `handle`.
* A `SocketScoped` constructed from or assigned a number that is not a fresh result of
  `socket()`: `Utilities.h:51,54` take any `int`, and no caller gives them another.
* `createSocket` without the named return value optimisation: the compiler may also
  copy the local `SocketScoped` into the result, whose number the destructor of the
  local would then close.  `OpenSocket` has one object, as GCC and Clang build it.
* The line that `DumpWiFiTraffic` prints after the `recvfrom` that failed: `Packets`
  prints only of frames that came.
* Which interface a frame came from: the sniffers do not bind their sockets, and do not
  look.
* The flags of a line that `ConfigureTermios` never writes and that only add to what a
  reader gets (`INPCK`, `IGNPAR`).
* `LibSerial` (a third-party library that is not in the repository), `ContikiDCube`
  (prints a constant), `WiFiScanner` (empty), `config.h` (generated), `Exception.h` (a
  text).
