----------------------------- MODULE SerialPort -----------------------------
(***************************************************************************)
(* mn::CppLinuxSerial::SerialPort: one object of the class, the descriptor *)
(* table it shares with the rest of the program, and the terminal lines it *)
(* configures.  Every public method is one action; a call is atomic here   *)
(* because the class runs on its caller's thread and takes no lock, and it *)
(* ends by returning or by throwing, which call records.                   *)
(***************************************************************************)
EXTENDS Descriptors, Termios

CONSTANTS
  Me,               \* the object, as an owner of descriptors
  Tty,              \* the devices that are terminal lines
  NoDevice,         \* the empty device_ string
  UninitFd,         \* what an unassigned fileDesc_ may hold
  InitialTermios,   \* what a line may be set to before the program runs
  BaudInputs, SpeedInputs, DataBitsInputs, ParityInputs, StopBitsInputs,
  FlowInputs, TimeoutInputs     \* the arguments that callers pass

ASSUME SerialPortAssumption ==
  /\ Me \in Holder
  /\ Tty \subseteq Device
  /\ NoDevice \notin Device
  /\ UninitFd \subseteq Int
  /\ InitialTermios \subseteq TermiosType
  /\ BaudInputs \subseteq BaudRate
  /\ SpeedInputs \subseteq Nat
  /\ DataBitsInputs \subseteq NumDataBits
  /\ ParityInputs \subseteq Parity
  /\ StopBitsInputs \subseteq NumStopBits
  /\ FlowInputs \subseteq FlowControl
  /\ TimeoutInputs \subseteq Int

VARIABLES
  alive,      \* the object has been constructed and not yet destroyed
  state_,     \* "CLOSED" or "OPEN"
  device_,    \* the path of the device, NoDevice when empty
  fileDesc_,  \* the descriptor the object believes it has, -1 for none
  settings,   \* the other data members, see Termios
  tty,        \* tty[d]: the termios2 of line d, kept by the kernel
  fdStatus,   \* history: where the value of fileDesc_ comes from
  call        \* history: the last call, how it ended, the descriptor it used

objectVars == <<alive, state_, device_, fileDesc_, settings, fdStatus>>
vars == <<owner, file, alive, state_, device_, fileDesc_, settings, tty,
          fdStatus, call>>

(* "uninit": no constructor assigns fileDesc_, so that it holds garbage    *)
(* until Open; "assigned": written by Open or by a close() that succeeded; *)
(* "stale": a close() reported an error after releasing the number.        *)
FdStatus == {"uninit", "assigned", "stale"}

Outcome == {"ok", "Exception", "runtime_error", "system_error"}

Operation == {"none", "Construct", "Destroy", "SetDevice", "Set", "SetEcho",
              "SetTimeout", "Open", "Close", "Write", "Read", "Available"}

TypeOK ==
  /\ DescriptorsTypeOK
  /\ alive \in BOOLEAN
  /\ state_ \in {"CLOSED", "OPEN"}
  /\ device_ \in Device \cup {NoDevice}
  /\ fileDesc_ \in Int
  /\ settings \in Settings
  /\ tty \in [Tty -> TermiosType]
  /\ fdStatus \in FdStatus
  /\ call \in [op : Operation, ret : Outcome, fd : Int]

(* The call op ended with ret; its system calls, if any, went to fd.       *)
Return(op, ret, fd) == call' = [op |-> op, ret |-> ret, fd |-> fd]

NoCall == [op |-> "none", ret |-> "ok", fd |-> -1]

-----------------------------------------------------------------------------
(* Construction                                                            *)

(* What the default constructor does on behalf of all of them.             *)
Constructed(device, s) ==
  /\ ~ alive
  /\ alive' = TRUE
  /\ state_' = "CLOSED"
  /\ device_' = device
  /\ fileDesc_' \in UninitFd
  /\ settings' = s
  /\ fdStatus' = "uninit"
  /\ Return("Construct", "ok", -1)
  /\ UNCHANGED <<owner, file, tty>>

ConstructDefault == Constructed(NoDevice, DefaultSettings)

ConstructWithBaudRate ==
  \E d \in Device, b \in BaudInputs :
    Constructed(d, [DefaultSettings EXCEPT !.baudRateStandard_ = b])

ConstructWithSpeed ==
  \E d \in Device, n \in SpeedInputs :
    Constructed(d, [DefaultSettings EXCEPT !.baudRateType_ = "CUSTOM",
                                           !.baudRateCustom_ = n])

(* The two long constructors: the second one also takes the flow control.  *)
ConstructWithFraming ==
  \E d \in Device, b \in BaudInputs, n \in DataBitsInputs,
     p \in ParityInputs, stop \in StopBitsInputs,
     hw, sw \in FlowInputs \cup {"OFF"} :
    Constructed(d, [DefaultSettings EXCEPT !.baudRateStandard_ = b,
                                           !.numDataBits_ = n,
                                           !.parity_ = p,
                                           !.numStopBits_ = stop,
                                           !.hardwareFlowControl_ = hw,
                                           !.softwareFlowControl_ = sw])

Construct == \/ ConstructDefault
             \/ ConstructWithBaudRate
             \/ ConstructWithSpeed
             \/ ConstructWithFraming

-----------------------------------------------------------------------------
(* Configuration                                                           *)

(* As if the framing reached the line before the baud rate was looked at.  *)
ConfigureTermiosInTwoSteps(s, f) ==
  IF f \notin Tty THEN tty
  ELSE IF BaudSupported(s) THEN [tty EXCEPT ![f] = Configured(s, @)]
  ELSE [tty EXCEPT ![f].csize = CharBits[s.numDataBits_],
                   ![f].cstopb = s.numStopBits_ = "TWO"]

(* The lines after ConfigureTermios ran with settings s on a descriptor of *)
(* f.  Both ioctls ignore their result: on anything but a line they fail   *)
(* and nothing happens.  An unsupported baud rate throws between the two.  *)
ConfigureTermios(s, f) ==
  IF BaudSupported(s) /\ f \in Tty
    THEN [tty EXCEPT ![f] = Configured(s, @)]
    ELSE tty

ConfigureOutcome(s) == IF BaudSupported(s) THEN "ok" ELSE "runtime_error"

(* The body that the setters share: store, then configure if open.         *)
Setter(op, s) ==
  /\ alive
  /\ settings' = s
  /\ \/ /\ state_ = "OPEN"
        /\ tty' = ConfigureTermios(s, FileOf(fileDesc_))
        /\ Return(op, ConfigureOutcome(s), fileDesc_)
     \/ /\ state_ # "OPEN"
        /\ UNCHANGED tty
        /\ Return(op, "ok", -1)
  /\ UNCHANGED <<owner, file, alive, state_, fileDesc_, fdStatus>>

SetDevice ==
  \E d \in Device \cup {NoDevice} :
    Setter("SetDevice", settings) /\ device_' = d

SetBaudRate ==
  /\ \/ \E b \in BaudInputs :
          Setter("Set", [settings EXCEPT !.baudRateType_ = "STANDARD",
                                         !.baudRateStandard_ = b])
     \/ \E n \in SpeedInputs :
          Setter("Set", [settings EXCEPT !.baudRateType_ = "CUSTOM",
                                         !.baudRateCustom_ = n])
  /\ UNCHANGED device_

SetNumDataBits ==
  /\ \E n \in DataBitsInputs : Setter("Set", [settings EXCEPT !.numDataBits_ = n])
  /\ UNCHANGED device_

SetParity ==
  /\ \E p \in ParityInputs : Setter("Set", [settings EXCEPT !.parity_ = p])
  /\ UNCHANGED device_

SetNumStopBits ==
  /\ \E n \in StopBitsInputs : Setter("Set", [settings EXCEPT !.numStopBits_ = n])
  /\ UNCHANGED device_

(* Unlike the other setters, SetEcho configures whatever state_ is.        *)
SetEcho ==
  /\ alive
  /\ \E value \in BOOLEAN :
       LET s == [settings EXCEPT !.echo_ = value]
       IN  /\ settings' = s
           /\ tty' = ConfigureTermios(s, FileOf(fileDesc_))
           /\ Return("SetEcho", ConfigureOutcome(s), fileDesc_)
  /\ UNCHANGED <<owner, file, alive, state_, device_, fileDesc_, fdStatus>>

(* As if SetTimeout did not look at state_.                                 *)
SetTimeoutAllowedWhenOpen(timeout_ms) == SetTimeoutAccepts(timeout_ms)

(* SetTimeout does not configure, and is refused while the port is open.   *)
SetTimeoutAllowed(timeout_ms) ==
  SetTimeoutAccepts(timeout_ms) /\ state_ # "OPEN"

SetTimeoutTo(timeout_ms) ==
  /\ alive
  /\ \/ /\ SetTimeoutAllowed(timeout_ms)
        /\ settings' = [settings EXCEPT !.timeout_ms_ = timeout_ms]
        /\ Return("SetTimeout", "ok", -1)
     \/ /\ ~ SetTimeoutAllowed(timeout_ms)
        /\ UNCHANGED settings
        /\ Return("SetTimeout", "Exception", -1)
  /\ UNCHANGED <<owner, file, tty, alive, state_, device_, fileDesc_, fdStatus>>

SetTimeout == \E t \in TimeoutInputs : SetTimeoutTo(t)

-----------------------------------------------------------------------------
(* Open, Close and the destructor                                          *)

OpenWithoutDevice ==
  /\ alive
  /\ device_ = NoDevice
  /\ Return("Open", "Exception", -1)
  /\ UNCHANGED <<owner, file, tty, objectVars>>

(* open() failed: fileDesc_ already holds its -1 when Open throws, and     *)
(* state_ keeps whatever it was.                                           *)
OpenFails ==
  /\ alive
  /\ device_ # NoDevice
  /\ fileDesc_' = -1
  /\ fdStatus' = "assigned"
  /\ Return("Open", "Exception", -1)
  /\ UNCHANGED <<owner, file, tty, alive, state_, device_, settings>>

(* open() returned fd.  Whatever fileDesc_ held is overwritten; if         *)
(* ConfigureTermios throws, the descriptor is kept and state_ is not set.  *)
OpenSucceeds ==
  /\ alive
  /\ device_ # NoDevice
  /\ \E fd \in Fd :
       /\ KernelOpen(Me, device_, fd)
       /\ fileDesc_' = fd
       /\ Return("Open", ConfigureOutcome(settings), fd)
  /\ fdStatus' = "assigned"
  /\ tty' = ConfigureTermios(settings, device_)
  /\ state_' = IF BaudSupported(settings) THEN "OPEN" ELSE state_
  /\ UNCHANGED <<alive, device_, settings>>

Open == OpenWithoutDevice \/ OpenFails \/ OpenSucceeds

(* As if Close went by state_ instead of by fileDesc_.                      *)
HasDescriptorByState == state_ = "OPEN"

(* Close has a descriptor to give back.                                    *)
HasDescriptor == fileDesc_ # -1

(* As if Close left fileDesc_ as it was, or stored the 0 that Read tests.   *)
ClosedDescriptorForgotten == fileDesc_
ClosedDescriptorZero == 0

(* What Close stores once close() succeeded.                               *)
ClosedDescriptor == -1

(* Close with no descriptor to give back only sets state_.                 *)
CloseNothing(op) ==
  /\ ~ HasDescriptor
  /\ state_' = "CLOSED"
  /\ Return(op, "ok", -1)
  /\ UNCHANGED <<owner, file, fileDesc_, fdStatus>>

CloseSucceeds(op) ==
  /\ HasDescriptor
  /\ KernelClose(fileDesc_)
  /\ fileDesc_' = ClosedDescriptor
  /\ fdStatus' = "assigned"
  /\ state_' = "CLOSED"
  /\ Return(op, "ok", fileDesc_)

(* close() released the number and reported an error (EINTR, EIO): Close   *)
(* throws before it forgets the number.                                    *)
CloseReportsError(op) ==
  /\ HasDescriptor
  /\ KernelClose(fileDesc_)
  /\ fdStatus' = IF fdStatus = "uninit" THEN "uninit" ELSE "stale"
  /\ Return(op, "Exception", fileDesc_)
  /\ UNCHANGED <<state_, fileDesc_>>

(* The number is not an open descriptor: close() fails with EBADF.         *)
CloseBadDescriptor(op) ==
  /\ HasDescriptor
  /\ ~ IsOpen(fileDesc_)
  /\ Return(op, "Exception", fileDesc_)
  /\ UNCHANGED <<owner, file, state_, fileDesc_, fdStatus>>

CloseBody(op) == \/ CloseNothing(op)
                 \/ CloseSucceeds(op)
                 \/ CloseReportsError(op)
                 \/ CloseBadDescriptor(op)

Close ==
  /\ alive
  /\ CloseBody("Close")
  /\ UNCHANGED <<alive, device_, settings, tty>>

(* The destructor calls Close and swallows what it throws.                 *)
Destroy ==
  /\ alive
  /\ CloseBody("Destroy")
  /\ alive' = FALSE
  /\ UNCHANGED <<device_, settings, tty>>

-----------------------------------------------------------------------------
(* Input and output.  Of the bytes only the outcome is kept here.          *)

(* read() and write() fail on a number that is not open, and may fail on   *)
(* one that is.                                                            *)
IoOutcome(fd) == IF IsOpen(fd) THEN {"ok", "system_error"} ELSE {"system_error"}

(* As if Write tested fileDesc_ only.                                       *)
WriteAllowedByDescriptor == fileDesc_ >= 0

WriteAllowed == state_ = "OPEN" /\ fileDesc_ >= 0

Write ==
  /\ alive
  /\ \/ /\ WriteAllowed
        /\ \E ret \in IoOutcome(fileDesc_) : Return("Write", ret, fileDesc_)
     \/ /\ ~ WriteAllowed
        /\ Return("Write", "Exception", -1)
  /\ UNCHANGED <<owner, file, tty, objectVars>>

(* Read asks nothing of state_: it only refuses descriptor 0.              *)
ReadAllowed == fileDesc_ # 0

Read ==
  /\ alive
  /\ \/ /\ ReadAllowed
        /\ \E ret \in IoOutcome(fileDesc_) : Return("Read", ret, fileDesc_)
     \/ /\ ~ ReadAllowed
        /\ Return("Read", "Exception", -1)
  /\ UNCHANGED <<owner, file, tty, objectVars>>

(* The result of the FIONREAD ioctl is ignored: Available answers 0 when   *)
(* it fails.                                                               *)
Available ==
  /\ alive
  /\ \/ /\ state_ = "OPEN"
        /\ Return("Available", "ok", fileDesc_)
     \/ /\ state_ # "OPEN"
        /\ Return("Available", "Exception", -1)
  /\ UNCHANGED <<owner, file, tty, objectVars>>

-----------------------------------------------------------------------------
(* The rest of the program and the devices                                 *)

OthersStep ==
  /\ OthersOpen(Me) \/ OthersClose(Me)
  /\ call' = NoCall
  /\ UNCHANGED <<tty, objectVars>>

(* A line hangs up (a USB adapter is pulled out): what was open on it is   *)
(* no longer a line, and a device that comes back has settings of its own. *)
Hangup ==
  /\ \E d \in Tty, t \in InitialTermios :
       KernelHangup(d) /\ tty' = [tty EXCEPT ![d] = t]
  /\ call' = NoCall
  /\ UNCHANGED objectVars

-----------------------------------------------------------------------------

(* Before the first construction the members have no values of interest.   *)
Init ==
  /\ DescriptorsInit(Me)
  /\ alive = FALSE
  /\ state_ = "CLOSED"
  /\ device_ = NoDevice
  /\ fileDesc_ = -1
  /\ settings = DefaultSettings
  /\ tty \in [Tty -> InitialTermios]
  /\ fdStatus = "uninit"
  /\ call = NoCall

Next == \/ Construct
        \/ SetDevice
        \/ SetBaudRate
        \/ SetNumDataBits
        \/ SetParity
        \/ SetNumStopBits
        \/ SetEcho
        \/ SetTimeout
        \/ Open
        \/ Close
        \/ Destroy
        \/ Write
        \/ Read
        \/ Available
        \/ OthersStep
        \/ Hangup

Spec == Init /\ [][Next]_vars

-----------------------------------------------------------------------------
(* Safety                                                                  *)

(* A number that Open assigned is a descriptor this object opened and has  *)
(* not given back: the bookkeeping that Close and the destructor rely on   *)
(* holds through failed opens, throwing configurations and re-opens, and   *)
(* is lost only before the first Open or after a close() that failed.      *)
OwnsItsDescriptor ==
  fdStatus = "assigned" /\ fileDesc_ # -1 =>
    fileDesc_ \in Fd /\ owner[fileDesc_] = Me

(* state_ is OPEN only after some Open stored a descriptor: the garbage of *)
(* the constructor never passes the state_ check of Write and Available.   *)
OpenWasAssigned == state_ = "OPEN" => fdStatus # "uninit"

(* The port is open and its descriptor still names a line.                 *)
OpenOnLine ==
  state_ = "OPEN" /\ fdStatus = "assigned" /\ FileOf(fileDesc_) \in Tty

(* While the port is open on a line, the line behaves as the data members  *)
(* say, but for what it inherits: every setter reconfigures, SetTimeout is *)
(* kept out, and a setter that threw is made up for as soon as the baud    *)
(* rate is a supported one.                                                *)
LineAsAsked ==
  OpenOnLine /\ BaudSupported(settings)
    => BehavesAs(settings, tty[FileOf(fileDesc_)])

(* A call releases a descriptor of another part of the program only if     *)
(* fileDesc_ was never assigned or went stale in a failed Close.           *)
ForeignDescriptorsSafe ==
  [][\A fd \in Fd :
       /\ call'.op # "none"
       /\ owner[fd] \notin {Me, Nobody} /\ owner'[fd] # owner[fd]
       => fdStatus # "assigned"]_vars

(* The calls that check state_ do their system calls on the object's own   *)
(* descriptor, unless a Close failed before.                               *)
IoOnOwnDescriptor ==
  [][/\ call'.op \in {"Write", "Available", "Set", "SetDevice"}
     /\ IsOpen(call'.fd)
     => owner[call'.fd] = Me \/ fdStatus = "stale"]_vars

(* The object's descriptors that fileDesc_ does not name.                  *)
Leaked == {fd \in Fd : owner[fd] = Me} \ {fileDesc_}

(* A descriptor is lost only in Open, by overwriting a fileDesc_ that had  *)
(* not been closed; Close and the destructor lose none, not even after an  *)
(* Open that threw.                                                        *)
LeakOnlyByReopen ==
  [][~ (Leaked' \subseteq Leaked) => call'.op = "Open" /\ fileDesc_ # -1]_vars

(* A call that throws has left every line as it was, although the data     *)
(* member it was asked to set is already changed.                          *)
ThrowLeavesLines == [][call'.ret # "ok" => UNCHANGED tty]_vars

-----------------------------------------------------------------------------
(* What the header says of the class                                       *)

(* SerialPort.h:179, 186: Read throws Exception if state != OPEN.          *)
ReadThrowsUnlessOpen ==
  call.op = "Read" /\ state_ # "OPEN" => call.ret = "Exception"

(* SerialPort.h:123: the destructor closes the port if it is still open.   *)
DestructorCloses == ~ alive => \A fd \in Fd : owner[fd] # Me

=============================================================================
