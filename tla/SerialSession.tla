--------------------------- MODULE SerialSession ---------------------------
(***************************************************************************)
(* The program as main.cpp runs it: LinuxSerial::TestAll, that is Test1,   *)
(* one call of SerialPort after the other, with the peer at the far end of *)
(* the line.  An exception nobody catches ends the process without running *)
(* destructors.                                                            *)
(***************************************************************************)
EXTENDS SerialPort

CONSTANTS
  UsbTty,      \* "/dev/ttyUSB0"
  BufferSize,  \* readBufferSize_B_, 255 in the code
  MaxRx        \* bound: bytes that the line's input queue can hold

ASSUME SessionAssumption ==
  /\ UsbTty \in Tty
  /\ BufferSize \in Nat \ {0}
  /\ MaxRx \in Nat

VARIABLES
  pc,       \* the next call of Test1, or how it ended
  rx,       \* the bytes that wait in the input queue of the line
  got,      \* the size of the string that the last Read delivered
  carrier   \* the line's modem says that there is somebody at its other end

sessionVars == <<vars, pc, rx, got, carrier>>

After ==
  [construct |-> "timeout", timeout |-> "open", open |-> "write",
   write |-> "read1", read1 |-> "read2", read2 |-> "close",
   close |-> "destroy", destroy |-> "returned"]

Ended == {"returned", "uncaught", "exited"}

SessionTypeOK ==
  /\ TypeOK
  /\ pc \in DOMAIN After \cup Ended
  /\ rx \in 0 .. MaxRx
  /\ got \in 0 .. BufferSize
  /\ carrier \in BOOLEAN

(* The call A at p: one that throws is the last one.                       *)
Calls(p, A) ==
  /\ pc = p
  /\ A
  /\ pc' = IF call'.ret = "ok" THEN After[p] ELSE "uncaught"

(* 115200 baud, 8 data bits, no parity, one stop bit.                      *)
SessionSettings == [DefaultSettings EXCEPT !.baudRateStandard_ = "B_115200",
                                           !.numDataBits_ = "EIGHT",
                                           !.parity_ = "NONE",
                                           !.numStopBits_ = "ONE"]

ConstructPort == Calls("construct", Constructed(UsbTty, SessionSettings))

SetReadTimeout == Calls("timeout", SetTimeoutTo(Forever))

(* open(2) without O_NONBLOCK, of a line whose last user left CLOCAL off,  *)
(* waits for carrier.  A table that is full is found out before that.      *)
OpenWaits == Unused # {} /\ ~ tty[UsbTty].clocal /\ ~ carrier

OpenAtOnce == ~ OpenWaits /\ Calls("open", Open)

(* The wait ends without carrier: the line is lost, or there was none.     *)
OpenGivesUp ==
  /\ OpenWaits
  /\ Calls("open", OpenFails)
  /\ UNCHANGED <<rx, got, carrier>>

(* "ps axf": a line that hung up takes no more output.                     *)
WriteCommand ==
  /\ Calls("write", Write)
  /\ call'.ret = "ok" => FileOf(fileDesc_) = UsbTty

ClosePort == Calls("close", Close)

(* At the end of Test1, by its scope.  What the destructor's Close throws  *)
(* is swallowed.                                                           *)
DestroyPort == pc = "destroy" /\ Destroy /\ pc' = After[pc]

(* readBuffer_ has room for readBufferSize_B_ bytes, and that is what Read *)
(* asks for; as if it asked for one more.                                  *)
ReadCountOver == BufferSize + 1

ReadCount == BufferSize

(* The numbers of bytes that read(2) can return with: on the line, VMIN of *)
(* them at least (none while it blocks) and as many as were asked for at   *)
(* most; on a line that hung up, end of file.                              *)
ReadReturns ==
  IF FileOf(fileDesc_) = UsbTty
    THEN {n \in 0 .. ReadCount :
            /\ n <= rx
            /\ n = 0 => tty[UsbTty].vmin = 0
            /\ rx >= tty[UsbTty].vmin}
    ELSE {0}

ReadDelivers(p) ==
  /\ Calls(p, Read)
  /\ call'.ret = "ok"
  /\ got' \in ReadReturns
  /\ rx' = IF FileOf(fileDesc_) = UsbTty THEN rx - got' ELSE rx
  /\ UNCHANGED carrier

ReadThrows(p) ==
  /\ Calls(p, Read)
  /\ call'.ret # "ok"
  /\ got' = 0        \* data.clear()
  /\ UNCHANGED <<rx, carrier>>

ReadAnswer == ReadDelivers("read1") \/ ReadDelivers("read2")

ReadFails == ReadThrows("read1") \/ ReadThrows("read2")

(* A Read that does not get as far as read(2).                             *)
ReadRefused == ReadFails /\ ~ ReadAllowed

(* main returns, or std::terminate ends the process.                       *)
Exit ==
  /\ pc \in {"returned", "uncaught"}
  /\ pc' = "exited"
  /\ KernelExit
  /\ call' = NoCall
  /\ UNCHANGED <<tty, objectVars>>

PlainCall ==
  /\ \/ ConstructPort \/ SetReadTimeout \/ OpenAtOnce \/ WriteCommand
     \/ ClosePort \/ DestroyPort \/ Exit
  /\ UNCHANGED <<rx, got, carrier>>

-----------------------------------------------------------------------------
(* The peer and the line.  Input is queued while the line is open.         *)

LineIsOpen == \E fd \in Fd : file[fd] = UsbTty

PeerSends ==
  /\ LineIsOpen
  /\ rx < MaxRx
  /\ rx' = rx + 1
  /\ UNCHANGED <<vars, pc, got, carrier>>

LineHangsUp ==
  /\ Hangup
  /\ rx' = 0
  /\ UNCHANGED <<pc, got, carrier>>

CarrierChanges == carrier' = ~ carrier /\ UNCHANGED <<vars, pc, rx, got>>

SessionInit ==
  Init /\ pc = "construct" /\ rx = 0 /\ got = 0 /\ carrier \in BOOLEAN

SessionNext ==
  \/ PlainCall \/ OpenGivesUp \/ ReadAnswer \/ ReadFails
  \/ PeerSends \/ LineHangsUp \/ CarrierChanges

(* The process runs whenever it can; that an open() that waits gives up,   *)
(* that read() fails, that the peer says something or is there at all, and *)
(* that the line hangs up is promised by nobody.                           *)
SessionSpec ==
  /\ SessionInit /\ [][SessionNext]_sessionVars
  /\ WF_sessionVars(PlainCall \/ ReadAnswer \/ ReadRefused)

-----------------------------------------------------------------------------

(* LinuxSerial.cpp:34: a Read of Test1 blocks until at least one byte has  *)
(* come in.  As far as the line goes, that is so: an empty Read means that *)
(* the line has hung up, which is neither data nor an error to Read.       *)
EmptyReadMeansHangup ==
  call.op = "Read" /\ call.ret = "ok" /\ got = 0 => FileOf(fileDesc_) # UsbTty

(* The session comes to its end, or a peer that says nothing keeps one of  *)
(* the two reads waiting, or one that is not there keeps open() waiting,   *)
(* where the last user of the line left CLOCAL off; nothing else can hold  *)
(* it up.                                                                  *)
OnlyPeerBlocks ==
  \/ <>(pc = "exited")
  \/ <>[](pc \in {"read1", "read2"} /\ rx = 0)
  \/ <>[](pc = "open") /\ []<>OpenWaits

(* As an object with one descriptor, SerialPort keeps what DescriptorHolder *)
(* promises throughout a session: through failed calls, hang-ups, a Close   *)
(* followed by the destructor's, and the end of the process.                *)
Held ==
  IF fdStatus = "assigned" /\ pc # "exited" THEN {fileDesc_} \ {-1} ELSE {}

Holding == INSTANCE DescriptorHolder WITH held <- Held

HoldsOneDescriptor == Holding!HolderSpec

=============================================================================
