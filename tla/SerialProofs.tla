---------------------------- MODULE SerialProofs ----------------------------
(***************************************************************************)
(* What ConfigureTermios() writes, for every value of the data members and *)
(* every previous state of the line; then type correctness and the safety  *)
(* of SerialPort for every descriptor table, every set of devices and      *)
(* arguments, and every initial setting of the lines.                      *)
(*                                                                         *)
(* At the end SerialSession, with whatever failures of the calls: that a   *)
(* session of Test1 implements DescriptorHolder, and that a Read of it is  *)
(* empty only on a line that hung up, for every size of buffer.  Only that *)
(* part uses SessionAssumption.                                            *)
(***************************************************************************)
EXTENDS SerialSession, TLAPS

-----------------------------------------------------------------------------
(* Termios                                                                 *)

(* Every standard rate has a speed in bits per second.                     *)
LEMMA SpeedType == \A b \in DOMAIN Speed : Speed[b] \in Nat
  BY DEF Speed

LEMMA DivBy100 ==
  ASSUME NEW n \in Int, 0 <= n, n <= 25500
  PROVE  /\ n \div 100 \in 0 .. 255
         /\ 100 * (n \div 100) <= n
         /\ n < 100 * (n \div 100) + 100
<1>1. n \div 100 \in Int /\ n \div 100 >= 0 /\ n \div 100 <= 255
  OBVIOUS
<1>2. n = 100 * (n \div 100) + (n % 100) /\ n % 100 \in 0 .. 99
  OBVIOUS
<1> QED
  BY <1>1, <1>2

LEMMA TimeoutRange ==
  ASSUME NEW s \in Settings
  PROVE  /\ s.timeout_ms_ \in Int
         /\ -1 <= s.timeout_ms_ /\ s.timeout_ms_ <= 25500
<1>1. s.timeout_ms_ \in -1 .. MaxTimeout
  BY DEF Settings
<1>2. ASSUME NEW n \in -1 .. MaxTimeout
      PROVE  n \in Int /\ -1 <= n /\ n <= 25500
  BY DEF MaxTimeout
<1> QED
  BY <1>1, <1>2

(* The range that SetTimeout accepts is what keeps the cast to cc_t exact: *)
(* no accepted timeout is cut to its low eight bits.                       *)
THEOREM TimeoutFitsVTime ==
  ASSUME NEW s \in Settings
  PROVE  s.timeout_ms_ > 0 => VTime(s) = s.timeout_ms_ \div 100
<1> SUFFICES ASSUME s.timeout_ms_ > 0
             PROVE  VTime(s) = s.timeout_ms_ \div 100
  OBVIOUS
<1>1. s.timeout_ms_ \div 100 \in 0 .. 255
  BY TimeoutRange, DivBy100
<1>2. \A q \in 0 .. 255 : q % 256 = q
  OBVIOUS
<1> QED
  BY <1>1, <1>2 DEF VTime

LEMMA VTimeRange ==
  ASSUME NEW s \in Settings
  PROVE  VTime(s) \in 0 .. 255
<1>1. CASE s.timeout_ms_ > 0
  BY <1>1, TimeoutRange, TimeoutFitsVTime, DivBy100
<1>2. CASE ~ s.timeout_ms_ > 0
  BY <1>2 DEF VTime
<1> QED
  BY <1>1, <1>2

(* A read waits as long as the timeout that was asked for, to within the   *)
(* 100 ms of a VTIME unit, and never longer.                               *)
LEMMA ConfiguredWaits ==
  ASSUME NEW s \in Settings, NEW t
  PROVE  WaitsAsAsked(s, Configured(s, t))
<1> DEFINE c == Configured(s, t)
<1>1. /\ s.timeout_ms_ \in Int
      /\ -1 <= s.timeout_ms_ /\ s.timeout_ms_ <= 25500
  BY TimeoutRange
<1>2. c.vmin = VMin(s) /\ c.vtime = VTime(s)
  BY DEF Configured
<1>3. CASE s.timeout_ms_ = Forever
  BY <1>2, <1>3 DEF WaitsAsAsked, ReadWait, VMin, Forever
<1>4. CASE s.timeout_ms_ = 0
  BY <1>2, <1>4 DEF WaitsAsAsked, ReadWait, VMin, VTime, Forever
<1>5. CASE s.timeout_ms_ > 0
  <2>1. VTime(s) = s.timeout_ms_ \div 100 /\ VMin(s) = 0
    BY <1>5, TimeoutFitsVTime DEF VMin, Forever
  <2>2. ReadWait(c) = 100 * (s.timeout_ms_ \div 100)
    BY <1>2, <2>1 DEF ReadWait
  <2> QED
    <3>1. /\ 0 <= ReadWait(c) /\ ReadWait(c) <= s.timeout_ms_
          /\ s.timeout_ms_ < ReadWait(c) + 100
      BY <1>1, <1>5, <2>2, DivBy100
    <3> QED
      BY <1>5, <3>1 DEF WaitsAsAsked, Forever
<1> QED
  BY <1>1, <1>3, <1>4, <1>5 DEF Forever

(* The framing, the parity, the flow control and the rate of the line are  *)
(* those of the data members, whatever the line was set to before, but for *)
(* a stuck parity bit and an input rate of its own that it had then.       *)
THEOREM ConfiguredBehaves ==
  ASSUME NEW s \in Settings, NEW t
  PROVE  BehavesAs(s, Configured(s, t))
<1> DEFINE c == Configured(s, t)
<1>1. s.parity_ \in Parity
  BY DEF Settings
<1>2. /\ c.raw /\ c.clocal /\ c.csize = CharBits[s.numDataBits_]
      /\ c.cstopb <=> s.numStopBits_ = "TWO"
      /\ c.crtscts <=> s.hardwareFlowControl_ = "ON"
      /\ c.ixon <=> s.softwareFlowControl_ = "ON"
      /\ c.echo <=> s.echo_
      /\ c.speed = SpeedOf(s)
  BY DEF Configured
<1>3. LineParity(c) = IF c.cmspar THEN Stick[s.parity_] ELSE s.parity_
  <2>1. /\ c.parenb <=> s.parity_ # "NONE"
        /\ c.parodd = ParoddFlag(s, t)
    BY DEF Configured
  <2> QED
    BY <1>1, <2>1 DEF LineParity, ParoddFlag, Parity
<1>4. c.cibaud = SameAsOutput => InputSpeed(c) = SpeedOf(s)
  BY <1>2 DEF InputSpeed
<1>5. WaitsAsAsked(s, c)
  BY ConfiguredWaits
<1> QED
  BY <1>2, <1>3, <1>4, <1>5 DEF BehavesAs

(* The custom speed is read only when the constructor or the setter that   *)
(* assigns it has run.                                                     *)
SpeedAssigned(s) == s.baudRateType_ = "CUSTOM" => s.baudRateCustom_ # Unset

LEMMA ConfiguredType ==
  ASSUME NEW s \in Settings, NEW t \in TermiosType,
         BaudSupported(s), SpeedAssigned(s)
  PROVE  Configured(s, t) \in TermiosType
<1>1. CharBits[s.numDataBits_] \in 5 .. 8
  BY DEF Settings, CharBits, NumDataBits
<1>2. SpeedOf(s) \in Nat
  BY SpeedType DEF Settings, SpeedOf, BaudSupported, SpeedAssigned
<1>3. VMin(s) \in 0 .. 255
  BY DEF VMin
<1>4. VTime(s) \in 0 .. 255
  BY VTimeRange
<1>5. ParoddFlag(s, t) \in BOOLEAN
  BY DEF ParoddFlag, TermiosType
<1>6. s.echo_ \in BOOLEAN
  BY DEF Settings
<1>7. t.cmspar \in BOOLEAN /\ t.cibaud \in Nat
  BY DEF TermiosType
<1> QED
  BY <1>1, <1>2, <1>3, <1>4, <1>5, <1>6, <1>7 DEF Configured, TermiosType

USE DescriptorsAssumption, SerialPortAssumption

-----------------------------------------------------------------------------
(* The descriptor table                                                    *)

LEMMA KernelOpenType ==
  ASSUME DescriptorsTypeOK,
         NEW who \in Holder, NEW f \in File, NEW fd \in Fd,
         KernelOpen(who, f, fd)
  PROVE  DescriptorsTypeOK'
BY DEF DescriptorsTypeOK, KernelOpen, LowestUnused, Unused, File

LEMMA KernelCloseType ==
  ASSUME DescriptorsTypeOK, NEW fd, KernelClose(fd)
  PROVE  DescriptorsTypeOK'
BY DEF DescriptorsTypeOK, KernelClose, IsOpen, Unused, File

LEMMA OthersType ==
  ASSUME DescriptorsTypeOK, OthersOpen(Me) \/ OthersClose(Me)
  PROVE  DescriptorsTypeOK'
<1>1. CASE OthersOpen(Me)
  BY <1>1, KernelOpenType DEF OthersOpen, File
<1>2. CASE OthersClose(Me)
  BY <1>2, KernelCloseType DEF OthersClose
<1> QED
  BY <1>1, <1>2

(* The rest of the program leaves the object's descriptors alone.          *)
LEMMA OthersKeepMine ==
  ASSUME DescriptorsTypeOK, OthersOpen(Me) \/ OthersClose(Me),
         NEW fd \in Fd, owner[fd] = Me
  PROVE  owner'[fd] = Me /\ file'[fd] = file[fd]
<1>1. CASE OthersOpen(Me)
  <2>1. PICK who \in Holder \ {Me}, n \in Fd : KernelOpen(who, Elsewhere, n)
    BY <1>1 DEF OthersOpen
  <2>2. n # fd
    BY <2>1 DEF KernelOpen, LowestUnused, Unused
  <2> QED
    BY <2>1, <2>2 DEF KernelOpen, DescriptorsTypeOK
<1>2. CASE OthersClose(Me)
  BY <1>2 DEF OthersClose, KernelClose, DescriptorsTypeOK
<1> QED
  BY <1>1, <1>2

-----------------------------------------------------------------------------
(* What the constructors have in common, and what the setters have.        *)

LEMMA ConstructShape ==
  ASSUME Construct
  PROVE  \E d \in Device \cup {NoDevice} : Constructed(d, settings')
<1>1. ASSUME NEW d, NEW s, Constructed(d, s)
      PROVE  Constructed(d, settings')
  BY <1>1 DEF Constructed
<1>2. CASE ConstructDefault
  BY <1>1, <1>2 DEF ConstructDefault
<1>3. CASE ConstructWithBaudRate
  BY <1>1, <1>3 DEF ConstructWithBaudRate
<1>4. CASE ConstructWithSpeed
  BY <1>1, <1>4 DEF ConstructWithSpeed
<1>5. CASE ConstructWithFraming
  BY <1>1, <1>5 DEF ConstructWithFraming
<1> QED
  BY <1>2, <1>3, <1>4, <1>5 DEF Construct

SettersStep == \/ SetDevice \/ SetBaudRate \/ SetNumDataBits
               \/ SetParity \/ SetNumStopBits

LEMMA SettersShape ==
  ASSUME SettersStep
  PROVE  \E op \in {"Set", "SetDevice"} : Setter(op, settings')
BY DEF SettersStep, SetDevice, SetBaudRate, SetNumDataBits, SetParity,
       SetNumStopBits, Setter

-----------------------------------------------------------------------------
(* Type correctness.  The lines keep their type because a custom speed is  *)
(* always assigned before baudRateType_ says CUSTOM.                       *)

TypeInv == TypeOK /\ SpeedAssigned(settings)

LEMMA ConfigureType ==
  ASSUME tty \in [Tty -> TermiosType],
         NEW s \in Settings, SpeedAssigned(s), NEW f
  PROVE  ConfigureTermios(s, f) \in [Tty -> TermiosType]
BY ConfiguredType DEF ConfigureTermios

LEMMA ReturnType ==
  ASSUME NEW op \in Operation, NEW ret \in Outcome, NEW fd \in Int,
         Return(op, ret, fd)
  PROVE  call' \in [op : Operation, ret : Outcome, fd : Int]
BY DEF Return

LEMMA NoCallType == NoCall \in [op : Operation, ret : Outcome, fd : Int]
BY DEF NoCall, Operation, Outcome

LEMMA ConfigureOutcomeType ==
  ASSUME NEW s
  PROVE  ConfigureOutcome(s) \in Outcome
BY DEF ConfigureOutcome, Outcome

LEMMA DefaultSettingsType ==
  DefaultSettings \in Settings /\ SpeedAssigned(DefaultSettings)
<1>1. "B_57600" \in BaudRate
  BY DEF BaudRate, Speed
<1>2. "EIGHT" \in NumDataBits
  BY DEF NumDataBits, CharBits
<1>3. -1 \in -1 .. MaxTimeout
  BY DEF MaxTimeout
<1> QED
  BY <1>1, <1>2, <1>3
     DEF DefaultSettings, Settings, SpeedAssigned, Unset, Parity, NumStopBits,
         FlowControl

LEMMA InitType == Init => TypeInv
<1> SUFFICES ASSUME Init PROVE TypeInv
  OBVIOUS
<1>1. DescriptorsTypeOK
  BY DEF Init, DescriptorsInit, DescriptorsTypeOK, File
<1>2. call \in [op : Operation, ret : Outcome, fd : Int]
  BY NoCallType DEF Init
<1>3. tty \in [Tty -> TermiosType]
  BY DEF Init
<1>4. settings \in Settings /\ SpeedAssigned(settings)
  BY DefaultSettingsType DEF Init
<1>5. fileDesc_ \in Int
  BY DEF Init
<1>6. /\ alive \in BOOLEAN
      /\ state_ \in {"CLOSED", "OPEN"}
      /\ device_ \in Device \cup {NoDevice}
      /\ fdStatus \in FdStatus
  BY DEF Init, FdStatus
<1> QED
  BY <1>1, <1>2, <1>3, <1>4, <1>5, <1>6 DEF TypeInv, TypeOK

(* A constructor that leaves the members s.                                *)
LEMMA ConstructedType ==
  ASSUME TypeInv, NEW d \in Device \cup {NoDevice},
         NEW s \in Settings, SpeedAssigned(s), Constructed(d, s)
  PROVE  TypeInv'
<1>1. call' \in [op : Operation, ret : Outcome, fd : Int]
  BY ReturnType DEF Constructed, Operation, Outcome
<1>2. DescriptorsTypeOK'
  BY DEF Constructed, TypeInv, TypeOK, DescriptorsTypeOK
<1> QED
  BY <1>1, <1>2 DEF Constructed, TypeInv, TypeOK, FdStatus

LEMMA ConstructType ==
  ASSUME TypeInv, Construct
  PROVE  TypeInv'
<1> DEFINE D == DefaultSettings
<1>1. CASE ConstructDefault
  BY <1>1, ConstructedType, DefaultSettingsType DEF ConstructDefault
<1>2. CASE ConstructWithBaudRate
  <2>1. PICK d \in Device, b \in BaudInputs :
          Constructed(d, [D EXCEPT !.baudRateStandard_ = b])
    BY <1>2 DEF ConstructWithBaudRate
  <2> DEFINE s == [D EXCEPT !.baudRateStandard_ = b]
  <2>2. s \in Settings /\ SpeedAssigned(s)
    BY DefaultSettingsType DEF Settings, SpeedAssigned
  <2> QED
    BY <2>1, <2>2, ConstructedType
<1>3. CASE ConstructWithSpeed
  <2>1. PICK d \in Device, n \in SpeedInputs :
          Constructed(d, [D EXCEPT !.baudRateType_ = "CUSTOM",
                                   !.baudRateCustom_ = n])
    BY <1>3 DEF ConstructWithSpeed
  <2> DEFINE s == [D EXCEPT !.baudRateType_ = "CUSTOM", !.baudRateCustom_ = n]
  <2>2. n \in Nat /\ n # Unset
    BY DEF Unset
  <2>3. s \in Settings
    BY <2>2, DefaultSettingsType DEF Settings
  <2>4. SpeedAssigned(s)
    BY <2>2, DefaultSettingsType DEF SpeedAssigned, Settings
  <2> QED
    BY <2>1, <2>3, <2>4, ConstructedType
<1>4. CASE ConstructWithFraming
  <2>1. PICK d \in Device, b \in BaudInputs, n \in DataBitsInputs,
             p \in ParityInputs, stop \in StopBitsInputs,
             hw \in FlowInputs \cup {"OFF"}, sw \in FlowInputs \cup {"OFF"} :
          Constructed(d, [D EXCEPT !.baudRateStandard_ = b,
                                   !.numDataBits_ = n,
                                   !.parity_ = p,
                                   !.numStopBits_ = stop,
                                   !.hardwareFlowControl_ = hw,
                                   !.softwareFlowControl_ = sw])
    BY <1>4 DEF ConstructWithFraming
  <2> DEFINE s == [D EXCEPT !.baudRateStandard_ = b,
                            !.numDataBits_ = n,
                            !.parity_ = p,
                            !.numStopBits_ = stop,
                            !.hardwareFlowControl_ = hw,
                            !.softwareFlowControl_ = sw]
  <2>2. s \in Settings
    BY DefaultSettingsType DEF Settings, FlowControl
  <2>3. SpeedAssigned(s)
    BY DefaultSettingsType DEF SpeedAssigned, DefaultSettings
  <2> QED
    BY <2>1, <2>2, <2>3, ConstructedType
<1> QED
  BY <1>1, <1>2, <1>3, <1>4 DEF Construct

(* A setter that stores s.                                                 *)
LEMMA SetterType ==
  ASSUME TypeInv, NEW op \in Operation,
         NEW s \in Settings, SpeedAssigned(s), Setter(op, s),
         device_' \in Device \cup {NoDevice}
  PROVE  TypeInv'
<1>1. tty' \in [Tty -> TermiosType]
  BY ConfigureType DEF Setter, TypeInv, TypeOK
<1>2. call' \in [op : Operation, ret : Outcome, fd : Int]
  <2>1. "ok" \in Outcome
    BY DEF Outcome
  <2> QED
    BY <2>1, ReturnType, ConfigureOutcomeType DEF Setter, TypeInv, TypeOK
<1>3. DescriptorsTypeOK'
  BY DEF Setter, TypeInv, TypeOK, DescriptorsTypeOK
<1> QED
  BY <1>1, <1>2, <1>3 DEF Setter, TypeInv, TypeOK

LEMMA SettersType ==
  ASSUME TypeInv, SettersStep
  PROVE  TypeInv'
<1>1. "SetDevice" \in Operation /\ "Set" \in Operation
  BY DEF Operation
<1>2. settings \in Settings /\ SpeedAssigned(settings)
      /\ device_ \in Device \cup {NoDevice}
  BY DEF TypeInv, TypeOK
<1>3. CASE SetDevice
  BY <1>1, <1>2, <1>3, SetterType DEF SetDevice
<1>4. CASE SetBaudRate
  <2>1. CASE \E b \in BaudInputs :
               Setter("Set", [settings EXCEPT !.baudRateType_ = "STANDARD",
                                              !.baudRateStandard_ = b])
    <3>1. PICK b \in BaudInputs :
               Setter("Set", [settings EXCEPT !.baudRateType_ = "STANDARD",
                                              !.baudRateStandard_ = b])
      BY <2>1
    <3> DEFINE s == [settings EXCEPT !.baudRateType_ = "STANDARD",
                                     !.baudRateStandard_ = b]
    <3>2. s \in Settings /\ SpeedAssigned(s)
      BY <1>2 DEF Settings, SpeedAssigned
    <3> QED
      BY <1>1, <1>2, <1>4, <3>1, <3>2, SetterType DEF SetBaudRate
  <2>2. CASE \E n \in SpeedInputs :
               Setter("Set", [settings EXCEPT !.baudRateType_ = "CUSTOM",
                                              !.baudRateCustom_ = n])
    <3>1. PICK n \in SpeedInputs :
               Setter("Set", [settings EXCEPT !.baudRateType_ = "CUSTOM",
                                              !.baudRateCustom_ = n])
      BY <2>2
    <3> DEFINE s == [settings EXCEPT !.baudRateType_ = "CUSTOM",
                                     !.baudRateCustom_ = n]
    <3>2. n \in Nat /\ n # Unset
      BY DEF Unset
    <3>3. s \in Settings
      BY <1>2, <3>2 DEF Settings
    <3>4. SpeedAssigned(s)
      BY <1>2, <3>2 DEF SpeedAssigned, Settings
    <3> QED
      BY <1>1, <1>2, <1>4, <3>1, <3>3, <3>4, SetterType DEF SetBaudRate
  <2> QED
    BY <1>4, <2>1, <2>2 DEF SetBaudRate
<1>5. CASE SetNumDataBits
  <2>1. PICK n \in DataBitsInputs :
          Setter("Set", [settings EXCEPT !.numDataBits_ = n])
    BY <1>5 DEF SetNumDataBits
  <2> DEFINE s == [settings EXCEPT !.numDataBits_ = n]
  <2>2. s \in Settings /\ SpeedAssigned(s)
    BY <1>2 DEF Settings, SpeedAssigned
  <2> QED
    BY <1>1, <1>2, <1>5, <2>1, <2>2, SetterType DEF SetNumDataBits
<1>6. CASE SetParity
  <2>1. PICK p \in ParityInputs :
          Setter("Set", [settings EXCEPT !.parity_ = p])
    BY <1>6 DEF SetParity
  <2> DEFINE s == [settings EXCEPT !.parity_ = p]
  <2>2. s \in Settings /\ SpeedAssigned(s)
    BY <1>2 DEF Settings, SpeedAssigned
  <2> QED
    BY <1>1, <1>2, <1>6, <2>1, <2>2, SetterType DEF SetParity
<1>7. CASE SetNumStopBits
  <2>1. PICK n \in StopBitsInputs :
          Setter("Set", [settings EXCEPT !.numStopBits_ = n])
    BY <1>7 DEF SetNumStopBits
  <2> DEFINE s == [settings EXCEPT !.numStopBits_ = n]
  <2>2. s \in Settings /\ SpeedAssigned(s)
    BY <1>2 DEF Settings, SpeedAssigned
  <2> QED
    BY <1>1, <1>2, <1>7, <2>1, <2>2, SetterType DEF SetNumStopBits
<1> QED
  BY <1>3, <1>4, <1>5, <1>6, <1>7 DEF SettersStep


LEMMA EchoType ==
  ASSUME TypeInv, SetEcho
  PROVE  TypeInv'
<1>1. PICK value \in BOOLEAN :
        LET s == [settings EXCEPT !.echo_ = value]
        IN  /\ settings' = s
            /\ tty' = ConfigureTermios(s, FileOf(fileDesc_))
            /\ Return("SetEcho", ConfigureOutcome(s), fileDesc_)
  BY DEF SetEcho
<1> DEFINE s == [settings EXCEPT !.echo_ = value]
<1>2. s \in Settings /\ SpeedAssigned(s)
  BY DEF TypeInv, TypeOK, Settings, SpeedAssigned
<1>3. tty' \in [Tty -> TermiosType]
  BY <1>1, <1>2, ConfigureType DEF TypeInv, TypeOK
<1>4. call' \in [op : Operation, ret : Outcome, fd : Int]
  <2>1. "SetEcho" \in Operation
    BY DEF Operation
  <2> QED
    BY <1>1, <2>1, ReturnType, ConfigureOutcomeType DEF TypeInv, TypeOK
<1>5. DescriptorsTypeOK'
  BY DEF SetEcho, TypeInv, TypeOK, DescriptorsTypeOK
<1> QED
  BY <1>1, <1>2, <1>3, <1>4, <1>5 DEF SetEcho, TypeInv, TypeOK

(* SetTimeout lets nothing else into timeout_ms_ than ConfigureTermios can *)
(* express.                                                                *)
LEMMA TimeoutType ==
  ASSUME TypeInv, NEW t \in Int, SetTimeoutTo(t)
  PROVE  TypeInv'
<1>1. \/ /\ SetTimeoutAllowed(t)
         /\ settings' = [settings EXCEPT !.timeout_ms_ = t]
         /\ Return("SetTimeout", "ok", -1)
      \/ /\ ~ SetTimeoutAllowed(t)
         /\ UNCHANGED settings
         /\ Return("SetTimeout", "Exception", -1)
  BY DEF SetTimeoutTo
<1>2. settings' \in Settings /\ SpeedAssigned(settings')
  <2>1. CASE SetTimeoutAllowed(t) /\ settings' = [settings EXCEPT !.timeout_ms_ = t]
    <3>1. t \in Int /\ t >= -1 /\ t <= MaxTimeout
      BY <2>1 DEF SetTimeoutAllowed, SetTimeoutAccepts
    <3>2. t \in -1 .. MaxTimeout
      BY <3>1
    <3> QED
      BY <2>1, <3>2 DEF TypeInv, TypeOK, Settings, SpeedAssigned
  <2>2. CASE UNCHANGED settings
    BY <2>2 DEF TypeInv, TypeOK
  <2> QED
    BY <1>1, <2>1, <2>2
<1>3. call' \in [op : Operation, ret : Outcome, fd : Int]
  <2>1. "SetTimeout" \in Operation /\ "ok" \in Outcome /\ "Exception" \in Outcome
    BY DEF Operation, Outcome
  <2>2. -1 \in Int
    OBVIOUS
  <2> QED
    BY <1>1, <2>1, <2>2, ReturnType
<1>4. DescriptorsTypeOK'
  BY DEF SetTimeoutTo, TypeInv, TypeOK, DescriptorsTypeOK
<1> QED
  BY <1>2, <1>3, <1>4 DEF SetTimeoutTo, TypeInv, TypeOK

LEMMA OpenType ==
  ASSUME TypeInv, Open
  PROVE  TypeInv'
<1>1. "Open" \in Operation /\ "Exception" \in Outcome /\ -1 \in Int
  BY DEF Operation, Outcome
<1>2. CASE OpenWithoutDevice
  <2>1. call' \in [op : Operation, ret : Outcome, fd : Int]
    BY <1>1, <1>2, ReturnType DEF OpenWithoutDevice
  <2>2. DescriptorsTypeOK'
    BY <1>2 DEF OpenWithoutDevice, TypeInv, TypeOK, DescriptorsTypeOK
  <2> QED
    BY <1>2, <2>1, <2>2 DEF OpenWithoutDevice, objectVars, TypeInv, TypeOK
<1>3. CASE OpenFails
  <2>1. call' \in [op : Operation, ret : Outcome, fd : Int]
    BY <1>1, <1>3, ReturnType DEF OpenFails
  <2>2. DescriptorsTypeOK'
    BY <1>3 DEF OpenFails, TypeInv, TypeOK, DescriptorsTypeOK
  <2> QED
    BY <1>1, <1>3, <2>1, <2>2 DEF OpenFails, TypeInv, TypeOK, FdStatus
<1>4. CASE OpenSucceeds
  <2>1. PICK fd \in Fd : /\ KernelOpen(Me, device_, fd)
                         /\ fileDesc_' = fd
                         /\ Return("Open", ConfigureOutcome(settings), fd)
    BY <1>4 DEF OpenSucceeds
  <2>2. fd \in Int
    OBVIOUS
  <2>3. call' \in [op : Operation, ret : Outcome, fd : Int]
    BY <1>1, <2>1, <2>2, ReturnType, ConfigureOutcomeType
  <2>4. DescriptorsTypeOK'
    BY <1>4, <2>1, KernelOpenType DEF OpenSucceeds, TypeInv, TypeOK, File
  <2>5. tty' \in [Tty -> TermiosType]
    BY <1>4, ConfigureType DEF OpenSucceeds, TypeInv, TypeOK
  <2> QED
    BY <1>4, <2>1, <2>2, <2>3, <2>4, <2>5
       DEF OpenSucceeds, TypeInv, TypeOK, FdStatus
<1> QED
  BY <1>2, <1>3, <1>4 DEF Open

LEMMA CloseBodyType ==
  ASSUME TypeInv, NEW op \in Operation, CloseBody(op)
  PROVE  /\ DescriptorsTypeOK'
         /\ state_' \in {"CLOSED", "OPEN"}
         /\ fileDesc_' \in Int
         /\ fdStatus' \in FdStatus
         /\ call' \in [op : Operation, ret : Outcome, fd : Int]
<1>1. "ok" \in Outcome /\ "Exception" \in Outcome /\ -1 \in Int
  BY DEF Outcome
<1>2. fileDesc_ \in Int
  BY DEF TypeInv, TypeOK
<1>3. call' \in [op : Operation, ret : Outcome, fd : Int]
  BY <1>1, <1>2, ReturnType
     DEF CloseBody, CloseNothing, CloseSucceeds, CloseReportsError,
         CloseBadDescriptor
<1>4. DescriptorsTypeOK'
  <2>1. CASE UNCHANGED <<owner, file>>
    BY <2>1 DEF TypeInv, TypeOK, DescriptorsTypeOK
  <2>2. CASE KernelClose(fileDesc_)
    BY <2>2, KernelCloseType DEF TypeInv, TypeOK
  <2> QED
    BY <2>1, <2>2
       DEF CloseBody, CloseNothing, CloseSucceeds, CloseReportsError,
           CloseBadDescriptor
<1>5. fileDesc_' \in Int
  BY <1>1, <1>2
     DEF CloseBody, CloseNothing, CloseSucceeds, CloseReportsError,
         CloseBadDescriptor, ClosedDescriptor
<1> QED
  BY <1>3, <1>4, <1>5
     DEF CloseBody, CloseNothing, CloseSucceeds, CloseReportsError,
         CloseBadDescriptor, TypeInv, TypeOK, FdStatus

LEMMA CloseType ==
  ASSUME TypeInv, Close \/ Destroy
  PROVE  TypeInv'
<1>1. "Close" \in Operation /\ "Destroy" \in Operation
  BY DEF Operation
<1>2. CASE Close
  BY <1>1, <1>2, CloseBodyType DEF Close, TypeInv, TypeOK
<1>3. CASE Destroy
  BY <1>1, <1>3, CloseBodyType DEF Destroy, TypeInv, TypeOK
<1> QED
  BY <1>2, <1>3

LEMMA IoType ==
  ASSUME TypeInv, Write \/ Read \/ Available
  PROVE  TypeInv'
<1>1. /\ "Write" \in Operation /\ "Read" \in Operation
      /\ "Available" \in Operation
      /\ "ok" \in Outcome /\ "Exception" \in Outcome
      /\ -1 \in Int
  BY DEF Operation, Outcome
<1>2. fileDesc_ \in Int
  BY DEF TypeInv, TypeOK
<1>3. \A ret \in IoOutcome(fileDesc_) : ret \in Outcome
  BY DEF IoOutcome, Outcome
<1>4. call' \in [op : Operation, ret : Outcome, fd : Int]
  BY <1>1, <1>2, <1>3, ReturnType DEF Write, Read, Available
<1>5. UNCHANGED <<owner, file, tty, objectVars>>
  BY DEF Write, Read, Available
<1>6. DescriptorsTypeOK'
  BY <1>5 DEF TypeInv, TypeOK, DescriptorsTypeOK
<1> QED
  BY <1>4, <1>5, <1>6 DEF objectVars, TypeInv, TypeOK

LEMMA EnvironmentType ==
  ASSUME TypeInv, OthersStep \/ Hangup
  PROVE  TypeInv'
<1>1. call' \in [op : Operation, ret : Outcome, fd : Int]
  BY NoCallType DEF OthersStep, Hangup
<1>2. CASE OthersStep
  BY <1>1, <1>2, OthersType DEF OthersStep, objectVars, TypeInv, TypeOK
<1>3. CASE Hangup
  <2>1. PICK d \in Tty, t \in InitialTermios :
          KernelHangup(d) /\ tty' = [tty EXCEPT ![d] = t]
    BY <1>3 DEF Hangup
  <2>2. DescriptorsTypeOK'
    BY <2>1 DEF KernelHangup, TypeInv, TypeOK, DescriptorsTypeOK, File
  <2>3. tty' \in [Tty -> TermiosType]
    BY <2>1 DEF TypeInv, TypeOK
  <2> QED
    BY <1>1, <1>3, <2>2, <2>3 DEF Hangup, KernelHangup, objectVars, TypeInv, TypeOK
<1> QED
  BY <1>2, <1>3

LEMMA TypeStep == TypeInv /\ [Next]_vars => TypeInv'
<1> SUFFICES ASSUME TypeInv, [Next]_vars
             PROVE  TypeInv'
  OBVIOUS
<1>1. CASE Construct
  BY <1>1, ConstructType
<1>2. CASE SettersStep
  BY <1>2, SettersType
<1>3. CASE SetEcho
  BY <1>3, EchoType
<1>4. CASE SetTimeout
  BY <1>4, TimeoutType DEF SetTimeout
<1>5. CASE Open
  BY <1>5, OpenType
<1>6. CASE Close \/ Destroy
  BY <1>6, CloseType
<1>7. CASE Write \/ Read \/ Available
  BY <1>7, IoType
<1>8. CASE OthersStep \/ Hangup
  BY <1>8, EnvironmentType
<1>9. CASE UNCHANGED vars
  BY <1>9 DEF vars, TypeInv, TypeOK, DescriptorsTypeOK
<1> QED
  BY <1>1, <1>2, <1>3, <1>4, <1>5, <1>6, <1>7, <1>8, <1>9 DEF Next, SettersStep

(* Every reachable state is well typed: in particular no timeout is stored *)
(* that the line could not keep, and no speed is sent that was not set.    *)
THEOREM TypeCorrect == Spec => []TypeOK
<1>1. Spec => []TypeInv
  BY InitType, TypeStep, PTL DEF Spec
<1> QED
  BY <1>1, PTL DEF TypeInv

-----------------------------------------------------------------------------
(* Ownership.  Close and the destructor trust fileDesc_ alone; that it is  *)
(* right needs the ghost fdStatus, and that no port is OPEN on garbage.    *)

OwnershipInv == TypeInv /\ OpenWasAssigned /\ OwnsItsDescriptor

(* The actions that neither touch the table nor fileDesc_.                 *)
LEMMA OwnershipKept ==
  ASSUME OwnershipInv,
         UNCHANGED <<owner, fileDesc_, fdStatus>>,
         state_' \in {state_, "CLOSED"}
  PROVE  (OpenWasAssigned /\ OwnsItsDescriptor)'
BY DEF OwnershipInv, OpenWasAssigned, OwnsItsDescriptor

LEMMA OpenOwns ==
  ASSUME OwnershipInv, Open
  PROVE  (OpenWasAssigned /\ OwnsItsDescriptor)'
<1>1. CASE OpenWithoutDevice
  BY <1>1, OwnershipKept DEF OpenWithoutDevice, objectVars
<1>2. CASE OpenFails
  BY <1>2 DEF OpenFails, OpenWasAssigned, OwnsItsDescriptor
<1>3. CASE OpenSucceeds
  <2>1. PICK fd \in Fd : KernelOpen(Me, device_, fd) /\ fileDesc_' = fd
    BY <1>3 DEF OpenSucceeds
  <2>2. owner'[fd] = Me
    BY <2>1 DEF KernelOpen, OwnershipInv, TypeInv, TypeOK, DescriptorsTypeOK
  <2> QED
    BY <1>3, <2>1, <2>2 DEF OpenSucceeds, OpenWasAssigned, OwnsItsDescriptor
<1> QED
  BY <1>1, <1>2, <1>3 DEF Open

LEMMA CloseOwns ==
  ASSUME OwnershipInv, NEW op, CloseBody(op)
  PROVE  (OpenWasAssigned /\ OwnsItsDescriptor)'
<1>1. CASE CloseNothing(op)
  BY <1>1, OwnershipKept DEF CloseNothing
<1>2. CASE CloseSucceeds(op)
  BY <1>2 DEF CloseSucceeds, ClosedDescriptor, OpenWasAssigned, OwnsItsDescriptor
<1>3. CASE CloseReportsError(op)
  BY <1>3 DEF CloseReportsError, OpenWasAssigned, OwnsItsDescriptor, OwnershipInv
<1>4. CASE CloseBadDescriptor(op)
  BY <1>4, OwnershipKept DEF CloseBadDescriptor
<1> QED
  BY <1>1, <1>2, <1>3, <1>4 DEF CloseBody

LEMMA OthersOwn ==
  ASSUME OwnershipInv, OthersStep
  PROVE  (OpenWasAssigned /\ OwnsItsDescriptor)'
<1>1. UNCHANGED <<state_, fileDesc_, fdStatus>>
  BY DEF OthersStep, objectVars
<1>2. ASSUME NEW fd \in Fd, owner[fd] = Me
      PROVE  owner'[fd] = Me
  BY <1>2, OthersKeepMine DEF OthersStep, OwnershipInv, TypeInv, TypeOK
<1> QED
  BY <1>1, <1>2 DEF OwnershipInv, OpenWasAssigned, OwnsItsDescriptor

LEMMA OwnershipStep == OwnershipInv /\ [Next]_vars => OwnershipInv'
<1> SUFFICES ASSUME OwnershipInv, [Next]_vars
             PROVE  (OpenWasAssigned /\ OwnsItsDescriptor)'
  BY TypeStep DEF OwnershipInv
<1>1. CASE Construct
  BY <1>1, ConstructShape DEF Constructed, OpenWasAssigned, OwnsItsDescriptor
<1>2. CASE SettersStep
  BY <1>2, SettersShape, OwnershipKept DEF Setter
<1>3. CASE SetEcho \/ SetTimeout
  BY <1>3, OwnershipKept DEF SetEcho, SetTimeout, SetTimeoutTo
<1>4. CASE Open
  BY <1>4, OpenOwns
<1>5. CASE Close \/ Destroy
  BY <1>5, CloseOwns DEF Close, Destroy
<1>6. CASE Write \/ Read \/ Available
  BY <1>6, OwnershipKept DEF Write, Read, Available, objectVars
<1>7. CASE OthersStep
  BY <1>7, OthersOwn
<1>8. CASE Hangup
  BY <1>8, OwnershipKept DEF Hangup, KernelHangup, objectVars
<1>9. CASE UNCHANGED vars
  BY <1>9, OwnershipKept DEF vars
<1> QED
  BY <1>1, <1>2, <1>3, <1>4, <1>5, <1>6, <1>7, <1>8, <1>9 DEF Next, SettersStep

LEMMA OwnershipInit == Init => OwnershipInv
  BY InitType DEF Init, OwnershipInv, OpenWasAssigned, OwnsItsDescriptor

LEMMA Ownership == Spec => []OwnershipInv
  BY OwnershipInit, OwnershipStep, PTL DEF Spec

(* The descriptor that Open assigned is the object's own until Close.      *)
THEOREM DescriptorOwned == Spec => []OwnsItsDescriptor
  BY Ownership, PTL DEF OwnershipInv

-----------------------------------------------------------------------------
(* The line.  A port that is OPEN on a line keeps it as the data members   *)
(* say; a hang-up takes the line away from every descriptor at once.       *)

LineInv == OwnershipInv /\ LineAsAsked

(* ConfigureTermios with settings s on what f is, if f is a line.          *)
LEMMA ConfigureLine ==
  ASSUME tty \in [Tty -> TermiosType],
         NEW s \in Settings, BaudSupported(s), NEW f \in Tty
  PROVE  BehavesAs(s, ConfigureTermios(s, f)[f])
BY ConfiguredBehaves DEF ConfigureTermios

(* Nothing that the invariant looks at changes, except that the port may   *)
(* end up closed.                                                          *)
LEMMA LineKept ==
  ASSUME LineInv,
         UNCHANGED <<file, fileDesc_, fdStatus, settings, tty>>,
         state_' \in {state_, "CLOSED"}
  PROVE  LineAsAsked'
BY DEF LineInv, LineAsAsked, OpenOnLine, FileOf

(* The line of the descriptor has just been configured.                    *)
LEMMA LineConfigured ==
  ASSUME LineInv, settings' \in Settings,
         UNCHANGED <<file, fileDesc_>>,
         tty' = ConfigureTermios(settings', FileOf(fileDesc_))
  PROVE  LineAsAsked'
<1>1. FileOf(fileDesc_)' = FileOf(fileDesc_)
  BY DEF FileOf
<1>2. tty \in [Tty -> TermiosType]
  BY DEF LineInv, OwnershipInv, TypeInv, TypeOK
<1> QED
  BY <1>1, <1>2, ConfigureLine DEF LineAsAsked, OpenOnLine

LEMMA SettersLine ==
  ASSUME LineInv, TypeInv', SettersStep
  PROVE  LineAsAsked'
<1>1. \E op \in {"Set", "SetDevice"} : Setter(op, settings')
  BY SettersShape
<1>2. UNCHANGED <<file, fileDesc_, fdStatus, state_>>
      /\ settings' \in Settings
  BY <1>1 DEF Setter, TypeInv, TypeOK
<1>3. CASE state_ = "OPEN"
  BY <1>1, <1>2, <1>3, LineConfigured DEF Setter
<1>4. CASE state_ # "OPEN"
  BY <1>2, <1>4 DEF LineAsAsked, OpenOnLine
<1> QED
  BY <1>3, <1>4

LEMMA EchoLine ==
  ASSUME LineInv, TypeInv', SetEcho
  PROVE  LineAsAsked'
<1>1. /\ tty' = ConfigureTermios(settings', FileOf(fileDesc_))
      /\ UNCHANGED <<file, fileDesc_>>
      /\ settings' \in Settings
  BY DEF SetEcho, TypeInv, TypeOK
<1> QED
  BY <1>1, LineConfigured

(* SetTimeout would leave the line behind if it ran on an open port.       *)
LEMMA TimeoutLine ==
  ASSUME LineInv, SetTimeout
  PROVE  LineAsAsked'
<1>1. CASE state_ = "OPEN"
  <2>1. UNCHANGED <<file, fileDesc_, fdStatus, settings, tty, state_>>
    BY <1>1 DEF SetTimeout, SetTimeoutTo, SetTimeoutAllowed
  <2> QED
    BY <2>1, LineKept
<1>2. CASE state_ # "OPEN"
  BY <1>2 DEF SetTimeout, SetTimeoutTo, LineAsAsked, OpenOnLine
<1> QED
  BY <1>1, <1>2

LEMMA OpenLine ==
  ASSUME LineInv, Open
  PROVE  LineAsAsked'
<1>1. CASE OpenWithoutDevice
  BY <1>1, LineKept DEF OpenWithoutDevice, objectVars
<1>2. CASE OpenFails
  <2>1. FileOf(fileDesc_)' = NoFile
    BY <1>2 DEF OpenFails, FileOf
  <2>2. NoFile \notin Tty
    OBVIOUS
  <2> QED
    BY <2>1, <2>2 DEF LineAsAsked, OpenOnLine
<1>3. CASE OpenSucceeds
  <2>1. PICK fd \in Fd : KernelOpen(Me, device_, fd) /\ fileDesc_' = fd
    BY <1>3 DEF OpenSucceeds
  <2>2. FileOf(fileDesc_)' = device_
    BY <2>1
       DEF FileOf, KernelOpen, LineInv, OwnershipInv, TypeInv, TypeOK,
           DescriptorsTypeOK
  <2>3. settings \in Settings /\ tty \in [Tty -> TermiosType]
    BY DEF LineInv, OwnershipInv, TypeInv, TypeOK
  <2>4. settings' = settings /\ tty' = ConfigureTermios(settings, device_)
    BY <1>3 DEF OpenSucceeds
  <2> QED
    BY <2>2, <2>3, <2>4, ConfigureLine DEF LineAsAsked, OpenOnLine
<1> QED
  BY <1>1, <1>2, <1>3 DEF Open

LEMMA CloseLine ==
  ASSUME LineInv, Close \/ Destroy
  PROVE  LineAsAsked'
<1>1. PICK op \in {"Close", "Destroy"} : CloseBody(op)
  BY DEF Close, Destroy
<1>2. UNCHANGED <<settings, tty>>
  BY DEF Close, Destroy
<1>3. CASE CloseNothing(op)
  BY <1>2, <1>3, LineKept DEF CloseNothing
<1>4. CASE CloseSucceeds(op)
  BY <1>4 DEF CloseSucceeds, LineAsAsked, OpenOnLine
<1>5. CASE CloseReportsError(op)
  BY <1>5 DEF CloseReportsError, LineAsAsked, OpenOnLine
<1>6. CASE CloseBadDescriptor(op)
  BY <1>2, <1>6, LineKept DEF CloseBadDescriptor
<1> QED
  BY <1>1, <1>3, <1>4, <1>5, <1>6 DEF CloseBody

LEMMA OthersLine ==
  ASSUME LineInv, OthersStep
  PROVE  LineAsAsked'
<1>1. UNCHANGED <<state_, fileDesc_, fdStatus, settings, tty>>
  BY DEF OthersStep, objectVars
<1>2. CASE fdStatus = "assigned" /\ fileDesc_ # -1
  <2>1. fileDesc_ \in Fd /\ owner[fileDesc_] = Me
    BY <1>2 DEF LineInv, OwnershipInv, OwnsItsDescriptor
  <2>2. file'[fileDesc_] = file[fileDesc_]
    BY <2>1, OthersKeepMine
       DEF OthersStep, LineInv, OwnershipInv, TypeInv, TypeOK
  <2> QED
    BY <1>1, <2>1, <2>2 DEF LineInv, LineAsAsked, OpenOnLine, FileOf
<1>3. CASE fdStatus # "assigned"
  BY <1>1, <1>3 DEF LineAsAsked, OpenOnLine
<1>4. CASE fileDesc_ = -1
  BY <1>1, <1>4 DEF LineInv, LineAsAsked, OpenOnLine, FileOf
<1> QED
  BY <1>2, <1>3, <1>4

LEMMA HangupLine ==
  ASSUME LineInv, Hangup
  PROVE  LineAsAsked'
<1>1. PICK d \in Tty, t \in InitialTermios :
        KernelHangup(d) /\ tty' = [tty EXCEPT ![d] = t]
  BY DEF Hangup
<1>2. UNCHANGED <<state_, fileDesc_, fdStatus, settings>>
  BY DEF Hangup, KernelHangup, objectVars
<1>3. ASSUME OpenOnLine'
      PROVE  /\ OpenOnLine
             /\ FileOf(fileDesc_)' = FileOf(fileDesc_)
             /\ FileOf(fileDesc_) # d
  BY <1>1, <1>2, <1>3 DEF OpenOnLine, FileOf, KernelHangup
<1>4. tty \in [Tty -> TermiosType]
  BY DEF LineInv, OwnershipInv, TypeInv, TypeOK
<1> QED
  BY <1>1, <1>2, <1>3, <1>4 DEF LineInv, LineAsAsked, OpenOnLine

LEMMA LineStep == LineInv /\ [Next]_vars => LineInv'
<1> SUFFICES ASSUME LineInv, [Next]_vars
             PROVE  LineAsAsked'
  BY OwnershipStep DEF LineInv
<1>0. TypeInv'
  BY TypeStep DEF LineInv, OwnershipInv
<1>1. CASE Construct
  BY <1>1, ConstructShape DEF Constructed, LineAsAsked, OpenOnLine
<1>2. CASE SettersStep
  BY <1>0, <1>2, SettersLine
<1>3. CASE SetEcho
  BY <1>0, <1>3, EchoLine
<1>4. CASE SetTimeout
  BY <1>4, TimeoutLine
<1>5. CASE Open
  BY <1>5, OpenLine
<1>6. CASE Close \/ Destroy
  BY <1>6, CloseLine
<1>7. CASE Write \/ Read \/ Available
  BY <1>7, LineKept DEF Write, Read, Available, objectVars
<1>8. CASE OthersStep
  BY <1>8, OthersLine
<1>9. CASE Hangup
  BY <1>9, HangupLine
<1>10. CASE UNCHANGED vars
  BY <1>10, LineKept DEF vars
<1> QED
  BY <1>1, <1>2, <1>3, <1>4, <1>5, <1>6, <1>7, <1>8, <1>9, <1>10 DEF Next, SettersStep

LEMMA LineInit == Init => LineInv
  BY OwnershipInit DEF Init, LineInv, LineAsAsked, OpenOnLine

(* An open line behaves as its port was asked for, whatever was called in  *)
(* between and whatever the line was set to before.                        *)
THEOREM LineBehaves == Spec => []LineAsAsked
<1>1. Spec => []LineInv
  BY LineInit, LineStep, PTL DEF Spec
<1> QED
  BY <1>1, PTL DEF LineInv

-----------------------------------------------------------------------------
(* What a step may never do                                                *)

LEMMA ForeignStep ==
  ASSUME OwnershipInv, Next,
         NEW fd \in Fd, call'.op # "none",
         owner[fd] \notin {Me, Nobody}, owner'[fd] # owner[fd]
  PROVE  fdStatus # "assigned"
<1>1. owner \in [Fd -> Holder \cup {Nobody}]
  BY DEF OwnershipInv, TypeInv, TypeOK, DescriptorsTypeOK
<1>2. CASE Open
  BY <1>1, <1>2
     DEF Open, OpenWithoutDevice, OpenFails, OpenSucceeds, objectVars,
         KernelOpen, LowestUnused, Unused
<1>3. CASE Close \/ Destroy
  <2>1. PICK op \in {"Close", "Destroy"} : CloseBody(op)
    BY <1>3 DEF Close, Destroy
  <2>2. KernelClose(fileDesc_) /\ fileDesc_ # -1
    BY <2>1
       DEF CloseBody, CloseNothing, CloseSucceeds, CloseReportsError,
           CloseBadDescriptor, HasDescriptor
  <2>3. fd = fileDesc_
    BY <1>1, <2>2 DEF KernelClose
  <2> QED
    BY <2>2, <2>3 DEF OwnershipInv, OwnsItsDescriptor
<1>4. CASE OthersStep \/ Hangup
  BY <1>4 DEF OthersStep, Hangup, NoCall
<1>5. CASE Construct \/ SettersStep
  BY <1>5, ConstructShape, SettersShape DEF Constructed, Setter
<1>6. CASE SetEcho \/ SetTimeout \/ Write \/ Read \/ Available
  BY <1>6 DEF SetEcho, SetTimeout, SetTimeoutTo, Write, Read, Available
<1> QED
  BY <1>2, <1>3, <1>4, <1>5, <1>6 DEF Next, SettersStep

(* Between Open and Close no call can release a descriptor that belongs to *)
(* another part of the program.                                            *)
THEOREM ForeignSafe == Spec => ForeignDescriptorsSafe
<1>1. OwnershipInv /\ [Next]_vars =>
        [\A fd \in Fd :
           /\ call'.op # "none"
           /\ owner[fd] \notin {Me, Nobody} /\ owner'[fd] # owner[fd]
           => fdStatus # "assigned"]_vars
  BY ForeignStep
<1> QED
  BY <1>1, Ownership, PTL DEF Spec, ForeignDescriptorsSafe

LEMMA IoStep ==
  ASSUME OwnershipInv, Next,
         call'.op \in {"Write", "Available", "Set", "SetDevice"},
         IsOpen(call'.fd)
  PROVE  owner[call'.fd] = Me \/ fdStatus = "stale"
<1>1. ~ IsOpen(-1)
  BY DEF IsOpen
<1>2. ~ Construct
  <2> SUFFICES ASSUME Construct PROVE FALSE
    OBVIOUS
  <2>1. PICK d \in Device \cup {NoDevice} : Constructed(d, settings')
    BY ConstructShape
  <2>2. call'.op = "Construct"
    BY <2>1 DEF Constructed, Return
  <2> QED
    BY <2>2
<1>3. ~ (Open \/ Close \/ Destroy)
  BY DEF Open, OpenWithoutDevice, OpenFails, OpenSucceeds, Close, Destroy,
         CloseBody, CloseNothing, CloseSucceeds, CloseReportsError,
         CloseBadDescriptor, Return
<1>4. ~ (SetEcho \/ SetTimeout \/ Read \/ OthersStep \/ Hangup)
  <2>1. ~ SetEcho
    <3>1. SetEcho => call'.op = "SetEcho"
      BY DEF SetEcho, Return
    <3> QED
      BY <3>1
  <2>2. ~ SetTimeout
    BY DEF SetTimeout, SetTimeoutTo, Return
  <2>3. ~ (Read \/ OthersStep \/ Hangup)
    BY DEF Read, OthersStep, Hangup, NoCall, Return
  <2> QED
    BY <2>1, <2>2, <2>3
<1>5. call'.fd = fileDesc_ /\ state_ = "OPEN"
  <2>1. CASE SettersStep
    BY <1>1, <2>1, SettersShape DEF Setter, Return
  <2>2. CASE Write
    BY <1>1, <2>2 DEF Write, WriteAllowed, Return
  <2>3. CASE Available
    BY <1>1, <2>3 DEF Available, Return
  <2> QED
    BY <1>2, <1>3, <1>4, <2>1, <2>2, <2>3 DEF Next, SettersStep
<1>6. fdStatus \in {"assigned", "stale"} /\ fileDesc_ # -1
  BY <1>1, <1>5
     DEF OwnershipInv, OpenWasAssigned, TypeInv, TypeOK, FdStatus
<1> QED
  BY <1>5, <1>6 DEF OwnershipInv, OwnsItsDescriptor

(* Write, Available and the setters of an open port never reach a          *)
(* descriptor of another part of the program, unless a Close failed.       *)
THEOREM IoOwned == Spec => IoOnOwnDescriptor
<1>1. OwnershipInv /\ [Next]_vars =>
        [/\ call'.op \in {"Write", "Available", "Set", "SetDevice"}
         /\ IsOpen(call'.fd)
         => owner[call'.fd] = Me \/ fdStatus = "stale"]_vars
  BY IoStep
<1> QED
  BY <1>1, Ownership, PTL DEF Spec, IoOnOwnDescriptor

(* Whatever the destructor's Close ran into, the number it leaves behind   *)
(* names nothing of the object's.                                          *)
DestroyedHoldsNothing ==
  ~ alive => ~ (fileDesc_ \in Fd /\ owner[fileDesc_] = Me)

LEMMA DestroyedStep ==
  OwnershipInv /\ DestroyedHoldsNothing /\ [Next]_vars => DestroyedHoldsNothing'
<1> SUFFICES ASSUME OwnershipInv, DestroyedHoldsNothing, [Next]_vars, ~ alive',
                    fileDesc_' \in Fd, owner'[fileDesc_'] = Me
             PROVE  FALSE
  BY DEF DestroyedHoldsNothing
<1>1. owner \in [Fd -> Holder \cup {Nobody}] /\ DescriptorsTypeOK
  BY DEF OwnershipInv, TypeInv, TypeOK, DescriptorsTypeOK
<1>2. CASE Destroy
  <2>1. CloseBody("Destroy")
    BY <1>2 DEF Destroy
  <2> QED
    BY <1>1, <2>1
       DEF CloseBody, CloseNothing, CloseSucceeds, CloseReportsError,
           CloseBadDescriptor, HasDescriptor, ClosedDescriptor, KernelClose,
           IsOpen, Unused
<1>3. CASE OthersStep
  <2>1. fileDesc_' = fileDesc_ /\ ~ alive
    BY <1>3 DEF OthersStep, objectVars
  <2>2. CASE OthersOpen(Me)
    <3>1. PICK who \in Holder \ {Me}, n \in Fd : KernelOpen(who, Elsewhere, n)
      BY <2>2 DEF OthersOpen
    <3> QED
      BY <1>1, <2>1, <3>1 DEF KernelOpen, DestroyedHoldsNothing
  <2>3. CASE OthersClose(Me)
    BY <1>1, <2>1, <2>3 DEF OthersClose, KernelClose, DestroyedHoldsNothing
  <2> QED
    BY <1>3, <2>2, <2>3 DEF OthersStep
<1>4. CASE Hangup \/ UNCHANGED vars
  BY <1>4 DEF Hangup, KernelHangup, objectVars, vars, DestroyedHoldsNothing
<1>5. CASE Next /\ ~ (Destroy \/ OthersStep \/ Hangup)
  <2>1. ~ Construct
    BY ConstructShape DEF Constructed
  <2>2. ~ Open
    BY DEF Open, OpenWithoutDevice, OpenFails, OpenSucceeds, objectVars
  <2>3. ~ SettersStep
    BY SettersShape DEF Setter
  <2>4. ~ (SetEcho \/ SetTimeout \/ Close \/ Write \/ Read \/ Available)
    BY DEF SetEcho, SetTimeout, SetTimeoutTo, Close, Write, Read, Available, objectVars
  <2> QED
    BY <1>5, <2>1, <2>2, <2>3, <2>4 DEF Next, SettersStep
<1> QED
  BY <1>2, <1>3, <1>4, <1>5

LEMMA LeakStep ==
  ASSUME OwnershipInv, DestroyedHoldsNothing, Next,
         NEW fd \in Leaked', fd \notin Leaked
  PROVE  call'.op = "Open" /\ fileDesc_ # -1
<1>1. owner \in [Fd -> Holder \cup {Nobody}] /\ DescriptorsTypeOK
  BY DEF OwnershipInv, TypeInv, TypeOK, DescriptorsTypeOK
<1>2. fd \in Fd /\ owner'[fd] = Me /\ fd # fileDesc_'
      /\ (owner[fd] # Me \/ fd = fileDesc_)
  BY DEF Leaked
<1>3. fd # -1
  BY <1>2
<1>4. CASE Construct
  BY <1>2, <1>4, ConstructShape DEF Constructed, DestroyedHoldsNothing
<1>5. CASE Open
  BY <1>1, <1>2, <1>3, <1>5
     DEF Open, OpenWithoutDevice, OpenFails, OpenSucceeds, objectVars,
         KernelOpen, Return
<1>6. CASE Close \/ Destroy
  <2>1. PICK op \in {"Close", "Destroy"} : CloseBody(op)
    BY <1>6 DEF Close, Destroy
  <2> QED
    BY <1>1, <1>2, <2>1
       DEF CloseBody, CloseNothing, CloseSucceeds, CloseReportsError,
           CloseBadDescriptor, KernelClose
<1>7. CASE OthersStep
  <2>1. fileDesc_' = fileDesc_
    BY <1>7 DEF OthersStep, objectVars
  <2>2. CASE OthersOpen(Me)
    <3>1. PICK who \in Holder \ {Me}, n \in Fd : KernelOpen(who, Elsewhere, n)
      BY <2>2 DEF OthersOpen
    <3> QED
      BY <1>1, <1>2, <2>1, <3>1 DEF KernelOpen
  <2>3. CASE OthersClose(Me)
    BY <1>1, <1>2, <2>1, <2>3 DEF OthersClose, KernelClose
  <2> QED
    BY <1>7, <2>2, <2>3 DEF OthersStep
<1>8. CASE \/ SettersStep \/ SetEcho \/ SetTimeout
           \/ Write \/ Read \/ Available \/ Hangup
  <2>1. UNCHANGED <<owner, fileDesc_>>
    BY <1>8, SettersShape
       DEF Setter, SetEcho, SetTimeout, SetTimeoutTo, Write, Read, Available, Hangup, KernelHangup,
           objectVars
  <2> QED
    BY <1>2, <2>1
<1> QED
  BY <1>4, <1>5, <1>6, <1>7, <1>8 DEF Next, SettersStep

(* Only re-opening a port that has a descriptor loses one.                 *)
THEOREM LeakByReopen == Spec => LeakOnlyByReopen
<1>1. OwnershipInv /\ DestroyedHoldsNothing /\ [Next]_vars =>
        [~ (Leaked' \subseteq Leaked) => call'.op = "Open" /\ fileDesc_ # -1]_vars
  BY LeakStep
<1>2. Init => DestroyedHoldsNothing
  BY DEF Init, DescriptorsInit, DestroyedHoldsNothing
<1>3. Spec => []DestroyedHoldsNothing
  BY <1>2, DestroyedStep, Ownership, PTL DEF Spec
<1> QED
  BY <1>1, <1>3, Ownership, PTL DEF Spec, LeakOnlyByReopen

LEMMA ThrowStep ==
  ASSUME Next, call'.ret # "ok"
  PROVE  UNCHANGED tty
<1>1. CASE \/ Construct \/ Close \/ Destroy \/ Write \/ Read \/ Available
           \/ SetTimeout
  BY <1>1, ConstructShape
     DEF Constructed, Close, Destroy, Write, Read, Available, SetTimeout, SetTimeoutTo
<1>2. CASE Open
  BY <1>2
     DEF Open, OpenWithoutDevice, OpenFails, OpenSucceeds, ConfigureTermios,
         ConfigureOutcome, Return
<1>3. CASE SettersStep
  BY <1>3, SettersShape DEF Setter, ConfigureTermios, ConfigureOutcome, Return
<1>4. CASE SetEcho
  BY <1>4 DEF SetEcho, ConfigureTermios, ConfigureOutcome, Return
<1>5. CASE OthersStep \/ Hangup
  BY <1>5 DEF OthersStep, Hangup, NoCall
<1> QED
  BY <1>1, <1>2, <1>3, <1>4, <1>5 DEF Next, SettersStep

(* A call that throws configures nothing.                                  *)
THEOREM ThrowHarmless == Spec => ThrowLeavesLines
<1>1. [Next]_vars => [call'.ret # "ok" => UNCHANGED tty]_vars
  BY ThrowStep
<1> QED
  BY <1>1, PTL DEF Spec, ThrowLeavesLines

-----------------------------------------------------------------------------
(* SerialSession                                                           *)

USE DescriptorsAssumption, SerialPortAssumption, SessionAssumption

Mine == {fd \in Fd : owner[fd] = Me}

(* What the refinement needs of a session: the object owns what it says it *)
(* holds, Open comes first and comes once, and the destructor's Close      *)
(* finds the work done.                                                    *)
SessionInv ==
  /\ DescriptorsTypeOK
  /\ device_ \in Device \cup {NoDevice}
  /\ pc \in DOMAIN After \cup Ended
  /\ Mine = Held
  /\ pc \in {"construct", "timeout", "open"} => fdStatus = "uninit"
  /\ pc \in {"write", "read1", "read2", "close"} => fdStatus = "assigned"
  /\ pc \in {"destroy", "returned"} => fileDesc_ = -1

LEMMA SessionInitInv == SessionInit => SessionInv
  BY DEF SessionInit, Init, DescriptorsInit, DescriptorsTypeOK, File,
         SessionInv, Mine, Held, After, Ended

(* Calls that leave the descriptors alone.                                 *)
LEMMA Quiet ==
  ASSUME SessionInv,
         UNCHANGED <<owner, file, fileDesc_, fdStatus, device_>>,
         NEW p \in {"timeout", "write", "read1", "read2"}, pc = p,
         pc' \in {After[p], "uncaught"}
  PROVE  SessionInv' /\ Held' = Held
BY DEF SessionInv, DescriptorsTypeOK, Mine, Held, After, Ended

LEMMA ConstructHolds ==
  ASSUME SessionInv, ConstructPort
  PROVE  SessionInv' /\ UNCHANGED <<owner, file, Held>>
BY DEF ConstructPort, Calls, Constructed, SessionInv, DescriptorsTypeOK, Mine,
       Held, After, Ended

LEMMA TimeoutHolds ==
  ASSUME SessionInv, SetReadTimeout
  PROVE  SessionInv' /\ UNCHANGED <<owner, file, Held>>
BY Quiet DEF SetReadTimeout, Calls, SetTimeoutTo

LEMMA OpenHolds ==
  ASSUME SessionInv, OpenAtOnce \/ OpenGivesUp
  PROVE  SessionInv' /\ (Holding!Acquire \/ UNCHANGED <<owner, file, Held>>)
<1>1. /\ Open /\ pc = "open" /\ fdStatus = "uninit"
      /\ pc' \in {"write", "uncaught"}
  BY DEF OpenAtOnce, OpenGivesUp, Open, Calls, SessionInv, After
<1>2. Held = {} /\ Mine = {}
  BY <1>1 DEF SessionInv, Held
<1>3. CASE OpenWithoutDevice
  <2>1. pc' = "uncaught"
    BY <1>3 DEF OpenAtOnce, OpenGivesUp, Calls, OpenWithoutDevice, Return
  <2> QED
    BY <1>1, <1>2, <1>3, <2>1
       DEF OpenWithoutDevice, objectVars, SessionInv, DescriptorsTypeOK, Mine,
           Held, Ended
<1>4. CASE OpenFails
  <2>1. pc' = "uncaught"
    BY <1>4 DEF OpenAtOnce, OpenGivesUp, Calls, OpenFails, Return
  <2> QED
    BY <1>2, <1>4, <2>1
       DEF OpenFails, SessionInv, DescriptorsTypeOK, Mine, Held, Ended
<1>5. CASE OpenSucceeds
  <2>1. PICK fd \in Fd : KernelOpen(Me, device_, fd) /\ fileDesc_' = fd
    BY <1>5 DEF OpenSucceeds
  <2>2. device_ \in File /\ device_' = device_ /\ fdStatus' = "assigned"
    BY <1>5 DEF OpenSucceeds, SessionInv, File
  <2>3. Held' = {fd}
    BY <1>1, <2>1, <2>2 DEF Held
  <2>4. DescriptorsTypeOK'
    BY <2>1, <2>2
       DEF KernelOpen, LowestUnused, Unused, SessionInv, DescriptorsTypeOK, File
  <2>5. Mine' = {fd}
    BY <1>2, <2>1 DEF KernelOpen, Mine, SessionInv, DescriptorsTypeOK
  <2>6. SessionInv'
    BY <1>1, <2>2, <2>3, <2>4, <2>5 DEF SessionInv, After, Ended
  <2>7. Holding!Acquire
    BY <1>2, <2>1, <2>2, <2>3
       DEF Holding!Acquire, Holding!KernelOpen, Holding!LowestUnused,
           Holding!Unused, Holding!File, KernelOpen, LowestUnused, Unused, File
  <2> QED
    BY <2>6, <2>7
<1> QED
  BY <1>1, <1>3, <1>4, <1>5 DEF Open

LEMMA WriteHolds ==
  ASSUME SessionInv, WriteCommand
  PROVE  SessionInv' /\ UNCHANGED <<owner, file, Held>>
BY Quiet DEF WriteCommand, Calls, Write, objectVars

LEMMA ReadHolds ==
  ASSUME SessionInv, ReadAnswer \/ ReadFails
  PROVE  SessionInv' /\ UNCHANGED <<owner, file, Held>>
<1>1. PICK p \in {"read1", "read2"} : Calls(p, Read)
  BY DEF ReadAnswer, ReadFails, ReadDelivers, ReadThrows
<1>2. pc = p /\ pc' \in {After[p], "uncaught"} /\ Read
  BY <1>1 DEF Calls
<1> QED
  BY <1>2, Quiet DEF Read, objectVars

LEMMA CloseHolds ==
  ASSUME SessionInv, ClosePort
  PROVE  SessionInv' /\ (Holding!Release \/ UNCHANGED <<owner, file, Held>>)
<1>1. /\ CloseBody("Close") /\ pc = "close" /\ fdStatus = "assigned"
      /\ pc' \in {"destroy", "uncaught"} /\ device_' = device_
  BY DEF ClosePort, Close, Calls, SessionInv, After
<1>2. Held = {fileDesc_} \ {-1} /\ Mine = Held
  BY <1>1 DEF SessionInv, Held
<1>3. CASE CloseNothing("Close")
  <2>1. fileDesc_ = -1
    BY <1>3 DEF CloseNothing, HasDescriptor
  <2> QED
    BY <1>1, <1>2, <1>3, <2>1
       DEF CloseNothing, SessionInv, DescriptorsTypeOK, Mine, Held, After, Ended
<1>4. CASE CloseSucceeds("Close") \/ CloseReportsError("Close")
  <2>1. /\ KernelClose(fileDesc_) /\ fileDesc_ # -1
        /\ Held = {fileDesc_}
    BY <1>2, <1>4 DEF CloseSucceeds, CloseReportsError, HasDescriptor
  <2>2. Held' = {}
    BY <1>1, <1>4 DEF CloseSucceeds, CloseReportsError, ClosedDescriptor, Held
  <2>3. DescriptorsTypeOK'
    BY <2>1 DEF KernelClose, IsOpen, Unused, SessionInv, DescriptorsTypeOK, File
  <2>4. Mine' = {}
    BY <1>2, <2>1 DEF KernelClose, Mine, SessionInv, DescriptorsTypeOK
  <2>5. pc' = "destroy" => fileDesc_' = -1
    BY <1>4
       DEF CloseSucceeds, CloseReportsError, ClosedDescriptor, ClosePort, Calls,
           Return
  <2>6. SessionInv'
    BY <1>1, <2>2, <2>3, <2>4, <2>5 DEF SessionInv, After, Ended
  <2>7. Holding!Release
    BY <2>1, <2>2
       DEF Holding!Release, Holding!KernelClose, Holding!IsOpen, Holding!Unused,
           KernelClose, IsOpen, Unused
  <2> QED
    BY <2>6, <2>7
<1>5. CASE CloseBadDescriptor("Close")
  <2>1. fileDesc_ \in Mine
    BY <1>2, <1>5 DEF CloseBadDescriptor, HasDescriptor
  <2>2. IsOpen(fileDesc_)
    BY <2>1 DEF Mine, IsOpen, Unused
  <2> QED
    BY <1>5, <2>2 DEF CloseBadDescriptor
<1> QED
  BY <1>1, <1>3, <1>4, <1>5 DEF CloseBody

(* The destructor's Close finds no descriptor.                             *)
LEMMA DestroyHolds ==
  ASSUME SessionInv, DestroyPort
  PROVE  SessionInv' /\ UNCHANGED <<owner, file, Held>>
<1>1. /\ fileDesc_ = -1 /\ CloseBody("Destroy") /\ device_' = device_
      /\ pc = "destroy" /\ pc' = "returned"
  BY DEF DestroyPort, Destroy, SessionInv, After
<1>2. UNCHANGED <<owner, file, fileDesc_, fdStatus>>
  BY <1>1
     DEF CloseBody, CloseNothing, CloseSucceeds, CloseReportsError,
         CloseBadDescriptor, HasDescriptor
<1> QED
  BY <1>1, <1>2 DEF SessionInv, DescriptorsTypeOK, Mine, Held, After, Ended

LEMMA ExitHolds ==
  ASSUME SessionInv, Exit
  PROVE  SessionInv' /\ Holding!Exit
<1>1. Held' = {}
  BY DEF Exit, Held
<1>2. Mine' = {}
  BY DEF Exit, KernelExit, Mine
<1>3. DescriptorsTypeOK'
  BY DEF Exit, KernelExit, DescriptorsTypeOK
<1> QED
  BY <1>1, <1>2, <1>3
     DEF Exit, objectVars, SessionInv, Ended, Holding!Exit, Holding!KernelExit,
         KernelExit

LEMMA LineHolds ==
  ASSUME SessionInv, PeerSends \/ LineHangsUp \/ CarrierChanges
  PROVE  SessionInv' /\ (Holding!Disconnect \/ UNCHANGED <<owner, file, Held>>)
<1>1. CASE PeerSends \/ CarrierChanges
  <2>1. UNCHANGED <<owner, file, device_, fileDesc_, fdStatus, pc>>
    BY <1>1, Zenon
       DEF PeerSends, CarrierChanges, vars
  <2>2. UNCHANGED <<Held, Mine>>
    BY ONLY <2>1, Zenon DEF Held, Mine
  <2>3. DescriptorsTypeOK'
    BY ONLY <2>1, SessionInv, Zenon DEF SessionInv, DescriptorsTypeOK
  <2> QED
    BY ONLY <2>1, <2>2, <2>3, SessionInv, Zenon DEF SessionInv
<1>2. CASE LineHangsUp
  <2>1. PICK d \in Tty : KernelHangup(d)
    BY <1>2 DEF LineHangsUp, Hangup
  <2>2. UNCHANGED <<device_, fileDesc_, fdStatus, pc>>
    BY <1>2 DEF LineHangsUp, Hangup, objectVars
  <2>3. UNCHANGED Held
    BY <2>2 DEF Held
  <2>4. DescriptorsTypeOK' /\ UNCHANGED Mine
    BY <2>1 DEF KernelHangup, SessionInv, DescriptorsTypeOK, File, Mine
  <2>5. Holding!Disconnect
    BY <2>1, <2>3 DEF Holding!Disconnect, Holding!KernelHangup, KernelHangup
  <2> QED
    BY <2>2, <2>3, <2>4, <2>5 DEF SessionInv
<1> QED
  BY <1>1, <1>2

LEMMA SessionStep ==
  SessionInv /\ [SessionNext]_sessionVars
    => SessionInv' /\ [Holding!HolderNext]_(Holding!holderVars)
<1> SUFFICES ASSUME SessionInv, [SessionNext]_sessionVars
             PROVE  /\ SessionInv'
                    /\ [Holding!HolderNext]_(Holding!holderVars)
  OBVIOUS
<1> USE DEF Holding!HolderNext, Holding!holderVars
<1>1. CASE ConstructPort
  BY <1>1, ConstructHolds
<1>2. CASE SetReadTimeout
  BY <1>2, TimeoutHolds
<1>3. CASE OpenAtOnce \/ OpenGivesUp
  BY <1>3, OpenHolds
<1>4. CASE WriteCommand
  BY <1>4, WriteHolds
<1>5. CASE ClosePort
  BY <1>5, CloseHolds
<1>6. CASE DestroyPort
  BY <1>6, DestroyHolds
<1>7. CASE Exit
  BY <1>7, ExitHolds
<1>8. CASE ReadAnswer \/ ReadFails
  BY <1>8, ReadHolds
<1>9. CASE PeerSends \/ LineHangsUp \/ CarrierChanges
  BY <1>9, LineHolds
<1>10. CASE UNCHANGED sessionVars
  BY <1>10
     DEF sessionVars, vars, SessionInv, DescriptorsTypeOK, Mine, Held
<1> QED
  BY <1>1, <1>2, <1>3, <1>4, <1>5, <1>6, <1>7, <1>8, <1>9, <1>10
     DEF SessionNext, PlainCall

LEMMA SessionInitHolds == SessionInit => Holding!HolderInit
  BY DEF SessionInit, Init, DescriptorsInit, Held, Holding!HolderInit,
         Holding!DescriptorsInit

(* A session holds one descriptor at most, its own, and gives it back once *)
(* or leaves it to the end of the process.                                 *)
THEOREM SessionHoldsOneDescriptor == SessionSpec => HoldsOneDescriptor
  BY SessionInitInv, SessionInitHolds, SessionStep, PTL
     DEF SessionSpec, HoldsOneDescriptor, Holding!HolderSpec

-----------------------------------------------------------------------------
(* What the two reads of a session find                                    *)

(* The timeout that SetReadTimeout stored is the one that Open configures, *)
(* so that the line, while it is one, returns at least one byte.           *)
ReadInv ==
  /\ TypeInv
  /\ pc \in DOMAIN After \cup Ended
  /\ rx \in 0 .. MaxRx
  /\ got \in 0 .. BufferSize
  /\ carrier \in BOOLEAN
  /\ pc = "open" => settings.timeout_ms_ = Forever
  /\ pc \in {"write", "read1", "read2"} /\ FileOf(fileDesc_) = UsbTty
       => tty[UsbTty].vmin # 0
  /\ EmptyReadMeansHangup

LEMMA NotARead == call'.op # "Read" => EmptyReadMeansHangup'
  BY DEF EmptyReadMeansHangup

LEMMA ConstructReads ==
  ASSUME ReadInv, ConstructPort, UNCHANGED <<rx, got, carrier>>
  PROVE  ReadInv'
<1>1. Constructed(UsbTty, SessionSettings) /\ pc' \in {"timeout", "uncaught"}
  BY DEF ConstructPort, Calls, After
<1>2. SessionSettings \in Settings /\ SpeedAssigned(SessionSettings)
  <2>1. "B_115200" \in BaudRate /\ "EIGHT" \in NumDataBits
    BY DEF BaudRate, Speed, NumDataBits, CharBits
  <2> QED
    BY <2>1, DefaultSettingsType
       DEF SessionSettings, Settings, SpeedAssigned, DefaultSettings, Parity,
           NumStopBits
<1>3. TypeInv'
  BY <1>1, <1>2, ConstructedType DEF ReadInv
<1>4. EmptyReadMeansHangup'
  BY <1>1, NotARead DEF Constructed, Return
<1> QED
  BY <1>1, <1>3, <1>4 DEF ReadInv, After, Ended

LEMMA TimeoutReads ==
  ASSUME ReadInv, SetReadTimeout, UNCHANGED <<rx, got, carrier>>
  PROVE  ReadInv'
<1>1. SetTimeoutTo(Forever) /\ pc' = IF call'.ret = "ok" THEN "open" ELSE "uncaught"
  BY DEF SetReadTimeout, Calls, After
<1>2. TypeInv'
  BY <1>1, TimeoutType DEF ReadInv, Forever
<1>3. EmptyReadMeansHangup'
  BY <1>1, NotARead DEF SetTimeoutTo, Return
<1>4. call'.ret = "ok" => settings'.timeout_ms_ = Forever
  <2>1. settings \in Settings
    BY DEF ReadInv, TypeInv, TypeOK
  <2> QED
    BY <1>1, <2>1 DEF SetTimeoutTo, Return, Settings
<1> QED
  BY <1>1, <1>2, <1>3, <1>4 DEF ReadInv, After, Ended

LEMMA OpenReads ==
  ASSUME ReadInv, OpenAtOnce \/ OpenGivesUp, UNCHANGED <<rx, got, carrier>>
  PROVE  ReadInv'
<1>1. /\ Open /\ settings.timeout_ms_ = Forever
      /\ pc' = IF call'.ret = "ok" THEN "write" ELSE "uncaught"
  BY DEF OpenAtOnce, OpenGivesUp, Open, Calls, After, ReadInv
<1>2. TypeInv'
  BY <1>1, OpenType DEF ReadInv
<1>3. EmptyReadMeansHangup'
  BY <1>1, NotARead DEF Open, OpenWithoutDevice, OpenFails, OpenSucceeds, Return
<1>4. ASSUME call'.ret = "ok", FileOf(fileDesc_)' = UsbTty
      PROVE  tty'[UsbTty].vmin # 0
  <2>1. OpenSucceeds
    BY <1>1, <1>4 DEF Open, OpenWithoutDevice, OpenFails, Return
  <2>2. PICK fd \in Fd : /\ KernelOpen(Me, device_, fd)
                         /\ fileDesc_' = fd
                         /\ Return("Open", ConfigureOutcome(settings), fd)
    BY <2>1 DEF OpenSucceeds
  <2>3. BaudSupported(settings)
    BY <1>4, <2>2 DEF Return, ConfigureOutcome
  <2>4. FileOf(fileDesc_)' = device_
    BY <2>2 DEF FileOf, KernelOpen, ReadInv, TypeInv, TypeOK, DescriptorsTypeOK
  <2>5. tty' = [tty EXCEPT ![UsbTty] = Configured(settings, tty[UsbTty])]
        /\ tty \in [Tty -> TermiosType]
    BY <1>4, <2>1, <2>3, <2>4
       DEF OpenSucceeds, ConfigureTermios, ReadInv, TypeInv, TypeOK
  <2>6. tty'[UsbTty] = Configured(settings, tty[UsbTty])
    BY <2>5
  <2> QED
    BY <1>1, <2>6 DEF Configured, VMin
<1> QED
  BY <1>1, <1>2, <1>3, <1>4 DEF ReadInv, After, Ended

LEMMA WriteReads ==
  ASSUME ReadInv, WriteCommand, UNCHANGED <<rx, got, carrier>>
  PROVE  ReadInv'
<1>1. /\ Write /\ pc = "write" /\ pc' \in {"read1", "uncaught"}
  BY DEF WriteCommand, Calls, After
<1>2. TypeInv'
  BY <1>1, IoType DEF ReadInv
<1>3. UNCHANGED <<owner, file, tty, fileDesc_>> /\ EmptyReadMeansHangup'
  BY <1>1, NotARead DEF Write, objectVars, Return
<1> QED
  BY <1>1, <1>2, <1>3 DEF ReadInv, After, Ended, FileOf

LEMMA ReadReads ==
  ASSUME ReadInv, ReadAnswer \/ ReadFails
  PROVE  ReadInv'
<1>1. PICK p \in {"read1", "read2"} : ReadDelivers(p) \/ ReadThrows(p)
  BY DEF ReadAnswer, ReadFails
<1>2. /\ Read /\ pc = p /\ pc' \in {"read2", "close", "uncaught"}
  BY <1>1 DEF ReadDelivers, ReadThrows, Calls, After
<1>3. TypeInv'
  BY <1>2, IoType DEF ReadInv
<1>4. UNCHANGED <<owner, file, tty, fileDesc_, carrier>>
  BY <1>1, <1>2 DEF ReadDelivers, ReadThrows, Read, objectVars
<1>5. CASE ReadDelivers(p)
  <2>1. got' \in ReadReturns
        /\ rx' = IF FileOf(fileDesc_) = UsbTty THEN rx - got' ELSE rx
    BY <1>5 DEF ReadDelivers
  <2>2. got' \in 0 .. BufferSize /\ rx' \in 0 .. MaxRx
    <3>1. ReadReturns \subseteq 0 .. BufferSize
      BY DEF ReadReturns, ReadCount
    <3>2. FileOf(fileDesc_) = UsbTty => got' <= rx
      BY <2>1 DEF ReadReturns
    <3>3. rx \in 0 .. MaxRx
      BY DEF ReadInv
    <3>4. got' \in 0 .. BufferSize
      BY <2>1, <3>1
    <3>5. rx' = rx \/ (got' <= rx /\ rx' = rx - got')
      BY <2>1, <3>2
    <3> QED
      BY ONLY <3>3, <3>4, <3>5, SessionAssumption
  <2>3. got' = 0 => FileOf(fileDesc_) # UsbTty
    <3>1. FileOf(fileDesc_) = UsbTty => tty[UsbTty].vmin # 0
      BY <1>2 DEF ReadInv
    <3> QED
      BY <2>1, <3>1 DEF ReadReturns, ReadCount
  <2>4. EmptyReadMeansHangup'
    BY <1>4, <2>3 DEF EmptyReadMeansHangup, FileOf
  <2> QED
    BY <1>2, <1>3, <1>4, <2>2, <2>4 DEF ReadInv, After, Ended, FileOf
<1>6. CASE ReadThrows(p)
  <2>1. got' = 0 /\ rx' = rx /\ EmptyReadMeansHangup'
    BY <1>6 DEF ReadThrows, EmptyReadMeansHangup
  <2> QED
    BY <1>2, <1>3, <1>4, <2>1 DEF ReadInv, After, Ended, FileOf
<1> QED
  BY <1>1, <1>5, <1>6

LEMMA CloseReads ==
  ASSUME ReadInv, ClosePort \/ DestroyPort, UNCHANGED <<rx, got, carrier>>
  PROVE  ReadInv'
<1>1. /\ Close \/ Destroy
      /\ pc' \in {"destroy", "returned", "uncaught"}
  BY DEF ClosePort, DestroyPort, Calls, After
<1>2. TypeInv'
  BY <1>1, CloseType DEF ReadInv
<1>3. EmptyReadMeansHangup'
  BY <1>1, NotARead
     DEF Close, Destroy, CloseBody, CloseNothing, CloseSucceeds,
         CloseReportsError, CloseBadDescriptor, Return
<1> QED
  BY <1>1, <1>2, <1>3 DEF ReadInv, After, Ended

LEMMA ExitReads ==
  ASSUME ReadInv, Exit, UNCHANGED <<rx, got, carrier>>
  PROVE  ReadInv'
<1>1. DescriptorsTypeOK'
  BY DEF Exit, KernelExit, DescriptorsTypeOK
<1>2. TypeInv'
  BY <1>1, NoCallType DEF Exit, objectVars, ReadInv, TypeInv, TypeOK
<1>3. EmptyReadMeansHangup'
  BY NotARead DEF Exit, NoCall
<1> QED
  BY <1>2, <1>3 DEF Exit, ReadInv, After, Ended

LEMMA PeerReads ==
  ASSUME ReadInv, PeerSends
  PROVE  ReadInv'
<1>1. UNCHANGED <<vars, pc, got, carrier>> /\ rx' = rx + 1 /\ rx < MaxRx
  BY DEF PeerSends
<1>2. TypeInv'
  BY <1>1, TypeStep DEF ReadInv
<1> QED
  BY <1>1, <1>2 DEF vars, ReadInv, EmptyReadMeansHangup, FileOf

LEMMA HangupReads ==
  ASSUME ReadInv, LineHangsUp
  PROVE  ReadInv'
<1>1. PICK d \in Tty, t \in InitialTermios :
        KernelHangup(d) /\ tty' = [tty EXCEPT ![d] = t]
  BY DEF LineHangsUp, Hangup
<1>2. /\ UNCHANGED <<pc, got, carrier, fileDesc_, settings>> /\ rx' = 0
      /\ call' = NoCall /\ Hangup
  BY DEF LineHangsUp, Hangup, objectVars
<1>3. TypeInv'
  BY <1>2, EnvironmentType DEF ReadInv
<1>4. EmptyReadMeansHangup'
  BY <1>2, NotARead DEF NoCall
<1>5. FileOf(fileDesc_)' = UsbTty
        => FileOf(fileDesc_) = UsbTty /\ tty'[UsbTty] = tty[UsbTty]
  BY <1>1, <1>2
     DEF FileOf, KernelHangup, ReadInv, TypeInv, TypeOK, DescriptorsTypeOK
<1> QED
  BY <1>2, <1>3, <1>4, <1>5 DEF ReadInv

LEMMA CarrierReads ==
  ASSUME ReadInv, CarrierChanges
  PROVE  ReadInv'
<1>1. UNCHANGED <<vars, pc, rx, got>> /\ carrier' \in BOOLEAN
  BY DEF CarrierChanges, ReadInv
<1>2. TypeInv'
  BY <1>1, TypeStep DEF ReadInv
<1> QED
  BY <1>1, <1>2 DEF vars, ReadInv, EmptyReadMeansHangup, FileOf

LEMMA ReadStep == ReadInv /\ [SessionNext]_sessionVars => ReadInv'
<1> SUFFICES ASSUME ReadInv, [SessionNext]_sessionVars PROVE ReadInv'
  OBVIOUS
<1>1. CASE PlainCall \/ OpenGivesUp
  BY <1>1, ConstructReads, TimeoutReads, OpenReads, WriteReads, CloseReads,
     ExitReads DEF PlainCall, OpenGivesUp
<1>2. CASE ReadAnswer \/ ReadFails
  BY <1>2, ReadReads
<1>3. CASE PeerSends
  BY <1>3, PeerReads
<1>4. CASE LineHangsUp \/ CarrierChanges
  BY <1>4, HangupReads, CarrierReads
<1>5. CASE UNCHANGED sessionVars
  <2>1. TypeInv'
    BY <1>5, TypeStep DEF sessionVars, ReadInv
  <2> QED
    BY <1>5, <2>1
       DEF sessionVars, vars, ReadInv, EmptyReadMeansHangup, FileOf
<1> QED
  BY <1>1, <1>2, <1>3, <1>4, <1>5 DEF SessionNext

LEMMA ReadInit == SessionInit => ReadInv
  BY InitType DEF SessionInit, Init, NoCall, ReadInv, After, EmptyReadMeansHangup

LEMMA Reads == SessionSpec => []ReadInv
  BY ReadInit, ReadStep, PTL DEF SessionSpec

(* The session keeps its types: no read takes more than is there or than   *)
(* the buffer holds.                                                       *)
THEOREM SessionTypeCorrect == SessionSpec => []SessionTypeOK
<1>1. ReadInv => SessionTypeOK
  BY DEF ReadInv, TypeInv, SessionTypeOK
<1> QED
  BY <1>1, Reads, PTL

(* LinuxSerial.cpp:34: an empty Read of the session means a hang-up.       *)
THEOREM EmptyReadIsHangup == SessionSpec => []EmptyReadMeansHangup
<1>1. ReadInv => EmptyReadMeansHangup
  BY DEF ReadInv
<1> QED
  BY <1>1, Reads, PTL

=============================================================================
