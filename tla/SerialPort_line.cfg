SPECIFICATION Spec
CONSTANTS
  ttyA = ttyA
  fileB = fileB
  me = me
  other = other
  nobody = nobody
  elsewhere = elsewhere
  noFile = noFile
  noDevice = noDevice
  Holder = {me, other}
  Nobody = nobody
  Elsewhere = elsewhere
  NoFile = noFile
  NoDevice = noDevice
  Me = me
  Tty = {ttyA}
  Device = {ttyA}
  Fd = {1}
  UninitFd <- MCUninitFdFew
  InitialTermios <- MCInitialTermios
  BaudInputs = {"B_CUSTOM"}
  SpeedInputs = {}
  DataBitsInputs = {"SEVEN"}
  ParityInputs = {"NONE", "EVEN", "ODD"}
  StopBitsInputs = {"ONE"}
  FlowInputs = {}
  TimeoutInputs <- MCTimeouts

INVARIANTS
  TypeOK
  LineAsAsked

PROPERTIES
  ThrowLeavesLines
