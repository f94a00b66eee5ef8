SPECIFICATION Spec
CONSTANTS
  ttyA = ttyA
  fileB = fileB
  me = me
  other = other
  nobody = nobody
  elsewhere = elsewhere
  noFile = noFile
  noDevice = noDevice
  Holder = {me, other}
  Nobody = nobody
  Elsewhere = elsewhere
  NoFile = noFile
  NoDevice = noDevice
  Me = me
  Tty = {ttyA}
  Device = {ttyA, fileB}
  Fd <- MCFd3
  UninitFd <- MCUninitFd
  InitialTermios <- MCOneTermios
  BaudInputs = {"B_CUSTOM"}
  SpeedInputs = {13000}
  DataBitsInputs = {}
  ParityInputs = {}
  StopBitsInputs = {}
  FlowInputs = {}
  TimeoutInputs = {}

INVARIANTS
  OwnsItsDescriptor

PROPERTIES
  ForeignDescriptorsSafe
  IoOnOwnDescriptor
  LeakOnlyByReopen
