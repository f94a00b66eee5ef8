SPECIFICATION Spec
CONSTANTS
  ttyA = ttyA
  fileB = fileB
  me = me
  other = other
  nobody = nobody
  elsewhere = elsewhere
  noFile = noFile
  noDevice = noDevice
  Holder = {me, other}
  Nobody = nobody
  Elsewhere = elsewhere
  NoFile = noFile
  NoDevice = noDevice
  Me = me
  Tty = {ttyA}
  Device = {ttyA, fileB}
  Fd <- MCFd2
  UninitFd <- MCUninitFd
  InitialTermios <- MCOneTermios
  BaudInputs = {"B_9600"}
  SpeedInputs = {}
  DataBitsInputs = {}
  ParityInputs = {}
  StopBitsInputs = {}
  FlowInputs = {}
  TimeoutInputs = {}

INVARIANTS
  DestructorCloses
