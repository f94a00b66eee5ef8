SPECIFICATION SessionSpec
CONSTANTS
  ttyUSB0 = ttyUSB0
  me = me
  libc = libc
  nobody = nobody
  elsewhere = elsewhere
  noFile = noFile
  noDevice = noDevice
  Holder = {me, libc}
  Nobody = nobody
  Elsewhere = elsewhere
  NoFile = noFile
  NoDevice = noDevice
  Me = me
  Tty = {ttyUSB0}
  Device = {ttyUSB0}
  UsbTty = ttyUSB0
  Fd <- MCFd
  UninitFd <- MCUninitFd
  InitialTermios <- MCInitialTermios
  BufferSize = 2
  MaxRx = 4
  BaudInputs = {}
  SpeedInputs = {}
  DataBitsInputs = {}
  ParityInputs = {}
  StopBitsInputs = {}
  FlowInputs = {}
  TimeoutInputs = {}
CHECK_DEADLOCK FALSE

INVARIANTS
  SessionTypeOK
  EmptyReadMeansHangup

PROPERTIES
  HoldsOneDescriptor
  OnlyPeerBlocks
