SPECIFICATION Spec
CONSTANTS
  socket = socket
  lookup = lookup
  libc = libc
  nobody = nobody
  elsewhere = elsewhere
  noFile = noFile
  Socket = socket
  Lookup = lookup
  Holder = {socket, lookup, libc}
  Nobody = nobody
  Elsewhere = elsewhere
  NoFile = noFile
  Device = {}
  Repeats = 3
  Fd <- MCFd
  OnTheAir <- MCOnTheAir
  Agendas <- MCAgendas
CHECK_DEADLOCK FALSE

INVARIANTS
  RecognisesBatman
