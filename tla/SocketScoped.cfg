SPECIFICATION Spec
CONSTANTS
  a = a
  b = b
  c = c
  libc = libc
  nobody = nobody
  elsewhere = elsewhere
  noFile = noFile
  Objects = {a, b, c}
  Holder = {a, b, c, libc}
  Nobody = nobody
  Elsewhere = elsewhere
  NoFile = noFile
  Device = {}
  Fd <- MCFd
SYMMETRY Symmetry

INVARIANTS
  HandlesOwned
  NothingLeaks
  StrangersClosedOnlyByCopies
