SPECIFICATION Spec
CONSTANTS
  Calls <- MCCalls
  Foreign <- MCForeign
  BufferSize = 80
  MaxAir = 1

INVARIANTS
  PrintsAddresses
