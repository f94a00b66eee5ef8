SPECIFICATION Spec
CONSTANTS
  Calls <- MCCalls
  Foreign <- MCForeign
  BufferSize = 80
  MaxAir = 2

INVARIANTS
  PacketsTypeOK
  SaysWhatWasAsked
  ReceiverAccepts
  PrintsWhatCame
