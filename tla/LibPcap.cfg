SPECIFICATION Spec
CONSTANTS
  Agendas <- MCAgendas
  Lists <- MCLists
  Address <- MCAddress
CHECK_DEADLOCK FALSE

INVARIANTS
  PrintsOwnNet
  NamesAllDevices
PROPERTIES
  OnlyCaptureStays
