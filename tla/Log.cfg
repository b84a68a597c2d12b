CONSTANTS
  LogBuffer = 4
  Lines <- MCLines
  Memory = 12
  FreeLines = 1
  MaxTrouble = 1
  MaxLogged = 10
  Faults <- AnyFault
SPECIFICATION Spec
INVARIANTS
  TypeOK
  LoggedOnce
  NothingLost
  InOrder
  OnlyLongTailsOverrun
PROPERTIES
  SignalEnds
CHECK_DEADLOCK FALSE
