SPECIFICATION Spec
CONSTANTS
  Bodies <- Messages
  Empty = "none"
  Size <- Lengths
  NoHead = noHead
  MaxTurns = 3
  MaxDials = 3
INVARIANTS
  Framed
  InOrder
  IInv
PROPERTIES
  StopIsFinal
CHECK_DEADLOCK FALSE
