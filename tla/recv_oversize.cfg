SPECIFICATION LiveSpec
CONSTANTS
  Bytes = {1, 3, 5}
  NUL = 0
  MAX_RECV_BUF = 4
  ReadPacket <- LengthPrefixed
  MaxReceived = 7
INVARIANTS
  TypeOK
  StreamIntact
  TerminatorInBounds
  NothingHeldBack
  LossIsReal
  IInv
PROPERTIES
  StreamSpec
  LoopAdvances
  DoRecvReturns
