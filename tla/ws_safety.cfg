SPECIFICATION Spec
INVARIANTS
  SendsAfterUpgrade
  IInv
CHECK_DEADLOCK FALSE
