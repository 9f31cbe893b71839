SPECIFICATION Spec
PROPERTIES
  SendsToOpenSocket
CHECK_DEADLOCK FALSE
