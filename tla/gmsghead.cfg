SPECIFICATION Spec
CONSTANTS
  Tables <- CallTables
  NoWire = noWire
  NoTable = noTable
INVARIANTS
  RoundTrip
CHECK_DEADLOCK FALSE
