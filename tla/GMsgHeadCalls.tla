--------------------------- MODULE GMsgHeadCalls ---------------------------
(***************************************************************************)
(* A caller of GMsgHead: a table is packed, in place, and what pack returns*)
(* is unpacked, unless pack throws.                                        *)
(***************************************************************************)
EXTENDS GMsgHead

CONSTANTS
  Tables,     \* the tables pack is called with; a field left out is Lua's nil
  NoWire,     \* no string: pack has not been called, or has thrown
  NoTable     \* no table: unpack has not been called

ASSUME TablesAssumption ==
  /\ \A t \in Tables : DOMAIN t \subseteq Fields /\ \A f \in DOMAIN t : t[f] \in Word
  /\ NoWire \notin Wire
  /\ NoTable \notin Head

VARIABLES
  table,    \* the caller's table; pack fills it in place
  wire,     \* what pack returned
  read,     \* what unpack made of it
  pc

vars == <<table, wire, read, pc>>

Init ==
  /\ table \in Tables
  /\ wire = NoWire
  /\ read = NoTable
  /\ pc = "pack"

Pack ==
  /\ pc = "pack"
  /\ table' = Filled(table)
  /\ IF Packable(table')
       THEN wire' = pack(table') /\ pc' = "unpack"
       ELSE wire' = NoWire /\ pc' = "thrown"
  /\ UNCHANGED read

Unpack ==
  /\ pc = "unpack"
  /\ read' = unpack(wire)
  /\ pc' = "done"
  /\ UNCHANGED <<table, wire>>

Next == Pack \/ Unpack

Spec == Init /\ [][Next]_vars

-----------------------------------------------------------------------------

\* A head whose fields keep to their widths is never refused by string.pack and
\* is read back as it was packed, nil fields as 0: no two fields share a bit of
\* the flag byte and none is lost in the shifts.
RoundTrip ==
  /\ pc = "thrown" => ~InWidth(table)
  /\ pc = "done" /\ InWidth(table) => read = table
=============================================================================
