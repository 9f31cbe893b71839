----------------------------- MODULE MCGMsgHead -----------------------------
(***************************************************************************)
(* GMsgHead for TLC: every flag at its full width and one bit beyond, with *)
(* lengths around the bytes' and the field's limits, and loop.lua's table, *)
(* which has a length only.                                                *)
(***************************************************************************)
EXTENDS GMsgHeadCalls

Lengths == {{}, {0}, {7, 8}, {15, 16, 23}, 0..23, {24}}

CallTables ==
  [length : Lengths, type_flag : SUBSET (0..1), control_flag : SUBSET (0..2),
   magic_flag : SUBSET {0}, reflect_flag : SUBSET {0},
   reserve_flag : SUBSET (0..2), extend_flag : SUBSET {0}]
  \cup [length : Lengths]
=============================================================================
