------------------------------ MODULE GMsgHead ------------------------------
(***************************************************************************)
(* The message head of bin/GMsgHead.lua: pack writes a table of seven      *)
(* fields into four bytes, unpack reads them back.  loop.lua puts such a   *)
(* head in front of every message.  GMsgHeadCalls calls the two in turn.   *)
(*                                                                         *)
(* A Lua integer is the set of its bits that are 1: | is \cup, & is \cap,  *)
(* and the shifts move the elements and drop those that leave the word.    *)
(***************************************************************************)
EXTENDS Integers

\* proto.MsgHead: the bits of each field.
MsgHead ==
  [length |-> 24, type_flag |-> 1, control_flag |-> 2, magic_flag |-> 1,
   reflect_flag |-> 1, reserve_flag |-> 2, extend_flag |-> 1]

Fields == DOMAIN MsgHead
Bit    == 0..63
Word   == SUBSET Bit
Head   == [Fields -> Word]
Wire   == [1..4 -> SUBSET (0..7)]

shl(x, n) == {b \in Bit : b - n \in x}
shr(x, n) == {b \in Bit : b + n \in x}

\* A field that is nil becomes 0.
Filled(t) == [f \in Fields |-> IF f \in DOMAIN t THEN t[f] ELSE {}]

\* Mutant: control_flag is shifted over the type flag.
FlagByteShifted(h) ==
  shl(h.type_flag, 7) \cup shl(h.control_flag, 6)
    \cup shr(shl(h.magic_flag, 7), 3) \cup shr(shl(h.reflect_flag, 7), 4)
    \cup shr(shl(h.reserve_flag, 6), 5) \cup shr(shl(h.extend_flag, 7), 7)

\* "value", the byte of the six flags.
FlagByte(h) ==
  shl(h.type_flag, 7) \cup shr(shl(h.control_flag, 6), 1)
    \cup shr(shl(h.magic_flag, 7), 3) \cup shr(shl(h.reflect_flag, 7), 4)
    \cup shr(shl(h.reserve_flag, 6), 5) \cup shr(shl(h.extend_flag, 7), 7)

\* string.pack throws "unsigned overflow" when a number is too long.
Packable(h) == h.length \subseteq 0..23 /\ FlagByte(h) \subseteq 0..7

\* "<I3" is little-endian: the k-th byte of a number, counted from 0.
Byte(x, k) == {b \in 0..7 : b + 8 * k \in x}

pack(h) == [i \in 1..4 |-> IF i < 4 THEN Byte(h.length, i - 1) ELSE FlagByte(h)]

unpack(w) ==
  [length       |-> w[1] \cup shl(w[2], 8) \cup shl(w[3], 16),
   type_flag    |-> shr(w[4], 7),
   control_flag |-> shr(w[4], 5) \cap {0, 1},
   magic_flag   |-> shr(w[4], 4) \cap {0},
   reflect_flag |-> shr(w[4], 3) \cap {0},
   reserve_flag |-> shr(w[4], 1) \cap {0, 1},
   extend_flag  |-> w[4] \cap {0}]

\* Each field uses no more bits than MsgHead gives it.
InWidth(h) == \A f \in Fields : h[f] \subseteq 0..(MsgHead[f] - 1)
=============================================================================
