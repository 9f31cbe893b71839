-------------------------- MODULE GMsgHead_proofs --------------------------
(***************************************************************************)
(* pack and unpack are inverse on every head whose fields keep to their    *)
(* widths, not only on the heads a run enumerates.                         *)
(***************************************************************************)
EXTENDS GMsgHead, TLAPS

\* The fields of a head within their widths, written out.
LEMMA Widths ==
  ASSUME NEW h \in Head, InWidth(h)
  PROVE  /\ h.length \subseteq 0..23
         /\ h.type_flag \subseteq {0} /\ h.control_flag \subseteq {0, 1}
         /\ h.magic_flag \subseteq {0} /\ h.reflect_flag \subseteq {0}
         /\ h.reserve_flag \subseteq {0, 1} /\ h.extend_flag \subseteq {0}
<1>1. Fields = {"length", "type_flag", "control_flag", "magic_flag",
                "reflect_flag", "reserve_flag", "extend_flag"}
  BY DEF Fields, MsgHead
<1>2. 0..(1 - 1) = {0} /\ 0..(2 - 1) = {0, 1} /\ 0..(24 - 1) = 0..23
  OBVIOUS
<1> QED
  BY <1>1, <1>2 DEF InWidth, MsgHead

\* Where each flag lies in the flag byte.
LEMMA Layout ==
  ASSUME NEW h \in Head, InWidth(h)
  PROVE  \A b \in Bit : b \in FlagByte(h) <=>
           \/ b = 7 /\ 0 \in h.type_flag
           \/ b = 6 /\ 1 \in h.control_flag
           \/ b = 5 /\ 0 \in h.control_flag
           \/ b = 4 /\ 0 \in h.magic_flag
           \/ b = 3 /\ 0 \in h.reflect_flag
           \/ b = 2 /\ 1 \in h.reserve_flag
           \/ b = 1 /\ 0 \in h.reserve_flag
           \/ b = 0 /\ 0 \in h.extend_flag
<1> TAKE b \in Bit
<1>1. b \in shl(h.type_flag, 7) <=> b = 7 /\ 0 \in h.type_flag
  BY Widths DEF shl, Bit
<1>2. b \in shr(shl(h.control_flag, 6), 1) <=>
        (b = 5 /\ 0 \in h.control_flag) \/ (b = 6 /\ 1 \in h.control_flag)
  BY Widths DEF shl, shr, Bit
<1>3. b \in shr(shl(h.magic_flag, 7), 3) <=> b = 4 /\ 0 \in h.magic_flag
  BY Widths DEF shl, shr, Bit
<1>4. b \in shr(shl(h.reflect_flag, 7), 4) <=> b = 3 /\ 0 \in h.reflect_flag
  BY Widths DEF shl, shr, Bit
<1>5. b \in shr(shl(h.reserve_flag, 6), 5) <=>
        (b = 1 /\ 0 \in h.reserve_flag) \/ (b = 2 /\ 1 \in h.reserve_flag)
  BY Widths DEF shl, shr, Bit
<1>6. b \in shr(shl(h.extend_flag, 7), 7) <=> b = 0 /\ 0 \in h.extend_flag
  BY Widths DEF shl, shr, Bit
<1> QED
  BY <1>1, <1>2, <1>3, <1>4, <1>5, <1>6 DEF FlagByte

\* string.pack accepts every such head.
LEMMA InWidthPackable == ASSUME NEW h \in Head, InWidth(h) PROVE Packable(h)
<1>1. FlagByte(h) \subseteq Bit
  BY DEF FlagByte, shl, shr
<1>2. FlagByte(h) \subseteq 0..7
  BY <1>1, Layout
<1> QED
  BY <1>2, Widths DEF Packable

\* The three bytes of a length are put together again.
LEMMA LengthBytes ==
  ASSUME NEW x \in SUBSET (0..23)
  PROVE  Byte(x, 0) \cup shl(Byte(x, 1), 8) \cup shl(Byte(x, 2), 16) = x
<1> DEFINE y == Byte(x, 0) \cup shl(Byte(x, 1), 8) \cup shl(Byte(x, 2), 16)
<1>1. ASSUME NEW b \in 0..23 PROVE b \in y <=> b \in x
  <2>1. b \in Byte(x, 0) <=> b \in x /\ b < 8
    BY DEF Byte
  <2>2. b \in shl(Byte(x, 1), 8) <=> b \in x /\ 8 <= b /\ b < 16
    BY DEF shl, Byte, Bit
  <2>3. b \in shl(Byte(x, 2), 16) <=> b \in x /\ 16 <= b
    BY DEF shl, Byte, Bit
  <2> QED
    BY <2>1, <2>2, <2>3
<1>2. y \subseteq 0..23
  BY DEF shl, Byte, Bit
<1> QED
  BY <1>1, <1>2

\* unpack undoes pack.
LEMMA Inverse ==
  ASSUME NEW h \in Head, InWidth(h)
  PROVE  unpack(pack(h)) = h
<1> DEFINE v == FlagByte(h)
<1>1. /\ pack(h)[1] = Byte(h.length, 0) /\ pack(h)[2] = Byte(h.length, 1)
      /\ pack(h)[3] = Byte(h.length, 2) /\ pack(h)[4] = v
  BY DEF pack
<1> DEFINE r == unpack(pack(h))
<1>2. r.length = h.length
  BY <1>1, Widths, LengthBytes DEF unpack
<1>3. /\ r.type_flag = shr(v, 7)
      /\ r.control_flag = shr(v, 5) \cap {0, 1}
      /\ r.magic_flag = shr(v, 4) \cap {0}
      /\ r.reflect_flag = shr(v, 3) \cap {0}
      /\ r.reserve_flag = shr(v, 1) \cap {0, 1}
      /\ r.extend_flag = v \cap {0}
  BY <1>1 DEF unpack
<1>4. v \subseteq Bit
  BY DEF FlagByte, shl, shr
<1> HIDE DEF v
<1>5. \A b \in Bit : b \in v <=>
           \/ b = 7 /\ 0 \in h.type_flag
           \/ b = 6 /\ 1 \in h.control_flag
           \/ b = 5 /\ 0 \in h.control_flag
           \/ b = 4 /\ 0 \in h.magic_flag
           \/ b = 3 /\ 0 \in h.reflect_flag
           \/ b = 2 /\ 1 \in h.reserve_flag
           \/ b = 1 /\ 0 \in h.reserve_flag
           \/ b = 0 /\ 0 \in h.extend_flag
  BY Layout DEF v
<1>6. shr(v, 7) = h.type_flag
  BY <1>5, <1>4, Widths DEF shr, Bit
<1>7. shr(v, 5) \cap {0, 1} = h.control_flag
  BY <1>5, Widths DEF shr, Bit
<1>8. shr(v, 4) \cap {0} = h.magic_flag
  BY <1>5, Widths DEF shr, Bit
<1>9. shr(v, 3) \cap {0} = h.reflect_flag
  BY <1>5, Widths DEF shr, Bit
<1>10. shr(v, 1) \cap {0, 1} = h.reserve_flag
  BY <1>5, Widths DEF shr, Bit
<1>11. v \cap {0} = h.extend_flag
  BY <1>5, Widths DEF Bit
<1>12. \A f \in Fields : r[f] = h[f]
  BY <1>2, <1>3, <1>6, <1>7, <1>8, <1>9, <1>10, <1>11 DEF Fields, MsgHead
<1>13. DOMAIN r = Fields /\ r = [f \in Fields |-> r[f]]
  BY DEF unpack, Fields, MsgHead
<1> HIDE DEF r
<1> QED
  BY <1>12, <1>13 DEF Head, r

\* A filled table is a head.
LEMMA FilledHead ==
  ASSUME NEW t, DOMAIN t \subseteq Fields, \A f \in DOMAIN t : t[f] \in Word
  PROVE  Filled(t) \in Head
  BY DEF Filled, Head, Word
=============================================================================
