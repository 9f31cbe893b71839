------------------------ MODULE GMsgHeadCalls_proofs ------------------------
(***************************************************************************)
(* What comes back from unpack, for every set of tables pack is called     *)
(* with.                                                                   *)
(***************************************************************************)
EXTENDS GMsgHeadCalls, GMsgHead_proofs

\* What each stage of a pack and an unpack knows.
IInv ==
  /\ pc \in {"pack", "unpack", "thrown", "done"}
  /\ pc = "pack" => table \in Tables
  /\ pc # "pack" => table \in Head
  /\ pc \in {"unpack", "done"} => wire = pack(table)
  /\ pc = "thrown" => ~Packable(table)
  /\ pc = "done" => read = unpack(wire)

\* Whatever tables pack is called with, a head within the widths of MsgHead is
\* accepted and comes back from unpack as it was.
THEOREM RoundTrips == Spec => []RoundTrip
<1>1. Init => IInv
  BY DEF Init, IInv
<1>2. IInv /\ [Next]_vars => IInv'
  <2> SUFFICES ASSUME IInv, [Next]_vars PROVE IInv'
    OBVIOUS
  <2>1. CASE Pack
    BY <2>1, FilledHead, TablesAssumption DEF Pack, IInv
  <2>2. CASE Unpack
    BY <2>2 DEF Unpack, IInv
  <2>3. CASE UNCHANGED vars
    BY <2>3 DEF vars, IInv
  <2> QED
    BY <2>1, <2>2, <2>3 DEF Next
<1>3. IInv => RoundTrip
  BY Inverse, InWidthPackable DEF IInv, RoundTrip
<1> QED
  BY <1>1, <1>2, <1>3, PTL DEF Spec
=============================================================================
