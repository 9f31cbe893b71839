---------------------------- MODULE MCRecvBuffer ----------------------------
(***************************************************************************)
(* RecvBuffer for TLC, with the read_packet of a subclass.                 *)
(***************************************************************************)
EXTENDS RecvBuffer

\* Packets begin with their length.
LengthPrefixed(s) == IF s # <<>> /\ s[1] <= Len(s) THEN s[1] ELSE 0
=============================================================================
