----------------------------- MODULE MCTcpClient -----------------------------
(***************************************************************************)
(* TcpClient for TLC.  The configurations give the constants their values. *)
(* No symmetry is used: the safety run is small enough without it, and the *)
(* liveness runs must not use it.                                          *)
(***************************************************************************)
EXTENDS TcpClient
=============================================================================
