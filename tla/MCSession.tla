----------------------------- MODULE MCSession -----------------------------
(***************************************************************************)
(* Session for TLC: no message, one whose length takes two bytes of the    *)
(* head, the longest a head can announce and one too long for it.          *)
(***************************************************************************)
EXTENDS Session

Messages == {"none", "short", "longest", "toolong"}

Lengths ==
  [m \in Messages |->
    CASE m = "none"    -> {}
      [] m = "short"   -> {0, 3, 8}
      [] m = "longest" -> 0..23
      [] m = "toolong" -> {24}]
=============================================================================
