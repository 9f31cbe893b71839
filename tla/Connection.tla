----------------------------- MODULE Connection -----------------------------
(***************************************************************************)
(* What a user of TcpClient sees of its connection: whether the client is  *)
(* started, what isConnected answers, and what the callbacks have said.    *)
(* TcpClient implements it; Session is a user of it.                       *)
(***************************************************************************)

VARIABLES
  phase,   \* "stopped", "running" after connect, "stopping" in disconnect
  up,      \* what isConnected answers
  news     \* the last report: "up" from on_connected, "down" from
           \* on_disconnect or from disconnect's return

Init == phase = "stopped" /\ up = FALSE /\ news = "down"

\* connect has resolved the host.
Start ==
  /\ phase = "stopped" /\ phase' = "running"
  /\ UNCHANGED <<up, news>>

\* A dial succeeds, the first one or a redial, and the user knows of any loss before.
Dialled ==
  /\ phase # "stopped" /\ ~up /\ news = "down"
  /\ up' = TRUE
  /\ UNCHANGED <<phase, news>>

\* on_connected is called.
Announced ==
  /\ phase # "stopped" /\ up
  /\ news' = "up"
  /\ UNCHANGED <<phase, up>>

\* The receive thread finds the connection gone, and will say so next.
Lost ==
  /\ phase # "stopped"
  /\ up' = FALSE
  /\ UNCHANGED <<phase, news>>

\* on_disconnect is called: after a loss, or by a failed send or for a socket error,
\* before anything else is done about it.
Alarm ==
  /\ phase # "stopped"
  /\ news' = "down"
  /\ UNCHANGED <<phase, up>>

Stop ==
  /\ phase = "running" /\ phase' = "stopping"
  /\ UNCHANGED <<up, news>>

\* disconnect returns.
Stopped ==
  /\ phase = "stopping" /\ phase' = "stopped"
  /\ up' = FALSE /\ news' = "down"

Next == Start \/ Dialled \/ Announced \/ Lost \/ Alarm \/ Stop \/ Stopped

Spec == Init /\ [][Next]_<<phase, up, news>>
=============================================================================
