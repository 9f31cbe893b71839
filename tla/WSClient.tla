------------------------------ MODULE WSClient ------------------------------
(***************************************************************************)
(* The WebSocket client of src/src/wsclient.hpp: a user thread that calls  *)
(* connect and send, and the thread connect starts, which runs a uWS::Hub  *)
(* until the hub has no socket left.  ws and is_connected are shared by    *)
(* both without a lock.                                                    *)
(*                                                                         *)
(* Of uWebSockets (src/opt/uwebsocket/uWebSockets-0.14.8/src), built       *)
(* without UWS_THREADSAFE, the module has the life of the hub's one client *)
(* socket and the calls that use it.                                       *)
(***************************************************************************)

VARIABLES
  ws,            \* the member: "null", "socket" (the hub's), or "garbage"
  is_connected,
  joinable,      \* m_recv_thread.joinable()
  pc,            \* the user: "idle", in send ("flag" is next), in ws->send
                 \* ("sending"), or "dead" with the process
  loaded,        \* the value of ws that send has read
  target,        \* the pointer ws->send was called through
  hub,           \* the hub's thread, see HubLabels
  unstored,      \* what onConnection's handler has yet to store
  sock           \* the WebSocket: "none" before the upgrade, "open",
                 \* "shutting" after a close frame, "closed", then "freed"

members == <<ws, is_connected, joinable>>
user    == <<pc, loaded, target>>
thread  == <<hub, unstored, sock>>
vars    == <<members, user, thread>>

Pointers  == {"null", "socket", "garbage"}
HubLabels == {"none", "connect", "http", "handler", "poll", "send", "returned", "dead"}

\* Every variable has its type, the pointers being one of three things.
TypeOK ==
  /\ ws \in Pointers /\ loaded \in Pointers /\ target \in Pointers
  /\ is_connected \in BOOLEAN /\ joinable \in BOOLEAN
  /\ pc \in {"idle", "flag", "sending", "dead"}
  /\ hub \in HubLabels
  /\ unstored \subseteq {"ws", "is_connected"}
  /\ sock \in {"none", "open", "shutting", "closed", "freed"}

\* ws has no initializer: it is whatever the memory held.
Init ==
  /\ ws \in {"null", "garbage"} /\ is_connected = FALSE
  /\ joinable = FALSE
  /\ pc = "idle" /\ loaded = "null" /\ target = "null"
  /\ hub = "none" /\ unstored = {} /\ sock = "none"

-----------------------------------------------------------------------------
\* The user thread.

\* Mutant: connect claims the connection before it is made.
ConnectClaims ==
  /\ pc = "idle" /\ ~joinable
  /\ joinable' = TRUE /\ hub' = "connect" /\ is_connected' = TRUE
  /\ UNCHANGED <<ws, user, unstored, sock>>

\* connect starts the thread and returns 0.
Connect ==
  /\ pc = "idle" /\ ~joinable
  /\ joinable' = TRUE /\ hub' = "connect"
  /\ UNCHANGED <<ws, is_connected, user, unstored, sock>>

\* Nothing joins or detaches m_recv_thread, even after run has returned: any
\* further connect assigns to a joinable std::thread, which is std::terminate.
ConnectAgain ==
  /\ pc = "idle" /\ joinable
  /\ pc' = "dead" /\ hub' = "dead"
  /\ UNCHANGED <<members, loaded, target, unstored, sock>>

\* send, the first half of its test: ws is not null.
SendLoads ==
  /\ pc = "idle" /\ ws # "null"
  /\ loaded' = ws /\ pc' = "flag"
  /\ UNCHANGED <<members, target, thread>>

\* The second half, and the call of ws->send.  The read of ws in the call may be
\* the one of the test, kept in a register, or a second one.
SendTests ==
  /\ pc = "flag"
  /\ \/ ~is_connected /\ pc' = "idle" /\ UNCHANGED target
     \/ is_connected /\ pc' = "sending" /\ target' \in {loaded, ws}
  /\ UNCHANGED <<members, loaded, thread>>

\* WebSocket::send returns, the message written or queued.
SendReturns ==
  /\ pc = "sending" /\ pc' = "idle"
  /\ UNCHANGED <<members, loaded, target, thread>>

-----------------------------------------------------------------------------
\* The hub's thread: WSClient::run and what the hub calls from it.

\* Hub::connect: the URI is good and a socket is being connected, or it has called
\* the error handler and run finds nothing to wait for.
HubConnect ==
  /\ hub = "connect" /\ hub' \in {"http", "returned"}
  /\ UNCHANGED <<members, user, unstored, sock>>

\* The server answers the upgrade: the socket becomes a WebSocket and
\* onConnection's handler is called.
Upgrade ==
  /\ hub = "http" /\ hub' = "handler"
  /\ sock' = "open" /\ unstored' = {"ws", "is_connected"}
  /\ UNCHANGED <<members, user>>

\* HttpSocket::onEnd: no upgrade, no connection, or the timeout.
HttpEnds ==
  /\ hub = "http" /\ hub' = "returned"
  /\ UNCHANGED <<members, user, unstored, sock>>

\* The handler's two stores.  Neither is atomic, so the order in which the other
\* thread sees them is not the order in which they are written down.
StoreWs ==
  /\ hub = "handler" /\ "ws" \in unstored
  /\ ws' = "socket" /\ unstored' = unstored \ {"ws"}
  /\ UNCHANGED <<is_connected, joinable, user, hub, sock>>

StoreConnected ==
  /\ hub = "handler" /\ "is_connected" \in unstored
  /\ is_connected' = TRUE /\ unstored' = unstored \ {"is_connected"}
  /\ UNCHANGED <<ws, joinable, user, hub, sock>>

HandlerReturns ==
  /\ hub = "handler" /\ unstored = {} /\ hub' = "poll"
  /\ UNCHANGED <<members, user, unstored, sock>>

\* The hub sends on the socket itself: a pong, what is left in the socket's
\* queue, or its answer to a close frame.
HubSends ==
  /\ hub = "poll" /\ sock \in {"open", "shutting"}
  /\ hub' = "send" /\ sock' \in {sock, "shutting"}
  /\ UNCHANGED <<members, user, unstored>>

HubSent ==
  /\ hub = "send" /\ hub' = "poll"
  /\ UNCHANGED <<members, user, unstored, sock>>

\* Mutant: the end of the connection resets the pointer.
OnEndClears ==
  /\ hub = "poll" /\ sock \in {"open", "shutting"}
  /\ sock' = "closed" /\ ws' = "null"
  /\ UNCHANGED <<is_connected, joinable, user, hub, unstored>>

\* WebSocket::onEnd: the socket is closed.  run has set no disconnection handler.
OnEnd ==
  /\ hub = "poll" /\ sock \in {"open", "shutting"}
  /\ sock' = "closed"
  /\ UNCHANGED <<members, user, hub, unstored>>

\* The loop deletes the closed socket and, having no other, ends; run returns.
LoopEnds ==
  /\ hub = "poll" /\ sock = "closed"
  /\ sock' = "freed" /\ hub' = "returned"
  /\ UNCHANGED <<members, user, unstored>>

-----------------------------------------------------------------------------
UserStep == Connect \/ ConnectAgain \/ SendLoads \/ SendTests \/ SendReturns
HubStep  == HubConnect \/ Upgrade \/ HttpEnds \/ StoreWs \/ StoreConnected
              \/ HandlerReturns \/ HubSends \/ HubSent \/ OnEnd \/ LoopEnds

Next == UserStep \/ HubStep
Spec == Init /\ [][Next]_vars

-----------------------------------------------------------------------------
\* ws->send is never called before the server has accepted the upgrade, nor
\* through a null pointer, however send's two reads and the call interleave with
\* the handler's two stores (wsclient.hpp:25-27 against :54-56).
SendsAfterUpgrade == pc = "sending" => sock # "none" /\ target # "null"

\* What send's test is there for: the hub's socket is sent on only while there is
\* a connection, that is, before the hub has closed it.
SendsToOpenSocket ==
  [][pc = "flag" /\ pc' = "sending" /\ target' = "socket" =>
       sock \in {"open", "shutting"}]_vars

\* TypeOK and, for SendsAfterUpgrade: the flag is set by the handler only, and a
\* send past its first test has seen a pointer that is not null.
IInv ==
  /\ TypeOK
  /\ (is_connected \/ unstored # {}) => sock # "none"
  /\ hub \in {"handler", "poll", "send"} => sock # "none"
  /\ pc \in {"flag", "sending"} => loaded # "null" /\ ws # "null"
  /\ SendsAfterUpgrade
=============================================================================
