------------------------------ MODULE Session ------------------------------
(***************************************************************************)
(* A session of the message sender: client.lua makes and connects a client,*)
(* then every turn of loop.lua reads a message from the user, puts a head  *)
(* in front of it and sends the two as one frame, if connected.  The client*)
(* is a Connection, the head is GMsgHead's, and the send is the code of    *)
(* TcpClient::send and disconnect as the user's thread runs it.            *)
(*                                                                         *)
(* A frame is its head and its body: the flag between them is the empty    *)
(* string that pack_flag returns.  What was typed to make the body is      *)
(* module Transpb.                                                         *)
(***************************************************************************)
EXTENDS GMsgHead

CONSTANTS
  Bodies,     \* strings transpb_by_input may return
  Empty,      \* the empty one among them
  Size,       \* the length of each, as a Lua integer
  NoHead,     \* no head has been packed yet
  MaxTurns,   \* bound: turns of loop.lua
  MaxDials    \* bound: connections made

ASSUME SessionAssumption ==
  /\ Empty \in Bodies
  /\ Size \in [Bodies -> Word]
  /\ Size[Empty] = {}
  /\ NoHead \notin Wire
  /\ MaxTurns \in Nat
  /\ MaxDials \in Nat

VARIABLES
  phase, up, news,   \* the Connection
  pc,       \* where the user's thread is
  client,   \* client_lua is not nil
  bytes,    \* loop.lua's local of that name
  head_str,
  turn,     \* history: how often loop.lua has been run
  conn,     \* history: how many connections the client has made
  sent      \* history: the frames ::send has accepted

link   == <<phase, up, news, conn>>
script == <<client, bytes, head_str, turn>>
vars   == <<link, script, pc, sent>>

Conn == INSTANCE Connection

\* Where the user's thread is: in client.lua, in a turn of loop.lua, or at an end.
Turn   == {"build", "pack", "test", "send", "call", "stop", "join"}
Labels == Turn \cup {"client", "connect", "pause", "hang", "dead"}

Frames ==
  [conn : 1..MaxDials, turn : 1..MaxTurns, head : Wire, body : Bodies, whole : BOOLEAN]

\* Every variable has its type, and every frame sent was made of a packed head.
TypeOK ==
  /\ phase \in {"stopped", "running", "stopping"}
  /\ up \in BOOLEAN
  /\ news \in {"up", "down"}
  /\ pc \in Labels
  /\ client \in BOOLEAN
  /\ bytes \in Bodies
  /\ head_str \in Wire \cup {NoHead}
  /\ turn \in 0..MaxTurns
  /\ conn \in 0..MaxDials
  /\ sent \in SUBSET Frames

Init ==
  /\ Conn!Init
  /\ pc = "client"
  /\ client = FALSE
  /\ bytes = Empty
  /\ head_str = NoHead
  /\ turn = 0
  /\ conn = 0
  /\ sent = {}

Goto(from, to) == pc = from /\ pc' = to

-----------------------------------------------------------------------------
(* client.lua, run once. *)

NoClient ==
  /\ Goto("client", "pause")
  /\ UNCHANGED <<link, script, sent>>

\* client_lua:connect(ip, port, true), whose host is resolved or is not.
ClientConnects ==
  /\ pc = "client"
  /\ client' = TRUE
  /\ \/ pc' = "connect" /\ Conn!Start
     \/ pc' = "pause" /\ UNCHANGED <<phase, up, news>>
  /\ UNCHANGED <<conn, bytes, head_str, turn, sent>>

\* connect returns after its first dial, successful or not.
ConnectReturns ==
  /\ Goto("connect", "pause")
  /\ UNCHANGED <<link, script, sent>>

-----------------------------------------------------------------------------
(* loop.lua, run in every turn. *)

\* The locals of a turn are its own.
BeginTurn ==
  /\ Goto("pause", "build")
  /\ turn < MaxTurns
  /\ turn' = turn + 1
  /\ bytes' = Empty
  /\ head_str' = NoHead
  /\ UNCHANGED <<client, link, sent>>

\* transpb_by_input: a message, the empty string for a file or a message that
\* is not found, or an error of pb.encode, which ends the program.
Build ==
  /\ pc = "build"
  /\ \/ pc' = "pack" /\ bytes' \in Bodies
     \/ pc' = "dead" /\ UNCHANGED bytes
  /\ UNCHANGED <<client, head_str, turn, link, sent>>

\* Mutant: the length of a message is taken before it has been encoded.
LengthBeforeBuild == [length |-> Size[Empty]]

\* The table loop.lua hands to head:pack.
LengthTable == [length |-> Size[bytes]]

\* A message too long for three bytes is an error of string.pack.
PackHead ==
  /\ pc = "pack"
  /\ \E h \in {Filled(LengthTable)} :
       IF Packable(h) THEN head_str' = pack(h) /\ pc' = "test"
                      ELSE pc' = "dead" /\ UNCHANGED head_str
  /\ UNCHANGED <<client, bytes, turn, link, sent>>

\* client_lua ~= nil and client_lua:isConnected()
IsConnected ==
  /\ Goto("test", IF client /\ up THEN "send" ELSE "pause")
  /\ UNCHANGED <<link, script, sent>>

\* TcpClient::send tests is_connected once more.
Send ==
  /\ Goto("send", IF up THEN "call" ELSE "pause")
  /\ UNCHANGED <<link, script, sent>>

\* ::send takes the frame, all of it or its beginning.
Accept(whole) ==
  sent' = sent \cup
    {[conn |-> conn, turn |-> turn, head |-> head_str, body |-> bytes, whole |-> whole]}

SendsAll ==
  /\ Goto("call", "pause")
  /\ Accept(TRUE)
  /\ UNCHANGED <<link, script>>

\* Mutant: what a short send has left over is sent again as a whole.
SendsPartRetries ==
  /\ Goto("call", "call")
  /\ Accept(FALSE)
  /\ UNCHANGED <<link, script>>

\* ::send may return fewer bytes than it was given: send returns the number, and
\* loop.lua drops it.
SendsPart ==
  /\ Goto("call", "pause")
  /\ Accept(FALSE)
  /\ UNCHANGED <<link, script>>

\* ::send fails: on_disconnect, then disconnect.
SendFails ==
  /\ Goto("call", "stop")
  /\ Conn!Alarm
  /\ UNCHANGED <<conn, script, sent>>

\* On Linux a send to a connection the peer has reset may raise SIGPIPE.
SendKills ==
  /\ Goto("call", "dead")
  /\ UNCHANGED <<link, script, sent>>

\* disconnect, with a descriptor to close.
Disconnect ==
  /\ Goto("stop", "join")
  /\ Conn!Stop
  /\ UNCHANGED <<conn, script, sent>>

\* disconnect in the moment in which a redial has set fd to -1: it joins a thread
\* that was never told to stop.
DisconnectHangs ==
  /\ Goto("stop", "hang")
  /\ ~up
  /\ UNCHANGED <<link, script, sent>>

\* Mutant: disconnect leaves is_connected as it is.
JoinKeepsFlag ==
  /\ Goto("join", "pause")
  /\ phase' = "stopped" /\ UNCHANGED <<up, news>>
  /\ UNCHANGED <<conn, script, sent>>

\* The receive thread has ended and disconnect returns.
Join ==
  /\ Goto("join", "pause")
  /\ Conn!Stopped
  /\ UNCHANGED <<conn, script, sent>>

TurnStep ==
  \/ Build
  \/ PackHead
  \/ IsConnected
  \/ Send
  \/ SendsAll
  \/ SendsPart
  \/ SendFails
  \/ SendKills
  \/ Disconnect
  \/ DisconnectHangs
  \/ Join

-----------------------------------------------------------------------------
(* The receive thread and the server, as Connection lets them act. *)

Dialled ==
  /\ conn < MaxDials
  /\ conn' = conn + 1
  /\ Conn!Dialled
  /\ UNCHANGED <<script, pc, sent>>

Announced ==
  /\ Conn!Announced
  /\ UNCHANGED <<conn, script, pc, sent>>

Lost ==
  /\ Conn!Lost
  /\ UNCHANGED <<conn, script, pc, sent>>

Alarm ==
  /\ Conn!Alarm
  /\ UNCHANGED <<conn, script, pc, sent>>

Next ==
  \/ NoClient
  \/ ClientConnects
  \/ ConnectReturns
  \/ BeginTurn
  \/ TurnStep
  \/ Dialled
  \/ Announced
  \/ Lost
  \/ Alarm

Spec == Init /\ [][Next]_vars

-----------------------------------------------------------------------------

\* Whatever is typed and however the connection comes and goes, the head in front of
\* a body announces exactly that body, with no flag set: its length is taken after the
\* message has been encoded, in the same turn, and survives the packing.
Framed == \A f \in sent : unpack(f.head) = Filled([length |-> Size[f.body]])

\* A turn sends one frame at most, over whatever losses and redials, and what it
\* sends is not overtaken: no later turn uses an earlier connection.
InOrder ==
  \A f, g \in sent :
    /\ f.turn = g.turn => f = g
    /\ f.turn < g.turn => f.conn <= g.conn

\* One failed send ends the session's connection for good: although client.lua
\* asked for reconnects, once disconnect has run the client is never connected
\* again and no turn sends anything.
StopIsFinal ==
  [][ phase = "stopped" /\ pc # "client" => UNCHANGED <<phase, up, sent>> ]_vars

-----------------------------------------------------------------------------
(* The inductive invariant of Session_proofs. *)

\* The Connection in each phase of the user's thread.
ClientPhase ==
  /\ up => phase # "stopped"
  /\ up => conn > 0
  /\ pc = "client" => phase = "stopped"
  /\ pc = "connect" => phase = "running"
  /\ pc = "call" => conn > 0
  /\ pc \in {"call", "stop"} => phase = "running"
  /\ phase = "stopping" <=> pc = "join"
  /\ pc \in Turn => turn > 0

\* The head of a turn that has packed one.
HeadFits ==
  pc \in {"test", "send", "call"} =>
    /\ head_str = pack(Filled([length |-> Size[bytes]]))
    /\ Size[bytes] \subseteq 0..23

\* What has been sent so far lies in the past.
Past ==
  \A f \in sent :
    /\ f.turn <= turn
    /\ pc \in {"build", "pack", "test", "send", "call"} => f.turn < turn
    /\ f.conn <= conn

\* Every reachable state of a session satisfies the inductive invariant.
IInv == TypeOK /\ ClientPhase /\ HeadFits /\ Past /\ Framed /\ InOrder
=============================================================================
