------------------------------ MODULE TcpClient ------------------------------
(***************************************************************************)
(* The TCP client of src/src/tcpclient.{h,cpp}: a user thread that calls   *)
(* connect, send and disconnect, and the receive thread that connect       *)
(* starts (TcpClient::run).  The two share is_running, is_connected, fd,   *)
(* is_reconnect and m_hosts without a lock, so every access that an        *)
(* external call or a callback separates from the next one is a step of    *)
(* its own.                                                                *)
(*                                                                         *)
(* The kernel's descriptor table, the peer and the files the rest of the   *)
(* process opens are the environment.  What do_recv does with the bytes it *)
(* reads concerns the receive thread only and is module RecvBuffer.        *)
(***************************************************************************)
EXTENDS Naturals, Sequences

CONSTANTS
  Fds,          \* descriptor numbers the kernel can hand out
  NoFd,         \* the code's -1
  Hosts,        \* host names a user may pass to connect
  NoHost,       \* the empty m_host of a fresh client
  Reconnects,   \* the values a user passes for connect's reconnect argument
  Windows,      \* TRUE: winsock's select and FD_ISSET; FALSE: the Linux ones
  MaxAddrs,     \* bound: addresses one host name resolves to
  MaxHosts      \* bound: length m_hosts may grow to

ASSUME TcpAssumption ==
  /\ NoFd \notin Fds
  /\ NoHost \notin Hosts
  /\ Reconnects \subseteq BOOLEAN
  /\ Windows \in BOOLEAN
  /\ MaxAddrs \in Nat \ {0}
  /\ MaxHosts \in Nat

VARIABLES
  is_running, is_connected, is_reconnect, fd, m_host, m_hosts,
  joinable,   \* m_recv_thread.joinable()
  pc,         \* where each thread is
  loc,        \* the descriptor a thread has tested, or got from socket, or handed
              \* to connect or select
  ready,      \* the fd_sets select left: a subset of {"read", "except"}
  caller,     \* who called the disconnect in progress: "user" or "send"
  desc,       \* kernel: what each descriptor number stands for
  file,       \* a descriptor the rest of the process opened, or NoFd
  stolen,     \* history: the client has closed a descriptor that was not its own
  reported,   \* history: what the user last learned of the connection, "up" from
              \* on_connected, "down" from on_disconnect or her own disconnect
  redialled,  \* history: the receive thread has called do_connect
  refused     \* history: fd has the number of a socket whose ::connect has failed

flags   == <<is_running, is_connected, is_reconnect>>
address == <<m_host, m_hosts>>
thread  == <<joinable, redialled, refused>>
locals  == <<loc, ready, caller>>
kernel  == <<desc, file, stolen>>
vars    == <<flags, fd, address, thread, pc, locals, kernel, reported>>

Threads == {"user", "recv"}

\* The steps of do_connect, which either thread may be running.
DialLabels == {"dc_enter", "dc_close", "dc_reset", "dc_socket", "dc_store", "dc_dial",
               "dc_wait", "dc_up", "dc_fail"}

\* The steps of disconnect.
StopLabels == {"x_enter", "x_close", "x_reset", "x_join", "x_clear"}

UserLabels == {"idle", "resolve", "spawn", "snd"} \cup DialLabels \cup StopLabels
RecvLabels ==
  {"none", "loop", "prep", "select", "isset", "lost", "except", "done"} \cup DialLabels

Labels == UserLabels \cup RecvLabels

\* A socket not yet connected, connected, or connected with the end of the
\* stream next to be read.
Sockets == {"fresh", "open", "eof"}

\* Every variable has the type its C++ declaration gives it, and each thread is
\* only ever in code that it runs.
TypeOK ==
  /\ is_running \in BOOLEAN
  /\ is_connected \in BOOLEAN
  /\ is_reconnect \in BOOLEAN
  /\ fd \in Fds \cup {NoFd}
  /\ m_host \in Hosts \cup {NoHost}
  /\ m_hosts \in Seq(Hosts)
  /\ joinable \in BOOLEAN
  /\ pc \in [Threads -> Labels]
  /\ pc["user"] \in UserLabels
  /\ pc["recv"] \in RecvLabels
  /\ loc \in [Threads -> Fds \cup {NoFd}]
  /\ ready \in SUBSET {"read", "except"}
  /\ caller \in {"user", "send"}
  /\ desc \in [Fds -> {"free", "file"} \cup Sockets]
  /\ file \in Fds \cup {NoFd}
  /\ stolen \in BOOLEAN
  /\ reported \in {"up", "down"}
  /\ redialled \in BOOLEAN
  /\ refused \in BOOLEAN

Init ==
  /\ is_running = FALSE
  /\ is_connected = FALSE
  /\ is_reconnect = FALSE
  /\ fd = NoFd
  /\ m_host = NoHost
  /\ m_hosts = <<>>
  /\ joinable = FALSE
  /\ pc = [t \in Threads |-> IF t = "user" THEN "idle" ELSE "none"]
  /\ loc = [t \in Threads |-> NoFd]
  /\ ready = {}
  /\ caller = "user"
  /\ desc = [f \in Fds |-> "free"]
  /\ file = NoFd
  /\ stolen = FALSE
  /\ reported = "down"
  /\ redialled = FALSE
  /\ refused = FALSE

Goto(t, from, to) ==
  /\ pc[t] = from
  /\ pc' = [pc EXCEPT ![t] = to]

\* close(f): a number that is not open, NoFd included, is left alone (EBADF).
CLOSE(f) ==
  /\ desc' = [d \in Fds |-> IF d = f THEN "free" ELSE desc[d]]
  /\ stolen' = (stolen \/ (f \in Fds /\ desc[f] = "file"))
  /\ file' = file

-----------------------------------------------------------------------------
(* do_connect, run by thread t: by connect before the receive thread exists, *)
(* and by the receive thread itself to reconnect.                            *)

\* Mutant: do_connect always hands over to the starting of the thread.
ReturnSpawns(t) == "spawn"

Return(t) == IF t = "user" THEN "spawn" ELSE "loop"

\* After the SLEEP: if (fd != -1)
DcEnter(t) ==
  /\ Goto(t, "dc_enter", IF fd # NoFd THEN "dc_close" ELSE "dc_socket")
  /\ loc' = [loc EXCEPT ![t] = fd]
  /\ UNCHANGED <<flags, fd, address, thread, ready, caller, kernel, reported>>

\* Mutant: the earlier descriptor is forgotten without CLOSE.
DcCloseLeaks(t) ==
  /\ Goto(t, "dc_close", "dc_reset")
  /\ loc' = [loc EXCEPT ![t] = NoFd]
  /\ UNCHANGED <<flags, fd, address, thread, ready, caller, kernel, reported>>

\* Drop the descriptor of an earlier attempt.  The compiler may read fd again for
\* the call or use the value it tested.
DcClose(t) ==
  /\ Goto(t, "dc_close", "dc_reset")
  /\ \E f \in {loc[t], fd} : CLOSE(f)
  /\ loc' = [loc EXCEPT ![t] = NoFd]
  /\ UNCHANGED <<flags, fd, address, thread, ready, caller, reported>>

DcReset(t) ==
  /\ Goto(t, "dc_reset", "dc_socket")
  /\ fd' = NoFd
  /\ refused' = FALSE
  /\ UNCHANGED <<flags, address, joinable, redialled, locals, kernel, reported>>

DcSocket(t) ==
  /\ Goto(t, "dc_socket", "dc_store")
  /\ \E f \in Fds :
       /\ desc[f] = "free"
       /\ desc' = [desc EXCEPT ![f] = "fresh"]
       /\ loc' = [loc EXCEPT ![t] = f]
  /\ UNCHANGED <<flags, fd, address, thread, ready, caller, file, stolen, reported>>

DcSocketFails(t) ==
  /\ Goto(t, "dc_socket", Return(t))
  /\ fd' = NoFd
  /\ UNCHANGED <<flags, address, thread, locals, kernel, reported>>

\* fd = socket(...), whatever fd holds by now.
DcStore(t) ==
  /\ Goto(t, "dc_store", "dc_dial")
  /\ fd' = loc[t]
  /\ refused' = FALSE
  /\ loc' = [loc EXCEPT ![t] = NoFd]
  /\ UNCHANGED <<flags, address, joinable, redialled, ready, caller, kernel, reported>>

\* The test for -1, if it reads fd again, may find that disconnect has reset it.
DcSocketGone(t) ==
  /\ Goto(t, "dc_dial", Return(t))
  /\ fd = NoFd
  /\ UNCHANGED <<flags, fd, address, thread, locals, kernel, reported>>

\* ::connect(fd, m_hosts[0]) blocks; it fails at once on a bad descriptor.
DcDial(t) ==
  /\ Goto(t, "dc_dial", "dc_wait")
  /\ loc' = [loc EXCEPT ![t] = IF fd \in Fds /\ desc[fd] = "fresh" THEN fd ELSE NoFd]
  /\ UNCHANGED <<flags, fd, address, thread, ready, caller, kernel, reported>>

\* Mutant: on_connected comes before the flag.
DcDialedAnnouncesFirst(t) ==
  /\ Goto(t, "dc_wait", "dc_up")
  /\ loc[t] # NoFd
  /\ desc' = [f \in Fds |-> IF f = loc[t] /\ desc[f] = "fresh" THEN "open" ELSE desc[f]]
  /\ reported' = "up"
  /\ loc' = [loc EXCEPT ![t] = NoFd]
  /\ UNCHANGED <<flags, fd, address, thread, ready, caller, file, stolen>>

\* The call holds its own reference: a close by the other thread in the
\* meantime does not keep it from succeeding.
DcDialed(t) ==
  /\ Goto(t, "dc_wait", "dc_up")
  /\ loc[t] # NoFd
  /\ desc' = [f \in Fds |-> IF f = loc[t] /\ desc[f] = "fresh" THEN "open" ELSE desc[f]]
  /\ is_connected' = TRUE
  /\ loc' = [loc EXCEPT ![t] = NoFd]
  /\ UNCHANGED <<is_running, is_reconnect, fd, address, thread, ready, caller, file, stolen,
                 reported>>

\* on_connected, after the flag: the other thread may have sent, and failed, already.
DcAnnounce(t) ==
  /\ Goto(t, "dc_up", Return(t))
  /\ reported' = "up"
  /\ UNCHANGED <<flags, fd, address, thread, locals, kernel>>

DcRefused(t) ==
  /\ Goto(t, "dc_wait", "dc_fail")
  /\ loc' = [loc EXCEPT ![t] = NoFd]
  /\ refused' = (fd # NoFd)
  /\ UNCHANGED <<flags, fd, address, joinable, redialled, ready, caller, kernel, reported>>

\* The failed socket is closed; fd keeps its number.
DcFail(t) ==
  /\ Goto(t, "dc_fail", Return(t))
  /\ CLOSE(fd)
  /\ UNCHANGED <<flags, fd, address, thread, locals, reported>>

DoConnect(t) ==
  \/ DcEnter(t)
  \/ DcClose(t)
  \/ DcReset(t)
  \/ DcSocket(t)
  \/ DcSocketFails(t)
  \/ DcStore(t)
  \/ DcSocketGone(t)
  \/ DcDial(t)
  \/ DcDialed(t)
  \/ DcAnnounce(t)
  \/ DcRefused(t)
  \/ DcFail(t)

-----------------------------------------------------------------------------
(* The user thread.  A call that only returns (send while not connected,    *)
(* isConnected, a failed WSAStartup) changes nothing and has no action.     *)

\* connect(h, r) up to the call of gethostbyname, which may block.
Connect(h, r) ==
  /\ Goto("user", "idle", "resolve")
  /\ m_host' = h
  /\ is_reconnect' = r
  /\ UNCHANGED <<is_running, is_connected, fd, m_hosts, thread, locals, kernel, reported>>

\* Mutant: the !is_running test is dropped.
ResolvedAlwaysDials(k) ==
  /\ Goto("user", "resolve", "dc_enter")
  /\ Len(m_hosts) + k <= MaxHosts
  /\ m_hosts' = m_hosts \o [i \in 1..k |-> m_host]
  /\ is_running' = TRUE
  /\ UNCHANGED <<is_connected, is_reconnect, fd, m_host, thread, locals, kernel, reported>>

\* gethostbyname found k addresses: the first one is pushed k times.  Only a
\* client that is not running dials and starts a thread.
Resolved(k) ==
  /\ Goto("user", "resolve", IF is_running THEN "idle" ELSE "dc_enter")
  /\ Len(m_hosts) + k <= MaxHosts
  /\ m_hosts' = m_hosts \o [i \in 1..k |-> m_host]
  /\ is_running' = TRUE
  /\ UNCHANGED <<is_connected, is_reconnect, fd, m_host, thread, locals, kernel, reported>>

\* Mutant: no "return -1" after "gethostbyname() failed".
UnresolvedDials ==
  /\ Goto("user", "resolve", IF is_running THEN "idle" ELSE "dc_enter")
  /\ is_running' = TRUE
  /\ UNCHANGED <<is_connected, is_reconnect, fd, address, thread, locals, kernel, reported>>

Unresolved ==
  /\ Goto("user", "resolve", "idle")
  /\ UNCHANGED <<flags, fd, address, thread, locals, kernel, reported>>

\* m_recv_thread = std::thread(run), whatever do_connect returned.
Spawn ==
  /\ pc["user"] = "spawn"
  /\ pc' = [pc EXCEPT !["user"] = "idle", !["recv"] = "loop"]
  /\ joinable' = TRUE
  /\ UNCHANGED <<flags, fd, address, redialled, refused, locals, kernel, reported>>

Send ==
  /\ Goto("user", "idle", "snd")
  /\ is_connected
  /\ UNCHANGED <<flags, fd, address, thread, locals, kernel, reported>>

SendOk ==
  /\ Goto("user", "snd", "idle")
  /\ fd \in Fds
  /\ desc[fd] \in {"open", "eof"}
  /\ UNCHANGED <<flags, fd, address, thread, locals, kernel, reported>>

\* ::send returned <= 0 (an error, a bad descriptor or an empty message):
\* on_disconnect, then disconnect.
SendFails ==
  /\ Goto("user", "snd", "x_enter")
  /\ caller' = "send"
  /\ reported' = "down"
  /\ UNCHANGED <<flags, fd, address, thread, loc, ready, kernel>>

Disconnect ==
  /\ Goto("user", "idle", "x_enter")
  /\ caller' = "user"
  /\ UNCHANGED <<flags, fd, address, thread, loc, ready, kernel, reported>>

\* if (fd != -1) is_running = false; otherwise straight to the join.
XEnter ==
  /\ Goto("user", "x_enter", IF fd # NoFd THEN "x_close" ELSE "x_join")
  /\ is_running' = (is_running /\ fd = NoFd)
  /\ loc' = [loc EXCEPT !["user"] = fd]
  /\ UNCHANGED <<is_connected, is_reconnect, fd, address, thread, ready, caller, kernel,
                 reported>>

\* Mutant: disconnect forgets the descriptor without CLOSE.
XCloseForgets ==
  /\ Goto("user", "x_close", "x_reset")
  /\ loc' = [loc EXCEPT !["user"] = NoFd]
  /\ UNCHANGED <<flags, fd, address, thread, ready, caller, kernel, reported>>

\* The compiler may read fd again for the call or use the value it tested.
XClose ==
  /\ Goto("user", "x_close", "x_reset")
  /\ \E f \in {loc["user"], fd} : CLOSE(f)
  /\ loc' = [loc EXCEPT !["user"] = NoFd]
  /\ UNCHANGED <<flags, fd, address, thread, ready, caller, reported>>

\* Mutant: fd keeps its number.
XResetForgets ==
  /\ Goto("user", "x_reset", "x_join")
  /\ UNCHANGED <<flags, fd, address, thread, locals, kernel, reported>>

XReset ==
  /\ Goto("user", "x_reset", "x_join")
  /\ fd' = NoFd
  /\ refused' = FALSE
  /\ UNCHANGED <<flags, address, joinable, redialled, locals, kernel, reported>>

XJoin ==
  /\ pc["user"] = "x_join"
  /\ joinable
  /\ pc["recv"] = "done"
  /\ pc' = [pc EXCEPT !["user"] = "x_clear", !["recv"] = "none"]
  /\ joinable' = FALSE
  /\ UNCHANGED <<flags, fd, address, redialled, refused, locals, kernel, reported>>

\* join on a thread that was never started, or is already joined, throws.
XJoinThrows ==
  /\ Goto("user", "x_join", "idle")
  /\ ~joinable
  /\ caller' = "user"
  /\ UNCHANGED <<flags, fd, address, thread, loc, ready, kernel, reported>>

\* Mutant: disconnect leaves is_connected as it is.
XClearKeepsFlag ==
  /\ Goto("user", "x_clear", "idle")
  /\ caller' = "user"
  /\ UNCHANGED <<flags, fd, address, thread, loc, ready, kernel, reported>>

XClear ==
  /\ Goto("user", "x_clear", "idle")
  /\ is_connected' = FALSE
  /\ reported' = "down"
  /\ caller' = "user"
  /\ UNCHANGED <<is_running, is_reconnect, fd, address, thread, loc, ready, kernel>>

StopStep == XEnter \/ XClose \/ XReset \/ XJoin \/ XJoinThrows \/ XClear

UserCall ==
  \/ \E h \in Hosts, r \in Reconnects : Connect(h, r)
  \/ Send
  \/ Disconnect

\* A call in progress goes on.
UserStep ==
  \/ \E k \in 1..MaxAddrs : Resolved(k)
  \/ Unresolved
  \/ DoConnect("user")
  \/ Spawn
  \/ SendOk
  \/ SendFails
  \/ StopStep

-----------------------------------------------------------------------------
(* The receive thread: TcpClient::run. *)

\* Mutant: while (true).
RunCheckForever ==
  /\ Goto("recv", "loop", "prep")
  /\ UNCHANGED <<flags, fd, address, thread, locals, kernel, reported>>

RunCheck ==
  /\ Goto("recv", "loop", IF is_running THEN "prep" ELSE "done")
  /\ UNCHANGED <<flags, fd, address, thread, locals, kernel, reported>>

\* The sets are left empty unless the client is connected.
RunPrepare ==
  /\ Goto("recv", "prep", "select")
  /\ loc' = [loc EXCEPT !["recv"] = IF is_connected THEN fd ELSE NoFd]
  /\ UNCHANGED <<flags, fd, address, thread, ready, caller, kernel, reported>>

\* Data, end of stream or urgent data on the watched descriptor.  One that has
\* become a file is always readable; one closed during the wait may still be
\* reported on Linux, where the call keeps it referenced.
SelectReady ==
  /\ Goto("recv", "select", "isset")
  /\ loc["recv"] # NoFd
  /\ desc[loc["recv"]] = "free" => ~Windows
  /\ ready' \in SUBSET {"read", "except"} \ {{}}
  /\ desc[loc["recv"]] \in {"eof", "file"} => "read" \in ready'
  /\ UNCHANGED <<flags, fd, address, thread, loc, caller, kernel, reported>>

\* select returned -1 (then SLEEP): a closed descriptor, or on Windows no
\* descriptor at all.
SelectError ==
  /\ Goto("recv", "select", "loop")
  /\ IF loc["recv"] = NoFd THEN Windows ELSE desc[loc["recv"]] = "free"
  /\ loc' = [loc EXCEPT !["recv"] = NoFd]
  /\ UNCHANGED <<flags, fd, address, thread, ready, caller, kernel, reported>>

\* Five seconds went by.  On Linux a descriptor closed during the wait is not
\* noticed.  The loop goes on, or with a redial.
TimeoutThen(redial) ==
  /\ Goto("recv", "select", IF redial THEN "dc_enter" ELSE "loop")
  /\ IF loc["recv"] = NoFd
       THEN ~Windows
       ELSE desc[loc["recv"]] = "open" \/ (desc[loc["recv"]] = "free" /\ ~Windows)
  /\ loc' = [loc EXCEPT !["recv"] = NoFd]
  /\ redialled' = (redialled \/ redial)
  /\ UNCHANGED <<flags, fd, address, joinable, refused, ready, caller, kernel, reported>>

\* Mutant: the !is_connected test is dropped.
SelectTimeoutRedialsAnyway == TimeoutThen(is_reconnect)

\* Mutant: only a connected client redials.
SelectTimeoutInverted == TimeoutThen(is_connected /\ is_reconnect)

\* This is the only place from which the client reconnects.
SelectTimeout == TimeoutThen(~is_connected /\ is_reconnect)

\* FD_ISSET(fd, set) with the value fd has now.  For -1 the Linux macro
\* shifts by a negative count (undefined: either answer); winsock's finds
\* nothing.
FD_ISSET(set) ==
  IF fd = NoFd THEN IF Windows THEN {FALSE} ELSE BOOLEAN
               ELSE {fd = loc["recv"] /\ set \in ready}

\* Mutant: a failed recv is not reported to on_disconnect.
DoRecvSilent ==
  /\ Goto("recv", "isset", "except")
  /\ \/ fd \in Fds /\ desc[fd] = "open" /\ UNCHANGED is_connected
     \/ is_connected' = FALSE

\* Mutant: a failed recv does not clear is_connected.
DoRecvKeepsFlag ==
  /\ \/ Goto("recv", "isset", "except")
     \/ Goto("recv", "isset", "lost")
  /\ UNCHANGED is_connected

\* do_recv.  recv > 0 leaves the connection as it is; recv <= 0 (end of stream,
\* an error, no room left in recv_buf) clears is_connected.
DoRecv ==
  \/ /\ Goto("recv", "isset", "except")
     /\ fd \in Fds /\ desc[fd] = "open"
     /\ UNCHANGED is_connected
  \/ /\ Goto("recv", "isset", "lost")
     /\ is_connected' = FALSE

RunReadable ==
  /\ \/ TRUE \in FD_ISSET("read") /\ DoRecv
     \/ /\ FALSE \in FD_ISSET("read")
        /\ Goto("recv", "isset", "except")
        /\ UNCHANGED is_connected
  /\ UNCHANGED <<is_running, is_reconnect, fd, address, thread, locals, kernel, reported>>

\* on_disconnect, after do_recv has cleared the flag.
RunLost ==
  /\ Goto("recv", "lost", "except")
  /\ reported' = "down"
  /\ UNCHANGED <<flags, fd, address, thread, locals, kernel>>

\* The except set: on_disconnect is called and nothing else happens.
RunExcept ==
  /\ Goto("recv", "except", "loop")
  /\ \E hit \in FD_ISSET("except") : reported' = IF hit THEN "down" ELSE reported
  /\ ready' = {}
  /\ loc' = [loc EXCEPT !["recv"] = NoFd]
  /\ UNCHANGED <<flags, fd, address, thread, caller, kernel>>

RecvStep ==
  \/ RunCheck
  \/ RunPrepare
  \/ SelectReady
  \/ SelectError
  \/ SelectTimeout
  \/ RunReadable
  \/ RunLost
  \/ RunExcept
  \/ DoConnect("recv")

-----------------------------------------------------------------------------
(* The environment. *)

PeerCloses ==
  /\ \E f \in Fds : desc[f] = "open" /\ desc' = [desc EXCEPT ![f] = "eof"]
  /\ UNCHANGED <<flags, fd, address, thread, pc, locals, file, stolen, reported>>

\* Between two calls the user thread opens a file (a .proto, a script) ...
FileOpen ==
  /\ pc["user"] = "idle"
  /\ file = NoFd
  /\ \E f \in Fds :
       /\ desc[f] = "free"
       /\ desc' = [desc EXCEPT ![f] = "file"]
       /\ file' = f
  /\ UNCHANGED <<flags, fd, address, thread, pc, locals, stolen, reported>>

\* ... and closes it by its number.
FileClose ==
  /\ pc["user"] = "idle"
  /\ file # NoFd
  /\ desc' = [desc EXCEPT ![file] = "free"]
  /\ file' = NoFd
  /\ UNCHANGED <<flags, fd, address, thread, pc, locals, stolen, reported>>

Environment == PeerCloses \/ FileOpen \/ FileClose

Next == UserCall \/ UserStep \/ RecvStep \/ Environment

Spec == Init /\ [][Next]_vars

(***************************************************************************)
(* Fairness.  Both threads are scheduled, a call in progress therefore goes*)
(* on and the receive loop keeps turning.  Nothing obliges the user to     *)
(* call or the peer to close.  The kernel grants a socket and the server   *)
(* accepts a connection infinitely often if asked infinitely often.        *)
(***************************************************************************)
LiveSpec ==
  /\ Spec
  /\ WF_vars(UserStep)
  /\ WF_vars(RecvStep)
  /\ SF_vars(DcSocket("recv"))
  /\ SF_vars(DcDialed("recv"))

-----------------------------------------------------------------------------
(* Safety. *)

\* The std::thread handle is used legally: connect assigns a new thread only
\* when no earlier one is joinable (otherwise std::terminate), and the
\* disconnect that a failed send makes finds a thread to join (otherwise join
\* throws out of send).
ThreadOwnership ==
  /\ pc["user"] = "spawn" => ~joinable
  /\ pc["user"] = "x_join" /\ caller = "send" => joinable

\* Between two calls a client that is not running has no receive thread left
\* and does not claim to be connected, whatever the thread was doing when
\* disconnect was called.
StoppedIsQuiet ==
  pc["user"] = "idle" /\ ~is_running =>
    pc["recv"] = "none" /\ ~joinable /\ ~is_connected

\* do_connect, which rewrites fd step by step and without a lock, is never run
\* by both threads at once.
DoConnectExclusive == ~(pc["user"] \in DialLabels /\ pc["recv"] \in DialLabels)

\* do_connect reads m_hosts[0] only after some connect has resolved a host, also
\* when the latest connect failed to resolve its own.
DialHasAddress == \A t \in Threads : pc[t] = "dc_dial" => m_hosts # <<>>

\* Unless a disconnect is under way, is_connected means that fd is a connected
\* socket, so that send and select work on the connection and not on a closed
\* or a half-made descriptor.  (Once the double close of do_connect has hit a
\* descriptor of somebody else the kernel may hand fd's number out again.)
ConnectedHasSocket ==
  is_connected /\ ~stolen /\ pc["user"] \notin StopLabels =>
    fd \in Fds /\ desc[fd] \in {"open", "eof"}

\* No loss goes unreported, and none is reported before its time: when the last news
\* was on_connected, the client is still connected, or do_recv is about to call
\* on_disconnect.  Flags and callbacks are steps of their own, of both threads.
NoSilentLoss == reported = "up" => is_connected \/ pc["recv"] = "lost"

\* Outside disconnect, fd is overwritten only when the descriptor it names is no
\* longer an open socket: any number of reconnects holds on to one socket.
DialLeaksNothing ==
  [][ pc["user"] \notin StopLabels /\ fd \in Fds /\ fd' # fd
        => desc[fd] \notin Sockets ]_vars

\* Once disconnect has returned, no socket the client ever made is open: none was
\* forgotten, whatever the receive thread was doing meanwhile.  (Unless that
\* thread has redialled, when one may be: see README.)
StopClosesSockets ==
  ~redialled /\ ~stolen /\ pc["user"] = "idle" /\ ~is_running =>
    \A f \in Fds : desc[f] \notin Sockets

\* A descriptor of somebody else is closed for one of two reasons only: the dial of
\* the socket that fd names was refused, after which fd keeps a closed number, or
\* disconnect closes what the receive thread has closed already and not yet forgotten
\* in a redial.  do_connect by itself, however often it is run, closes its own.
DoubleCloseHasCause ==
  [][ ~stolen /\ stolen' => refused \/ (redialled /\ pc["user"] = "x_close") ]_vars

\* A turn of run's loop, in the order of its steps, with the test of is_running last.
TurnOrder ==
  <<"prep", "select", "dc_enter", "dc_close", "dc_reset", "dc_socket", "dc_store", "dc_dial",
    "dc_wait", "dc_up", "dc_fail", "isset", "lost", "except", "loop", "done">>

\* Once disconnect has cleared is_running, every step of the receive thread takes
\* it further through the turn it is in: it may finish one redial, begins no
\* second turn, and ends, so that disconnect does not join a thread that goes on.
LastTurn ==
  [][ ~is_running /\ pc["recv"] \notin {"none", "done"} /\ pc'["recv"] # pc["recv"]
        => \E i, j \in DOMAIN TurnOrder :
             i < j /\ TurnOrder[i] = pc["recv"] /\ TurnOrder[j] = pc'["recv"] ]_vars

\* What a user can rely on is Connection's promise.  The client is stopping from
\* disconnect's first assignment to its last.
Phase ==
  IF is_running THEN "running"
  ELSE IF joinable \/ pc["user"] = "x_clear" THEN "stopping" ELSE "stopped"

Promise == INSTANCE Connection WITH phase <- Phase, up <- is_connected, news <- reported

\* The two threads together keep that promise: is_connected rises only when it was
\* down and its fall has been reported, on_connected comes only while it is up, and a
\* stopped client neither dials, reports nor is connected.
ConnectionSpec == Promise!Spec

-----------------------------------------------------------------------------
(* Liveness, under LiveSpec. *)

\* When the peer closes, the receive loop notices and clears is_connected.
LossNoticed ==
  (is_connected /\ fd \in Fds /\ desc[fd] = "eof") ~> (~is_connected \/ stolen)

\* A running client that is to reconnect gets its connection back.
Redials ==
  (is_running /\ is_reconnect /\ ~is_connected /\ joinable)
    ~> (is_connected \/ ~is_running \/ ~is_reconnect \/ stolen)

\* Once disconnect has told the receive thread to stop, its join ends.
StopCompletes == (pc["user"] = "x_join" /\ ~is_running) ~> (pc["user"] = "idle")

-----------------------------------------------------------------------------
(* What the code says of itself and does not do. *)

\* do_connect and disconnect close only the client's own descriptor.
ForeignUntouched == ~stolen

-----------------------------------------------------------------------------
(* The inductive invariant of TcpClient_proofs. *)

\* Where the user thread is determines whether the receive thread exists and
\* whether the client runs.
ThreadPhase ==
  /\ joinable <=> pc["recv"] # "none"
  /\ pc["recv"] = "done" => ~is_running
  /\ pc["user"] \in DialLabels \cup {"spawn"} => ~joinable /\ is_running
  /\ pc["user"] \in {"idle", "resolve", "x_enter"} => (is_running <=> joinable)
  /\ pc["user"] = "snd" => joinable /\ is_running
  /\ pc["user"] \in {"x_close", "x_reset"} => ~is_running
  /\ pc["user"] = "x_join" => (is_running => joinable)
  /\ pc["user"] = "x_clear" => ~is_running /\ ~joinable
  /\ pc["user"] \in {"x_enter", "x_close", "x_reset", "x_join"} /\ caller = "send" => joinable

\* When a client may be connected, that it is not while it dials, and that by
\* then it has an address.
FlagPhase ==
  /\ is_connected => joinable \/ pc["user"] \in {"dc_up", "spawn", "x_clear"}
  /\ \A t \in Threads : pc[t] \in DialLabels => (is_connected <=> pc[t] = "dc_up")
  /\ joinable \/ pc["user"] \in DialLabels \cup {"spawn"} => m_hosts # <<>>
  /\ pc["user"] = "resolve" => m_host \in Hosts

\* What a thread that dials, and the process that opened a file, hold.
Holdings ==
  ~stolen =>
    /\ file # NoFd => desc[file] = "file"
    /\ \A t \in Threads :
         pc["user"] \notin StopLabels /\ pc[t] \in {"dc_store", "dc_wait"} /\ loc[t] # NoFd =>
           desc[loc[t]] = "fresh" /\ (pc[t] = "dc_wait" => fd = loc[t])

\* do_connect closes what fd names, unless disconnect has reset it since the test, and
\* asks for a new socket only when fd holds none.  A disconnect that comes before
\* do_connect's close also closes what fd names.
EmptyHanded ==
  /\ \A t \in Threads :
       /\ pc[t] = "dc_close" /\ pc["user"] # "x_join" => loc[t] = fd
       /\ pc[t] = "dc_reset" /\ pc["user"] \notin StopLabels /\ fd \in Fds =>
            desc[fd] \notin Sockets
       /\ pc[t] \in {"dc_socket", "dc_store"} => fd = NoFd
  /\ pc["recv"] \in {"prep", "select", "dc_enter", "dc_close"} =>
       /\ pc["user"] = "x_close" => loc["user"] = fd
       /\ pc["user"] = "x_reset" /\ fd \in Fds /\ ~stolen => desc[fd] # "file"

\* As long as the receive thread has not dialled and nothing has been stolen, fd
\* is the only socket, once it is stored, and disconnect closes it.
OneSocket ==
  ~redialled /\ ~stolen =>
    /\ pc["recv"] \notin DialLabels
    /\ \A f \in Fds : desc[f] \in Sockets =>
         \/ f = fd /\ pc["user"] # "x_reset"
         \/ f = loc["user"] /\ pc["user"] = "dc_store"
    /\ pc["user"] = "x_close" => loc["user"] = fd
    /\ ~is_running /\ pc["user"] \notin {"x_close", "x_reset"} =>
         \A f \in Fds : desc[f] \notin Sockets

\* Unless its socket's dial was refused, fd names a closed descriptor only between its CLOSE and
\* its reset, or while disconnect waits for a dial to be refused whose socket it has
\* closed.  Meanwhile the process may open a file under its number only while the
\* receive thread is the one about to reset it.
NumberForgotten ==
  /\ refused => fd \in Fds
  /\ pc["recv"] \in DialLabels => redialled
  /\ ~stolen /\ ~refused =>
       /\ \A t \in Threads :
            /\ pc[t] = "dc_fail" => fd = NoFd
            /\ pc[t] = "dc_close" => loc[t] \in Fds /\ desc[loc[t]] # "file"
            /\ pc[t] = "dc_store" /\ loc[t] \in Fds =>
                 \/ desc[loc[t]] = "fresh"
                 \/ desc[loc[t]] = "free" /\ pc["user"] \in {"x_reset", "x_join"}
       /\ fd \in Fds /\ desc[fd] = "free" =>
            \/ pc["user"] = "x_reset"
            \/ \E t \in Threads : pc[t] = "dc_reset"
            \/ /\ pc["user"] = "x_join"
               /\ pc["recv"] = "dc_dial" \/ (pc["recv"] = "dc_wait" /\ loc["recv"] = NoFd)
       /\ fd \in Fds /\ desc[fd] = "file" => pc["recv"] = "dc_reset"
       /\ pc["user"] = "x_close" /\ loc["user"] \in Fds /\ desc[loc["user"]] = "file" => redialled

\* Every reachable state satisfies the inductive invariant from which the safety
\* properties are proved.
IInv ==
  /\ TypeOK
  /\ ThreadPhase
  /\ FlagPhase
  /\ Holdings
  /\ EmptyHanded
  /\ ConnectedHasSocket
  /\ NoSilentLoss
  /\ OneSocket
  /\ NumberForgotten
=============================================================================
