# A verification project for PBtransfor

PBtransfor is a small client for testing servers that speak protobuf messages
behind a four-byte head. A Lua script asks for a `.proto` file, a message and
its field values, encodes the message, puts a head in front of it and sends it
over a TCP (or WebSocket) connection kept by a C++ client, which reconnects by
itself and cuts what it receives into packets.

The TLA+ modules here model its own logic, TLC checks them on small instances,
and TLAPS proves the properties that matter most for every instance.

## 1. Inventory

| Component | Source | State | Operations | Interacts with |
|---|---|---|---|---|
| TcpClient connection | `src/tcpclient.{h,cpp}` | `is_running`, `is_connected`, `is_reconnect`, `fd`, `m_host`, `m_hosts`, `m_recv_thread` | `connect`, `send`, `disconnect` in the caller's thread; `run` and `do_connect` in the receive thread (`do_connect` also in the caller's) | the kernel's sockets, the peer, the callbacks `on_connected` / `on_disconnect` |
| TcpClient receive buffer | `src/tcpclient.cpp:133-175` | `recv_buf`, `recv_buf_pos` | `do_recv` | `recv`, the virtual `read_packet`, `on_recv` |
| GMsgHead codec | `bin/GMsgHead.lua` | none (a table in, a string out) | `pack`, `unpack` | Lua's `string.pack` |
| WSClient | `src/wsclient.hpp` | `ws`, `is_connected`, `m_recv_thread` | `connect`, `send`, `run`, the hub's handlers | the vendored uWebSockets hub |
| transpb message builder | `bin/transpb.lua` | the table being built | `load_file`, `find_message`, `encode`, `decode`, `transpb_by_input`, `MakeMessageTable` and its three handlers | lua-protobuf (a submodule, empty here), the user's input |
| Session scripts | `loop.lua`, `bin/client.lua` | the global `client_lua`, the message and head of this turn | `client.lua` once: make the client, connect; `loop.lua` in every turn: build, pack, send | transpb, GMsgHead, TcpClient |
| main, logging, platform macros, build files, proto files, vendored code | `src/main.cpp`, `src/logger.hpp`, `src/plat.h`, `opt/`, `proto/` | - | - | not modelled, see section 8 |

(Paths in this document are relative to the repository's root.)

What makes the system hard:

* **Two threads without a lock.** `fd`, `is_connected`, `is_running` and
  `m_hosts` are plain members written by the caller's thread and by the receive
  thread, with blocking calls (`connect`, `select`, `join`) between a read and
  the use of what was read.
* **Descriptors are numbers.** A closed number is handed out again by the
  kernel, to the client or to the rest of the process.
* **Two dialling threads in turn.** `do_connect` runs in `connect` and in the
  receive loop.
* **Reconnecting** must happen after every loss, must not leak, and must stop
  when `disconnect` says so.
* **Partial and merged packets.** `recv` cuts the stream anywhere.
* **A send that breaks half-way.** `::send` may take a part of a frame, or fail
  and stop the client from within the caller's turn, while the receive thread
  loses and redials the connection.
* **Recursion over a user's schema.** `MakeMessageTable` and its handlers fill
  one table per nested message and must not mix them up.
* **Bit fields** packed through a chain of shifts on 64-bit integers.

What makes each component correct:

* connection: the thread handle is never misused, dials are exclusive,
  `is_connected` is backed by a socket, losses are reported, reconnecting leaks
  nothing, a stopped client is quiet; losses are noticed, the connection comes
  back, `disconnect` returns;
* receive buffer: no access out of bounds, no byte lost, repeated or out of
  order, no complete packet held back, `do_recv` returns;
* codec: `unpack` undoes `pack`, and `pack` refuses what does not fit;
* WSClient: nothing is sent before the connection or through a null pointer; `ws`
  is used only while the hub holds the socket, by one thread at a time;
* transpb: every field of the schema reaches the encoder in the shape it
  expects; what is encoded decodes to what was entered;
* session: a head gives its body's length, no turn is sent twice or overtaken, a
  stopped client stays stopped.

## 2. Modules

| Module | Models | Extends |
|---|---|---|
| `Connection` | abstract: what a user of `TcpClient` sees of its connection | |
| `TcpClient` | the connection: both threads, the kernel's descriptors, the peer, the rest of the process; implements `Connection` | |
| `MCTcpClient` | the module the configurations of `TcpClient` name | `TcpClient` |
| `TcpClient_proofs` | theorems about `TcpClient`, among them the refinement | `TcpClient` |
| `PacketStream` | abstract: what `do_recv` promises to `on_recv` | |
| `RecvBuffer` | `do_recv` and the buffer, for any `read_packet`; implements `PacketStream` | |
| `MCRecvBuffer` | a length-prefixed `read_packet` for TLC | `RecvBuffer` |
| `RecvBuffer_proofs` | theorems about `RecvBuffer`, among them the refinement | `RecvBuffer` |
| `GMsgHead` | `pack` and `unpack`, as operators | |
| `GMsgHead_proofs` | lemmas: what each field of a packed head unpacks to | `GMsgHead` |
| `GMsgHeadCalls` | calls of `pack` and `unpack` by a script | `GMsgHead` |
| `MCGMsgHead` | the heads TLC tries | `GMsgHeadCalls` |
| `GMsgHeadCalls_proofs` | the round trip for every head | `GMsgHeadCalls`, `GMsgHead_proofs` |
| `Session` | `client.lua` and the turns of `loop.lua`: composes `Connection` (INSTANCE) and `GMsgHead` | `GMsgHead` |
| `MCSession` | message lengths for TLC | `Session` |
| `Session_proofs` | theorems about `Session` | `Session`, `GMsgHead_proofs` |
| `Transpb` | one call of `transpb_by_input`, with `MakeMessageTable` and its handlers | |
| `MCTranspb` | messages of `proto/` for TLC | `Transpb` |
| `Transpb_proofs` | the walk over the fields asks for every one | `Transpb` |
| `TranspbLists_proofs` | the loops that fill arrays fill them whole, nothing is overwritten, and what `pb.encode` finds | `Transpb_proofs` |
| `WSClient` | `connect`, `send` and `run` over two threads, and the hub's socket | |
| `WSClient_proofs` | theorems about `WSClient` | `WSClient` |

How they compose: `TcpClient` is shown to implement `Connection`, and `Session`
is a user of `Connection`, so what `Session` assumes of `phase`, `up` and `news` is
what the two threads of `TcpClient` keep. It assumes more than that on its own
account, none of which the refinement covers: what `::send` returns (`SendsAll`,
`SendsPart`, `SendFails`, `SendKills`), that a dial which succeeds is a new
connection (`conn`), and when a `disconnect` hangs (`DisconnectHangs`). `Session`
uses the heads of `GMsgHead` bit by bit.
What a user types to make a body is `Transpb`; `Session` takes its three outcomes
(a string, the empty string, an error). `RecvBuffer` is the inside of
`TcpClient`'s step `RunReadable`.

Definitions whose comment begins with "Mutant:" are plausible bugs. No
specification uses them; each has been put in the place of the definition that
follows it, to see that the property listed with it in `PROJECT.json` fails.

### TcpClient

The members of the class are variables of the same names. `pc["user"]` and
`pc["recv"]` say where the two threads are; the labels `dc_*` are
`do_connect`'s, which either may run, and `x_*` are `disconnect`'s. A step goes
from one blocking or external call to the next, so everything that another
thread can do in between is another behaviour:

* `do_connect` (11-42): `DcEnter` (the test of `fd`), `DcClose`, `DcReset`
  (`fd = -1`), `DcSocket` (the call) or `DcSocketFails`, `DcStore` (its result goes
  to `fd`), `DcDial` (the call of `::connect`) or `DcSocketGone` (the test for -1 finds
  that `disconnect` has reset `fd` in between), then `DcDialed` (`is_connected = true`) and
  `DcAnnounce` (`on_connected`), or `DcRefused` and `DcFail` (the close that leaves
  `fd` as it is).
* `connect` (44-93): `Connect` up to `gethostbyname`, `Resolved` or
  `Unresolved`, the steps of `do_connect`, `Spawn`.
* `send` (95-109): `Send` (the test of `is_connected`), `SendOk` or
  `SendFails`, which goes on with `disconnect`.
* `disconnect` (121-131): `XEnter`, `XClose`, `XReset`, `XJoin` or
  `XJoinThrows`, `XClear`. `XEnter` and `XClose` are separate because `fd` may
  change between the test and the call; the compiler may use either value.
* `run` (177-226): `RunCheck`, `RunPrepare` (which descriptor the sets hold),
  `SelectReady`, `SelectError` or `SelectTimeout`, `RunReadable` (with
  `DoRecv`, which clears the flag of a lost connection), `RunLost` (its
  `on_disconnect`), `RunExcept`.

`desc` is the kernel's view: each descriptor number is free, a file of the rest
of the process, or a socket that is `fresh` (not connected), `open`, or at
`eof`. `::connect` keeps its socket referenced, so a concurrent close does not
make it fail. On Linux `select` does not notice a close during its wait; on
Windows (`Windows = TRUE`) it does, and it refuses empty sets. `FD_ISSET(-1, ..)`
is undefined and yields either answer on Linux. `stolen` (a close has hit a
foreign descriptor), `reported` (the last callback), `redialled` (the receive
thread has called `do_connect`) and `refused` (`fd` has the number of a socket whose
`::connect` has failed) are history.

Assumptions of the model: one thread calls the public operations, one call at a
time; SIGPIPE is ignored; the `bool`s and the `int` are read and written whole
(they are not atomic in C++, but every loop reads them again after an opaque
call). `WSAStartup`'s failure, `isConnected`, and `send` on a client that is not
connected change nothing and have no action. `m_port` has no influence on any
property and is left out; addresses are identified with host names, because the
code pushes only a host's first address, once for each address it has.

### Connection, and how TcpClient implements it

`Connection` has three variables: `phase` (stopped, running after `connect`,
stopping in `disconnect`), `up` (what `isConnected` answers) and `news` (the last
report). Its steps are `Start`, `Dialled` (the flag rises, and only after the loss
before has been reported), `Announced` (`on_connected`, while it is up), `Lost` (the
flag falls), `Alarm` (`on_disconnect`), `Stop` and `Stopped`. The flag and the
callback are steps of their own, because the other thread may act in between: a
`send` between line 39 and line 40 may fail and call `on_disconnect` before
`on_connected`. In `TcpClient!Promise`, `up`
is `is_connected`, `news` is `reported` and `phase` is the operator `Phase`:
running while `is_running`, stopping while there is still a thread to join or
`disconnect` has yet to clear the flag, else stopped. `ConnectionSpec` is the
refinement: every step of either thread is one of these seven or a stutter.

### RecvBuffer

`recv_buf` is an array of `MAX_RECV_BUF` cells and `recv_buf_pos`, `readPos`,
`pkgLen` are the code's. `read_packet` is virtual, so it is the constant
operator `ReadPacket`: any function from the bytes it is shown to an integer.
`Recv` is the call of `recv` with the first `read_packet`; `Deliver` is the head
of the loop with `on_recv`; `NextPacket`, `KeepPartial` (the memmove and the
terminator) and `Drained` are the three ways through its tail. `RecvNothing` is
a return of 0 or -1, which also happens when the buffer is full and `recv` is
asked for 0 bytes. `Reconnect` keeps the buffer, as `do_connect` does.

`do_recv` is run by the receive thread alone, which is why `TcpClient` needs
only its outcome (`DoRecv`) and `RecvBuffer` only the connection's.

`PacketStream` is the promise: `received` grows at its end and `delivered` is
extended by the packet whose length `read_packet` chose looking at exactly the
bytes not yet delivered. `RecvBuffer!StreamSpec` is that specification through
`Stream == INSTANCE PacketStream WITH ...`, with the same two variables; what
`PacketStream` calls pending is what the buffer holds from `readPos` to
`recv_buf_pos`.

### GMsgHead

A Lua integer is the set of the positions of its 1 bits, so `|`, `&` and the
shifts are set operations and 64-bit truncation is explicit. `pack` fills the
nil fields of the caller's table (in place), throws when `string.pack` would
report an overflow, and otherwise returns the four bytes. `GMsgHead` has the
operators (`Filled`, `Packable`, `pack`, `unpack`), which `Session` uses;
`GMsgHeadCalls` is the state machine of a script that packs and unpacks a table.

### Session

`pc` is where the user's thread is: in `client.lua` (`NoClient`,
`ClientConnects`, `ConnectReturns`), at `io.read` between turns (`BeginTurn`), or
in a turn of `loop.lua`: `Build` (`transpb_by_input`), `PackHead` (line 34, which
throws for a body of 2^24 bytes or more), `IsConnected` (line 41), `Send` (the
second test, in `TcpClient::send`), then `SendsAll`, `SendsPart`, `SendFails` or
`SendKills`; after a failure `on_disconnect` has been called and `Disconnect` and
`Join`, or `DisconnectHangs`, follow in the same thread. `main.cpp` would run
`client.lua` once and then `loop.lua` for ever, and that order is the model's
(lines now commented out).

`Dialled`, `Announced`, `Lost` and `Alarm` are the receive thread's and the server's
doing, as `Connection` lets them act: between any two steps of a turn. `pack_flag`
returns the empty string (line 16), so a frame is its head and its body. `SendsPart`
is a `::send` that returns a short count, which nobody looks at: the next frame may
follow on the same connection. `SendKills` is SIGPIPE, whose disposition the
repository never sets. `DisconnectHangs` is a `disconnect` that finds `fd` at -1
and joins a thread nobody has stopped (section 7). `sent` is the history of
frames, each with its connection, turn, head, body and whether it is whole.

### Transpb

A call goes through the stages file, message, fields and encode. Lua's call
stack in `MakeMessageTable` / `HandleMessageNestType` is `stack`: one record per
message table under construction, with the field it is at and how many tables of
the same array are still to follow. The Lua table is flat: `tables` and `data`
map paths (sequences of field and array index) to the message tables and the
values stored there. `HandleMessageBaseType`, `HandleMessageEnumType` and
`HandleMessageNestType` are actions of those names, each with all it asks of the
user; `NextSibling`, `ReturnNested` and `ReturnMessage` are the returns of
`MakeMessageTable`. `Written` is an assignment to a Lua table. A text is an integer,
another number or a word: `randomData` has no number for a word, and `pb.encode` no
integer for 1.5. `types`, the types pb has loaded, outlives the call, so a call may
begin with those of any earlier files; a file that does not load may still have
loaded any of its imports (`LoadFileFails`). At the end of the input, when a message
is to be named, nil is concatenated and the script ends (`FindMessageFails`).

lua-protobuf is an empty submodule here. `pb.fields`, `pb.type`, `pb.types` and
`pb.enum` are the constants `Fields`, `Kind`, `Defines` and `EnumValues`. Of
`pb.encode` the model says that it fails on a repeated field that is no array
(`ArraysFit`) and on a number it cannot convert to a field's integer type
(`Inconvertible`), that it may fail on the name of something that is no message, and
that it reads the values at the places the schema gives them (`SchemaType`, a walk
down the schema, one `StepType` at a time). Whether it comes to an array's elements
behind a hole is not known, so there it may fail or not (`BehindHole`). That it has no
other reason to fail is an assumption about the library. Whether loading the library sets a global `pb`
cannot be read off the repository: `GlobalPb` has both answers.

### WSClient

`Connect`, `SendLoads`, `SendTests` and `SendReturns` are the user thread's
steps; `send`'s test is two reads, and the call may use the pointer already read
or read it again. The hub's thread is `run`: `HubConnect`, `Upgrade` (which calls
`onConnection`'s handler, whose two stores may become visible in either order),
`HubSends` (a pong, a close frame, the queue), `OnEnd` and `LoopEnds` (the socket
is deleted and `run` returns). Messages have no content, and `on_recv`'s body is
commented out, so receiving one changes nothing and has no action. The hub is the
vendored one, built without `UWS_THREADSAFE`.

## 3. Runs

| Run | Question | Instance |
|---|---|---|
| `tcp_safety` | are the safety properties kept in every interleaving, does a stop take one turn at most, what closes a foreign descriptor, and is `Connection` implemented? | 3 descriptors, 1 host with 1 or 2 addresses, both values of `reconnect`, Linux, `m_hosts` up to 3 |
| `tcp_liveness` | is a loss noticed, does the connection return, does the join end? | 3 descriptors, `m_hosts` up to 2 |
| `recv_oversize` | is the stream kept and the buffer not overrun, whatever arrives, does every turn deliver, and does `do_recv` return? | buffer of 4, packets of 1, 3 and 5 bytes, 7 bytes in all |
| `gmsghead` | does `unpack` undo `pack`? | the flags' values at their widths and, for the two-bit ones and `type_flag`, one bit beyond; six lengths up to 2^24; tables with nil fields |
| `session` | does every head announce its body, whatever breaks, is nothing sent twice or out of order, and is a stopped client quiet? | 3 turns, 3 connections; bodies of length 0, of two length bytes, of 2^24-1 and of 2^24 |
| `transpb_repo` | is every field that is always stored there, is every array of messages, strings or booleans whole, does what was entered reach the encoder, is an answer ever overwritten, is anything asked twice, what ends a call with an error, and does it end? | AddressBook with its nested types, GateInfoNtf, StopRsRankAck and a message with a map and an array of numbers; arrays of up to 2; with and without a global `pb` |
| `ws_safety` | does `send` keep away from a connection that is not there? | the whole model (no constants) |
| `tcp_double_close`, `tcp_windows_redial`, `transpb_packed`, `transpb_nested`, `ws_stale_socket` | the findings of section 6 | |

Bounds, and why they are enough. Three descriptors let the client hold one, leak
one and the rest of the process hold one. `MaxHosts` bounds how often `connect`
resolves a name: three allows a start, a restart after a stop and a call on a
running client; reconnects by the receive thread are not bounded. A buffer of 4
with packets of 1, 3 and 5 gives packets that end at, before and beyond the end
of the data and of the buffer; 7 bytes fill it, empty it and fill it again. Arrays
of up to two elements have a first, a last and an empty case, and three levels of
messages (AddressBook, Person, PhoneNumber) make the recursion return into a
parent that goes on. Three turns and three connections let two frames share a
connection and a third take another, or each have its own; the four lengths are the
empty body, one whose bytes differ, and the two sides of the head's limit.
`EnteredIsEncoded` also runs in `transpb_nested`, on a
message of `rs.proto` that breaks it.

The type invariants of `TcpClient` and `Transpb` are conjuncts of their `IInv`, and
`tcp_safety` and `transpb_repo` check them there.

`CHECK_DEADLOCK FALSE` is given for `gmsghead` and `Transpb`, where a call ends,
for `session`, where an error ends the program or a join waits for ever, and for `WSClient`, where the process may die or the thread return.
`tcp_safety` uses no symmetry; liveness must not.

**Fairness.** `LiveSpec` of `TcpClient` has weak fairness of `UserStep` (a call
in progress goes on) and of `RecvStep`: both are the scheduler's doing, and the
calls they wait for (`select` with a timeout of five seconds, a `::connect` that
the kernel ends) return. `UserCall` has none: no user need call. Strong fairness
of `DcSocket("recv")` and `DcDialed("recv")` says that the kernel does not refuse
a socket for ever and that a server asked for ever accepts at last; without it
`Redials` would be a statement about the server. The bound of three descriptors
in `tcp_liveness` matters: the race between `disconnect` and a redial leaves a
socket open (section 7), and with two descriptors a restart would find none.
`RecvBuffer`'s `LiveSpec` only lets a `do_recv` that has begun go on. `Transpb`'s
is a user who answers what she is asked. `Session` and `WSClient` have no fairness:
that the join in a turn returns is `TcpClient`'s `StopCompletes`; where it does not,
`Session` has `DisconnectHangs`.

## 4. Properties

`TcpClient`: `ThreadOwnership`, `StoppedIsQuiet`, `DoConnectExclusive`,
`DialHasAddress`, `ConnectedHasSocket`, `NoSilentLoss`, `DialLeaksNothing`,
`LastTurn` and `DoubleCloseHasCause` (action properties), `StopClosesSockets`,
`ConnectionSpec` (refinement), and the liveness properties `LossNoticed`, `Redials`, `StopCompletes`. `RecvBuffer`: `StreamIntact`, `TerminatorInBounds`,
`NothingHeldBack`, `StreamSpec` (refinement), `LossIsReal`, `LoopAdvances` (an action
property), `DoRecvReturns`.
`GMsgHeadCalls`: `RoundTrip`. `Session`: `Framed`, `InOrder`, `StopIsFinal` (an
action property). `Transpb`: `Complete`, `ListsAreWhole`,
`EnteredIsEncoded`, `ErrorsExplained`, `NothingOverwritten` and `WalkAdvances` (action
properties), `CallEnds`. `WSClient`: `SendsAfterUpgrade`. Each is stated in
words above its definition; `PROJECT.json` links them to the hazards.

Some are conditional, and the condition is part of what they say:

* `ConnectedHasSocket`, `StopClosesSockets` and the liveness properties exclude
  behaviours in which the double close has already hit a foreign descriptor
  (`stolen`): after that the kernel's and the client's books differ.
* `StopClosesSockets` is about clients whose receive thread has not redialled
  (`redialled`): with a redial the race of section 7 leaves a socket open.
* `DoubleCloseHasCause` is about the first foreign descriptor that is closed.
* `LastTurn` is about a client whose `is_running` has been cleared; a `disconnect`
  that finds `fd` at -1 does not clear it (section 7).
* `ConnectedHasSocket` and `DialLeaksNothing` say nothing while a `disconnect`
  is under way, which takes `fd` from under the receive thread by design.
* `Framed` is about what was to be sent. Whether the frame goes out whole is
  `::send`'s affair, and nobody looks (section 7).
* `Complete` and `ListsAreWhole` are about fields whose value is always stored
  (`AlwaysStored`): messages, strings, bytes and booleans. A word typed for a number
  stores nothing, an enum's value may be refused, and a map is never asked for.
* `ErrorsExplained` is as complete as what is assumed of `pb.encode` (section 2).
* `LoopAdvances` and `DoRecvReturns` need a `read_packet` that answers at most the length it was
  shown; with another the loop has no end. A packet longer than the buffer costs
  the connection (`LossIsReal`), and a partial packet at a loss is left in front
  of the next connection's bytes. None of this happens with `TcpClient`'s own
  `read_packet`, for which whatever has arrived is a packet.

## 5. What is proved

All theorems hold for every value of the constants that satisfies the module's
assumption.

**TcpClient** (`TcpAssumption`: -1 is no descriptor, the empty name is no host,
`connect`'s flag is a Boolean, a resolved name has an address). `Invariance`
proves `IInv`, which has these parts:

* `ThreadPhase`: the receive thread exists exactly while it is joinable, and at
  each label of the user thread whether it exists and whether `is_running` is
  set. It is what makes `ThreadOwnership` and `DoConnectExclusive` inductive.
* `FlagPhase`: `is_connected` implies that there is, or is about to be, a receive
  thread; a dialling thread is connected only between `is_connected = true` and
  `on_connected`; a thread that may dial has an address.
* `Holdings`: what a thread holds that has a socket not yet stored, or waits in
  `::connect`, is a new socket, in the second case `fd`'s, and the process's file is
  a file, as long as nothing has been stolen. Without it `DcDialed` would not give
  `ConnectedHasSocket`.
* `EmptyHanded`: `do_connect` closes what `fd` names, and when it calls `socket` and
  stores the result `fd` is -1. It gives `DialLeaksNothing`. That a `disconnect` which
  comes before a redial's close also closes what `fd` names is part of it.
* `OneSocket`: as long as the receive thread has not dialled, `fd` is the only
  socket once it is stored, and what `disconnect` is about to close is it. It gives
  `StopClosesSockets`.
* `NumberForgotten`: while `fd` does not have the number of a refused socket, it names
  a closed descriptor only between a `CLOSE` and its reset, or while `disconnect`
  waits for a dial whose socket it has closed, and one the process has opened only
  while the receive thread is about to reset it; nor does `disconnect` hold such a
  number, unless the client has redialled. It gives `DoubleCloseHasCause`.
* `ConnectedHasSocket` and `NoSilentLoss` (the last news is good only while the flag
  is set or `do_recv`, having cleared it, is about to say so) themselves.

Each part has a lemma with one step per action of `Next`. From `Invariance`
follow `TypeCorrect`, `ThreadSafe`, `StopsQuietly`, `OneDialler`,
`DialsAnAddress`, `ConnectedIsBacked`, `LossesReported`, `RedialsLeakNothing`,
`StopLeavesNothing`, `TheftsExplained`, `StopsInOneTurn`, and `KeepsPromise`, the refinement of
`Connection`, whose lemma has one step per action again. `StopsInOneTurn` is the
part of `StopCompletes` that needs no fairness: with `is_running` cleared, every
step of the receive thread leads to a later label of `TurnOrder`, which ends in
`done`. `ThreadPhase` is what rules out a `Spawn` in the meantime. `TheftsExplained`
bounds the finding of `tcp_double_close`: a foreign descriptor is first closed while
`fd` has the number of a refused socket, or by `disconnect`'s own close in a client that has redialled (the race
of section 7). With a reset of `fd` after line 36 the first cause would be gone, and
`do_connect` would close only what is its own.

**RecvBuffer** (`RecvAssumption`: the buffer has a cell, the terminator is no
byte, `ReadPacket` returns integers - not that they are sensible). `IInv` is the
type invariant, `StreamIntact` and `LoopState` (inside the loop `pkgLen` is
`read_packet`'s answer for the unread bytes, or a packet has been delivered). The
last part is why the terminator stays in bounds: `KeepPartial` is reached only
after `readPos` has advanced, since a deterministic `read_packet` that found a
packet in these bytes finds it again. `ReturnInv` adds `NothingHeldBack` and
`LossIsReal`, and that a lost connection is found only between two calls. Proved: `WithinBuffer`, `StreamKept`,
`TerminatorSafe`, `NoPacketWaits`, `LossesAreReal`, `EveryTurnDelivers`, and
`Implements`, the refinement of `PacketStream`. `EveryTurnDelivers` is to
`DoRecvReturns` what `StopsInOneTurn` is to `StopCompletes`: by `LoopState` the
length in use is `read_packet`'s answer for the unread bytes, so a turn passes over
the packet only if that answer was larger than they are.

**GMsgHead** (`TablesAssumption`: tables hold 64-bit integers). `RoundTrips`,
from `Layout` (which bit of the flag byte is which field's) and `LengthBytes`.

**Session** (`SessionAssumption`: the empty body has length 0, the others any
64-bit length). `IInv` adds to the properties `ClientPhase` (which phases of the
`Connection` go with which step of a turn), `HeadFits` (a head that has been
packed is the packed length of this turn's body, within 24 bits) and `Past` (what
was sent belongs to earlier turns and to connections already made). `FramesReadable` follows by the codec's lemmas,
`FramesInOrder` from the invariant, and `NoSecondLife` from `ClientPhase`: a stopped
client leaves no step that starts it, dials or sends.

**Transpb** (`SchemaAssumption`: the schema's maps have their domains, no
message has two fields of one name, and "none" names no type; nothing about the
schema's shape, so a message may contain itself). `IInv` is `WalkInv`, `ListInv`,
`WireInv` and `Known`.

`WalkInv` is the type invariant, `StackOK` (the tables under construction lie each
one level below the one before, so a table made at the next level disturbs none of
them, and those still to follow have an index) and `Asked` (a field whose value is
always stored is stored, or its table is still on the stack and has not passed it).
Two lemmas carry the proof: `Pushes` for the steps that put a new table on the
stack (`FindMessage`, `HandleMessageNestType`, `NextSibling`) and `Advances` for
those that move a table to its next field (the handlers, `ReturnNested`). When the
stack is empty, `Asked` is `Complete`: `EveryFieldAsked`.

`ListInv` is about the arrays. `Reached`: whatever is stored is at a field its table
has come to, so the field at hand is still empty (`FreshField`). `Filling`: the array
a loop of `HandleMessageNestType` is filling has the elements up to the table above
it on the stack, and those announced are these and the ones still to follow it.
`Whole`: the other arrays are as long as announced. An element pushed goes to the
next place of its own array and touches no other (`ListPushes`, on the names being
different: `PlacesDiffer`); when the last one returns, the array at hand is whole
and the loop is gone (`ListAdvances`). At the end no loop is left: `ArraysWhole`.
Since the field at hand is empty and a loop's next place is beyond the array's
elements (`NextIsFree`), no step writes where something is: `WritesOnce`.

`WalkGoesOn` is the part of `CallEnds` that needs no fairness: every step of the walk
takes the stack further in the order of its fields and elements (`Ahead`). What it
leaves to TLC is that the walk has an end, which it has not for every schema: only
elements and fields are bounded, and a message that contains itself goes on downwards.

`WireInv` is about what `pb.encode` finds. `Placed`: every table but the message's
own is an element of a message field of its parent, with the field's type. `Shaped`:
what is stored for a field is an array exactly if the field's handler makes one
(`HasShape`). `Encoded`: the table's arrays fitted if the call returned bytes; if it
ended with an error they did not, or a number could not be converted, or there was no
`pb`, or no message. `Known`: every
table is of a type pb knows. Each has to be stated of the whole table because the
handlers only look at their own field.

The two handlers' shortcomings that `transpb_packed` and `transpb_nested` show are
thereby bounded. `EnteredReaches`: while every message field that pb knows is
repeated (`NestedInArrays`), `EnteredIsEncoded` holds. `BaseTypesFit`: while pb knows
no packed field (`NothingPacked`), so does `BaseTypesEncode`. `ErrorsHaveReasons`,
without a condition: a call that ends with an error was given no message's name, met
an enum without a `pb`, was given something that is no message, stored a packed field
or a repeated enum, or stored a number that is no integer for an integer field. That
these are `pb.encode`'s only reasons is assumed, not proved (section 2); what the
proof adds is that the handlers give it none of its first kind elsewhere, whatever
the schema and the answers. The first two conditions are about the types loaded, so all of `transpb_repo`, where no file with a
lone message field is loaded, satisfies the first.

`EnteredReaches` needs that the encoder's walk, which goes down from the message
(`SchemaType`, a recursive function), comes to a value that the handlers reached by
pushing tables. No induction theorem of the library can be used for it (they take an
operator as a parameter), so it rests on two least-element arguments: a set of depths
that breaks the claim would have a least member (`Least`, from the well-foundedness
of < on Nat), and the step before it leads to a contradiction. Everything above a
table is a table (`AboveTables`, from `Reached`), and there is only one walk to a
place (`OneWalk`, hence `SchemaWalk`). `ValueReached` then gives the walk: by
`Placed` it goes through the types of the tables above the value.

**WSClient** (no assumption). `SendsGuarded` from `Invariance`: the flag is set
only by the handler, hence after the upgrade, and a pointer that `send` has found
not null stays so, because nothing resets `ws`.

Only model-checked: the liveness properties (`LossNoticed`, `Redials`,
`StopCompletes`, `DoRecvReturns`, `CallEnds`), which need fairness, hence ENABLED, and
are out of the prover's reach. Every invariant and every action property
that a passing run checks is proved, `EnteredIsEncoded` under the condition above,
and so are the two refinements.

## 6. Findings

* **A refused dial leaves a closed number in `fd`** (`tcpclient.cpp:36`). The
  next close hits whatever was opened with it since (`tcp_double_close`).
* **On Windows a lost connection is never redialled** (`tcpclient.cpp:220`):
  `select` refuses empty sets, so the timeout branch is not reached
  (`tcp_windows_redial`).
* **A packed field is asked for as a single value** (`transpb.lua:115` tests the
  global `option`), and `pb.encode` refuses it (`transpb_packed`).
* **A message field that is not repeated becomes an array of one**
  (`transpb.lua:192`); its values are not where the encoder looks
  (`transpb_nested`).
* **`WSClient::send` uses a socket the hub has closed and deletes**
  (`wsclient.hpp:25`, `ws_stale_socket`).

Met while modelling, with no run of their own:

* A stopped client that is connected to another host dials its first host:
  `m_hosts` is only appended to and `m_hosts[0]` is what is dialled
  (`tcpclient.cpp:31`), while the log names the new host (line 65).
* "socket error , close connection" (`tcpclient.cpp:211`) closes nothing and
  leaves `is_connected` set.
* `pack` checks no width (`GMsgHead.lua:22`): a `reserve_flag` of 4 sets
  `reflect_flag`, although "number is present bits" (line 4) gives it two.
* The enum handler calls the global `pb` (`transpb.lua:170`), which nothing in the
  repository sets. If lua-protobuf does not set it either, the first enum field
  ends the call with an error (`GlobalPb` in `Transpb`).
* The list of calls at the head of `loop.lua` names `transpb:load(str)` (line 8),
  which `transpb.lua` does not have.
* `WebSocket.h:71` marks `send` "Thread safe", which holds only under
  `UWS_THREADSAFE`; no build file sets it, and `WSClient` sends from another
  thread than the hub's (in `WSClient`, `pc = "sending"` with `hub = "send"`).

## 7. Behaviour worth knowing that no document contradicts

* `disconnect` while `fd` is -1 (between a redial's close and its socket, or
  after `socket` failed) does not clear `is_running` and joins a thread that does
  not end. `StopCompletes` is about the other calls.
* `disconnect` racing a redial may close the old number, or reset `fd` over the
  new socket, and leave the new socket open. `StopClosesSockets` is therefore
  restricted to clients that have not redialled. The old number may stand for a
  foreign file by then, the second cause of `DoubleCloseHasCause`.
* A failed `send` stops the receive thread, so the client does not reconnect, and
  nothing in the scripts connects it again: the session prints and packs on but
  never sends (`StopIsFinal`).
* When the file or the message is not found, "Please Input Again" is printed but
  `transpb_by_input` returns the empty string (`transpb.lua:82` and `:90`), and
  `loop.lua` sends a head with no body. `Framed` holds of it: it is a frame of
  length 0.
* `loop.lua:43` drops the number of bytes `send` took. If the count was short and the
  connection goes on, the next frame follows in the middle of this one and the server
  reads its head as the rest of the last body. A blocking socket returns a short count
  only in rare cases (a signal, a connection that breaks), so `Session` allows it
  without a claim about it: its frames may be cut, and no property says they are not.
* At the end of the input `find_message` gets nil for a name, and appending it to "."
  ends the script (`transpb.lua:39`). 1.5 typed for an `int32` becomes a number
  (`transpb.lua:108`) that `pb.encode` refuses, which ends it too (line 53).
* The head's length has three bytes; a longer body ends the program with an error
  of `string.pack` (`GMsgHead.lua:19`).
* `WSClient::ws` has no initializer. A `send` between the handler's two stores, if
  the flag becomes visible first, calls through whatever it held.
* `WSClient::send` ignores `len` and passes a char pointer, so a message ends at
  its first 0 byte; the head of any body shorter than 64 KiB has one.
* A second `WSClient::connect` terminates the process, also after a first one that
  failed.
* An enum offers the values from 0 up to the first number without a name; anything
  else is left out silently. A word typed for an element of a repeated number
  leaves a hole in the array; what `pb.encode` does with the elements behind it is not
  known, and `EnteredIsEncoded`, which is about places in the schema, takes them for
  encoded.
* `find_message` answers for enums and map entries too.

## 8. Not modelled

Every part of the program's own code with state is modelled. What is left out, and
why:

* `src/main.cpp`: all of `main` but a pause is commented out. The order in which it
  would run the scripts is `Session`'s.
* `src/logger.hpp` prints; `src/plat.h` has macros, which are modelled where they
  are used (`CLOSE`, `SLEEP`).
* `transpb:decode`, `toHex` and `showTable`, and `on_lua_recv` and `unpack_flag` of
  `loop.lua`, change no state: they print, or do nothing.
* The binding that would make `client_lua` a Lua object is not in the repository;
  `Session` has the calls the scripts make on it.
* `proto/` is data, used by `MCTranspb`; the build files have no behaviour.
* The vendored libraries (`opt/asio`, `opt/lua`, uWebSockets), which are nearly all
  of the lines of the repository, and the empty submodules are third-party code;
  they are modelled as far as the program's own code depends on them: Lua's shifts
  from the vendored interpreter (`opt/lua/lvm.c`: `luaV_shiftl`, and `OP_SHR`, which
  shifts left by the negated count), `string.pack`'s overflow check, the life of a
  hub's socket, and `pb.*` as the script uses it.
* Destroying a client; the class has no destructor.
* Data below the grain of a model: which byte of a torn write is seen, and what a
  vector's reader sees while it grows (the hazards say where).
