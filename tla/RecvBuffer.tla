----------------------------- MODULE RecvBuffer -----------------------------
(***************************************************************************)
(* TcpClient::do_recv of src/src/tcpclient.cpp: the bytes recv returns are *)
(* gathered in recv_buf and cut into packets for on_recv where the virtual *)
(* read_packet says.  Only the receive thread runs it.  read_packet is the *)
(* constant ReadPacket: a function of the bytes it is shown, any one the   *)
(* subclass likes; a length <= 0 means that no packet is complete.         *)
(*                                                                         *)
(* A byte is a model value or a small number, MAX_RECV_BUF a parameter.    *)
(***************************************************************************)
EXTENDS Integers, Sequences

CONSTANTS
  Bytes,
  NUL,             \* the 0 written behind a partial packet
  MAX_RECV_BUF,    \* sizeof(recv_buf)
  ReadPacket(_),   \* read_packet(pData, dataLen), the bytes given as a sequence
  MaxReceived      \* bound: bytes that arrive in a behaviour

\* What the buffer can hold.
Contents == UNION {[1..n -> Bytes] : n \in 0..MAX_RECV_BUF}

ASSUME RecvAssumption ==
  /\ MAX_RECV_BUF \in Nat \ {0}
  /\ MaxReceived \in Nat
  /\ NUL \notin Bytes
  /\ \A s \in Contents : ReadPacket(s) \in Int

VARIABLES
  recv_buf, recv_buf_pos, readPos, pkgLen,
  pc,             \* "idle": not in do_recv; "loop", "rest": in its while loop
  is_connected,
  peer,           \* "open", or "closed": recv has an end of stream or an error
  received,       \* history: every byte recv has returned
  delivered       \* history: every byte on_recv has been given

buffer  == <<recv_buf, recv_buf_pos>>
history == <<received, delivered>>
vars    == <<buffer, readPos, pkgLen, pc, is_connected, peer, history>>

Indices == 0..(MAX_RECV_BUF - 1)

\* The n bytes of array b from index i.
Slice(b, i, n) == [j \in 1..n |-> b[i + j - 1]]

\* What read_packet is shown: the bytes not yet handed to on_recv.
Unread == Slice(recv_buf, readPos, recv_buf_pos - readPos)

\* recv_buf_pos never passes the end of recv_buf, nor readPos recv_buf_pos.
TypeOK ==
  /\ recv_buf \in [Indices -> Bytes \cup {NUL}]
  /\ recv_buf_pos \in 0..MAX_RECV_BUF
  /\ readPos \in 0..recv_buf_pos
  /\ pkgLen \in Int
  /\ pc \in {"idle", "loop", "rest"}
  /\ is_connected \in BOOLEAN
  /\ peer \in {"open", "closed"}
  /\ received \in Seq(Bytes)
  /\ delivered \in Seq(Bytes)

\* A connected client.  recv_buf is not initialised; no byte of it is read
\* before recv has written it, so any contents will do.
Init ==
  /\ recv_buf = [i \in Indices |-> NUL]
  /\ recv_buf_pos = 0
  /\ readPos = 0
  /\ pkgLen = 0
  /\ pc = "idle"
  /\ is_connected = TRUE
  /\ peer = "open"
  /\ received = <<>>
  /\ delivered = <<>>

Room == MAX_RECV_BUF - recv_buf_pos

\* recv copies the bytes s behind those the buffer holds.
Gather(s) ==
  /\ pc = "idle"
  /\ is_connected
  /\ peer = "open"
  /\ recv_buf' = [i \in Indices |->
       IF i \in recv_buf_pos..(recv_buf_pos + Len(s) - 1)
         THEN s[i - recv_buf_pos + 1] ELSE recv_buf[i]]
  /\ recv_buf_pos' = recv_buf_pos + Len(s)
  /\ received' = received \o s
  /\ UNCHANGED <<readPos, is_connected, peer, delivered>>

\* while (pkgLen > 0): without a packet do_recv returns at once.
Enter(n) ==
  /\ pkgLen' = n
  /\ pc' = IF n > 0 THEN "loop" ELSE "idle"

\* Mutant: recv may fill the whole of sizeof(recv_buf), not the room left.
RecvUnbounded(s) ==
  /\ Len(s) \in 1..MAX_RECV_BUF
  /\ Gather(s)
  /\ Enter(ReadPacket(s))

\* Mutant: the loop is entered before pkgLen is tested.
RecvAlwaysLoops(s) ==
  /\ Len(s) \in 1..Room
  /\ Gather(s)
  /\ pkgLen' = ReadPacket(Slice(recv_buf', 0, recv_buf_pos'))
  /\ pc' = "loop"

\* Mutant: read_packet is shown only the bytes that have just arrived.
RecvReadsChunk(s) ==
  /\ Len(s) \in 1..Room
  /\ Gather(s)
  /\ Enter(ReadPacket(s))

\* recv returned the bytes s, and read_packet is shown all the buffer holds.
Recv(s) ==
  /\ Len(s) \in 1..Room
  /\ Gather(s)
  /\ Enter(ReadPacket(Slice(recv_buf', 0, recv_buf_pos')))

\* recv returned 0 or -1: the peer is gone, or recv was asked for 0 bytes.
RecvNothing ==
  /\ pc = "idle"
  /\ is_connected
  /\ peer = "closed" \/ Room = 0
  /\ is_connected' = FALSE
  /\ UNCHANGED <<buffer, readPos, pkgLen, pc, peer, history>>

\* Mutant: the test is < instead of <=.
DeliverStrict ==
  /\ pc = "loop"
  /\ pc' = "rest"
  /\ IF readPos + pkgLen < recv_buf_pos
       THEN /\ delivered' = delivered \o Slice(recv_buf, readPos, pkgLen)
            /\ readPos' = readPos + pkgLen
       ELSE UNCHANGED <<delivered, readPos>>
  /\ UNCHANGED <<buffer, pkgLen, is_connected, peer, received>>

\* Mutant: on_recv is always given the start of the buffer.
DeliverFromStart ==
  /\ pc = "loop"
  /\ pc' = "rest"
  /\ IF readPos + pkgLen <= recv_buf_pos
       THEN /\ delivered' = delivered \o Slice(recv_buf, 0, pkgLen)
            /\ readPos' = readPos + pkgLen
       ELSE UNCHANGED <<delivered, readPos>>
  /\ UNCHANGED <<buffer, pkgLen, is_connected, peer, received>>

\* The head of the loop: a packet that is all there goes to on_recv.
Deliver ==
  /\ pc = "loop"
  /\ pc' = "rest"
  /\ IF readPos + pkgLen <= recv_buf_pos
       THEN /\ delivered' = delivered \o Slice(recv_buf, readPos, pkgLen)
            /\ readPos' = readPos + pkgLen
       ELSE UNCHANGED <<delivered, readPos>>
  /\ UNCHANGED <<buffer, pkgLen, is_connected, peer, received>>

\* Bytes are left and read_packet finds another packet in them.
NextPacket ==
  /\ pc = "rest"
  /\ readPos < recv_buf_pos
  /\ ReadPacket(Unread) > 0
  /\ pkgLen' = ReadPacket(Unread)
  /\ pc' = "loop"
  /\ UNCHANGED <<buffer, readPos, is_connected, peer, history>>

\* Mutant: the partial packet is not moved to the front.
KeepPartialUnmoved ==
  /\ pc = "rest"
  /\ readPos < recv_buf_pos
  /\ ReadPacket(Unread) <= 0
  /\ recv_buf_pos' = recv_buf_pos - readPos
  /\ recv_buf' = [recv_buf EXCEPT ![recv_buf_pos'] = NUL]
  /\ readPos' = 0
  /\ pkgLen' = ReadPacket(Unread)
  /\ pc' = "idle"
  /\ UNCHANGED <<is_connected, peer, history>>

\* Bytes are left and no packet is complete: memmove to the front, with a
\* terminator behind them, and return.
KeepPartial ==
  /\ pc = "rest"
  /\ readPos < recv_buf_pos
  /\ ReadPacket(Unread) <= 0
  /\ recv_buf_pos' = recv_buf_pos - readPos
  /\ recv_buf' = [i \in Indices |->
       IF i < recv_buf_pos' THEN recv_buf[readPos + i]
       ELSE IF i = recv_buf_pos' THEN NUL ELSE recv_buf[i]]
  /\ readPos' = 0
  /\ pkgLen' = ReadPacket(Unread)
  /\ pc' = "idle"
  /\ UNCHANGED <<is_connected, peer, history>>

\* Mutant: recv_buf_pos is not reset when every byte was delivered.
DrainedKeepsPos ==
  /\ pc = "rest"
  /\ readPos = recv_buf_pos
  /\ readPos' = 0
  /\ pc' = "idle"
  /\ UNCHANGED <<buffer, pkgLen, is_connected, peer, history>>

\* Nothing is left: return with an empty buffer.
Drained ==
  /\ pc = "rest"
  /\ readPos = recv_buf_pos
  /\ recv_buf_pos' = 0
  /\ readPos' = 0
  /\ pc' = "idle"
  /\ UNCHANGED <<recv_buf, pkgLen, is_connected, peer, history>>

PeerCloses ==
  /\ peer = "open"
  /\ peer' = "closed"
  /\ UNCHANGED <<buffer, readPos, pkgLen, pc, is_connected, history>>

\* do_connect succeeds in the receive loop.  recv_buf_pos is left as it is.
Reconnect ==
  /\ pc = "idle"
  /\ ~is_connected
  /\ is_connected' = TRUE
  /\ peer' = "open"
  /\ UNCHANGED <<buffer, readPos, pkgLen, pc, history>>

LoopStep == Deliver \/ NextPacket \/ KeepPartial \/ Drained

Next ==
  \/ \E s \in Contents : Len(received) + Len(s) <= MaxReceived /\ Recv(s)
  \/ RecvNothing
  \/ LoopStep
  \/ PeerCloses
  \/ Reconnect

Spec == Init /\ [][Next]_vars

\* do_recv, once called, is not suspended for ever.
LiveSpec == Spec /\ WF_vars(LoopStep)

-----------------------------------------------------------------------------

\* Every byte recv returned has gone to on_recv or is in the buffer, in order,
\* none lost, repeated or changed by the memmove, by packets that arrive in
\* pieces or by a terminator, whatever lengths read_packet returns.
StreamIntact ==
  /\ Len(received) = Len(delivered) + (recv_buf_pos - readPos)
  /\ \A i \in 1..Len(delivered) : delivered[i] = received[i]
  /\ \A j \in readPos..(recv_buf_pos - 1) :
       recv_buf[j] = received[Len(delivered) + 1 + (j - readPos)]

\* The terminator *(recv_buf + recv_buf_pos) = 0 falls inside recv_buf: it is
\* written only when an earlier packet of the same call has made room.
TerminatorInBounds ==
  pc = "rest" /\ readPos < recv_buf_pos /\ ReadPacket(Unread) <= 0 =>
    recv_buf_pos - readPos \in Indices

\* do_recv returns with no complete packet left in the buffer, where it would
\* wait for bytes that need not come.
NothingHeldBack ==
  pc = "idle" /\ recv_buf_pos > 0 => ReadPacket(Slice(recv_buf, 0, recv_buf_pos)) <= 0

\* A connection is given up because the peer has closed it, or because the buffer
\* is full of the beginning of one packet, and so recv was asked for 0 bytes.
LossIsReal ==
  ~is_connected =>
    \/ peer = "closed"
    \/ /\ recv_buf_pos = MAX_RECV_BUF
       /\ ReadPacket(Slice(recv_buf, 0, recv_buf_pos)) <= 0

\* A turn of do_recv's loop hands a packet to on_recv whenever read_packet's answer
\* for the unread bytes is not beyond them, so that the loop runs out of bytes.
\* (With an answer beyond them do_recv turns for ever and delivers nothing.)
LoopAdvances ==
  [][ pc = "loop" /\ pc' # "loop" /\ ReadPacket(Unread) <= Len(Unread)
        => readPos' > readPos ]_vars

\* do_recv returns.  (For a read_packet that never returns more than the length
\* it was shown.)
DoRecvReturns == pc # "idle" ~> pc = "idle"

\* do_recv keeps the promise of PacketStream.
Stream == INSTANCE PacketStream WITH received <- received, delivered <- delivered

\* Whatever read_packet answers, on_recv is handed the stream that arrived, cut
\* where read_packet said.
StreamSpec == Stream!Spec

-----------------------------------------------------------------------------
(* The inductive invariant of RecvBuffer_proofs. *)

\* Inside the loop pkgLen is read_packet's answer for the unread bytes, or a
\* packet has just been delivered.
LoopState ==
  /\ pc = "idle" => readPos = 0
  /\ pc = "loop" => pkgLen > 0 /\ pkgLen = ReadPacket(Unread)
  /\ pc = "rest" => readPos > 0 \/ ReadPacket(Unread) > 0
  /\ pc # "idle" => recv_buf_pos > 0

\* The part that is about the buffer and the stream.
StreamInv == TypeOK /\ LoopState /\ StreamIntact

\* The part that is about what do_recv leaves behind when it returns: only a
\* client that is not in do_recv loses its connection.
ReturnInv ==
  /\ ~is_connected => pc = "idle"
  /\ NothingHeldBack
  /\ LossIsReal

\* Every reachable state of do_recv satisfies the inductive invariant.
IInv == StreamInv /\ ReturnInv
=============================================================================
