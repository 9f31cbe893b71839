-------------------------- MODULE RecvBuffer_proofs --------------------------
(***************************************************************************)
(* do_recv keeps within recv_buf and hands on_recv the stream that arrived,*)
(* proved for every size of the buffer, every set of bytes and every       *)
(* read_packet, well behaved or not.                                       *)
(***************************************************************************)
EXTENDS RecvBuffer, TLAPS

\* A run of n bytes of the buffer is something read_packet can be shown.
LEMMA SliceContents ==
  ASSUME NEW b, NEW i \in Nat, NEW n \in 0..MAX_RECV_BUF,
         \A j \in i..(i + n - 1) : b[j] \in Bytes
  PROVE  /\ Slice(b, i, n) \in Contents
         /\ Slice(b, i, n) \in Seq(Bytes)
         /\ Len(Slice(b, i, n)) = n
         /\ \A j \in 1..n : Slice(b, i, n)[j] = b[i + j - 1]
<1>1. n \in Nat
  BY RecvAssumption
<1>2. \A j \in 1..n : b[i + j - 1] \in Bytes
  BY <1>1
<1>3. Slice(b, i, n) \in [1..n -> Bytes]
  BY <1>2 DEF Slice
<1>4. Slice(b, i, n) \in Seq(Bytes) /\ Len(Slice(b, i, n)) = n
  BY <1>1, <1>3
<1>5. Slice(b, i, n) \in Contents
  BY <1>3 DEF Contents
<1> QED
  BY <1>4, <1>5 DEF Slice

\* The bytes recv stores are a sequence of Bytes.
LEMMA ContentsSeq ==
  ASSUME NEW s \in Contents
  PROVE  s \in Seq(Bytes) /\ Len(s) \in Nat /\ s \in [1..Len(s) -> Bytes]
<1>1. PICK n \in 0..MAX_RECV_BUF : s \in [1..n -> Bytes]
  BY DEF Contents
<1> QED
  BY <1>1, RecvAssumption

\* What the buffer holds past readPos is the undelivered end of the stream.
LEMMA UnreadContents ==
  ASSUME TypeOK, StreamIntact
  PROVE  /\ Unread \in Contents
         /\ Unread \in Seq(Bytes)
         /\ Len(Unread) = recv_buf_pos - readPos
         /\ \A j \in 1..Len(Unread) :
              /\ Unread[j] = recv_buf[readPos + j - 1]
              /\ Unread[j] = received[Len(delivered) + j]
         /\ ReadPacket(Unread) \in Int
<1> DEFINE n == recv_buf_pos - readPos
<1>1. n \in 0..MAX_RECV_BUF /\ readPos \in Nat /\ recv_buf_pos \in Nat
  BY RecvAssumption DEF TypeOK
<1>2. \A j \in readPos..(readPos + n - 1) :
        recv_buf[j] = received[Len(delivered) + 1 + (j - readPos)]
  BY <1>1 DEF StreamIntact
<1>3. \A j \in readPos..(readPos + n - 1) : recv_buf[j] \in Bytes
  <2> TAKE j \in readPos..(readPos + n - 1)
  <2>1. Len(delivered) + 1 + (j - readPos) \in 1..Len(received)
    BY RecvAssumption DEF StreamIntact, TypeOK
  <2>2. \A k \in 1..Len(received) : received[k] \in Bytes
    BY DEF TypeOK
  <2>3. received[Len(delivered) + 1 + (j - readPos)] \in Bytes
    BY <2>1, <2>2
  <2> QED
    BY <1>2, <2>3
<1>4. /\ Unread \in Contents
      /\ Unread \in Seq(Bytes)
      /\ Len(Unread) = n
      /\ \A j \in 1..n : Unread[j] = recv_buf[readPos + j - 1]
  BY <1>1, <1>3, SliceContents DEF Unread
<1>5. \A j \in 1..n : Unread[j] = received[Len(delivered) + j]
  <2> TAKE j \in 1..n
  <2>1. readPos + j - 1 \in readPos..(readPos + n - 1)
    BY <1>1
  <2>2. Len(delivered) + 1 + ((readPos + j - 1) - readPos) = Len(delivered) + j
    BY <1>1
  <2> QED
    BY <1>2, <1>4, <2>1, <2>2
<1> QED
  BY <1>4, <1>5, RecvAssumption

\* The bytes not yet delivered are as many as the buffer holds past readPos.
LEMMA Balance ==
  ASSUME TypeOK, StreamIntact
  PROVE  /\ Len(received) \in Nat
         /\ Len(delivered) \in Nat
         /\ recv_buf_pos \in Nat /\ readPos \in Nat /\ readPos <= recv_buf_pos
         /\ Len(received) = Len(delivered) + (recv_buf_pos - readPos)
<1>1. recv_buf_pos \in Nat /\ readPos \in Nat /\ readPos <= recv_buf_pos
  BY RecvAssumption DEF TypeOK
<1>2. Len(received) \in Nat /\ Len(delivered) \in Nat
  BY DEF TypeOK
<1> QED
  BY <1>1, <1>2 DEF StreamIntact

-----------------------------------------------------------------------------

\* recv appends to the stream and to the buffer alike.
LEMMA RecvStep ==
  ASSUME StreamInv, NEW s \in Contents, Recv(s)
  PROVE  StreamInv'
<1> USE RecvAssumption
<1>1. s \in Seq(Bytes) /\ Len(s) \in 1..Room /\ s \in [1..Len(s) -> Bytes]
  BY ContentsSeq DEF Recv
<1>2. readPos = 0 /\ readPos' = 0
  BY DEF StreamInv, LoopState, Recv, Gather
<1>3. recv_buf_pos' = recv_buf_pos + Len(s) /\ recv_buf_pos' \in 1..MAX_RECV_BUF
  BY <1>1 DEF StreamInv, TypeOK, Recv, Gather, Room
<1>4. received' \in Seq(Bytes) /\ received' = received \o s /\ delivered' = delivered
  BY <1>1 DEF StreamInv, TypeOK, Recv, Gather
<1>5. recv_buf' \in [Indices -> Bytes \cup {NUL}]
  <2>1. ASSUME NEW i \in Indices PROVE recv_buf'[i] \in Bytes \cup {NUL}
    <3>1. CASE i \in recv_buf_pos..(recv_buf_pos + Len(s) - 1)
      BY <1>1, <3>1 DEF StreamInv, TypeOK, Recv, Gather, Indices
    <3>2. CASE i \notin recv_buf_pos..(recv_buf_pos + Len(s) - 1)
      BY <3>2 DEF StreamInv, TypeOK, Recv, Gather
    <3> QED
      BY <3>1, <3>2
  <2> QED
    BY <2>1 DEF Recv, Gather
<1>6. StreamIntact'
  <2>1. Len(received') = Len(delivered') + (recv_buf_pos' - readPos')
    <3>1. Len(received') = Len(received) + Len(s)
      BY <1>1, <1>4 DEF StreamInv, TypeOK
    <3>2. Len(s) \in Nat
      BY <1>1
    <3>3. /\ Len(received) \in Nat /\ Len(delivered) \in Nat /\ recv_buf_pos \in Nat
          /\ Len(received) = Len(delivered) + (recv_buf_pos - 0)
      BY <1>2, Balance DEF StreamInv
    <3> HIDE RecvAssumption
    <3> QED
      BY <1>2, <1>3, <1>4, <3>1, <3>2, <3>3
  <2>2. \A i \in 1..Len(delivered') : delivered'[i] = received'[i]
    BY <1>1, <1>2, <1>4 DEF StreamInv, TypeOK, StreamIntact
  <2>3. ASSUME NEW j \in readPos'..(recv_buf_pos' - 1)
        PROVE  recv_buf'[j] = received'[Len(delivered') + 1 + (j - readPos')]
    <3>0. j \in Indices
      BY <1>2, <1>3 DEF Indices, StreamInv, TypeOK
    <3>1. CASE j < recv_buf_pos
      <4>1. recv_buf'[j] = recv_buf[j]
        BY <3>0, <3>1 DEF Recv, Gather, StreamInv, TypeOK
      <4>2. recv_buf[j] = received[Len(delivered) + 1 + (j - readPos)]
        BY <1>2, <3>1 DEF StreamInv, TypeOK, StreamIntact
      <4>3. Len(delivered) + 1 + (j - readPos) \in 1..Len(received)
        BY <1>2, <3>1 DEF StreamInv, TypeOK, StreamIntact
      <4> QED
        BY <1>1, <1>2, <1>4, <4>1, <4>2, <4>3 DEF StreamInv, TypeOK
    <3>2. CASE j >= recv_buf_pos
      <4>1. j \in recv_buf_pos..(recv_buf_pos + Len(s) - 1)
        BY <1>1, <1>2, <1>3, <3>2 DEF StreamInv, TypeOK
      <4>2. recv_buf'[j] = s[j - recv_buf_pos + 1]
        BY <3>0, <4>1 DEF Recv, Gather
      <4>3. Len(delivered) + 1 + j = Len(received) + (j - recv_buf_pos + 1)
        BY <1>1, <1>2, <1>3 DEF StreamInv, TypeOK, StreamIntact
      <4>4. received'[Len(received) + (j - recv_buf_pos + 1)] = s[j - recv_buf_pos + 1]
        BY <1>1, <1>4, <4>1 DEF StreamInv, TypeOK
      <4>5. Len(delivered') + 1 + (j - readPos') = Len(received) + (j - recv_buf_pos + 1)
        BY <1>2, <1>4, <4>1, <4>3, Balance DEF StreamInv
      <4> QED
        BY <4>2, <4>4, <4>5
    <3> QED
      BY <1>2, <1>3, <3>1, <3>2 DEF StreamInv, TypeOK
  <2> QED
    BY <2>1, <2>2, <2>3 DEF StreamIntact
<1>7. ReadPacket(Unread)' = pkgLen' /\ pkgLen' \in Int
  <2>1. recv_buf_pos' - 0 = recv_buf_pos'
    BY <1>3
  <2>2. Unread' = Slice(recv_buf', 0, recv_buf_pos')
    BY <1>2, <2>1 DEF Unread
  <2>3. \A j \in 0..(0 + recv_buf_pos' - 1) : recv_buf'[j] \in Bytes
    <3> TAKE j \in 0..(0 + recv_buf_pos' - 1)
    <3>1. recv_buf'[j] = received'[Len(delivered') + 1 + (j - readPos')]
      BY <1>2, <1>3, <1>6 DEF StreamIntact
    <3>2. Len(delivered') + 1 + (j - readPos') \in 1..Len(received')
      BY <1>2, <1>3, <1>4, <1>6 DEF StreamIntact, StreamInv, TypeOK
    <3> QED
      BY <1>4, <3>1, <3>2
  <2>4. Slice(recv_buf', 0, recv_buf_pos') \in Contents
    BY <1>3, <2>3, SliceContents
  <2> QED
    BY <2>2, <2>4 DEF Recv, Enter
<1>8. TypeOK'
  BY <1>2, <1>3, <1>4, <1>5, <1>7 DEF StreamInv, TypeOK, Recv, Gather, Enter
<1>9. LoopState'
  BY <1>2, <1>3, <1>7 DEF LoopState, Recv, Enter
<1> QED
  BY <1>6, <1>8, <1>9 DEF StreamInv

\* on_recv is given the bytes that come next in the stream.
LEMMA DeliverStep ==
  ASSUME StreamInv, Deliver
  PROVE  /\ StreamInv'
         /\ readPos + pkgLen <= recv_buf_pos =>
              delivered' = SubSeq(received, 1, Len(delivered) + pkgLen)
<1> USE RecvAssumption DEF StreamInv, TypeOK
<1>1. CASE readPos + pkgLen <= recv_buf_pos
  <2> DEFINE p == Slice(recv_buf, readPos, pkgLen)
  <2>1. pkgLen \in 1..(recv_buf_pos - readPos)
    BY <1>1 DEF Deliver, LoopState
  <2>2. \A j \in 1..pkgLen : /\ p[j] = received[Len(delivered) + j]
                             /\ p[j] \in Bytes
    <3> TAKE j \in 1..pkgLen
    <3>1. j \in 1..Len(Unread)
      BY <2>1, UnreadContents
    <3>2. Unread[j] = received[Len(delivered) + j] /\ Unread[j] \in Bytes
          /\ Unread[j] = recv_buf[readPos + j - 1]
      BY <3>1, UnreadContents
    <3>3. p[j] = recv_buf[readPos + j - 1]
      BY DEF Slice
    <3> QED
      BY <3>2, <3>3
  <2>3. p \in Seq(Bytes) /\ Len(p) = pkgLen
    <3>1. p \in [1..pkgLen -> Bytes]
      BY <2>2 DEF Slice
    <3> QED
      BY <2>1, <3>1
  <2> HIDE DEF p
  <2>4. /\ delivered' = delivered \o p
        /\ readPos' = readPos + pkgLen
        /\ UNCHANGED <<recv_buf, recv_buf_pos, pkgLen, is_connected, peer, received>>
    BY <1>1 DEF Deliver, buffer, p
  <2>grown. delivered' \in Seq(Bytes) /\ Len(delivered') = Len(delivered) + pkgLen
    <3>1. delivered \in Seq(Bytes) /\ delivered' = delivered \o p
      BY <2>4
    <3> HIDE RecvAssumption DEF StreamInv, TypeOK
    <3> QED
      BY <2>3, <3>1
  <2>sizes. /\ Len(received) \in Nat /\ Len(delivered) \in Nat /\ pkgLen \in Nat
        /\ recv_buf_pos \in Nat /\ readPos \in Nat
        /\ readPos + pkgLen <= recv_buf_pos
        /\ Len(received) = Len(delivered) + (recv_buf_pos - readPos)
    BY <1>1, <2>1, Balance
  <2>5. /\ delivered' \in Seq(Bytes)
        /\ Len(delivered') = Len(delivered) + pkgLen
        /\ Len(delivered') <= Len(received)
    BY <2>grown, <2>sizes
  <2>6. \A i \in 1..Len(delivered') : delivered'[i] = received[i]
    <3> TAKE i \in 1..Len(delivered')
    <3>1. CASE i <= Len(delivered)
      <4>1. delivered[i] = received[i]
        BY <2>sizes, <3>1 DEF StreamIntact
      <4>2. delivered \in Seq(Bytes) /\ delivered' = delivered \o p
        BY <2>4
      <4> HIDE RecvAssumption DEF StreamInv, TypeOK
      <4>3. i \in 1..Len(delivered)
        BY <2>5, <2>sizes, <3>1
      <4>4. delivered'[i] = delivered[i]
        BY <2>3, <4>2, <4>3
      <4> QED
        BY <4>1, <4>4
    <3>2. CASE i > Len(delivered)
      <4>1. i - Len(delivered) \in 1..pkgLen
        BY <2>1, <2>5, <3>2
      <4>2. delivered'[i] = p[i - Len(delivered)]
        BY <2>3, <2>4, <2>5, <3>2
      <4> QED
        BY <2>2, <4>1, <4>2
    <3> QED
      BY <2>5, <3>1, <3>2
  <2>7. delivered' = SubSeq(received, 1, Len(delivered) + pkgLen)
    BY <2>1, <2>5, <2>6
  <2>8. StreamIntact'
    <3>1. Len(received') = Len(delivered') + (recv_buf_pos' - readPos')
      BY <2>4, <2>5, <2>sizes
    <3>2. ASSUME NEW j \in readPos'..(recv_buf_pos' - 1)
          PROVE  recv_buf'[j] = received'[Len(delivered') + 1 + (j - readPos')]
      <4>1. j \in readPos..(recv_buf_pos - 1)
        BY <2>1, <2>4
      <4>2. Len(delivered') + 1 + (j - readPos') = Len(delivered) + 1 + (j - readPos)
        BY <2>1, <2>4, <2>5, <4>1
      <4> QED
        BY <2>4, <4>1, <4>2 DEF StreamIntact
    <3> QED
      BY <2>4, <2>6, <3>1, <3>2 DEF StreamIntact
  <2>9. TypeOK' /\ LoopState'
    BY <2>1, <2>4, <2>5 DEF Deliver, LoopState
  <2> QED
    BY <2>7, <2>8, <2>9
<1>2. CASE ~(readPos + pkgLen <= recv_buf_pos)
  <2>1. UNCHANGED <<recv_buf, recv_buf_pos, readPos, pkgLen, is_connected, peer,
                    received, delivered>> /\ pc' = "rest"
    BY <1>2 DEF Deliver, buffer
  <2>2. ReadPacket(Unread) > 0 /\ recv_buf_pos > 0
    BY DEF Deliver, LoopState
  <2> QED
    BY <1>2, <2>1, <2>2 DEF StreamIntact, LoopState, Unread
<1> QED
  BY <1>1, <1>2

\* memmove keeps the partial packet and the terminator stays behind it.
LEMMA KeepPartialStep ==
  ASSUME StreamInv, KeepPartial
  PROVE  StreamInv'
<1> USE RecvAssumption DEF StreamInv, TypeOK
<1>1. readPos > 0
  BY UnreadContents DEF KeepPartial, LoopState
<1>2. recv_buf_pos' = recv_buf_pos - readPos /\ recv_buf_pos' \in Indices /\ readPos' = 0
  BY <1>1 DEF KeepPartial, Indices
<1>3. recv_buf' \in [Indices -> Bytes \cup {NUL}]
  <2>1. ASSUME NEW i \in Indices PROVE recv_buf'[i] \in Bytes \cup {NUL}
    <3>1. i < recv_buf_pos' => readPos + i \in Indices
      BY <1>2 DEF Indices
    <3> QED
      BY <3>1 DEF KeepPartial
  <2> QED
    BY <2>1 DEF KeepPartial
<1>4. pkgLen' \in Int
  BY UnreadContents DEF KeepPartial
<1>5. UNCHANGED <<is_connected, peer, received, delivered>> /\ pc' = "idle"
  BY DEF KeepPartial, history
<1>6. StreamIntact'
  <2>1. ASSUME NEW j \in readPos'..(recv_buf_pos' - 1)
        PROVE  recv_buf'[j] = received'[Len(delivered') + 1 + (j - readPos')]
    <3>1. j \in Indices /\ j < recv_buf_pos'
      BY <1>2 DEF Indices
    <3>2. recv_buf'[j] = recv_buf[readPos + j]
      BY <3>1 DEF KeepPartial
    <3>3. readPos + j \in readPos..(recv_buf_pos - 1)
      BY <1>2, <3>1 DEF Indices
    <3>4. Len(delivered) + 1 + ((readPos + j) - readPos) = Len(delivered) + 1 + (j - readPos')
      BY <1>2, <3>1 DEF Indices
    <3> QED
      BY <1>5, <3>2, <3>3, <3>4 DEF StreamIntact
  <2> QED
    BY <1>2, <1>5, <2>1 DEF StreamIntact
<1> QED
  BY <1>2, <1>3, <1>4, <1>5, <1>6 DEF LoopState, Indices

\* The other steps leave the buffer and the stream as they are, or find it empty.
LEMMA OtherSteps ==
  ASSUME StreamInv, RecvNothing \/ NextPacket \/ Drained \/ PeerCloses \/ Reconnect
  PROVE  StreamInv'
<1> USE RecvAssumption DEF StreamInv, TypeOK, buffer, history
<1>1. CASE RecvNothing
  BY <1>1 DEF RecvNothing, LoopState, StreamIntact, Unread
<1>2. CASE NextPacket
  <2>1. Unread' = Unread /\ ReadPacket(Unread) \in Int
    BY <1>2, UnreadContents DEF NextPacket, Unread
  <2> QED
    BY <1>2, <2>1 DEF NextPacket, LoopState, StreamIntact
<1>3. CASE Drained
  BY <1>3 DEF Drained, LoopState, StreamIntact
<1>4. CASE PeerCloses
  BY <1>4 DEF PeerCloses, LoopState, StreamIntact, Unread
<1>5. CASE Reconnect
  BY <1>5 DEF Reconnect, LoopState, StreamIntact, Unread
<1> QED
  BY <1>1, <1>2, <1>3, <1>4, <1>5

\* A step that changes nothing preserves the invariant.
LEMMA Stutter == StreamInv /\ UNCHANGED vars => StreamInv'
  BY DEF StreamInv, TypeOK, LoopState, StreamIntact, Unread, vars, buffer, history

\* Every step of do_recv keeps the buffer and the stream together.
LEMMA StreamStep == StreamInv /\ [Next]_vars => StreamInv'
  BY RecvStep, DeliverStep, KeepPartialStep, OtherSteps, Stutter DEF Next, LoopStep

\* do_recv returns only when read_packet has found no packet in what is left, and
\* only then can recv find the connection lost.
LEMMA ReturnStep ==
  ASSUME IInv, [Next]_vars, StreamInv'
  PROVE  ReturnInv'
<1> USE RecvAssumption DEF IInv, StreamInv, ReturnInv, NothingHeldBack, LossIsReal
<1>1. ASSUME NEW s \in Contents, Recv(s) PROVE ReturnInv'
  <2>1. /\ is_connected /\ is_connected'
        /\ pkgLen' = ReadPacket(Slice(recv_buf', 0, recv_buf_pos'))
        /\ pc' = IF pkgLen' > 0 THEN "loop" ELSE "idle"
    BY <1>1 DEF Recv, Gather, Enter
  <2>2. pkgLen' \in Int
    BY DEF TypeOK
  <2> QED
    BY <2>1, <2>2
<1>2. CASE RecvNothing
  <2>1. /\ ~is_connected' /\ pc' = "idle" /\ pc = "idle"
        /\ UNCHANGED <<recv_buf, recv_buf_pos, peer>>
        /\ peer = "closed" \/ recv_buf_pos = MAX_RECV_BUF
    BY <1>2 DEF RecvNothing, buffer, Room, TypeOK
  <2>2. MAX_RECV_BUF > 0
    OBVIOUS
  <2> QED
    BY <2>1, <2>2
<1>3. CASE Deliver
  BY <1>3 DEF Deliver
<1>4. CASE NextPacket
  BY <1>4 DEF NextPacket
<1>5. CASE KeepPartial
  <2>1. /\ is_connected' /\ ReadPacket(Unread) <= 0
        /\ recv_buf_pos' = recv_buf_pos - readPos /\ readPos < recv_buf_pos
    BY <1>5 DEF KeepPartial
  <2>2. ASSUME NEW j \in 1..recv_buf_pos' PROVE recv_buf'[0 + j - 1] = recv_buf[readPos + j - 1]
    <3>1. j - 1 \in Indices /\ j - 1 < recv_buf_pos'
      BY <2>1, <2>2 DEF Indices, TypeOK
    <3>2. recv_buf'[j - 1] = recv_buf[readPos + (j - 1)]
      BY <1>5, <3>1 DEF KeepPartial
    <3> QED
      BY <3>2, <2>1, <2>2 DEF TypeOK
  <2>3. Slice(recv_buf', 0, recv_buf_pos') = Unread
    BY <2>1, <2>2 DEF Slice, Unread
  <2> QED
    BY <2>1, <2>3
<1>6. CASE Drained
  BY <1>6 DEF Drained, TypeOK
<1>7. CASE PeerCloses
  BY <1>7 DEF PeerCloses, buffer
<1>8. CASE Reconnect
  BY <1>8 DEF Reconnect, buffer
<1>9. CASE UNCHANGED vars
  BY <1>9 DEF vars, buffer
<1> QED
  BY <1>1, <1>2, <1>3, <1>4, <1>5, <1>6, <1>7, <1>8, <1>9 DEF Next, LoopStep

\* do_recv preserves the inductive invariant.
LEMMA Inductive == IInv /\ [Next]_vars => IInv'
  BY StreamStep, ReturnStep DEF IInv

\* A client that has just connected for the first time satisfies it.
LEMMA InitIInv == Init => IInv
<1> SUFFICES ASSUME Init PROVE IInv
  OBVIOUS
<1> USE RecvAssumption DEF Init
<1>1. received \in Seq(Bytes) /\ delivered \in Seq(Bytes)
      /\ Len(received) = 0 /\ Len(delivered) = 0
  OBVIOUS
<1>2. TypeOK
  BY <1>1 DEF TypeOK
<1> QED
  BY <1>1, <1>2
  DEF IInv, StreamInv, LoopState, StreamIntact, ReturnInv, NothingHeldBack, LossIsReal

\* Every reachable state of do_recv satisfies the inductive invariant, for every
\* read_packet and every size of recv_buf.
THEOREM Invariance == Spec => []IInv
  BY InitIInv, Inductive, PTL DEF Spec

\* recv_buf_pos stays within recv_buf and readPos within recv_buf_pos, even when
\* read_packet returns a length beyond the data it was shown.
THEOREM WithinBuffer == Spec => []TypeOK
<1>1. IInv => TypeOK
  BY DEF IInv, StreamInv
<1> QED
  BY Invariance, <1>1, PTL

\* What on_recv was given and what the buffer holds are together the stream that
\* arrived.
THEOREM StreamKept == Spec => []StreamIntact
<1>1. IInv => StreamIntact
  BY DEF IInv, StreamInv
<1> QED
  BY Invariance, <1>1, PTL

\* The terminator behind a partial packet is written inside recv_buf.
THEOREM TerminatorSafe == Spec => []TerminatorInBounds
<1>1. IInv => TerminatorInBounds
  <2> SUFFICES ASSUME IInv, pc = "rest", readPos < recv_buf_pos, ReadPacket(Unread) <= 0
               PROVE  recv_buf_pos - readPos \in Indices
    BY DEF TerminatorInBounds
  <2>1. readPos > 0
    BY UnreadContents DEF IInv, StreamInv, LoopState
  <2> QED
    BY <2>1, RecvAssumption DEF IInv, StreamInv, TypeOK, Indices
<1> QED
  BY Invariance, <1>1, PTL

\* do_recv never returns while read_packet would find a packet in what it leaves.
THEOREM NoPacketWaits == Spec => []NothingHeldBack
<1>1. IInv => NothingHeldBack
  BY DEF IInv, ReturnInv
<1> QED
  BY Invariance, <1>1, PTL

\* A connection is only given up for a reason: the peer, or a full buffer without
\* a packet in it.
THEOREM LossesAreReal == Spec => []LossIsReal
<1>1. IInv => LossIsReal
  BY DEF IInv, ReturnInv
<1> QED
  BY Invariance, <1>1, PTL

\* Every turn of do_recv's loop hands on a packet, unless read_packet answered with
\* more than there is: the length in use was read from the very bytes still unread.
THEOREM EveryTurnDelivers == Spec => LoopAdvances
<1>1. ASSUME IInv, [Next]_vars, pc = "loop", pc' # "loop", ReadPacket(Unread) <= Len(Unread)
      PROVE  readPos' > readPos
  <2>1. Deliver
    BY <1>1 DEF Next, LoopStep, Recv, Gather, RecvNothing, NextPacket, KeepPartial, Drained,
                PeerCloses, Reconnect, vars
  <2>2. pkgLen = ReadPacket(Unread) /\ pkgLen > 0
    BY <1>1 DEF IInv, StreamInv, LoopState
  <2>3. Len(Unread) = recv_buf_pos - readPos
    BY <1>1, UnreadContents DEF IInv, StreamInv
  <2>4. readPos \in Nat /\ recv_buf_pos \in Nat /\ pkgLen \in Int
    BY <1>1, RecvAssumption DEF IInv, StreamInv, TypeOK
  <2>5. pkgLen <= recv_buf_pos - readPos
    BY <1>1, <2>2, <2>3
  <2>6. readPos' = readPos + pkgLen
    BY <2>1, <2>4, <2>5 DEF Deliver
  <2> QED
    BY <2>2, <2>4, <2>6
<1>2. IInv /\ [Next]_vars =>
        [ pc = "loop" /\ pc' # "loop" /\ ReadPacket(Unread) <= Len(Unread)
            => readPos' > readPos ]_vars
  BY <1>1
<1> QED
  BY Invariance, <1>2, PTL DEF Spec, LoopAdvances

-----------------------------------------------------------------------------

\* The bytes PacketStream calls pending are those the buffer holds.
LEMMA PendingIsUnread == ASSUME StreamInv PROVE Stream!Pending = Unread
<1> USE DEF StreamInv, TypeOK
<1>1. Len(delivered) <= Len(received)
  BY Balance
<1>2. Stream!Pending \in Seq(Bytes) /\ Len(Stream!Pending) = Len(received) - Len(delivered)
  BY <1>1 DEF Stream!Pending
<1>3. Len(Stream!Pending) = Len(Unread) /\ Unread \in Seq(Bytes)
  BY <1>2, UnreadContents, Balance
<1>4. \A j \in 1..Len(Unread) : Stream!Pending[j] = received[Len(delivered) + j]
  BY <1>1, <1>2, <1>3 DEF Stream!Pending
<1>5. \A j \in 1..Len(Unread) : Stream!Pending[j] = Unread[j]
  BY <1>4, UnreadContents
<1> HIDE DEF StreamInv, TypeOK
<1> QED
  BY <1>2, <1>3, <1>5

\* recv is an arrival of the abstract stream.
LEMMA RecvArrives == ASSUME StreamInv, NEW s \in Contents, Recv(s) PROVE Stream!Arrive
<1>1. s \in Seq(Bytes) /\ received \in Seq(Bytes) /\ received' = received \o s
  BY ContentsSeq DEF Recv, Gather, StreamInv, TypeOK
<1>2. SubSeq(received', 1, Len(received)) = received
  BY <1>1
<1> QED
  BY <1>1, <1>2 DEF Stream!Arrive, Recv, Gather

\* The head of the loop delivers the packet PacketStream would, or nothing.
LEMMA DeliverDelivers ==
  ASSUME StreamInv, Deliver
  PROVE  Stream!Deliver \/ UNCHANGED history
<1>1. CASE readPos + pkgLen <= recv_buf_pos
  <2>1. pkgLen = ReadPacket(Stream!Pending) /\ pkgLen > 0
    BY PendingIsUnread DEF StreamInv, LoopState, Deliver
  <2>2. Len(Stream!Pending) = recv_buf_pos - readPos
    BY PendingIsUnread, UnreadContents DEF StreamInv
  <2>3. pkgLen \in 1..Len(Stream!Pending)
    BY <1>1, <2>1, <2>2, RecvAssumption DEF StreamInv, TypeOK
  <2>4. delivered' = SubSeq(received, 1, Len(delivered) + pkgLen)
    BY <1>1, DeliverStep
  <2> QED
    BY <2>1, <2>3, <2>4 DEF Stream!Deliver, Deliver
<1>2. CASE ~(readPos + pkgLen <= recv_buf_pos)
  BY <1>2 DEF Deliver, history
<1> QED
  BY <1>1, <1>2

\* do_recv implements PacketStream: recv is an arrival, the head of the loop a
\* delivery of the packet read_packet chose, and nothing else touches the stream.
THEOREM Implements == Spec => StreamSpec
<1>1. Init => Stream!Init
  BY DEF Init, Stream!Init
<1>2. IInv /\ [Next]_vars => [Stream!Next]_<<received, delivered>>
  <2> SUFFICES ASSUME IInv, [Next]_vars
               PROVE  Stream!Next \/ UNCHANGED history
    BY DEF history
  <2>1. ASSUME NEW s \in Contents, Recv(s) PROVE Stream!Next
    BY <2>1, RecvArrives DEF Stream!Next, IInv
  <2>2. CASE Deliver
    BY <2>2, DeliverDelivers DEF Stream!Next, IInv
  <2>3. CASE RecvNothing \/ NextPacket \/ KeepPartial \/ Drained \/ PeerCloses \/ Reconnect
    BY <2>3 DEF RecvNothing, NextPacket, KeepPartial, Drained, PeerCloses, Reconnect
  <2>4. CASE UNCHANGED vars
    BY <2>4 DEF vars
  <2> QED
    BY <2>1, <2>2, <2>3, <2>4 DEF Next, LoopStep
<1> QED
  BY Invariance, <1>1, <1>2, PTL DEF Spec, StreamSpec, Stream!Spec
=============================================================================
