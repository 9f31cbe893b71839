---------------------------- MODULE PacketStream ----------------------------
(***************************************************************************)
(* What TcpClient::do_recv promises to on_recv.  The bytes that arrive form*)
(* one stream; on_recv is given it in order and without a gap or a repeat, *)
(* in packets whose length read_packet chose looking at exactly the bytes  *)
(* that had arrived and were not yet handed over.                          *)
(***************************************************************************)
EXTENDS Integers, Sequences

CONSTANTS Bytes, ReadPacket(_)

VARIABLES
  received,    \* every byte recv has returned
  delivered    \* every byte on_recv has been given

Pending == SubSeq(received, Len(delivered) + 1, Len(received))

Init == received = <<>> /\ delivered = <<>>

Arrive ==
  /\ received' \in Seq(Bytes)
  /\ Len(received') >= Len(received)
  /\ SubSeq(received', 1, Len(received)) = received
  /\ UNCHANGED delivered

Deliver ==
  /\ ReadPacket(Pending) \in 1..Len(Pending)
  /\ delivered' = SubSeq(received, 1, Len(delivered) + ReadPacket(Pending))
  /\ UNCHANGED received

Next == Arrive \/ Deliver

Spec == Init /\ [][Next]_<<received, delivered>>
=============================================================================
