---------------------------- MODULE PacketQueue -----------------------------
(***************************************************************************)
(* What the receive path promises its caller: a bounded first-in first-out *)
(* queue of packets.  Packet number n is the n-th one the kernel accepted; *)
(* vtl_receive's callback takes them from the head.                        *)
(***************************************************************************)
EXTENDS Integers, Sequences

CONSTANT Capacity  \* packets accepted and not yet delivered, at most

VARIABLES queue,      \* accepted and not yet delivered
          delivered   \* delivered, in order

qvars == <<queue, delivered>>

QInit == queue = <<>> /\ delivered = <<>>

\* The next packet is accepted; the queue has room for it.
Accept ==
  /\ Len(queue) < Capacity
  /\ queue' = Append(queue, Len(delivered) + Len(queue) + 1)
  /\ UNCHANGED delivered

\* The callback sees the oldest packet.
Deliver ==
  /\ queue # <<>>
  /\ delivered' = Append(delivered, Head(queue))
  /\ queue' = Tail(queue)

QNext == Accept \/ Deliver

\* What the queue may never do ...
QSafety == QInit /\ [][QNext]_qvars

\* ... and a packet that was accepted does not stay in it for ever.
QSpec == QSafety /\ WF_qvars(Deliver)

=============================================================================
