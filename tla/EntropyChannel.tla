--------------------------- MODULE EntropyChannel ---------------------------
(***************************************************************************)
(* The FIFO as seen from the device, which cannot tell whether the host    *)
(* already has the packet at the head.  "seen" says that it does, or that  *)
(* it will take that packet for a repetition: such a packet is removed     *)
(* without being delivered.  A resynchronisation may set or clear "seen",  *)
(* so each one costs at most one packet, lost or delivered twice.          *)
(***************************************************************************)
EXTENDS Naturals, Sequences

CONSTANTS Block, PacketSize, Capacity, AckLoss, Resync

VARIABLES q, seen

vars == <<q, seen>>

Rest == SubSeq(q, PacketSize + 1, Len(q))

Init ==
  /\ q = <<>>
  /\ seen = FALSE

Put ==
  /\ Len(q) < Capacity
  /\ \E b \in Block : q' = Append(q, b)
  /\ UNCHANGED seen

\* The host takes the head packet (unless it has it) and the device learns so.
Deliver ==
  /\ Len(q) >= PacketSize
  /\ q' = Rest
  /\ seen' = FALSE

\* The host takes the head packet and the device does not learn of it.
DeliverUnknown ==
  /\ AckLoss
  /\ Len(q) >= PacketSize
  /\ seen' = TRUE
  /\ UNCHANGED q

Restart ==
  /\ Resync
  /\ seen' \in BOOLEAN
  /\ UNCHANGED q

Next == Put \/ Deliver \/ DeliverUnknown \/ Restart

Spec == Init /\ [][Next]_vars
=============================================================================
