----------------------------- MODULE EntropyFifo -----------------------------
(***************************************************************************)
(* What the generator promises a host that just keeps reading: a bounded   *)
(* FIFO of random blocks.  Every block produced is delivered, once, in the *)
(* order of production and as it was produced, in packets of fixed size.   *)
(***************************************************************************)
EXTENDS Naturals, Sequences

CONSTANTS Block, PacketSize, Capacity

VARIABLE fifo   \* Blocks produced and not yet taken by the host.

Init == fifo = <<>>

Put ==
  /\ Len(fifo) < Capacity
  /\ \E b \in Block : fifo' = Append(fifo, b)

Get ==
  /\ Len(fifo) >= PacketSize
  /\ fifo' = SubSeq(fifo, PacketSize + 1, Len(fifo))

Next == Put \/ Get

Spec == Init /\ [][Next]_fifo
=============================================================================
