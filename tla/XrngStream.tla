----------------------------- MODULE XrngStream -----------------------------
(***************************************************************************)
(* The data path of firmware2: main() fills two buffers in turn from the   *)
(* RNG and hands each to the multi-packet bulk IN endpoint 0x81, whose     *)
(* hardware sends it to the host packet by packet.  main and the hardware  *)
(* share nothing but the endpoint's registers and the buffers themselves:  *)
(* there is no lock, and the only signals are two status bits.             *)
(*                                                                         *)
(* The unit of data is the block of 16 bytes one AES run yields, so a      *)
(* packet is 4 blocks and BUFFER_SIZE (960 bytes) is 15 packets.           *)
(***************************************************************************)
EXTENDS Naturals, Sequences

CONSTANTS
  Block,             \* The values a 16-byte block can have.
  BlocksPerPacket,   \* The endpoint's packet size, in blocks (4 in the code).
  PacketsPerBuffer,  \* Packets in one buffer (15 in the code).
  AckLoss,           \* Whether the host's ACK of a packet may be lost.
  Resync             \* Whether the host may restart its data sequence.

ASSUME StreamAssumption ==
  /\ Block # {}
  /\ BlocksPerPacket \in Nat \ {0}
  /\ PacketsPerBuffer \in Nat \ {0}
  /\ AckLoss \in BOOLEAN
  /\ Resync \in BOOLEAN

BUFFER_SIZE == PacketsPerBuffer * BlocksPerPacket

VARIABLES
  pc,        \* The statement main is about to run.
  cur,       \* The buffer of the current half of main's loop.
  n,         \* Blocks RNG_get_buffer has stored in it.
  buf,       \* buffer_a and buffer_b.
  enabled,   \* e->CTRL has a transfer type: the hardware serves the endpoint.
  nack,      \* USB_EP_BUSNACK0 of e->STATUS.
  trn,       \* USB_EP_TRNCOMPL0 of e->STATUS.
  dataptr,   \* e->DATAPTR.
  aux,       \* e->AUXDATA, the blocks of the transfer acknowledged so far.
  cnt,       \* e->CNT.
  toggle,    \* USB_EP_TOGGLE of e->STATUS: the sequence bit of the next packet.
  htoggle    \* The sequence bit the host expects.

mainVars == <<pc, cur, n, buf>>
regs     == <<dataptr, cnt>>
epVars   == <<enabled, nack, trn, dataptr, aux, cnt, toggle>>
vars     == <<mainVars, epVars, htoggle>>

Buffers  == {"a", "b"}
Other(x) == IF x = "a" THEN "b" ELSE "a"
Null     == "null"          \* DATAPTR before main first writes it.

Boot == {"status", "ctrl", "kick"}
Rearm == {"dataptr", "aux", "cnt", "clear"}
Statements == Boot \cup {"fill", "wait"} \cup Rearm

Goto(from, to) == pc = from /\ pc' = to

(***************************************************************************)
(* main: enabling the endpoint and entering the loop.                      *)
(***************************************************************************)

\* usb_ep_enable(EP_BULK_IN, ...): STATUS first, so that the endpoint is
\* already refusing tokens when CTRL makes the hardware serve it.
EnableStatus ==
  /\ Goto("status", "ctrl")
  /\ nack' = TRUE
  /\ trn' = FALSE
  /\ toggle' = 0
  /\ UNCHANGED <<cur, n, buf, enabled, dataptr, aux, cnt, htoggle>>

EnableCtrl ==
  /\ Goto("ctrl", "kick")
  /\ enabled' = TRUE
  /\ UNCHANGED <<cur, n, buf, nack, trn, dataptr, aux, cnt, toggle, htoggle>>

\* The first buffer finds the endpoint "complete" though nothing was sent.
NoKick    == trn
KickedTrn == TRUE

Kickstart ==
  /\ Goto("kick", "fill")
  /\ trn' = KickedTrn
  /\ UNCHANGED <<cur, n, buf, enabled, nack, dataptr, aux, cnt, toggle, htoggle>>

(***************************************************************************)
(* main: one half of the loop, for the buffer cur.                         *)
(***************************************************************************)

RoomOffByOne == n <= BUFFER_SIZE
Room         == n < BUFFER_SIZE

\* RNG_get_buffer stores one more block; its value is whatever the noise is.
FillBlock ==
  /\ pc = "fill"
  /\ Room
  /\ \E b \in Block : buf' = [buf EXCEPT ![cur][n + 1] = b]
  /\ n' = n + 1
  /\ UNCHANGED <<pc, cur, epVars, htoggle>>

FillDone ==
  /\ Goto("fill", "wait")
  /\ ~Room
  /\ UNCHANGED <<cur, n, buf, epVars, htoggle>>

\* while((e->STATUS & USB_EP_TRNCOMPL0_bm) == 0);
NotWaiting == TRUE
Completed  == trn

WaitComplete ==
  /\ Goto("wait", "dataptr")
  /\ Completed
  /\ UNCHANGED <<cur, n, buf, epVars, htoggle>>

SetDataptr ==
  /\ Goto("dataptr", "aux")
  /\ dataptr' = cur
  /\ UNCHANGED <<cur, n, buf, enabled, nack, trn, aux, cnt, toggle, htoggle>>

AuxKept  == aux
AuxStart == 0

SetAuxdata ==
  /\ Goto("aux", "cnt")
  /\ aux' = AuxStart
  /\ UNCHANGED <<cur, n, buf, enabled, nack, trn, dataptr, cnt, toggle, htoggle>>

SetCnt ==
  /\ Goto("cnt", "clear")
  /\ cnt' = BUFFER_SIZE
  /\ UNCHANGED <<cur, n, buf, enabled, nack, trn, dataptr, aux, toggle, htoggle>>

SameBuffer == cur
NextBuffer == Other(cur)

\* The atomic LACR16 arms the endpoint, and main turns to the other buffer.
ClearStatus ==
  /\ Goto("clear", "fill")
  /\ nack' = FALSE
  /\ trn' = FALSE
  /\ cur' = NextBuffer
  /\ n' = 0
  /\ UNCHANGED <<buf, enabled, dataptr, aux, cnt, toggle, htoggle>>

Main ==
  \/ EnableStatus \/ EnableCtrl \/ Kickstart
  \/ FillBlock \/ FillDone \/ WaitComplete
  \/ SetDataptr \/ SetAuxdata \/ SetCnt \/ ClearStatus

(***************************************************************************)
(* The endpoint hardware and the host (external to the repository).        *)
(***************************************************************************)

Armed == enabled /\ ~nack /\ ~trn

PacketLen == IF cnt - aux < BlocksPerPacket THEN cnt - aux ELSE BlocksPerPacket

\* What the host will take next if it polls: the packet at DATAPTR + AUXDATA.
\* A packet with the wrong sequence bit is acknowledged and thrown away.
HostAdvances == htoggle' = IF toggle = htoggle THEN 1 - htoggle ELSE htoggle

InToken ==
  /\ Armed
  /\ HostAdvances
  /\ aux' = aux + PacketLen
  /\ toggle' = 1 - toggle
  /\ trn' = (aux' = cnt)
  /\ nack' = (aux' = cnt)
  /\ UNCHANGED <<mainVars, enabled, dataptr, cnt>>

\* The host has the packet, the device never learns of it and will repeat it.
InTokenAckLost ==
  /\ AckLoss
  /\ Armed
  /\ HostAdvances
  /\ UNCHANGED <<mainVars, epVars>>

\* A bus reset, SET_CONFIGURATION or CLEAR_FEATURE(HALT): the host restarts
\* at DATA0.  None of usb_reset, usb_handle_setup and usb_cb_set_configuration
\* touches the bulk endpoint, so the device's bit stays what it was.
HostResync ==
  /\ Resync
  /\ htoggle' = 0
  /\ UNCHANGED <<mainVars, epVars>>

(***************************************************************************)
(* The specification.                                                      *)
(***************************************************************************)

\* The endpoint table is zeroed memory; the two buffers are on main's stack
\* and hold anything.
Init ==
  /\ pc = "status"
  /\ cur = "a"
  /\ n = 0
  /\ buf \in [Buffers -> [1..BUFFER_SIZE -> Block]]
  /\ enabled = FALSE
  /\ nack = FALSE
  /\ trn = FALSE
  /\ dataptr = Null
  /\ aux = 0
  /\ cnt = 0
  /\ toggle = 0
  /\ htoggle = 0

Next == Main \/ InToken \/ InTokenAckLost \/ HostResync

Spec == Init /\ [][Next]_vars

\* main never stops (the ADC runs freely, so RNG_get_buffer always gets its
\* samples), and a host that keeps reading eventually has a packet
\* acknowledged.
Fairness == WF_vars(Main) /\ WF_vars(InToken)

FairSpec == Spec /\ Fairness

(***************************************************************************)
(* Properties.                                                             *)
(***************************************************************************)

TypeOK ==
  /\ pc \in Statements
  /\ cur \in Buffers
  /\ n \in 0..BUFFER_SIZE
  /\ buf \in [Buffers -> [1..BUFFER_SIZE -> Block]]
  /\ enabled \in BOOLEAN
  /\ nack \in BOOLEAN
  /\ trn \in BOOLEAN
  /\ dataptr \in Buffers \cup {Null}
  /\ aux \in 0..BUFFER_SIZE
  /\ cnt \in 0..BUFFER_SIZE
  /\ toggle \in {0, 1}
  /\ htoggle \in {0, 1}

\* main's writes and the hardware's reads never meet.  From the moment a buffer
\* is armed until its last packet is acknowledged, its blocks, DATAPTR and CNT
\* stay as they were, with the buffers handed over by status bits alone
\* (main.c:62-78).
TransferFixed ==
  [][Armed /\ Armed' => UNCHANGED <<buf[dataptr], regs>>]_vars

\* The host never meets a short packet.  What is left of an armed transfer is
\* always a whole number of packets and at least one, so a host read, which a
\* short packet would end early, is always filled (host xrng.c:67-79 treats a
\* partly filled read as an error).
WholePackets ==
  Armed => \E k \in 1..PacketsPerBuffer : cnt - aux = k * BlocksPerPacket

\* The inductive invariant behind the two properties above: which registers main
\* has already written at each statement, the two status bits moving together
\* once the loop is entered, and an armed transfer always being the buffer main
\* is not filling.
BootInv ==
  /\ enabled <=> pc \notin {"status", "ctrl"}
  /\ pc = "status" => toggle = 0
  /\ pc \in {"ctrl", "kick"} => nack
  /\ pc = "status" \/ pc = "ctrl" \/ pc = "kick" \/ (trn <=> nack)

RearmInv ==
  /\ pc \in {"wait"} \cup Rearm => n = BUFFER_SIZE
  /\ pc \in Rearm => trn
  /\ pc \in {"aux", "cnt", "clear"} => dataptr = cur
  /\ pc \in {"cnt", "clear"} => aux = 0
  /\ pc = "clear" => cnt = BUFFER_SIZE

ArmedInv == Armed => dataptr = Other(cur) /\ cnt = BUFFER_SIZE

IInv == TypeOK /\ BootInv /\ RearmInv /\ ArmedInv /\ WholePackets

\* Both buffers, as the device sees them: what the armed transfer still has to
\* send, then what has been stored in the buffer that follows it.
Unsent == IF Armed THEN SubSeq(buf[dataptr], aux + 1, cnt) ELSE <<>>
Stored == SubSeq(buf[cur], 1, n)

\* The host has the packet at the head, or will take it for a repetition.
Seen == toggle # htoggle

Channel == INSTANCE EntropyChannel WITH
  q <- Unsent \o Stored, seen <- Seen,
  PacketSize <- BlocksPerPacket, Capacity <- 2 * BUFFER_SIZE

\* The same without the packet the host already has.
Undelivered == IF Seen THEN SubSeq(Unsent, BlocksPerPacket + 1, Len(Unsent))
                       ELSE Unsent

Fifo == INSTANCE EntropyFifo WITH
  fifo <- Undelivered \o Stored,
  PacketSize <- BlocksPerPacket, Capacity <- 2 * BUFFER_SIZE

\* Whatever the host restarts and whatever ACKs are lost, blocks reach the host
\* in order and intact, and a restart costs at most one packet.
IsChannel == Channel!Spec

\* With lost ACKs but no restart, nothing is lost, repeated, torn or reordered.
IsFifo == Fifo!Spec

\* Why: a packet the host already has is always one the device will repeat.
SeenInv == Seen => Armed

\* The two loops never wait on each other for ever: a host that keeps reading
\* is given packet after packet.
NeverStalls == []<>(htoggle = 0) /\ []<>(htoggle = 1)
=============================================================================
