------------------------------ MODULE Fw1Stream ------------------------------
(***************************************************************************)
(* The data path of the first firmware: main() fills its one buffer and    *)
(* offers it to the endpoint job of ASF's driver until udd_ep_run takes    *)
(* it, then fills it again.  udd_ep_run writes the job and the endpoint    *)
(* registers with interrupts enabled; both USB interrupt handlers work on  *)
(* the same job.  The handlers have one level: neither interrupts the      *)
(* other, and main runs only while none is pending.                        *)
(*                                                                         *)
(* A record ep holds the registers of endpoint 0x81, a record job what is  *)
(* used of udd_ep_job.  Sizes are in packets of 64 bytes; main's buffer is *)
(* one.  The callback of every job is NULL, and no short packet is asked   *)
(* for, so b_shortpacket stays false.                                      *)
(***************************************************************************)
EXTENDS Naturals

CONSTANTS
  BufPackets,    \* Packets in buffer_a (1 in the code).
  MaxTrans,      \* Packets one hardware transfer may have (15: 1023 bytes).
  Wrap,          \* Packets in 2^16 bytes, where iram_size_t wraps (1024).
  Cells,         \* Parts of a packet that main stores one at a time.
  AckLoss,       \* Whether the host's ACK of a packet may be lost.
  ClearsUnset    \* Whether the host may clear a halt that is not set.

ASSUME Fw1Assumption ==
  /\ BufPackets \in Nat \ {0}
  /\ MaxTrans \in Nat /\ BufPackets <= MaxTrans
  /\ Wrap \in Nat /\ MaxTrans < Wrap
  /\ Cells \in Nat \ {0}
  /\ AckLoss \in BOOLEAN
  /\ ClearsUnset \in BOOLEAN

VARIABLES
  pc,          \* The statement main is about to run.
  n,           \* Cells RND_get_buffer64 has stored.
  next,        \* next_trans of the udd_ep_trans_complet that main is in.
  ep,          \* Registers of endpoint 0x81.
  job,         \* udd_get_job(0x81): busy and nb_trans.
  tc,          \* An entry for 0x81 in the transfer-complete FIFO.
  configured,  \* udc_num_configuration # 0.
  alt,         \* udi_vendor_alternate_setting.
  restarted,   \* A handler has called through a NULL pointer.
  htoggle,     \* The sequence bit the host expects.
  uses,        \* How often the host has been given each cell's present value.
  crossed      \* History: a reset or a request was served inside udd_ep_run.

mainVars == <<pc, n, next>>
drvVars  == <<ep, job>>
udcVars  == <<configured, alt>>
hostVars == <<htoggle, uses>>
vars     == <<mainVars, drvVars, tc, udcVars, restarted, hostVars, crossed>>

Checks  == {"fill", "enabled", "stall", "lock"}
Filling == {"job", "reset", "count", "more", "sent", "cnt", "ptr", "arm", "done"}

BufCells  == BufPackets * Cells
CellIds   == 0..(BufCells - 1)
Packet(c) == c \div Cells
MaxUses == 3           \* Uses are not counted further.

Armed == ep.enabled /\ ~ep.stall /\ ~ep.nack /\ ~ep.trn

(***************************************************************************)
(* The driver's routines, on the registers and the job.  s is a record of  *)
(* both; each runs with interrupts disabled when a handler calls it.       *)
(***************************************************************************)

State == [ep |-> ep, job |-> job]
Becomes(s) == ep' = s.ep /\ job' = s.job

EndJob(j)   == [j EXCEPT !.busy = FALSE]

\* udd_ep_abort: the callback is NULL, so nothing else happens.
AbortKeepsJob(s) == [s EXCEPT !.ep.nack = TRUE]
Abort(s) == [ep |-> [s.ep EXCEPT !.nack = TRUE], job |-> EndJob(s.job)]

\* udd_ep_free; CTRL = 0 also clears the stall bit.
Free(s) == LET a == Abort(s)
           IN  [a EXCEPT !.ep.enabled = FALSE, !.ep.stall = FALSE]

\* udd_ep_alloc: an endpoint in use is left alone.  The job is not touched.
AllocArmed(s) == [s EXCEPT !.ep.enabled = TRUE, !.ep.stall = FALSE]
Alloc(s) ==
  IF s.ep.enabled THEN s
  ELSE [s EXCEPT !.ep.enabled = TRUE, !.ep.stall = FALSE,
                 !.ep.nack = TRUE, !.ep.trn = FALSE, !.ep.toggle = 0]

\* udd_ep_set_halt
HaltKeepsToggle(s) == Abort([s EXCEPT !.ep.stall = TRUE])
SetHalt(s) == Abort([s EXCEPT !.ep.stall = TRUE, !.ep.toggle = 0])

\* udd_ep_clear_halt
ClearHalt(s) ==
  IF ~s.ep.stall THEN s
  ELSE [ep |-> [s.ep EXCEPT !.stall = FALSE], job |-> EndJob(s.job)]

\* It calls the job's callback if the job is busy, whatever the job is.
CallsNohalt(s) == s.ep.stall /\ s.job.busy

\* What is left of the buffer, in iram_size_t, and the next transfer's part.
Left(nb) == (BufPackets + Wrap - nb) % Wrap
NextTrans(nb) == IF Left(nb) > MaxTrans THEN MaxTrans ELSE Left(nb)

SentIgnored(s) == s.job.nb
Sent(s)        == (s.job.nb + s.ep.aux) % Wrap

AllSent(nb)  == nb = BufPackets

\* udd_ep_trans_complet, as the interrupt handler runs it.
TransComplet(s) ==
  LET nb == Sent(s)
  IN  IF AllSent(nb)
      THEN [s EXCEPT !.job = [busy |-> FALSE, nb |-> nb]]
      ELSE [ep  |-> [s.ep EXCEPT !.aux = 0, !.cnt = NextTrans(nb),
                                 !.dataptr = nb, !.nack = FALSE],
            job |-> [s.job EXCEPT !.nb = nb]]

(***************************************************************************)
(* main: fill the buffer, offer it until it is taken.                      *)
(***************************************************************************)

\* A pending interrupt is served before main's next statement.
MainRuns == ~tc /\ ~restarted

Goto(from, to) == MainRuns /\ pc = from /\ pc' = to

NoOther == UNCHANGED <<tc, udcVars, restarted, hostVars, crossed>>

\* RND_get_buffer64 stores into the buffer, whoever is still reading it.
Room == n < BufCells

FillCell ==
  /\ MainRuns
  /\ pc = "fill" /\ Room
  /\ uses' = [uses EXCEPT ![n] = 0]
  /\ n' = n + 1
  /\ UNCHANGED <<pc, next, drvVars, tc, udcVars, restarted, htoggle, crossed>>

FillDone ==
  /\ Goto("fill", "enabled")
  /\ ~Room
  /\ UNCHANGED <<n, next, drvVars>> /\ NoOther

\* udd_ep_run returns false: main feeds the watchdog and tries again.
Retry == MainRuns /\ pc' = "enabled"

CheckEnabled ==
  /\ pc = "enabled"
  /\ IF ep.enabled THEN Goto("enabled", "stall") ELSE Retry
  /\ UNCHANGED <<n, next, drvVars>> /\ NoOther

CheckStall ==
  /\ pc = "stall"
  /\ IF ep.stall THEN Retry ELSE Goto("stall", "lock")
  /\ UNCHANGED <<n, next, drvVars>> /\ NoOther

\* Between cpu_irq_save and cpu_irq_restore: one step.
TakeAnyway == TRUE
JobFree    == ~job.busy

TakeJob ==
  /\ pc = "lock"
  /\ IF JobFree
     THEN Goto("lock", "job") /\ job' = [job EXCEPT !.busy = TRUE]
     ELSE Retry /\ UNCHANGED job
  /\ UNCHANGED <<n, next, ep>> /\ NoOther

FillJob ==
  /\ Goto("job", "reset")
  /\ job' = [job EXCEPT !.nb = 0]
  /\ UNCHANGED <<n, next, ep>> /\ NoOther

SentKept  == ep
SentReset == [ep EXCEPT !.aux = 0]

ResetSent ==
  /\ Goto("reset", "count")
  /\ ep' = SentReset
  /\ UNCHANGED <<n, next, job>> /\ NoOther

(* udd_ep_trans_complet again, a statement at a time. *)

CountSent ==
  /\ Goto("count", "more")
  /\ job' = [job EXCEPT !.nb = Sent(State)]
  /\ UNCHANGED <<n, next, ep>> /\ NoOther

SendMore ==
  /\ Goto("more", IF AllSent(job.nb) THEN "done" ELSE "sent")
  /\ next' = IF AllSent(job.nb) THEN next ELSE NextTrans(job.nb)
  /\ UNCHANGED <<n, drvVars>> /\ NoOther

ClearSent ==
  /\ Goto("sent", "cnt")
  /\ ep' = [ep EXCEPT !.aux = 0]
  /\ UNCHANGED <<n, next, job>> /\ NoOther

SetByteCnt ==
  /\ Goto("cnt", "ptr")
  /\ ep' = [ep EXCEPT !.cnt = next]
  /\ UNCHANGED <<n, next, job>> /\ NoOther

SetBuf ==
  /\ Goto("ptr", "arm")
  /\ ep' = [ep EXCEPT !.dataptr = job.nb]
  /\ UNCHANGED <<n, next, job>> /\ NoOther

\* The endpoint is armed, udd_ep_run returns true, main fills the buffer again.
ClearNack ==
  /\ Goto("arm", "fill")
  /\ ep' = [ep EXCEPT !.nack = FALSE]
  /\ n' = 0
  /\ UNCHANGED <<next, job>> /\ NoOther

\* Nothing was left to send: the job ends at once.
JobDone ==
  /\ Goto("done", "fill")
  /\ job' = EndJob(job)
  /\ n' = 0
  /\ UNCHANGED <<next, ep>> /\ NoOther

Main ==
  \/ FillCell \/ FillDone \/ CheckEnabled \/ CheckStall \/ TakeJob \/ FillJob
  \/ ResetSent \/ CountSent \/ SendMore \/ ClearSent \/ SetByteCnt \/ SetBuf
  \/ ClearNack \/ JobDone

(***************************************************************************)
(* ISR(USB_TRNCOMPL_vect): the end of a transfer on 0x81.                  *)
(***************************************************************************)

NoAck(s) == s
Ack(s)   == [s EXCEPT !.ep.trn = FALSE]

TransferComplete ==
  /\ tc /\ ~restarted
  /\ tc' = FALSE
  /\ IF ep.trn THEN Becomes(TransComplet(Ack(State))) ELSE UNCHANGED drvVars
  /\ UNCHANGED <<mainVars, udcVars, restarted, hostVars, crossed>>

(***************************************************************************)
(* Bus reset and the requests that reach the endpoint, each a handler run  *)
(* to its end.  A packet may have completed since the handler was entered, *)
(* so tc may be set.  A handler may be served between any two statements   *)
(* of udd_ep_run; crossed only records that one was, and guards no action. *)
(***************************************************************************)

InRun == pc \notin {"fill", "enabled"}

Served == ~restarted /\ crossed' = (crossed \/ InRun)

\* udc_iface_disable frees what the current setting uses; 0 has no endpoints.
IfaceDisable(s) == IF alt = 1 THEN Free(s) ELSE s
UdcReset(s)     == IF configured THEN IfaceDisable(s) ELSE s

BusReset ==
  /\ Served
  /\ Becomes(UdcReset(Abort(State)))
  /\ configured' = FALSE
  /\ htoggle' = 0
  /\ UNCHANGED <<mainVars, tc, alt, restarted, uses>>

SetConfiguration(v) ==
  /\ Served
  /\ Becomes(UdcReset(State))
  /\ configured' = (v = 1)
  /\ alt' = IF v = 1 THEN 0 ELSE alt
  /\ htoggle' = 0
  /\ UNCHANGED <<mainVars, tc, restarted, uses>>

\* An unknown setting is noticed only after the current one is disabled.
SetInterface(v) ==
  /\ Served
  /\ configured
  /\ LET s == IfaceDisable(State) IN Becomes(IF v = 1 THEN Alloc(s) ELSE s)
  /\ alt' = IF v \in {0, 1} THEN v ELSE alt
  /\ htoggle' = 0
  /\ UNCHANGED <<mainVars, tc, configured, restarted, uses>>

\* udc_req_std_ep_set_feature: udd_ep_abort, then udd_ep_set_halt.
SetFeatureHalt ==
  /\ Served
  /\ Becomes(SetHalt(Abort(State)))
  /\ UNCHANGED <<mainVars, tc, udcVars, restarted, hostVars>>

ClearFeatureHalt ==
  /\ Served
  /\ ClearsUnset \/ ep.stall
  /\ Becomes(ClearHalt(State))
  /\ restarted' = CallsNohalt(State)
  /\ htoggle' = 0
  /\ UNCHANGED <<mainVars, tc, udcVars, uses>>

Requests ==
  \/ BusReset
  \/ \E v \in {0, 1} : SetConfiguration(v)
  \/ \E v \in {0, 1, 2} : SetInterface(v)
  \/ SetFeatureHalt \/ ClearFeatureHalt

(***************************************************************************)
(* The endpoint hardware and the host (external to the repository).        *)
(***************************************************************************)

\* The host takes a packet that has the sequence bit it expects.
HostTakes ==
  LET p == ep.dataptr + ep.aux
  IN  IF ep.toggle # htoggle
      THEN UNCHANGED hostVars
      ELSE /\ htoggle' = 1 - htoggle
           /\ uses' = [c \in CellIds |-> IF Packet(c) = p /\ uses[c] < MaxUses
                                         THEN uses[c] + 1 ELSE uses[c]]

InToken ==
  /\ Armed /\ ~restarted
  /\ HostTakes
  /\ LET last == ep.aux + 1 >= ep.cnt
     IN  /\ ep' = [ep EXCEPT !.aux = @ + 1, !.toggle = 1 - @,
                             !.trn = last, !.nack = last]
         /\ tc' = last
  /\ UNCHANGED <<mainVars, job, udcVars, restarted, crossed>>

\* The host has the packet, the device will repeat it.
InTokenAckLost ==
  /\ AckLoss
  /\ Armed /\ ~restarted
  /\ HostTakes
  /\ UNCHANGED <<mainVars, drvVars, tc, udcVars, restarted, crossed>>

(***************************************************************************)
(* The specification.                                                      *)
(***************************************************************************)

\* udd_enable has run and the host has not configured the device.  The buffer's
\* zeroes are values no host should see: they count as used up.
Init ==
  /\ pc = "fill" /\ n = 0 /\ next = 0
  /\ ep = [enabled |-> FALSE, stall |-> FALSE, nack |-> FALSE, trn |-> FALSE,
           toggle |-> 0, dataptr |-> 0, aux |-> 0, cnt |-> 0]
  /\ job = [busy |-> FALSE, nb |-> 0]
  /\ tc = FALSE
  /\ configured = FALSE /\ alt = 0
  /\ restarted = FALSE
  /\ htoggle = 0
  /\ uses = [c \in CellIds |-> MaxUses - 1]
  /\ crossed = FALSE

Next == Main \/ TransferComplete \/ Requests \/ InToken \/ InTokenAckLost

Spec == Init /\ [][Next]_vars

\* main never blocks, a pending interrupt is served, and the host keeps polling
\* and gets an ACK through.  Resets, requests and losses are not owed.
FairSpec == Spec /\ WF_vars(Main) /\ WF_vars(TransferComplete) /\ WF_vars(InToken)

(***************************************************************************)
(* Properties.  A reset or a request served inside udd_ep_run breaks the   *)
(* agreement between the job and the registers, so most hold until one is, *)
(* which is what ~crossed says.  InBuffer and NohaltRegistered are stated  *)
(* without it, as the code and its comments promise them.                  *)
(***************************************************************************)

TypeOK ==
  /\ pc \in Checks \cup Filling
  /\ n \in 0..BufCells
  /\ next \in 0..MaxTrans
  /\ ep \in [enabled : BOOLEAN, stall : BOOLEAN, nack : BOOLEAN, trn : BOOLEAN,
             toggle : {0, 1}, dataptr : 0..(Wrap - 1),
             aux : 0..MaxTrans, cnt : 0..MaxTrans]
  /\ job \in [busy : BOOLEAN, nb : 0..(Wrap - 1)]
  /\ tc \in BOOLEAN
  /\ configured \in BOOLEAN
  /\ alt \in {0, 1}
  /\ restarted \in BOOLEAN
  /\ htoggle \in {0, 1}
  /\ uses \in [CellIds -> 0..MaxUses]

\* Until a handler is served inside udd_ep_run: while main writes the job and the
\* registers (usb_device.c:701-726), the endpoint neither sends nor has a completion
\* to report.  The handler's run of udd_ep_trans_complet and main's never overlap,
\* though no lock keeps them apart.
RegistersQuiet == ~crossed /\ pc \in Filling => job.busy /\ ~Armed /\ ~tc

\* Until a handler is served inside udd_ep_run: outside it a registered job always
\* has a transfer under way or a completion to be served, and the endpoint never
\* sends without a job (usb_device.c:692-698, 739-744, 1448-1449).
UnderWay ==
  pc \in Checks =>
    /\ Armed => job.busy
    /\ job.busy => Armed \/ (ep.trn /\ tc)
JobUnderWay == ~crossed => UnderWay

\* What an armed endpoint has left to send never leaves main's buffer
\* (usb_device.c:1366-1383, udd.h:311-313).
\* The code keeps this only until a handler is served inside udd_ep_run.
InBuffer == Armed /\ ep.aux < ep.cnt => ep.dataptr + ep.cnt <= BufPackets

\* Until a handler is served inside udd_ep_run: main refills the buffer while it is
\* being sent, so the host may be given the same bytes in two packets; but never in
\* three, and never bytes that were not filled in (xrng.c:88-94).
AtMostTwice == ~crossed => \A c \in CellIds : uses[c] < MaxUses

\* A callback that waits for the halt to be cleared is called only if one was
\* registered, which this firmware never does (usb_device.c:662-667).  The code keeps
\* this only until a handler is served inside udd_ep_run.
NohaltRegistered == ~restarted

\* An endpoint in service has the sequence bit the host expects, through resets,
\* halts and changes of setting, wherever they are served, if only set halts are
\* cleared (usb_device.c:644, 994); but for the packet whose ACK was lost, which is
\* still to be repeated.
InService == ep.enabled /\ ~ep.stall
InStep == InService => ep.toggle = htoggle \/ (AckLoss /\ Armed)

\* A completion flag, which blocks the endpoint, always has an interrupt that will
\* clear it, wherever requests are served (usb_device.c:878-897).
CompletionServed == ep.trn => tc

\* A job that was accepted is finished or aborted (udd.h:305, usb_device.c:672-752),
\* unless a handler is served inside udd_ep_run.
JobEnds == <>crossed \/ (job.busy ~> ~job.busy)

\* The same of an endpoint that stays in service, wherever requests are served: what
\* udd.h:305 says of every job.
JobEndsInService == []<>~InService \/ (job.busy ~> ~job.busy)

\* An endpoint that is enabled and not halted is soon given data to send, unless a
\* handler is served inside udd_ep_run.
ReadyIsServed == <>crossed \/ (InService ~> Armed \/ ~InService)

(***************************************************************************)
(* The inductive invariant behind the safety properties: what holds until  *)
(* a handler is served inside udd_ep_run.                                  *)
(***************************************************************************)

\* What main has established at each statement.
MainInv ==
  /\ pc \in {"stall", "lock"} \cup Filling => ep.enabled
  /\ pc \in {"lock"} \cup Filling => ~ep.stall
  /\ pc \in Filling => job.busy /\ ep.nack /\ ~tc
  /\ pc \in Filling \ {"job"} => job.nb = 0
  /\ pc \in {"count", "more", "cnt", "ptr", "arm"} => ep.aux = 0
  /\ pc \in {"sent", "cnt", "ptr", "arm"} => next = BufPackets
  /\ pc \in {"ptr", "arm"} => ep.cnt = BufPackets
  /\ pc = "arm" => ep.dataptr = 0
  /\ pc # "done"

\* What holds of a transfer under way, completed, or withdrawn.
EndpointInv ==
  /\ ep.trn => tc /\ ep.nack /\ ep.aux = BufPackets /\ job.nb = 0
  /\ ep.enabled /\ ~ep.nack =>
       /\ ~tc /\ ~ep.stall /\ job.busy /\ job.nb = 0
       /\ ep.dataptr = 0 /\ ep.cnt = BufPackets /\ ep.aux < BufPackets
  /\ job.busy => ep.enabled /\ ~ep.stall
  /\ ep.enabled => alt = 1 /\ configured

Sound == TypeOK /\ ~restarted /\ MainInv /\ EndpointInv /\ UnderWay
IInv  == crossed \in BOOLEAN /\ (~crossed => Sound)

\* How often each cell can have been used: once before it was last stored over
\* or armed again, and once by the transfer under way.
Old(c)         == pc = "fill" /\ n <= c
Undelivered(c) ==
  /\ Armed
  /\ \/ Packet(c) > ep.aux
     \/ Packet(c) = ep.aux /\ ep.toggle = htoggle
UsesBound ==
  \A c \in CellIds :
    uses[c] <= (IF Old(c) THEN 1 ELSE 0) + (IF Undelivered(c) THEN 0 ELSE 1)
UsesInv == ~crossed => UsesBound
=============================================================================
