# Verification of xrng

xrng is a USB hardware random number generator built on an ATxmega
microcontroller.  This directory holds TLA+ models of its firmware, TLC
configurations that check them on small instances, and TLAPS proofs about them.
Paths are relative to the repository; `fw2` is `src/firmware2/xrng` (the
current firmware, with its own small USB stack), `fw1` is `src/firmware/xrng`
(the earlier one, on Atmel's ASF stack).

## 1. The system and its parts

| Part | Files | State | Operations | Talks to |
|---|---|---|---|---|
| fw2 bulk stream | `main.c`, `xmega/usb_xmega.c:88-96` | two buffers, the registers of endpoint 0x81 | fill a buffer, wait for the completion bit, re-arm | the endpoint hardware, by registers and DMA only |
| fw2 control endpoint | `xmega/usb_xmega.c`, `usb/usb_requests.c`, `descriptors.c` | endpoint 0's registers, `usb_setup`, `usb_configuration`, `USB.ADDR` | two interrupt handlers, one handler per request | hardware, host |
| fw2 entropy pipeline | `rng.c` | ADC, AES and CRC registers | `RNG_init`, `RNG_get_buffer` | called by main |
| fw2 clocks and start-up | `main.c:25-46`, `usb_xmega.c:34-46,176-223` | oscillator, interrupt and attach bits | once, at reset | - |
| fw2 unused endpoint helpers | `usb_xmega.c`, `usb_requests.c` | - | never called | - |
| fw1 main loop and entropy | `xrng.c`, `rng.c`, `hw_misc.c` | one buffer, the bit collector, the watchdog | `RND_get_buffer64`, `udi_vendor_bulk_in_run`, `WDR` | fw1 endpoint jobs |
| fw1 endpoint jobs | ASF `usb_device.c:595-777,1350-1457`, `udi_vendor.c` | a job per endpoint (`busy`, buffer, count, callback) | run, abort, halt, clear halt, transfer complete | interrupts on both sides |
| fw1 control endpoint state machine | ASF `usb_device.c:1008-1303` | `udd_ep_control_state`, `udd_g_ctrlreq` | setup, IN sent, OUT received, under/overflow | the device core |
| fw1 USB device core | ASF `udc.c`, fw1 `usb.c` | configuration, interfaces, address | standard requests, WCID | control endpoint, vendor interface |
| host reader (libusb) | `src/host/xrng/xrng.c` | handle, file, counters | open, claim, read loop, exit | fw2 stream |
| Windows utility | `src/windows/xrng/*.cpp` | device handles | discovery, read loop, close | fw1 stream |
| ASF support code | clock, sleep, NVM, CPU drivers | registers | vendor code | - |
| descriptors and project files | `descriptors.c.bak`, `libusb.h`, driver package | - | static data | - |

What makes the fw2 firmware hard is that nothing in it takes a lock.  main and
the bulk endpoint share the buffers and a few registers, and are kept apart by
two status bits and the order of four assignments.  The interrupt handlers
share endpoint 0's registers with hardware that may take a packet between any
two instructions, and cannot refuse a SETUP at all.  The host may lose an ACK,
reset the bus, restart its data sequence or give up a transfer at any moment.

What makes each part correct:

* *Bulk stream*: the buffer being sent is never the one being filled; every
  block reaches the host once, in order, also when ACKs are lost; no short
  packet; no stall; a restarted host costs a bounded amount of data.
* *Control endpoint*: each request gets its own answer; the address changes only
  with the host's; every SETUP is handled; every transfer and reset completes.
* *Entropy pipelines*: the buffer is filled exactly and the call returns, nothing
  leaves fw2 that has not been through AES, and a sample of the converters is
  used a bounded number of times.
* *fw1 jobs*: one job per endpoint at a time, each ended exactly once; a job
  aborted by a reset leaves the endpoint disarmed.
* *fw1 control and core*: the driver meets a transaction only in a state it
  expects; a read gets its own answer and a STALL has a reason; the address,
  the configuration and the bulk endpoints are what the host made them; every
  transfer ends.
* *Readers*: single sequential programs; what they rely on is whole packets in
  order.

`PROJECT.json` lists these components, and under `hazards` each place where one
of the properties could fail, with the property that covers it or the reason
none does.

## 2. Modules

| Module | What it is |
|---|---|
| `XrngStream` | fw2's data path: main's loop, endpoint 0x81, the host |
| `EntropyFifo` | what the generator promises a host that just keeps reading |
| `EntropyChannel` | the same with restarts: the head packet may be lost or repeated |
| `MCXrngStream` | values for TLC: two blocks `x`, `y` |
| `XrngStreamProofs` | invariants and both refinements, for all sizes |
| `XrngControl` | fw2's control endpoint: both interrupt handlers, request handlers, hardware, host |
| `MCXrngControl` | values for TLC: one address, three configuration values |
| `MCXrngHosts` | the same device under one of two hosts, chosen for each behaviour |
| `ControlDevice` | what both firmwares promise about their control endpoint: each request takes effect once and is answered as of then |
| `XrngControlProofs` | the inductive invariant of `XrngControl`, register access by register access, and what follows |
| `XrngDeviceProofs` | that `XrngControl` implements `ControlDevice`; the invariant for both hosts of `MCXrngHosts` |
| `EntropySource` | `RNG_get_buffer` of fw2 and `RND_get_buffer64` of fw1, against free-running converters |
| `EntropySourceProofs` | its inductive invariant and what follows, for all sizes |
| `Fw1Stream` | fw1's data path: main's loop, the ASF endpoint job, both interrupt handlers, endpoint 0x81, the host |
| `Fw1StreamProofs` | its inductive invariants and what follows, for all buffer sizes |
| `Udc` | fw1's device core: what each request does to configuration, setting and endpoints, and how it is answered |
| `Fw1Control` | fw1's control endpoint: ASF's state machine over `Udc`, both interrupt handlers, hardware, host |
| `MCFw1Control` | values for TLC: one address, a request of each shape |
| `Fw1TransferProofs` | what each routine and handler of fw1's control endpoint leaves, field by field; that endpoints are only ever those of the setting in force |
| `Fw1InvariantProofs` | the inductive invariant of `Fw1Control` and what follows, for all packet sizes, requests and addresses |
| `Fw1DeviceProofs` | that `Fw1Control` implements `ControlDevice`, action by action |

### XrngStream

The two halves of main's loop (`main.c:60-68` and `70-78`) are the same code for
`buffer_a` and `buffer_b`, so one copy of the actions runs for the buffer `cur`:

| Code | Action |
|---|---|
| `usb_ep_enable`: `e->STATUS = BUSNACK0`, then `e->CTRL = ...` | `EnableStatus`, `EnableCtrl` |
| `e->STATUS \|= TRNCOMPL0` (line 57) | `Kickstart` |
| one round of `RNG_get_buffer`'s `while (buffer_size)` | `FillBlock`; its end is `FillDone` |
| `while((e->STATUS & TRNCOMPL0) == 0);` | `WaitComplete` |
| `DATAPTR`, `AUXDATA`, `CNT` assignments | `SetDataptr`, `SetAuxdata`, `SetCnt` |
| `LACR16(&(e->STATUS), ...)` | `ClearStatus` |
| endpoint hardware sends a packet, ACK received / lost | `InToken` / `InTokenAckLost` |
| the host restarts at DATA0 (reset, SET_CONFIGURATION, CLEAR_FEATURE) | `HostResync` |

Every register write is a step of its own, so the endpoint may act between any
two.  The unit of data is the block of 16 bytes one AES run produces, which is
the granularity at which main writes; sizes are given in blocks
(`BlocksPerPacket` is 4 and `PacketsPerBuffer` 15 in the code).  The packet is
read from memory in the same step in which it is acknowledged: that is sound
because `TransferFixed` shows that memory does not change from arming to the
last acknowledgement, so it does not matter when the DMA reads it.

`Undelivered \o Stored` (what is left of the armed transfer and the host does
not have, then what has been stored in the buffer behind it) is the abstract
FIFO; `Unsent \o Stored` with `Seen` (host and device disagree about the
sequence bit) is the abstract channel.

### XrngControl

A handler is a sequence of register accesses kept in `todo`; each access is an
action, and the hardware and the host act between any two of them.  `HandleSetup` is
`usb_handle_setup` with everything it calls: it replaces the step `handle` by
the accesses that request makes, in the order of the code (for instance
`SetConfigurationSteps`: `usb_ep0_in`, the assignment, `usb_ep0_out`).
`usb_reset` is one step because the bus is in reset while it runs.  Endpoint 0
is its status bits (`setup`, `nack`, `trn`, `stall`) per direction; a data
stage is the request whose answer is being sent and the packets left of it.
Contents and truncation to `wLength` are abstracted, except what
GET_CONFIGURATION returns.

The hardware and the host are external; they are modelled from the registers
the code uses: a SETUP is always accepted, sets SETUP, NAKs both sides and
clears STALL; an armed IN side sends and sets its completion bit and NAK after
the last packet; any completion or SETUP raises the one `USB_TRNCOMPL`
interrupt; only suspend, resume and reset raise `USB_BUSEVENT` (`main.c:34`),
whose handler then meets whatever other flags are set.

Three constants say how rough the host is.  `MayAbandon`: it may give a transfer
up at any point and start another.  `SetupDuringIsr`: a SETUP may come while a
handler is still running.  `SetupClearsIn`: the hardware is sure to clear a
completion bit left on the IN side when a SETUP arrives (if not, it may or may
not).  A handler takes a few microseconds and hosts leave much more than that
between giving a transfer up and the next SETUP, which is why
no host of a run has both `MayAbandon` and `SetupDuringIsr`: `MCXrngHosts` chooses
between one that has the former and one that has the latter.

### ControlDevice

One abstract device for both control endpoints.  It holds the host's transfer, the
request that has arrived and not taken effect (`pending`), what requests act on
(`conf`) and the two ideas of the address, and has no registers, handlers,
completions or stages:

| Action | `XrngControl` | `Fw1Control` |
|---|---|---|
| `Begin` | the hardware stores a SETUP | the same |
| `TakeEffect` | the access that opens the data or status stage (`ArmIn`, `usb_ep0_in`) or the second half of the STALL (`StallIn`); SET_CONFIGURATION's value counts from there, though it is stored at the next access | the work on the SETUP (`SetupWork`), all of it |
| `Complete`, `Refuse` | the host has concluded the status stage; met a STALL | the same |
| `Follow` | `usb_set_address` in the completion of the status stage | `udd_ctrl_endofrequest`'s callback from a completion |
| `GiveUp` | `HostAbandon` | `HostAbandon` |
| `Reset`, `ServeReset` | `HostReset`, `usb_reset` | `HostReset`, `ResetEvent` |
| `Forget` | `usb_ep0_out` erases a SETUP while a reset waits to be served | never |

What depends on the firmware comes in as operators: `Effect`, `AfterReset`, `Answer`,
`MayAnswer`, `MayRefuse`.  Each firmware defines them without the order in which
its code gets there, from the whole record it acts on: fw2's `conf` is
`usb_configuration`, kept by a reset (`ConfigAfterReset`); fw1's is configuration,
setting and whether the bulk endpoints exist, of which a reset leaves the setting's
number (`Unconfigure`).  fw1 decides some requests by its address (SET_CONFIGURATION
has no effect at address 0), so `Effect` has it as an argument, and the
one thing the host cannot know has a variable of its own: `unsure` holds the address of a
SET_ADDRESS given up behind its effect, which the next request may conclude.

So a reader who only wants to know what a host can rely on reads `ControlDevice`
and these few operators: no answer is that of another request, none mixes values
from before and after a change, no request takes effect twice or after the
host has seen its transfer concluded; one that was given up takes effect before the next
request begins to, or never.

### Fw1Stream

| Code | Action |
|---|---|
| `RND_get_buffer64` stores a part of the buffer | `FillCell`, `FillDone` |
| `udd_ep_run`: enabled?, halted?, the locked test and set of `busy` | `CheckEnabled`, `CheckStall`, `TakeJob` |
| `udd_ep_run`, behind the lock | `FillJob`, `ResetSent` |
| `udd_ep_trans_complet` called by `udd_ep_run` | `CountSent`, `SendMore`, `ClearSent`, `SetByteCnt`, `SetBuf`, `ClearNack`; `JobDone` |
| `ISR(USB_TRNCOMPL_vect)` with `udd_ep_trans_complet` | `TransferComplete` |
| `ISR(USB_BUSEVENT_vect)`, reset | `BusReset` |
| `udc_req_std_dev_set_configuration`, `..._iface_set_setting`, `..._ep_set_feature`, `..._ep_clear_feature` | `SetConfiguration`, `SetInterface`, `SetFeatureHalt`, `ClearFeatureHalt` |
| endpoint hardware sends a packet, ACK received / lost | `InToken` / `InTokenAckLost` |

`udd_ep_trans_complet` appears twice because it runs in two ways: a statement at
a time from main, with interrupts enabled, and as a whole (`TransComplet`) in
the interrupt.  A handler is one step: the firmware gives all interrupts one
level, so none preempts another, and main runs only when none is pending
(`MainRuns`).  The driver's routines are operators on a record of the registers
and the job, composed by the handlers as in the code.  A handler may be entered
just before a packet completes, so requests are served with `tc` set or not.

Resets and requests may be served between any two statements.  Those of
`udd_ep_run` take a few microseconds of the milliseconds main spends elsewhere, but
nothing in the code keeps a request out of them, and most of what the code relies on
no longer holds once one has been served there.  The history variable `crossed`
says that this has happened; it guards nothing.  The properties that need it are
stated until then (`~crossed => ...`), and how they fail afterwards is a finding with a
run of its own.  `ClearsUnset`: the host may clear a halt
that is not set, as hosts do to resynchronise.  `AckLoss`: ACKs may be lost.

A packet is read in the step that sends it, while in hardware main may store
into a packet that is on its way; so the model does not say which of two fills a
packet mixes.  It counts, per cell, how often the host has been given its present
value (`uses`), which the reading time does not change by more than where a use
is counted: `AtMostTwice` is about that count.

fw1 never registers a callback and never asks for a short packet, so callbacks
and `b_shortpacket` are constant and left out; its OUT endpoint has no jobs.

### Udc and Fw1Control

`Udc` is what `udc_process_setup` decides, as operators on a record of
`udc_num_configuration`, the vendor interface's alternate setting and whether
its endpoints are allocated: there is one configuration with one interface of
two settings.  A request has a name, the value its handler distinguishes and its
`wLength`; lengths count units of half a packet (`CtrlSize` is 2), so an answer
can be shorter than a packet, fill it exactly, or need several.

| Code | Definition |
|---|---|
| `udc_iface_disable`, `udc_iface_enable`, `udc_reset` | `IfaceDisable`, `IfaceEnable`, `UdcReset` |
| `udc_req_std_dev_set_configuration`, `udc_req_std_iface_set_setting` | `SetConfiguration`, `SetInterface` |
| `udc_reqstd`; `usb_other_requests` (`fw1/usb.c:109`) | `Standard`, `UdcAfter`; `OtherRequests` |
| `udd_ctrl_init`, `udd_ctrl_setup_received`, `udd_ctrl_in_sent`, `udd_ctrl_out_received`, `udd_ctrl_underflow`, `udd_ctrl_overflow`, `udd_ctrl_endofrequest` | `CtrlInit`, `SetupReceived`, `InSent`, `OutReceived`, `Underflow`, `Overflow`, `EndOfRequest` |
| `ISR(USB_TRNCOMPL_vect)`: one entry of the transaction FIFO, or a SETUP | `TrnComplete`, `TakeSetup`, then `InWork`, `OutWork`, `SetupWork` |
| `ISR(USB_BUSEVENT_vect)`: one flag of the else-if chain | `Line`, `UnderflowEvent`, `OverflowEvent`, `ResetEvent` |

The driver's routines are operators on a record of its variables and registers.
A handler of a transaction takes two steps: the first reads and acknowledges the
flags, the second does the work, and the host may send tokens and, where the
transfer is over for it, the next SETUP in between.  The error handler first
looks at what is not yet served, as the code does (`NothingToDo`, and the
SETUP it then takes), and is one step.

INTFLAGSA has one UNF and one OVF flag for all endpoints, and `BulkNak` and
`BulkComplete` are the bulk endpoints' part in them and in the transaction FIFO,
possible whenever setting 1 is selected.  What endpoints do apart from that is
`Fw1Stream`.

The host knows what it may believe: `confs` and `alts` are the configurations and
settings that can be in force after the requests it has sent, given up and
completed.

### EntropySource

Both firmwares poll converters that run by themselves.  `fw` says which device it
is; each access of the two routines that can meet a conversion is an action.  ADCA's
channels 0, 1 and 3 are read by fw2 and so is channel 2 of ADCB (`B2`), which converts
at its own pace and is never waited for; fw1 reads channel 0 of each:

| Code | Action |
|---|---|
| `rng.c:209-230` of fw2: the flag, its clearing, the results into AES.STATE and AES.KEY, the run, the output | `TestLeft`, `WaitAdc`, `ClearAdc`, `ReadState`, `StateSet`, `ReadKey`, `KeySet`, `Start`, `WaitAes`, `Output` |
| `rng.c:182-265` of fw1: poll, read, clear for each converter, then take the bits | `PollA`, `PollB`, `TakeBit`, `NoBits` |
| a conversion ends; AES ends (external) | `ConvertA`, `ConvertB`, `AesFinishes` |

A sample is not a number: `uses` counts how often the present result of each
channel has been read, and `sweeps` how often ADCA has begun a sweep since the last
sample of `B2`, which is how the two converters are compared without assuming a rate.
Two reads in one C expression have no defined order, so `ReadState` and `ReadKey` make
them in either.

## 3. Runs

| Run | Instance | Shows |
|---|---|---|
| `stream_lossless` | 2 buffers x 2 packets x 2 blocks, ACKs lost, no restart | `TypeOK`, `WholePackets`, `TransferFixed`, refinement of the FIFO (`IsFifo`), `NeverStalls` |
| `stream_resync` | 2 x 3 x 1, ACKs lost, restarts at any moment | the inductive invariant `IInv`, refinement of the channel (`IsChannel`) |
| `control_safety` | all 12 requests and resets; a host that gives transfers up, with completions that survive a SETUP, or one that sends a SETUP between any two accesses | the inductive invariant under both hosts (`HostsInv`), `ReplyMatches`, `FifoOff`, `AddressFollowsHost` |
| `control_liveness` | 7 requests, of each shape of handler and each effect; the former host | `TransferEnds`, `ResetServed`, refinement of `ControlDevice` (`IsDevice`) |
| `control_setup_race` | the same requests, the latter host | **violated**: `EverySetupSeen` |
| `fw1_stream` | 2 packets of 2 cells; lost ACKs, resets and requests between any two statements, only set halts cleared | until one is served inside `udd_ep_run`: `RegistersQuiet`, `JobUnderWay`, `AtMostTwice`, the invariants `IInv` and `UsesInv` behind them, `JobEnds`, `ReadyIsServed`; wherever they are served: `InStep`, `CompletionServed` |
| `fw1_preempted_job` | 1 packet of 1 cell, no lost ACK | **violated**: `JobEndsInService` |
| `fw1_preempted_nohalt` | the same, with lost ACKs and any halt cleared | **violated**: `NohaltRegistered` |
| `fw1_preempted_buffer` | 1 packet of 1 cell, no lost ACK | **violated**: `InBuffer` |
| `fw1_control` | 16 requests; transfers given up, NAKs, resets, bulk traffic | the inductive invariant `IInv`, `StateExpected`, `ReplyMatches`, `StallsExplained`, `EndpointsFollowHost`, `EndpointsOwned`, `AddressReached`, `AddressFollowsHost`, refinement of `ControlDevice` (`IsDevice`) |
| `fw1_control_live` | 6 requests, no bulk traffic | `TransferEnds` |
| `entropy` | both routines, converters of any relative pace; AES runs of 4 bytes, buffers of 8 and 3 bytes | `SampleReuse`, the invariant `IInv`; `ReturnsFull`, `FillEnds` |

Where a run checks `IInv` the type invariant `TypeOK` is its first conjunct and not listed
again.

*Bounds.* Two packets per buffer give a first and a last packet, two blocks per
packet a packet that can be torn, and two block values tell old data from new;
three packets in `stream_resync` add one that is neither.  The proofs cover all
other sizes.  In the control runs one address besides 0, the two accepted
configurations and a refused one, and three packets for the longest answer
reach every branch of the request handlers; at most one SETUP is pending at a
time because the hardware holds only one.  `fw1_control` has a request of each
shape: answers shorter than a packet, of a packet, of several, cut off by
`wLength`; refused ones with and without data; a read of length zero; every change of
configuration and setting: to the one there is, to none (`SetConfiguration` 0, setting
0), and to an unknown number (2 for each); and a write with
more data than a packet.  At most one completion of a bulk endpoint waits in the
transaction FIFO at a time, for it is not armed again before its entry is read;
then the FIFO never holds more than three entries (`Fw1QueueBounded`).  Two AES runs per buffer tell the last from one that is not, and three
bytes of three bits do the same for fw1's collector.  `uses` of a
sample and `sweeps` stop at `MaxUses`, 5: two more than the property allows of an ADCA
channel, and enough that `uses["B2"] <= sweeps + 2` can be broken for up to two sweeps.  fw1's buffer is one packet; `fw1_stream`
takes two, so that a transfer has a first and a last packet, and two cells to
a packet, so that one can mix two fills.  Four
packets for 2^16 bytes keep the wrap of `iram_size_t` inside the model.  A cell's `uses`
is counted up to 3, one more than the property allows.  Nothing else is bounded.

*Fairness.* The stream needs weak fairness of main, which never blocks on
anything but the endpoint and the free-running ADC, and of `InToken`, that is,
a host that keeps reading and eventually gets an ACK through.  The control runs
need weak fairness of the handlers and of the host's tokens for a transfer in
progress, and strong fairness of entering `USB_TRNCOMPL`: bus events can take
priority repeatedly, each being short, but a pending interrupt is not starved
by them for ever.  No fairness is assumed of resets, abandons, losses or new
requests.  `Fw1Stream`'s runs need weak fairness of main, of the completion
interrupt and of `InToken`.  `Fw1Control` needs that a handler that has entered
ends and that bus events are served (weak), that a completion, a SETUP and the
flags behind UNF in the chain are served although bus events with priority keep
coming (strong: each is served in microseconds and a token takes longer), and
that a host in a transfer keeps sending tokens, one of which in the end finds the
endpoint ready (strong, and weak for the NAK or the STALL otherwise).  The host gives up
a transfer only by choice, and is only sure to when nobody answers at its
address.  `EntropySource` needs the processor, ADCA and AES to go on; nothing is
assumed of fw1's polling meeting a conversion, because a flag stays set.  `fw1_stream`, `fw1_preempted_job` and
`fw1_preempted_buffer` do not check for deadlock because a call through NULL ends the
behaviour there.

*The violated property.*  `EverySetupSeen` says that a SETUP flag is cleared
only where the handler has seen it.  `usb_ep0_out` clears it together with the
flags it means to clear (`usb_xmega.c:161`).  The request handlers call
`usb_ep0_in` first, which opens the status stage; a host that completes it and
sends the next SETUP before `usb_ep0_out` runs loses that SETUP: the next
interrupt finds no flag, and the host's request times out.  The
comment at `usb_xmega.c:249` knows of the hazard.  `control_safety` shows that the
damage ends there, and `ControlReplyMatches` proves it for every host that is `Orderly`:
the lost request is never answered with something else.
Two further observations on the same model, which need more than one unusual
circumstance at once: with `MayAbandon` and `SetupDuringIsr` together, an answer
can reach the wrong request and the address change early; with
`SetupDuringIsr` but without `SetupClearsIn`, a stalled GET_DESCRIPTOR
followed at once by another request can be answered by the empty packet that
`usb_handle_control_in_complete` arms for the first.

*The violated properties of fw1.*  `JobEndsInService`: `udd_ep_run` tests that the
endpoint is enabled before it disables interrupts.  If a reset or SET_INTERFACE
is served between the two, the job is registered on an endpoint that no longer
exists; allocating it again leaves `busy` set, every later `udd_ep_run` returns
false, and the stream is dead until the endpoint is next freed or halted.
`NohaltRegistered`: a halt in the same gap is followed by a job on a halted
endpoint; clearing the halt takes any busy job for a registered wait and calls
its callback, which is the NULL of `call_trans`.
`InBuffer`: `udd_ep_run` enables interrupts again before it fills in the job.  A
SET_INTERFACE(1) served from there up to the clearing of NACK (`usb_device.c:698-1384`)
aborts the job and allocates the endpoint anew; main goes on and arms it all the same.  The
endpoint now sends with `busy` false, so the next `udd_ep_run` is let in and writes
the job and the registers of an endpoint that may complete meanwhile.  In the
run it completes between main's computation of the next part and its write to
BYTECNT: the handler has advanced `nb_trans` to 64, and main sends 64 bytes from
`&buf[64]`, behind the 64-byte `buffer_a`.  If the completion comes between lines
712 and 1363 instead, its bytes are counted twice, `nb_trans` is 128, what is left of
the buffer wraps to 65472, and 960 bytes are sent from `&buf[128]`.
The same window breaks `RegistersQuiet`, `JobUnderWay` and `AtMostTwice`; all of them
are stated until a request is served inside `udd_ep_run`.

Two promises of `udd.h` (lines 265-266, 277-279) are not kept either:
`udd_ep_set_halt` aborts the transfer under way, and `udd_ep_clear_halt` leaves
the toggle of an endpoint that is not halted where it is, so a host that
clears such a halt and restarts at DATA0 may be out of step with the device.

*What the single buffer costs.*  fw1 refills its buffer while it is being sent.
A packet can hold bytes of two fills, and bytes stored before the refill
overtakes the host are sent again with the next packet: the host may see the
same random bytes twice.  `AtMostTwice` bounds that to two, whatever ACKs are
lost, until a request is served inside `udd_ep_run`.  With `ClearsUnset` it can be three, because the host then accepts a
repeated packet.

*fw1's shared error flags.*  `udd_ctrl_interrupt_error` stalls endpoint 0 when the
common UNF or OVF flag rises and endpoint 0's own bit is set.  That bit is set by
every token the endpoint NAKed, also long before, and the common flag by every token
a polled bulk endpoint NAKs.  So while bulk endpoints are polled a correct read
can be answered by a STALL in its status stage; `StallsExplained` excepts that
case (`udc.eps`) and shows that there is no other.  And an error event that meets a
completion of a bulk endpoint in the FIFO is dropped for good; a transfer whose
data the host cuts off, or has too much of, then waits for an event that may not
come again.  Hence `TransferEnds` is checked with setting 1 not selected.

*What fw1 accepts.*  A request that `udc_reqstd` refuses goes to
`usb_other_requests`, which accepts whatever is not a vendor request and answers
with nothing (`fw1/usb.c:109-148`).  SET_CONFIGURATION(2), SET_INTERFACE(2) or
SET_DESCRIPTOR end well for the host; after SET_INTERFACE(2) the bulk endpoints
are freed although GET_INTERFACE still reports the old setting.
`EndpointsFollowHost` says that endpoints are never there without a reason,
not that they are there whenever the host has one.

*How often a sample is used.*  fw1 reads a result and clears the flag after that:
a sample is used once.  fw2 clears the flag first (`rng.c:217`) and reads four
results of which it has waited for one; a conversion that ends between leaves the
flag set for a result that is already taken.  `SampleReuse` shows that of ADCA the
waited-for channel's samples are used at most twice and those of channels 1 and 3 at most
three times.  The fourth result, channel 2 of ADCB, is half of the key
(`rng.c:219`), and `RNG_get_buffer` neither waits for it nor clears its flag.  Its
sample is used at most two more times than ADCA's channel 0 has been converted in its
time; how often that is depends on two converters that nothing ties together, so no
bound on its use follows from the code.

*Also seen while modelling.*  `usb_configuration` is not cleared by a bus reset,
so GET_CONFIGURATION answers the value set before it: `IsDevice`, with
`ConfigAfterReset`, says that it is that one and no other.  `main.c:39` turns on the transaction FIFO, for which the
firmware reserves no memory and which it does not use; the first bus reset
turns it off again, before any packet (`FifoOff`).

## 4. Proofs

All theorems hold for every value of the constants allowed by the modules'
assumptions: a nonempty set of blocks and positive sizes (`StreamAssumption`),
for fw2 any sets of addresses and of requests (its `ControlAssumption`), for fw1 any
addresses and any requests of any value and length, provided that the host
sends no data with the requests that have none and assigns addresses of that set
(its `ControlAssumption`, which also keeps the name "None" for no request; `RequestsAssumption`, for `Fw1EndpointsOwned`, is less), a
fw1 buffer of one hardware transfer or less (`Fw1Assumption`), a fw2 buffer of
whole AES runs that fits a `uint16_t`, and uses counted up to 4 at least
(`SourceAssumption`).  Where a theorem is true
only for some hosts it says so as a hypothesis.

* `StreamInvariant`: `Spec => []IInv`.  The properties are not inductive: that
  an armed buffer stays fixed depends on main not being at a register write
  while the endpoint is armed, which depends on NAK and completion moving
  together, which holds only after the start-up statements.  `BootInv`,
  `RearmInv` and `ArmedInv` say this statement by statement.
* `StreamTypeCorrect`, `StreamWholePackets`, `StreamTransferFixed` follow from it.
* `StreamIsChannel`: every step is a step of `EntropyChannel` or leaves it
  unchanged.  The work is in the lemmas `AppendOne` (storing a block at
  position n+1 appends it), `DropHead` and `PacketSent` (acknowledging a packet
  removes the first `BlocksPerPacket` blocks) and `BufferHandedOver` (arming
  moves a buffer from `Stored` to `Unsent`, the sum being unchanged).
* `StreamIsFifo`: without restarts, the same for `EntropyFifo`.  It needs one more
  invariant, `SeenInv`: host and device disagree only while the packet in
  question is still armed, hence will be repeated.
* `ControlFifoOff`: `FifoOff` is inductive once the host record is known to
  keep its shape.
* `ControlInvariant`, assuming `Orderly`: `Spec => []IInv`.  `Orderly` covers the two hosts of
  `control_safety`: one sends no SETUP while a handler runs, the other gives nothing up
  and its SETUP clears the IN side's completion.  `HandlerInv` says
  what a handler has established before each of its accesses; `SetupInv` that
  from a SETUP's arrival to its answer both sides of endpoint 0 refuse tokens and that
  afterwards `usb_setup` is the host's request, unless `usb_ep0_out` has erased that
  SETUP, and then nothing is armed, taken or stalled that it could be answered with
  (`Lost`); `AnswerInv` that what is armed, has
  been taken, or is stalled is the answer to that request; `ConfigInv` that the
  host may believe in `usb_configuration`; `PatientInv`, for the second host, that a
  handler which a SETUP overtakes meets no completion, and that GET_DESCRIPTOR's, whose
  handler would arm the IN side once more, is dealt with before the host can
  send one.  Each handler access, the bus handler and
  each host action has a lemma, and in it a step for each part.  The provers do
  not know concatenation of tuples, so the sequences a handler can have before
  it are enumerated (`TodoShapes`) and `NextAccess`, `BranchAccess` and
  `HandleShape` say how they shrink.  `ControlTypeCorrect`, `ControlReplyMatches`
  and `ControlAddressFollowsHost` follow, and `ControlEverySetupSeen`, the converse of
  the finding: without a SETUP during a handler no SETUP is lost.  With one, `Lost` says
  how far the damage goes: that request is not answered, and none gets a wrong answer.
* `ControlIsDevice`, assuming `Orderly`: `Spec => IsDevice`.  It needs one conjunct beyond
  `IInv`, `FreshInv`: the value GET_CONFIGURATION has armed or delivered is still the one in
  force, because nothing can change it before the transfer has ended.  Most accesses
  leave the abstract device alone (`ReadingSame`, `HandlingSame`); `Effective` is about
  those that do not.  A SETUP that `usb_ep0_out` erases stays pending in the abstract device
  for as long as the host waits for it (`ArmOutErases`): a request that never
  takes effect is one the host gives up.  The other host of `Orderly`, which sends SETUPs
  between accesses, is the theorem's; the run has the host that gives up.
* `HostsInvariant`: the invariant the run `control_safety` checks, for the
  host that is one of two from the start.  The second of them is `XrngControl` with other
  constants, so the lemmas of `XrngControlProofs` are instantiated for it (`PP`) instead of
  proved again; `SameInvariant`, `SameStart` and `SameStep` say that the two instances
  speak of the same thing.
* `Fw1Invariant`: `Spec => []IInv`, from no hypothesis.  `IInv` is
  `~crossed => Sound`: nothing is claimed once a request has been served inside
  `udd_ep_run`, and that `crossed` stays (`CrossedStays`) leaves the steps before it
  to prove (`StepSound`).  `MainInv` says what main
  has written at each statement; `EndpointInv` that an armed endpoint, a completed
  one and a withdrawn one agree with the job, and that a busy job has an enabled
  endpoint that is not halted.  That last conjunct is what a request inside
  `udd_ep_run` breaks first.
  `Fw1RegistersQuiet` and `Fw1JobUnderWay` follow from it, and with `~crossed` in the
  statement `Fw1TypeCorrect`, `Fw1InBuffer` and `Fw1NohaltRegistered`, the latter two being the
  formulas that `fw1_preempted_buffer` and `fw1_preempted_nohalt` refute without it.
* `Fw1UsesBounded` and `Fw1AtMostTwice`, assuming `~ClearsUnset`: `UsesInv` bounds
  the uses of each cell by one for the transfer
  that has delivered it and one more until main stores over it again.  It is
  preserved because the host takes a packet only while device and host agree on
  the toggle, after which they do not (a lost ACK) or the packet is behind
  (`TokenUses`), and because every handler disarms the endpoint when it makes the
  host restart at DATA0 (`HandlerUses`).
* `Fw1InStep`, assuming `~ClearsUnset`, and `Fw1CompletionServed`, from no
  hypothesis: these two hold wherever requests are served, inside `udd_ep_run`
  as well, so they rest on invariants of their own (`SyncInv`, `EpShape`).
* `Fw1EndpointsOwned`: the endpoints, the setting and the configuration are
  related by every request and every reset (`RequestOwns`, `ResetFrees`), and nothing
  else in the driver touches them.
* `Fw1ControlInvariant`: `Spec => []IInv` for `Fw1Control`, from no hypothesis.  None of
  the properties is inductive, because the driver does not follow the host: it
  learns of a status stage only from a completion, or from the next SETUP if that
  hides it, and of an error from flags that may be old.  The parts of `IInv` say
  what it can rely on all the same:
  `EndpointInv` and `FifoInv`, that a side of endpoint 0 answers tokens only in the states
  that expect its completion and that the FIFO has each endpoint at most once;
  `UnservedInv` and `PendingInv`, that from a SETUP to its handler endpoint 0 refuses
  tokens and the request is the host's;
  `RequestInv` and `DataInv`, what `udd_g_ctrlreq`, the counters and the static
  `b_shortpacket` are in each state;
  `ErrorInv` and `StallInv`, which token set an error bit and which reasons a STALL has;
  `HostInv`, where the host is in each state of the driver (`Match`): ahead of it by at
  most the one transaction whose completion is still to be dealt with;
  `CoreInv` and `AddressInv`, what configuration, setting and address the host may believe
  in.  The proof has three layers.  Lemmas on the driver's routines and handlers
  say what each leaves in each field (`Fw1TransferProofs`).  The work of all handlers
  then falls into a few cases (`Ending`, `Sends`, `AwaitsIn`, `AwaitsOut`, `Stalls`), each
  with one lemma that it keeps `IInv`, part by part; so has each action of the
  hardware and the host (`Fw1InvariantProofs`).
* From it `Fw1ControlTypeCorrect`, `Fw1QueueBounded`, `Fw1StateExpected`, `Fw1ReplyMatches`,
  `Fw1StallsExplained`, `Fw1EndpointsFollowHost` and, with the step, `Fw1AddressFollowsHost`.
* `Fw1AddressReached` assumes that the host gives no transfer up or has one address to
  assign, and has to: a host that gives up SET_ADDRESS(b) behind a completed
  SET_ADDRESS(a) keeps using a, while the device may take the SETUP that follows for
  the end of the status stage and be at b.  The host of the model then gives up for lack
  of an answer and resets the bus.
* `Fw1ControlIsDevice`: `Spec => IsDevice`, from no hypothesis on the host.  `FreshInv`, the one
  strengthening, says that the value a read has brought the host is still in force, and
  that nothing is being sent for a request that only ever meets STALL; that the data so far is
  the right length of the right answer is `IInv`'s `HostInv`.  `UdcEffect`
  shows that what `ProcessSetup` does by freeing and allocating endpoint by endpoint,
  and by falling through to `usb_other_requests`, comes to `EffectOf`; the only place where it
  uses a reachable state is `Owned`, that the endpoints are those of the setting.  The
  one step that could not be mapped without `unsure` is the callback of a status stage
  hidden by the next SETUP, when the host has given that request up: the
  device then moves to an address the host may or may not use.
* `SourceInvariant`: `Spec => []IInv`.  `UsesInv` counts reads against what can still
  raise them: a set flag, a read to come, a channel later in the sweep and, for ADCB,
  each sweep of ADCA move the bound by one.  `BufferInv` says that bytes stored and bytes asked for add up and
  come in whole runs, given out only when AES has ended.  `SourceTypeCorrect`, `SourceSampleReuse` and
  `SourceReturnsFull` follow.

Liveness (`NeverStalls`, `TransferEnds`, `ResetServed`, `JobEnds`, `ReadyIsServed`,
`FillEnds`) is beyond the prover and is only model-checked.  No
theorem speaks of fw2 with a host that is not `Orderly`, where the properties fail as
described in section 3.  `ControlDevice` has no fairness either: that a transfer
ends is `TransferEnds`, on each firmware's own model.

## 5. What could come next

* A composition of `Fw1Stream` and `Fw1Control`, in which the requests that
  reach the endpoint job come from the control endpoint; today each has the
  other's part as free actions, which is the weaker assumption for both.

## 6. What is not modelled

Most of the repository's lines are vendored: `libusb.h`, Atmel's drivers for
clocks, NVM, sleep and parts, compiler headers, static descriptors.  They hold no
logic of the generator, and the share of lines that is modelled is small for that
reason; of the code that is the program's own, or is driven by it at run
time, this is left out:

* the values of the random data and their quality; what a sample, a key or a
  checksum is is abstracted to which results went into it;
* clock and oscillator set-up, the register set-up of converters and timers
  apart from the order of channels, and fw1's watchdog, which is fed in
  every retry of main;
* descriptor and string contents, and requests for strings the device does not
  have (fw2 reads a length through a null pointer for them, `descriptors.c:215`);
* code no path reaches: `rng.c:101-194` and `rng.c:232-538` of fw2, the unused
  endpoint helpers, fw1's other getters, the bulk OUT endpoint 0x02 that fw2's
  descriptor declares and no code enables; of fw1's endpoint jobs the OUT path,
  short packets, the cache buffer and `udd_ep_wait_stall_clear`; of its
  control endpoint `over_under_run`, which no request sets;
* vendor OUT requests with data and `wIndex` 4 or 5.  `usb_other_requests`
  (`fw1/usb.c:114-145`) does not look at the direction: it would give such a request
  one of its static descriptors as the buffer, and `udd_ctrl_out_received` would
  copy the host's data there (`usb_device.c:1131-1197`).  No driver that follows the
  descriptors sends one; `Wcid` is always a read here, and a data stage to the device
  has no buffer in `OutReceived`;
* a SETUP that is still pending when a bus reset is served: a reset lasts
  milliseconds and a SETUP waits for microseconds;
* the host reader (`src/host/xrng/xrng.c`) and the Windows utility: sequential
  programs over libusb and WinUSB, without concurrency, retries or recovery.  Both
  leave through `return` at the first failure without releasing what they opened,
  and the process ends there.
