----------------------------- MODULE Fw1Control -----------------------------
(***************************************************************************)
(* Endpoint 0 of the first firmware: the state machine of ASF's driver     *)
(* (udd_ep_control_state) between the SETUP, data and status packets of    *)
(* the host and udc_process_setup.  Both interrupt handlers have one level,*)
(* so one never interrupts the other, but the host goes on while one runs: *)
(* the handler of a transaction enters in one step, where it reads and     *)
(* acknowledges the flags, and does its work in a second, isr.             *)
(*                                                                         *)
(* in and out are the two sides of the endpoint in the hardware's table,   *)
(* fifo its queue of completed transactions (TRNIF is fifo # <<>>), flags  *)
(* the bus flags of INTFLAGSA that are set.  INTFLAGSA's UNF and OVF are   *)
(* those of all endpoints; in.unf and out.ovf are endpoint 0's own.        *)
(***************************************************************************)
EXTENDS Udc, Sequences, FiniteSets

CONSTANTS
  Address,      \* Addresses the host may assign.
  Requests,     \* Requests the host may send.
  MayAbandon    \* Whether the host may give a transfer up.

\* A host sends no data with the requests that have none, and assigns addresses
\* (USB 2.0, 9.4); apart from that a request may have any value and length.  "None" is
\* the name of no request.
ASSUME ControlAssumption ==
  /\ Address \subseteq 1..127
  /\ MayAbandon \in BOOLEAN
  /\ Requests \subseteq [name : STRING, val : Nat, len : Nat]
  /\ \A r \in Requests :
       /\ r.name # "None"
       /\ r.name \in {"SetAddress", "SetConfiguration", "SetInterface"} => r.len = 0
       /\ r.name = "SetAddress" => r.val \in Address

VARIABLES
  ctrl,     \* The driver's variables: st, udd_g_ctrlreq and the counters.
  udc,      \* The device core's variables (module Udc).
  addr,     \* USB.ADDR.
  in, out,  \* Endpoint 0.
  buserr,   \* BUSERRIE: the UNF and OVF flags raise the bus interrupt.
  flags,    \* INTFLAGSA.
  fifo,     \* Endpoints in the transaction-complete FIFO.
  setupif,  \* SETUPIF of INTFLAGSB.
  buf,      \* The SETUP packet in udd_ctrl_buffer.
  isr,      \* The handler that has entered and has its work to do.
  host      \* The control transfer the host is in, and what it knows.

devVars == <<ctrl, udc, addr, in, out, buserr>>
irqVars == <<flags, fifo, setupif, isr>>
vars    == <<devVars, irqVars, buf, host>>

Waiting == {"WAIT_IN_ZLP", "WAIT_OUT_ZLP"}
States  == {"SETUP", "DATA_OUT", "DATA_IN", "STALL_REQ"} \cup Waiting

NoRequest == Req("None", 0, 0)

(***************************************************************************)
(* The driver's routines, on a record s of its variables and registers.    *)
(***************************************************************************)

State == [ctrl |-> ctrl, udc |-> udc, addr |-> addr, in |-> in, out |-> out,
          buserr |-> buserr]

Becomes(s) ==
  /\ ctrl' = s.ctrl /\ udc' = s.udc /\ addr' = s.addr
  /\ in' = s.in /\ out' = s.out /\ buserr' = s.buserr

InitKeepsErrors(s) ==
  [s EXCEPT !.buserr = FALSE, !.in.nack = TRUE, !.in.cnt = 0, !.in.tc = FALSE,
            !.out.tc = FALSE, !.ctrl.cb = FALSE, !.ctrl.size = 0, !.ctrl.st = "SETUP"]

\* udd_ctrl_init.  STALL is left to the next SETUP, which clears it.
CtrlInit(s) ==
  [s EXCEPT !.buserr = FALSE,
            !.in.nack = TRUE, !.in.cnt = 0, !.in.tc = FALSE, !.in.unf = FALSE,
            !.out.tc = FALSE, !.out.ovf = FALSE,
            !.ctrl.cb = FALSE, !.ctrl.size = 0, !.ctrl.st = "SETUP"]

EndOfRequestLate(s) == IF s.ctrl.cb THEN [s EXCEPT !.addr = buf.val] ELSE s

\* udd_ctrl_endofrequest: the only callback there is, udc_valid_address, reads
\* the request that is still in udd_g_ctrlreq.
EndOfRequest(s) == IF s.ctrl.cb THEN [s EXCEPT !.addr = s.ctrl.req.val] ELSE s

ClearedFirst(s) == EndOfRequest(CtrlInit(s))
Ended(s)        == CtrlInit(EndOfRequest(s))

StallBoth(s) == [s EXCEPT !.in.stall = TRUE, !.out.stall = TRUE]
StallData(s) == StallBoth([s EXCEPT !.ctrl.st = "STALL_REQ"])

SendZlpIn(s)  == [s EXCEPT !.ctrl.st = "WAIT_IN_ZLP", !.in.cnt = 0, !.in.nack = FALSE]
SendZlpOut(s) == [s EXCEPT !.ctrl.st = "WAIT_OUT_ZLP", !.out.nack = FALSE]

SendRest(s) ==
  LET left == s.ctrl.size - s.ctrl.nb
  IN  [s EXCEPT !.ctrl.short = left < CtrlSize, !.ctrl.nb = @ + left,
                !.in.cnt = left, !.in.nack = FALSE]

\* The next packet of the answer; short (b_shortpacket) is static and outlives
\* the request.
SendNext(s) ==
  LET left == s.ctrl.size - s.ctrl.nb
      now  == IF left < CtrlSize THEN left ELSE CtrlSize
  IN  [s EXCEPT !.ctrl.short = left < CtrlSize, !.ctrl.nb = @ + now,
                !.in.cnt = now, !.in.nack = FALSE]

AllSent(s) == s.ctrl.req.len = s.ctrl.prev \/ s.ctrl.short

\* udd_ctrl_in_sent.  There is never an over_under_run to ask for more.
InSent(s) ==
  IF s.ctrl.st = "WAIT_IN_ZLP" THEN Ended(s)
  ELSE IF s.ctrl.size # s.ctrl.nb THEN SendNext(s)
  ELSE LET t == [s EXCEPT !.ctrl.prev = @ + s.ctrl.nb]
       IN  IF AllSent(t) THEN SendZlpOut(t) ELSE SendNext(t)

\* udd_ctrl_out_received.  No modelled request is given a buffer for its data (see
\* OtherRequests for the one that would be), so the data is dropped, and counts as a
\* short packet.
OutReceived(s) ==
  IF s.ctrl.st = "WAIT_OUT_ZLP" THEN Ended(s)
  ELSE SendZlpIn([s EXCEPT !.ctrl.size = s.ctrl.nb])

Underflow(s) ==
  CASE s.ctrl.st = "DATA_OUT" -> SendZlpIn(s)
    [] s.ctrl.st = "WAIT_OUT_ZLP" -> StallBoth(s)
    [] OTHER -> s

OverflowIgnored(s) == s
Overflow(s) ==
  CASE s.ctrl.st = "DATA_IN" -> SendZlpOut(s)
    [] s.ctrl.st = "WAIT_IN_ZLP" -> StallBoth(s)
    [] OTHER -> s

\* A status stage may be hidden by the SETUP that follows it.
FinishLast(s) ==
  IF s.ctrl.st = "SETUP" THEN s
  ELSE IF s.ctrl.st \in Waiting THEN Ended(s) ELSE CtrlInit(s)

\* udd_ctrl_setup_received and udc_process_setup.
Accept(s, r) ==
  LET p == ProcessSetup(r, s.udc, s.addr)
      t == [s EXCEPT !.ctrl.req = r, !.ctrl.size = p.size, !.ctrl.cb = p.cb,
                     !.udc = p.udc, !.buserr = TRUE]
      u == [t EXCEPT !.ctrl.prev = 0, !.ctrl.nb = 0]
  IN  CASE ~p.ok -> StallData(t)
        [] p.ok /\ IsIn(r) -> InSent([u EXCEPT !.ctrl.st = "DATA_IN"])
        [] p.ok /\ ~IsIn(r) /\ r.len = 0 -> SendZlpIn(t)
        [] OTHER -> [u EXCEPT !.ctrl.st = "DATA_OUT", !.out.nack = FALSE]

SetupReceived(s) == Accept(FinishLast(s), buf)

(***************************************************************************)
(* ISR(USB_TRNCOMPL_vect): transactions before SETUPs, one of either.      *)
(***************************************************************************)

BusEnabled == {"sof", "rst", "line"} \cup (IF buserr THEN {"unf", "ovf"} ELSE {})
BusPending == flags \cap BusEnabled # {}

\* The bus handler has the lower vector number and goes first.
TrnRuns == isr = "none" /\ ~BusPending

\* An entry whose completion flag is gone is left at that; 0x81 and 0x02 are
\* another module's.
TrustsFifo(e) == e # "bulk"
Completed(e)  == (e = "in" /\ in.tc) \/ (e = "out" /\ out.tc)

TrnComplete ==
  /\ TrnRuns
  /\ fifo # <<>>
  /\ fifo' = Tail(fifo)
  /\ LET e == Head(fifo)
     IN  /\ in' = IF e = "in" THEN [in EXCEPT !.tc = FALSE] ELSE in
         /\ out' = IF e = "out" THEN [out EXCEPT !.tc = FALSE] ELSE out
         /\ isr' = IF Completed(e) THEN e ELSE "none"
  /\ UNCHANGED <<ctrl, udc, addr, buserr, flags, setupif, buf, host>>

\* udd_ctrl_interrupt_tc_setup acknowledges the SETUP.
AckSetup == setupif' = FALSE /\ isr' = "setup"

TakeSetup ==
  /\ TrnRuns
  /\ fifo = <<>> /\ setupif
  /\ AckSetup
  /\ UNCHANGED <<devVars, flags, fifo, buf, host>>

Work(entered, s) ==
  /\ isr = entered
  /\ isr' = "none"
  /\ Becomes(s)
  /\ UNCHANGED <<flags, fifo, setupif, buf, host>>

SetupWork == Work("setup", SetupReceived(State))
InWork    == Work("in", InSent(State))
OutWork   == Work("out", OutReceived(State))

(***************************************************************************)
(* ISR(USB_BUSEVENT_vect): an else-if chain, one flag for each run.        *)
(***************************************************************************)

Chain == <<"sof", "unf", "ovf", "rst", "line">>

ServesFirst(f) ==
  \E i \in DOMAIN Chain :
    /\ Chain[i] = f /\ f \in flags
    /\ \A j \in 1..(i - 1) : Chain[j] \notin flags

BusRuns(f) ==
  /\ isr = "none"
  /\ BusPending
  /\ ServesFirst(f)
  /\ flags' = flags \ {f}

\* Start of frame, suspend and resume reach nothing but the sleep manager.
Line ==
  /\ BusRuns("sof") \/ BusRuns("line")
  /\ UNCHANGED <<devVars, fifo, setupif, isr, buf, host>>

\* udd_ctrl_underflow and udd_ctrl_overflow leave it to what is not yet served.
NothingToDo == fifo = <<>>

ControlError(f, own, s) ==
  /\ BusRuns(f)
  /\ IF own /\ NothingToDo
     THEN IF setupif THEN AckSetup /\ UNCHANGED devVars
                     ELSE Becomes(s) /\ UNCHANGED <<setupif, isr>>
     ELSE UNCHANGED <<devVars, setupif, isr>>
  /\ UNCHANGED <<fifo, buf, host>>

UnderflowEvent == ControlError("unf", in.unf, Underflow(State))
OverflowEvent  == ControlError("ovf", out.ovf, Overflow(State))

\* udd_ep_init of both sides.
Ep0In  == [nack |-> TRUE, stall |-> FALSE, tc |-> FALSE, unf |-> FALSE, cnt |-> 0]
Ep0Out == [nack |-> TRUE, stall |-> FALSE, tc |-> FALSE, ovf |-> FALSE]

ResetEvent ==
  /\ BusRuns("rst")
  /\ Becomes(CtrlInit([State EXCEPT !.udc = UdcReset(udc), !.addr = 0,
                                    !.in = Ep0In, !.out = Ep0Out]))
  /\ UNCHANGED <<fifo, setupif, isr, buf, host>>

Trncompl == TrnComplete \/ TakeSetup \/ SetupWork \/ InWork \/ OutWork
Busevent == Line \/ UnderflowEvent \/ OverflowEvent \/ ResetEvent

(***************************************************************************)
(* The endpoint hardware and the host (external to the repository).        *)
(***************************************************************************)

InTransfer == host.stage \in {"data_in", "data_out", "status_in", "status_out"}
Hears      == "rst" \notin flags /\ host.stage # "detached" /\ host.addr = addr

\* What the host may take the configuration and the setting to be.
Learn(h, r) ==
  CASE r.name = "SetConfiguration" /\ r.val <= 1 ->
         [h EXCEPT !.confs = @ \cup {r.val}, !.alts = @ \cup {0}]
    [] r.name = "SetInterface" /\ r.val <= 1 -> [h EXCEPT !.alts = @ \cup {r.val}]
    [] OTHER -> h

\* A SETUP is never refused: it disarms both sides and clears their STALL.  A
\* completion not yet served may be hidden by it.
HostSetup(r) ==
  /\ Hears /\ ~InTransfer
  /\ host.stage = "idle" => isr = "none"
  /\ \E t \in {FALSE, in.tc} :
       in' = [in EXCEPT !.nack = TRUE, !.stall = FALSE, !.tc = t]
  /\ out' = [out EXCEPT !.nack = TRUE, !.stall = FALSE, !.tc = FALSE]
  /\ setupif' = TRUE
  /\ buf' = r
  /\ host' = Learn([host EXCEPT
       !.stage = IF r.len = 0 THEN "status_in"
                 ELSE IF IsIn(r) THEN "data_in" ELSE "data_out",
       !.req = r, !.got = 0, !.val = 0, !.of = r], r)
  /\ UNCHANGED <<ctrl, udc, addr, buserr, flags, fifo, isr>>

Reconfigures(h) ==
  h.req.name = "SetConfiguration" /\ h.req.val <= 1 /\ h.addr # 0

\* The status stage of a request is its end.
Conclude(h) ==
  LET r == h.req
  IN  [h EXCEPT
        !.stage = "done",
        !.addr  = IF r.name = "SetAddress" THEN r.val ELSE @,
        !.confs = IF Reconfigures(h) THEN {r.val} ELSE @,
        !.alts  = IF Reconfigures(h) THEN {0} ELSE @]

\* What the IN side sends: of is the request whose answer it is.
Value == CASE ctrl.req.name = "GetConfiguration" -> udc.conf
           [] ctrl.req.name = "GetInterface" -> udc.alt
           [] OTHER -> 0

HostIn ==
  /\ Hears /\ host.stage \in {"data_in", "status_in"}
  /\ ~in.stall /\ ~in.nack /\ ~in.tc
  /\ in' = [in EXCEPT !.nack = TRUE, !.tc = TRUE]
  /\ fifo' = Append(fifo, "in")
  /\ LET got == host.got + in.cnt
     IN  host' = IF host.stage = "status_in" THEN Conclude(host)
                 ELSE [host EXCEPT
                   !.got = got, !.of = ctrl.req, !.val = IF in.cnt = 0 THEN @ ELSE Value,
                   !.stage = IF in.cnt < CtrlSize \/ got = host.req.len
                             THEN "status_out" ELSE @]
  /\ UNCHANGED <<ctrl, udc, addr, out, buserr, flags, setupif, isr, buf>>

HostOut ==
  /\ Hears /\ host.stage \in {"data_out", "status_out"}
  /\ ~out.stall /\ ~out.nack /\ ~out.tc
  /\ out' = [out EXCEPT !.nack = TRUE, !.tc = TRUE]
  /\ fifo' = Append(fifo, "out")
  /\ LET got == host.got + CtrlSize
     IN  host' = IF host.stage = "status_out" THEN Conclude(host)
                 ELSE [host EXCEPT
                   !.got = got,
                   !.stage = IF got >= host.req.len THEN "status_in" ELSE @]
  /\ UNCHANGED <<ctrl, udc, addr, in, buserr, flags, setupif, isr, buf>>

\* A token the endpoint is not ready for sets the endpoint's flag and the bus flag.
HostNakked ==
  /\ Hears
  /\ \/ /\ host.stage \in {"data_in", "status_in"} /\ ~in.stall /\ (in.nack \/ in.tc)
        /\ in' = [in EXCEPT !.unf = TRUE] /\ flags' = flags \cup {"unf"}
        /\ UNCHANGED out
     \/ /\ host.stage \in {"data_out", "status_out"} /\ ~out.stall /\ (out.nack \/ out.tc)
        /\ out' = [out EXCEPT !.ovf = TRUE] /\ flags' = flags \cup {"ovf"}
        /\ UNCHANGED in
  /\ UNCHANGED <<ctrl, udc, addr, buserr, fifo, setupif, isr, buf, host>>

Forgets(stage) == [host EXCEPT !.stage = stage, !.req = NoRequest,
                               !.of = NoRequest, !.got = 0, !.val = 0]

HostStalled ==
  /\ Hears
  /\ \/ host.stage \in {"data_in", "status_in"} /\ in.stall
     \/ host.stage \in {"data_out", "status_out"} /\ out.stall
  /\ host' = [host EXCEPT !.stage = "stalled", !.of = NoRequest, !.got = 0, !.val = 0]
  /\ UNCHANGED <<devVars, irqVars, buf>>

\* A host may give up, long after its last packet was served, and must when nobody
\* answers at its address.
Quiet == isr = "none" /\ fifo = <<>> /\ ~setupif

HostAbandon ==
  /\ InTransfer
  /\ (MayAbandon /\ Quiet) \/ host.addr # addr
  /\ host' = Forgets("idle")
  /\ UNCHANGED <<devVars, irqVars, buf>>

\* A reset lasts longer than a SETUP waits to be served.
HostReset ==
  /\ "rst" \notin flags /\ ~setupif
  /\ flags' = flags \cup {"rst"}
  /\ host' = [Forgets("idle") EXCEPT !.addr = 0, !.confs = {0}, !.alts = {0}]
  /\ UNCHANGED <<devVars, fifo, setupif, isr, buf>>

\* Start of frame, suspend and resume come more slowly than they are served.
BusFlag ==
  /\ isr = "none" /\ ~BusPending /\ "rst" \notin flags
  /\ \E f \in IF InTransfer THEN {"sof"} ELSE {"sof", "line"} : flags' = flags \cup {f}
  /\ UNCHANGED <<devVars, fifo, setupif, isr, buf, host>>

\* What the other endpoints put before the same handlers.
BulkNak ==
  /\ Hears /\ udc.eps
  /\ \E f \in {"unf", "ovf"} : flags' = flags \cup {f}
  /\ UNCHANGED <<devVars, fifo, setupif, isr, buf, host>>

BulkComplete ==
  /\ Hears /\ udc.eps
  /\ \A i \in DOMAIN fifo : fifo[i] # "bulk"
  /\ fifo' = Append(fifo, "bulk")
  /\ UNCHANGED <<devVars, flags, setupif, isr, buf, host>>

Host ==
  \/ \E r \in Requests : HostSetup(r)
  \/ HostIn \/ HostOut \/ HostNakked \/ HostStalled \/ HostAbandon \/ HostReset
  \/ BusFlag \/ BulkNak \/ BulkComplete

(***************************************************************************)
(* The specification starts after udd_enable: endpoint 0 is configured     *)
(* only by the first bus reset.                                            *)
(***************************************************************************)

Init ==
  /\ ctrl = [st |-> "SETUP", req |-> NoRequest, cb |-> FALSE, size |-> 0,
             nb |-> 0, prev |-> 0, short |-> FALSE]
  /\ udc = [conf |-> 0, alt |-> 0, eps |-> FALSE]
  /\ addr = 0
  /\ in = Ep0In /\ out = Ep0Out
  /\ buserr = FALSE
  /\ flags = {} /\ fifo = <<>> /\ setupif = FALSE /\ isr = "none"
  /\ buf = NoRequest
  /\ host = [stage |-> "detached", req |-> NoRequest, got |-> 0, val |-> 0,
             of |-> NoRequest, addr |-> 0, confs |-> {0}, alts |-> {0}]

Next == Trncompl \/ Busevent \/ Host

Spec == Init /\ [][Next]_vars

\* Handlers run to the end and every flag of the chain is served between those that
\* come before it; a host in a transfer keeps sending tokens.
Fairness ==
  /\ WF_vars(Busevent) /\ WF_vars(SetupWork \/ InWork \/ OutWork)
  /\ SF_vars(Line) /\ SF_vars(OverflowEvent)
  /\ SF_vars(TrnComplete) /\ SF_vars(TakeSetup)
  /\ SF_vars(HostIn \/ HostOut) /\ WF_vars(HostNakked)
  /\ WF_vars(HostStalled \/ (HostAbandon /\ host.addr # addr))

FairSpec == Spec /\ Fairness

(***************************************************************************)
(* Properties.                                                             *)
(***************************************************************************)

Request  == Requests \cup {NoRequest}
Stages   == {"detached", "idle", "done", "stalled", "data_in", "data_out", "status_in",
             "status_out"}
CtrlType == [st : States, req : Request, cb : BOOLEAN, size : Nat, nb : Nat,
             prev : Nat, short : BOOLEAN]
UdcType  == [conf : {0, 1}, alt : {0, 1}, eps : BOOLEAN]
Packet   == 0..CtrlSize
InType   == [nack : BOOLEAN, stall : BOOLEAN, tc : BOOLEAN, unf : BOOLEAN, cnt : Packet]
OutType  == [nack : BOOLEAN, stall : BOOLEAN, tc : BOOLEAN, ovf : BOOLEAN]
HostType == [stage : Stages, req : Request, got : Nat, val : {0, 1}, of : Request,
             addr : Address \cup {0}, confs : SUBSET {0, 1}, alts : SUBSET {0, 1}]

\* Every variable has its type.
TypeOK ==
  /\ ctrl \in CtrlType /\ udc \in UdcType /\ addr \in Address \cup {0}
  /\ in \in InType /\ out \in OutType /\ buserr \in BOOLEAN
  /\ flags \subseteq {"sof", "unf", "ovf", "rst", "line"}
  /\ fifo \in Seq({"in", "out", "bulk"})
  /\ setupif \in BOOLEAN /\ isr \in {"none", "setup", "in", "out"}
  /\ buf \in Request /\ host \in HostType

\* udd_ctrl_in_sent and udd_ctrl_out_received are entered only in the states their
\* assertions name (usb_device.c:1099, 1151), whatever arrived in between.
StateExpected ==
  /\ isr = "in" => ctrl.st \in {"DATA_IN", "WAIT_IN_ZLP"}
  /\ isr = "out" => ctrl.st \in {"DATA_OUT", "WAIT_OUT_ZLP"}

\* The requests the device does not answer with what was asked for.
Refused(h) ==
  LET r == h.req
  IN  \/ IsIn(r) /\ r.len = 0
      \/ r.name \in Fixed /\ r.len # 1
      \/ r.name = "GetInterface" /\ 0 \in h.confs
      \/ r.name = "GetDescriptor" /\ r.val # 1
      \/ r.name = "Wcid" /\ r.val \notin {4, 5}

\* A read that ends has sent the host exactly its own answer, all of it, and the
\* values that are in force; one that is refused ends with nothing at most
\* (usb_device.c:1077-1133, udc.c:1003-1015).
ReplyMatches ==
  host.stage = "done" /\ IsIn(host.req) =>
    /\ host.of = host.req
    /\ host.got = Cut(host.req) \/ (Refused(host) /\ host.got = 0)
    /\ host.got > 0 =>
         /\ host.req.name = "GetConfiguration" => host.val \in host.confs
         /\ host.req.name = "GetInterface" => host.val \in host.alts

TooMuchData(h) == ~IsIn(h.req) /\ h.req.len > CtrlSize

\* STALL answers only what is refused, or a host that sends more data than one
\* packet: the protocol errors the driver watches for are never seen where the host
\* made none (usb_device.c:1199-1231).  Not so while bulk endpoints are polled: their
\* UNF and OVF raise the same flags, and endpoint 0's own may be left over from
\* before, although "Underflow only managed for control endpoint" (1266).
StallsExplained ==
  host.stage = "stalled" => Refused(host) \/ TooMuchData(host) \/ udc.eps

\* The bulk endpoints are allocated exactly by setting 1 of a configured device, so
\* whatever setting is left, freeing that setting's endpoints frees them all and
\* udd_ep_alloc never meets one that is still in use (udc.c:295-314, 326-357).
EndpointsOwned ==
  /\ udc.eps => udc.conf = 1 /\ udc.alt = 1
  /\ CanEnable(IfaceDisable(udc), 1)

\* The bulk endpoints are enabled only while the host has selected setting 1 in a
\* configured device (udc.c:329-340, 803-861, 895-915).
EndpointsFollowHost ==
  udc.eps => "rst" \in flags \/ (1 \in host.confs /\ 1 \in host.alts)

\* The address changes only as the host concludes SET_ADDRESS, or has hidden its
\* status stage with another SETUP, or resets the bus (usb_device.c:1028-1040,
\* udc.c:575-590).
AddressFollowsHost ==
  [][addr' # addr =>
      \/ "rst" \in flags
      \/ addr' = host.addr
      \/ /\ isr = "setup" /\ MayAbandon
         /\ ctrl.st = "WAIT_IN_ZLP" /\ ctrl.req = Req("SetAddress", addr', 0)]_vars

\* A host that has moved the device to an address finds it there, as soon as nothing
\* waits to be served (usb_device.c:1028-1040, 1077-1089, 1131-1140).  This is said
\* of a host that does not give up a SET_ADDRESS to one address for one to another:
\* after that it may not know which of the two the device has.
AddressReached ==
  host.addr # 0 =>
    \/ addr = host.addr
    \/ "rst" \in flags \/ setupif \/ isr # "none" \/ fifo # <<>>

\* Every control transfer ends, refused and ill-formed ones too.
TransferEnds == InTransfer ~> ~InTransfer

(***************************************************************************)
(* The inductive invariant: what makes the properties above hold after any *)
(* sequence of requests, tokens, interrupts and resets.                    *)
(***************************************************************************)

\* A SETUP of which the driver has not read the request; a completion of either
\* side that its handler has not dealt with; no bus reset is pending.
Unserved == setupif \/ isr = "setup"
InBusy   == in.tc \/ isr = "in"
OutBusy  == out.tc \/ isr = "out"
Live     == "rst" \notin flags
Queued(e) == \E i \in 1..Len(fifo) : fifo[i] = e

\* The stage in which the host is when its SETUP has been taken.
First(r) == IF r.len = 0 THEN "status_in" ELSE IF IsIn(r) THEN "data_in" ELSE "data_out"

\* The hardware queues an endpoint once, and its entry is read before the endpoint
\* is armed again.
Distinct == \A i, j \in 1..Len(fifo) : fifo[i] = fifo[j] => i = j

\* The transaction FIFO: each endpoint at most once, endpoint 0 where its completion
\* is not yet acknowledged, and never a side that is armed, stalled or in the data
\* stage of the other direction.  So ISR(USB_TRNCOMPL_vect) reads no stale entry.
FifoInv ==
  /\ Distinct
  /\ in.tc => Queued("in")
  /\ out.tc => Queued("out")
  /\ isr = "in" => ~Queued("in")
  /\ isr = "out" => ~Queued("out")
  /\ isr = "setup" => ~Queued("in") /\ ~Queued("out")
  /\ ~in.nack => ~Queued("in")
  /\ ~out.nack => ~Queued("out")
  /\ ctrl.st = "DATA_IN" => ~Queued("out")
  /\ ctrl.st = "DATA_OUT" => ~Queued("in")
  /\ in.stall => ~Queued("in") /\ ~Queued("out")

\* udd_control_in_nack and udd_control_out_nack: a side answers tokens only in the
\* states in which the driver expects its completion, and not before the last one
\* has been dealt with; both sides stall together and with nothing left to do.
EndpointInv ==
  /\ buserr <=> ctrl.st # "SETUP"
  /\ ~in.nack => ~InBusy /\ ctrl.st \in {"DATA_IN", "WAIT_IN_ZLP"}
  /\ ~out.nack => ~OutBusy /\ ctrl.st \in {"DATA_OUT", "WAIT_OUT_ZLP"}
  /\ InBusy => ctrl.st \in {"DATA_IN", "WAIT_IN_ZLP"}
  /\ OutBusy => ctrl.st \in {"DATA_OUT", "WAIT_OUT_ZLP"}
  /\ in.stall = out.stall
  /\ in.stall => isr = "none" /\ ~in.tc /\ ~out.tc /\ ~setupif

\* From the arrival of a SETUP until the driver has read it endpoint 0 refuses
\* tokens, and what may still be unserved is the status stage of the last transfer.
UnservedInv ==
  /\ setupif => isr # "setup" /\ Live
  /\ Unserved =>
       /\ buf \in Requests
       /\ in.nack /\ out.nack /\ ~in.stall /\ ~out.tc
       /\ InBusy => ctrl.st = "WAIT_IN_ZLP"
       /\ OutBusy => ctrl.st = "WAIT_OUT_ZLP"

\* A read that udc_reqstd refuses and usb_other_requests accepts with nothing.
NoAnswer(r, u) ==
  \/ r.name \in Fixed /\ r.len # 1
  \/ r.name = "GetInterface" /\ u.conf = 0
  \/ r.name = "GetDescriptor" /\ r.val # 1

\* A write with more data than the packet that the driver arms.
TooLong(r) == r.len > CtrlSize

\* udd_g_ctrlreq in each state of the control endpoint: its direction, its length,
\* the size of its answer, its callback, and for the status stage of
\* SET_CONFIGURATION what the device core has made of it.
RequestInv ==
  /\ ctrl.st # "SETUP" => ctrl.req \in Requests
  /\ ctrl.cb <=> ctrl.st = "WAIT_IN_ZLP" /\ ctrl.req.name = "SetAddress"
  /\ ctrl.st \in {"DATA_IN", "WAIT_OUT_ZLP"} =>
       /\ IsIn(ctrl.req) /\ ctrl.req.len > 0
       /\ ctrl.size = IF NoAnswer(ctrl.req, udc) THEN 0 ELSE Cut(ctrl.req)
  /\ ctrl.st = "DATA_OUT" => ~IsIn(ctrl.req) /\ ctrl.req.len > 0
  /\ ctrl.st = "WAIT_IN_ZLP" => ~IsIn(ctrl.req)
  /\ ctrl.st = "STALL_REQ" =>
       \/ IsIn(ctrl.req) /\ ctrl.req.len = 0
       \/ ctrl.req.name = "Wcid" /\ ctrl.req.val \notin {4, 5}
  /\ ctrl.st = "WAIT_IN_ZLP" /\ ctrl.req.name = "SetConfiguration" /\ ctrl.req.val <= 1 /\ addr # 0
       => udc.conf = ctrl.req.val /\ (udc.conf # 0 => udc.alt = 0)

\* The packet that is armed, or was the last to go, in a read's data stage: the
\* answer goes out in full packets and the one that ends it is short, unless the
\* host has asked for no more than has been sent.
Sending(c, e) ==
  /\ c.prev = 0 /\ c.nb <= c.size /\ e.cnt <= c.nb
  /\ c.short <=> e.cnt < CtrlSize
  /\ c.nb < c.size => ~c.short /\ c.nb \in {CtrlSize, 2 * CtrlSize}
  /\ c.nb = c.size => c.short \/ c.req.len = c.nb

\* What udd_ctrl_in_sent has counted agrees with the packet in the endpoint.
DataInv == ctrl.st = "DATA_IN" => Sending(ctrl, in)

\* The whole answer has been given to the endpoint.
AllDone == ctrl.nb = ctrl.size

\* What the under- and overflow bits of endpoint 0 say: one that is set was set by a
\* token of the host's present transfer, and without bulk endpoints the common flag
\* does not rise behind a bit that was set only because the token came early.
ErrorInv ==
  /\ ctrl.st = "SETUP" =>
       /\ out.ovf => Unserved /\ ~IsIn(buf) /\ buf.len > 0
       /\ in.unf => Unserved /\ (IsIn(buf) \/ buf.len = 0)
  /\ ~Unserved =>
       /\ ctrl.st = "DATA_IN" /\ out.ovf => InBusy /\ AllDone
       /\ ctrl.st = "DATA_OUT" /\ in.unf => OutBusy
       /\ ctrl.st = "WAIT_IN_ZLP" /\ out.ovf => ctrl.req.len > 0
       /\ ~udc.eps =>
            /\ \/ ctrl.st = "WAIT_IN_ZLP" /\ out.ovf
               \/ ctrl.st = "DATA_OUT" /\ isr = "out"
               => "ovf" \notin flags \/ TooLong(ctrl.req)
            /\ ctrl.st = "WAIT_OUT_ZLP" /\ in.unf => "unf" \notin flags \/ ctrl.size = 0
            /\ ctrl.st = "DATA_IN" /\ isr = "in" /\ AllDone => "unf" \notin flags

\* A stall has a reason: the request was refused, the host has sent more data than
\* the driver takes, it has been answered with nothing, or bulk endpoints exist.
StallInv ==
  in.stall =>
    /\ ctrl.st \in {"STALL_REQ", "WAIT_IN_ZLP", "WAIT_OUT_ZLP"}
    /\ ctrl.st = "WAIT_IN_ZLP" => ctrl.req.len > 0 /\ (udc.eps \/ TooLong(ctrl.req))
    /\ ctrl.st = "WAIT_OUT_ZLP" => udc.eps \/ ctrl.size = 0

\* The device core's configuration and setting are ones the host may believe in,
\* and bulk endpoints exist in setting 1 only.
CoreInv ==
  /\ udc.eps => udc.conf = 1 /\ udc.alt = 1
  /\ Live => udc.conf \in host.confs /\ (udc.conf # 0 => udc.alt \in host.alts)
  /\ ~Live => host.stage = "idle" /\ host.addr = 0 /\ 0 \in host.confs

\* A SETUP that is not yet read is the host's present request, sent to the address
\* that the device has.
PendingInv ==
  Unserved /\ Live =>
    /\ host.addr = addr /\ host.req = buf /\ host.stage = First(buf) /\ host.got = 0
    /\ buf.name = "SetConfiguration" /\ buf.val <= 1 => buf.val \in host.confs /\ 0 \in host.alts
    /\ buf.name = "SetInterface" /\ buf.val <= 1 => buf.val \in host.alts

\* Nothing of an earlier transfer is left.
Idle == isr = "none" /\ ~in.tc /\ ~out.tc

\* Where the host is while the driver is in a state: the host is ahead of it by at
\* most one transaction, the one whose completion is still to be dealt with, and in a
\* status stage the driver may not know whether the host has begun it.
Match ==
  CASE ctrl.st = "DATA_IN" ->
         /\ ~in.nack => host.stage = "data_in" /\ host.got + in.cnt = ctrl.nb
         /\ in.nack => /\ InBusy /\ host.got = ctrl.nb
                       /\ host.stage = IF AllDone THEN "status_out" ELSE "data_in"
    [] ctrl.st = "DATA_OUT" ->
         /\ ~out.nack => host.stage = "data_out" /\ host.got = 0
         /\ out.nack =>
              /\ OutBusy
              /\ host.stage = IF TooLong(ctrl.req) THEN "data_out" ELSE "status_in"
    [] ctrl.st = "WAIT_IN_ZLP" ->
         /\ ~InBusy
         /\ host.stage = "status_in" \/ (host.stage = "data_out" /\ TooLong(ctrl.req))
    [] ctrl.st = "WAIT_OUT_ZLP" ->
         /\ ~OutBusy
         /\ host.got = ctrl.size
         /\ host.stage = "status_out" \/ (host.stage = "data_in" /\ ctrl.size = 0)
    [] ctrl.st = "STALL_REQ" -> in.stall
    [] OTHER -> FALSE

\* The host's transfer, the answer it has got and the driver's state belong together.
HostInv ==
  /\ host.stage \in {"idle", "detached"} /\ Live => Idle
  /\ InTransfer /\ ~Unserved => host.req = ctrl.req /\ Match
  /\ InTransfer \/ host.stage = "done" => host.req \in Requests /\ host.of = host.req
  /\ (InTransfer \/ host.stage = "done") /\ host.got > 0 =>
       /\ host.req.name = "GetConfiguration" => host.val \in host.confs
       /\ host.req.name = "GetInterface" => host.val \in host.alts
  /\ host.stage = "done" =>
       \/ ctrl.st = "SETUP"
       \/ ctrl.st = "WAIT_IN_ZLP" /\ InBusy
       \/ ctrl.st = "WAIT_OUT_ZLP" /\ OutBusy
  /\ host.stage = "stalled" => in.stall
  /\ ReplyMatches
  /\ StallsExplained

\* Host and device disagree about the address only from the end of SET_ADDRESS's
\* status stage to its callback, or after a host has given the request up.
AddressInv ==
  Live =>
    /\ ctrl.cb /\ InBusy => host.addr = ctrl.req.val
    /\ host.addr # addr =>
         \/ host.stage = "done" /\ ctrl.cb /\ InBusy
         \/ /\ MayAbandon /\ addr # 0
            /\ InTransfer \/ host.stage = "idle"
            /\ Idle
    /\ ~MayAbandon /\ ctrl.cb =>
         host.addr = ctrl.req.val \/ (host.stage = "status_in" /\ ~Unserved)

\* No handler meets a state that its code does not provide for, whatever the host
\* does and whenever it is served: the parts above, together inductive.
IInv ==
  /\ TypeOK /\ FifoInv /\ EndpointInv /\ UnservedInv /\ RequestInv /\ DataInv /\ ErrorInv
  /\ StallInv /\ CoreInv /\ PendingInv /\ HostInv /\ AddressInv

(***************************************************************************)
(* The endpoint as a ControlDevice.                                        *)
(***************************************************************************)

\* The SETUP that udc_process_setup has not seen.
Pending == IF Unserved THEN buf ELSE NoRequest

\* What the host has got of a read's answer; a request without one has none.
Got == IF IsIn(host.req) THEN [len |-> host.got, val |-> host.val] ELSE NoRequest

Transfer ==
  CASE InTransfer -> [stage |-> "open", req |-> host.req, got |-> NoRequest]
    [] host.stage = "done" -> [stage |-> "done", req |-> host.req, got |-> Got]
    [] host.stage = "stalled" -> [stage |-> "stalled", req |-> host.req, got |-> NoRequest]
    [] OTHER -> [stage |-> "idle", req |-> NoRequest, got |-> NoRequest]

\* A SET_ADDRESS that the host has given up waits for its callback.
Unsure ==
  IF Live /\ ctrl.cb /\ (host.stage = "idle" \/ Unserved) THEN {ctrl.req.val} \ {addr} ELSE {}

\* What each request makes of configuration, setting and bulk endpoints, said without
\* the order in which the device core gets there.
EffectOf(r, u, address) ==
  CASE r.name = "SetConfiguration" /\ r.val <= 1 /\ address # 0 ->
         [conf |-> r.val, alt |-> IF r.val = 1 THEN 0 ELSE u.alt, eps |-> FALSE]
    [] r.name = "SetInterface" /\ u.conf # 0 ->
         [u EXCEPT !.alt = IF r.val <= 1 THEN r.val ELSE @, !.eps = r.val = 1]
    [] OTHER -> u

Unconfigure(u) == [u EXCEPT !.conf = 0, !.eps = FALSE]

\* The value an answer carries, if it carries any.
ValueOf(r, u) ==
  CASE r.name = "GetConfiguration" -> u.conf
    [] r.name = "GetInterface" -> u.alt
    [] OTHER -> 0

AnswerTo(r, u) ==
  IF ~IsIn(r) THEN NoRequest
  ELSE IF NoAnswer(r, u) THEN [len |-> 0, val |-> 0]
  ELSE [len |-> Cut(r), val |-> ValueOf(r, u)]

\* A read of nothing and an unknown vendor request only ever meet STALL.
Never(r) == (IsIn(r) /\ r.len = 0) \/ (r.name = "Wcid" /\ r.val \notin {4, 5})
Accepts(r) == ~Never(r)

MayStall(r, u) == Never(r) \/ (IsIn(r) /\ NoAnswer(r, u)) \/ (~IsIn(r) /\ TooLong(r)) \/ u.eps

Device == INSTANCE ControlDevice WITH
  Addresses <- Address, Nothing <- NoRequest,
  Unconfigured <- [conf |-> 0, alt |-> 0, eps |-> FALSE],
  Effect <- EffectOf, AfterReset <- Unconfigure, Answer <- AnswerTo,
  MayAnswer <- Accepts, MayRefuse <- MayStall,
  transfer <- Transfer, pending <- Pending, conf <- udc, addr <- addr,
  used <- host.addr, unsure <- Unsure, resetting <- ~Live

\* Each request takes effect once, where udc_process_setup sees it, and its transfer
\* ends with the answer of the device as that left it (usb_device.c:1043-1133,
\* udc.c:988-1015).
IsDevice == Device!Spec

\* Why: the value a read has brought the host is still in force, and an answer is under
\* way for a vendor request only if it is known.
FreshInv ==
  /\ InTransfer =>
       host.val = IF host.got > 0 /\ IsIn(host.req) THEN ValueOf(host.req, udc) ELSE 0
  /\ ctrl.st \in {"DATA_IN", "WAIT_OUT_ZLP"} => ~Never(ctrl.req)
=============================================================================
