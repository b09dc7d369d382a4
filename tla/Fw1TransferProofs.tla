------------------------- MODULE Fw1TransferProofs -------------------------
(***************************************************************************)
(* What each routine of fw1's control endpoint leaves, field by field: the *)
(* answer that udc_process_setup gives, the state in which a packet, a     *)
(* SETUP or an error event leaves the driver, and what the two handlers    *)
(* change.  Fw1InvariantProofs rests on these facts and not on the         *)
(* routines' definitions.                                                  *)
(***************************************************************************)
EXTENDS Fw1Control, TLAPS

(***************************************************************************)
(* The device core: its endpoints are those of the setting in force.       *)
(***************************************************************************)

Owned(u) == u \in UdcType /\ (u.eps => u.conf = 1 /\ u.alt = 1)

\* Freeing the setting in force frees every endpoint.
LEMMA DisableFrees ==
  ASSUME NEW u, Owned(u)
  PROVE  /\ IfaceDisable(u) \in UdcType /\ ~IfaceDisable(u).eps
         /\ IfaceDisable(u).conf = u.conf /\ IfaceDisable(u).alt = u.alt
  BY DEF Owned, UdcType, IfaceDisable

LEMMA ResetFrees ==
  ASSUME NEW u, Owned(u)
  PROVE  Owned(UdcReset(u)) /\ ~UdcReset(u).eps
<1>1. CASE u.conf = 0
  BY <1>1 DEF UdcReset, Owned, UdcType
<1>2. CASE u.conf # 0
  BY <1>2, DisableFrees DEF UdcReset, Owned, UdcType
<1> QED
  BY <1>1, <1>2

\* Enabling a setting in a configured device leaves its endpoints or none.
LEMMA EnableOwns ==
  ASSUME NEW u \in UdcType, ~u.eps, u.conf = 1, NEW v \in Nat
  PROVE  Owned(IfaceEnable(u, v))
<1>1. CASE v \notin {0, 1}
  BY <1>1 DEF IfaceEnable, CanEnable, Owned
<1>2. CASE v = 0
  BY <1>2 DEF IfaceEnable, CanEnable, Owned, UdcType
<1>3. CASE v = 1
  BY <1>3 DEF IfaceEnable, CanEnable, Owned, UdcType
<1> QED
  BY <1>1, <1>2, <1>3

\* No request, accepted or not, leaves an endpoint without its setting.
LEMMA RequestOwns ==
  ASSUME NEW u, Owned(u), NEW r, r.val \in Nat, NEW a
  PROVE  Owned(UdcAfter(r, u, a))
<1>1. CASE r.name = "SetConfiguration" /\ ConfigurationAllowed(r, a)
  <2>1. UdcAfter(r, u, a) = SetConfiguration(u, r.val) /\ r.val \in {0, 1}
    BY <1>1 DEF UdcAfter, ConfigurationAllowed
  <2>2. Owned(UdcReset(u)) /\ ~UdcReset(u).eps
    BY ResetFrees
  <2>3. CASE r.val = 0
    BY <2>1, <2>2, <2>3 DEF SetConfiguration
  <2>4. CASE r.val = 1
    <3> DEFINE w == [UdcReset(u) EXCEPT !.conf = 1]
    <3>1. w \in UdcType /\ ~w.eps /\ w.conf = 1
      BY <2>2 DEF Owned, UdcType
    <3>2. UdcAfter(r, u, a) = IfaceEnable(w, 0)
      BY <2>1, <2>4 DEF SetConfiguration
    <3> HIDE DEF w
    <3> QED
      BY <3>1, <3>2, EnableOwns
  <2> QED
    BY <2>1, <2>3, <2>4
<1>2. CASE r.name = "SetInterface" /\ InterfaceAllowed(r, u)
  <2>1. UdcAfter(r, u, a) = IfaceEnable(IfaceDisable(u), r.val)
    BY <1>2 DEF UdcAfter, SetInterface
  <2>2. u.conf = 1
    BY <1>2 DEF InterfaceAllowed, Owned, UdcType
  <2> QED
    BY <2>1, <2>2, DisableFrees, EnableOwns
<1>3. CASE /\ ~(r.name = "SetConfiguration" /\ ConfigurationAllowed(r, a))
           /\ ~(r.name = "SetInterface" /\ InterfaceAllowed(r, u))
  BY <1>3 DEF UdcAfter
<1> QED
  BY <1>1, <1>2, <1>3

(***************************************************************************)
(* The driver reaches the device core only by a SETUP and by a bus reset.  *)
(***************************************************************************)

LEMMA RoutinesKeep ==
  ASSUME NEW s
  PROVE  /\ CtrlInit(s).udc = s.udc /\ Ended(s).udc = s.udc
         /\ SendNext(s).udc = s.udc
         /\ SendZlpIn(s).udc = s.udc /\ SendZlpOut(s).udc = s.udc
         /\ StallBoth(s).udc = s.udc
<1>1. ASSUME NEW t PROVE CtrlInit(t).udc = t.udc
  BY DEF CtrlInit
<1>2. EndOfRequest(s).udc = s.udc
  BY DEF EndOfRequest
<1>3. SendNext(s).udc = s.udc
  BY DEF SendNext
<1>4. SendZlpIn(s).udc = s.udc /\ SendZlpOut(s).udc = s.udc /\ StallBoth(s).udc = s.udc
  BY DEF SendZlpIn, SendZlpOut, StallBoth
<1> QED
  BY <1>1, <1>2, <1>3, <1>4 DEF Ended

LEMMA InWorkKeeps == ASSUME NEW s PROVE InSent(s).udc = s.udc
<1> DEFINE t == [s EXCEPT !.ctrl.prev = @ + s.ctrl.nb]
<1>1. InSent(s) \in {Ended(s), SendNext(s), SendZlpOut(t), SendNext(t)}
  BY DEF InSent
<1>2. t.udc = s.udc
  OBVIOUS
<1> HIDE DEF t
<1> QED
  BY <1>1, <1>2, RoutinesKeep

LEMMA OutWorkKeeps == ASSUME NEW s PROVE OutReceived(s).udc = s.udc
<1> DEFINE t == [s EXCEPT !.ctrl.size = s.ctrl.nb]
<1>1. OutReceived(s) \in {Ended(s), SendZlpIn(t)}
  BY DEF OutReceived
<1>2. t.udc = s.udc
  OBVIOUS
<1> HIDE DEF t
<1> QED
  BY <1>1, <1>2, RoutinesKeep

LEMMA ErrorKeeps ==
  ASSUME NEW s
  PROVE  Underflow(s).udc = s.udc /\ Overflow(s).udc = s.udc
<1>1. Underflow(s) \in {SendZlpIn(s), StallBoth(s), s}
  BY DEF Underflow
<1>2. Overflow(s) \in {SendZlpOut(s), StallBoth(s), s}
  BY DEF Overflow
<1> QED
  BY <1>1, <1>2, RoutinesKeep

LEMMA FinishKeeps == ASSUME NEW s PROVE FinishLast(s).udc = s.udc
<1>1. FinishLast(s) \in {s, Ended(s), CtrlInit(s)}
  BY DEF FinishLast
<1> QED
  BY <1>1, RoutinesKeep

LEMMA SetupWorkRequests ==
  ASSUME NEW s, NEW r
  PROVE  \E a : Accept(s, r).udc = UdcAfter(r, s.udc, a)
<1> DEFINE p == ProcessSetup(r, s.udc, s.addr)
           t == [s EXCEPT !.ctrl.req = r, !.ctrl.size = p.size, !.ctrl.cb = p.cb,
                          !.udc = p.udc, !.buserr = TRUE]
           u == [t EXCEPT !.ctrl.prev = 0, !.ctrl.nb = 0]
<1>1. p.udc = UdcAfter(r, s.udc, s.addr)
  BY DEF ProcessSetup
<1>2. Accept(s, r).udc = p.udc
  <2> DEFINE reads == [u EXCEPT !.ctrl.st = "DATA_IN"]
             takes == [u EXCEPT !.ctrl.st = "DATA_OUT", !.out.nack = FALSE]
  <2>1. t.udc = p.udc /\ u.udc = p.udc /\ reads.udc = p.udc /\ takes.udc = p.udc
    OBVIOUS
  <2>2. StallData(t).udc = t.udc /\ SendZlpIn(t).udc = t.udc
    <3> DEFINE v == [t EXCEPT !.ctrl.st = "STALL_REQ"]
    <3>1. v.udc = t.udc /\ StallData(t) = StallBoth(v)
      BY DEF StallData
    <3> HIDE DEF t, v
    <3> QED
      BY <3>1, RoutinesKeep
  <2>3. Accept(s, r) \in {StallData(t), InSent(reads), SendZlpIn(t), takes}
    <3>1. Accept(s, r) = CASE ~p.ok -> StallData(t)
                           [] p.ok /\ IsIn(r) -> InSent(reads)
                           [] p.ok /\ ~IsIn(r) /\ r.len = 0 -> SendZlpIn(t)
                           [] OTHER -> takes
      BY DEF Accept
    <3> QED
      BY <3>1
  <2>4. InSent(reads).udc = reads.udc
    BY InWorkKeeps
  <2> HIDE DEF p, t, u, reads, takes
  <2> QED
    BY <2>1, <2>2, <2>3, <2>4
<1> QED
  BY <1>1, <1>2

\* The packet being processed is one a host may send.
BufInv == buf.val \in Nat
UdcInv == Owned(udc) /\ BufInv

LEMMA HandlersKeep ==
  ASSUME UdcInv, Trncompl \/ Busevent
  PROVE  UdcInv'
<1> USE DEF UdcInv, BufInv
<1>1. CASE TrnComplete \/ TakeSetup
  BY <1>1 DEF TrnComplete, TakeSetup, devVars
<1>2. CASE SetupWork
  <2>1. udc' = SetupReceived(State).udc /\ buf' = buf
    BY <1>2 DEF SetupWork, Work, Becomes
  <2>2. PICK a : SetupReceived(State).udc = UdcAfter(buf, FinishLast(State).udc, a)
    BY SetupWorkRequests DEF SetupReceived
  <2>3. FinishLast(State).udc = udc
    BY FinishKeeps DEF State
  <2> QED
    BY <2>1, <2>2, <2>3, RequestOwns
<1>3. CASE InWork \/ OutWork
  BY <1>3, InWorkKeeps, OutWorkKeeps DEF InWork, OutWork, Work, Becomes, State
<1>4. CASE Line
  BY <1>4 DEF Line, devVars
<1>5. CASE UnderflowEvent \/ OverflowEvent
  BY <1>5, ErrorKeeps DEF UnderflowEvent, OverflowEvent, ControlError, Becomes, State, devVars
<1>6. CASE ResetEvent
  <2>1. udc' = UdcReset(udc) /\ buf' = buf
    BY <1>6, RoutinesKeep DEF ResetEvent, Becomes, State
  <2> QED
    BY <2>1, ResetFrees
<1> QED
  BY <1>1, <1>2, <1>3, <1>4, <1>5, <1>6 DEF Trncompl, Busevent

LEMMA HostKeeps ==
  ASSUME UdcInv, Host
  PROVE  UdcInv'
<1> USE DEF UdcInv, BufInv
<1>1. ASSUME NEW r \in Requests, HostSetup(r) PROVE UdcInv'
  BY <1>1, ControlAssumption DEF HostSetup
<1>2. CASE HostIn \/ HostOut \/ HostNakked \/ HostStalled
  BY <1>2 DEF HostIn, HostOut, HostNakked, HostStalled, devVars
<1>3. CASE HostAbandon \/ HostReset \/ BusFlag \/ BulkNak \/ BulkComplete
  BY <1>3 DEF HostAbandon, HostReset, BusFlag, BulkNak, BulkComplete, devVars
<1> QED
  BY <1>1, <1>2, <1>3 DEF Host

\* Whatever requests come, in whatever order and however they are interrupted, the
\* bulk endpoints are those of setting 1 of a configured device, and selecting a
\* setting never fails on an endpoint still allocated (udc.c:295-314, 326-357).
THEOREM Fw1EndpointsOwned == Spec => []EndpointsOwned
<1>1. Init => UdcInv
  BY DEF Init, UdcInv, BufInv, Owned, UdcType, NoRequest, Req
<1>2. UdcInv /\ [Next]_vars => UdcInv'
  <2> SUFFICES ASSUME UdcInv, [Next]_vars PROVE UdcInv'
    OBVIOUS
  <2>1. CASE UNCHANGED vars
    BY <2>1 DEF vars, devVars, UdcInv, BufInv
  <2> QED
    BY <2>1, HandlersKeep, HostKeeps DEF Next
<1>3. UdcInv => EndpointsOwned
  BY DisableFrees DEF UdcInv, EndpointsOwned, Owned, CanEnable
<1> QED
  BY <1>1, <1>2, <1>3, PTL DEF Spec

(***************************************************************************)
(* Requests and answers.                                                   *)
(***************************************************************************)

LEMMA RequestType == ASSUME NEW r \in Request PROVE r.val \in Nat /\ r.len \in Nat
  BY ControlAssumption DEF Request, NoRequest, Req

\* An answer is cut to wLength, and one that is shorter than that is not made of
\* full packets.
LEMMA CutFacts ==
  ASSUME NEW r \in Request
  PROVE  /\ Cut(r) \in Nat /\ Cut(r) <= r.len /\ Cut(r) <= 2 * CtrlSize + 1
         /\ r.len > 0 => Cut(r) > 0
         /\ Cut(r) < r.len => Cut(r) \in {1, 2 * CtrlSize + 1}
<1> CtrlSize \in Nat /\ CtrlSize >= 2 /\ r.len \in Nat
  BY UdcAssumption, RequestType
<1>1. Size(r) \in {1, 2 * CtrlSize + 1}
  BY DEF Size
<1> QED
  BY <1>1 DEF Cut

\* What udc_process_setup decides.
LEMMA Answer ==
  ASSUME NEW r \in Request, NEW u \in UdcType, NEW a, NEW p, p = ProcessSetup(r, u, a)
  PROVE  /\ p.ok \in BOOLEAN /\ p.cb \in BOOLEAN /\ p.size \in Nat
         /\ p.udc = UdcAfter(r, u, a)
         /\ p.cb => p.ok
         /\ r.len = 0 => (p.cb <=> r.name = "SetAddress")
         /\ r.len # 0 => ~p.cb
         /\ ~p.ok => \/ IsIn(r) /\ r.len = 0
                     \/ r.name = "Wcid" /\ r.val \notin {4, 5}
         /\ p.ok /\ IsIn(r) =>
              /\ r.len > 0
              /\ p.size = IF NoAnswer(r, u) THEN 0 ELSE Cut(r)
<1> DEFINE std == Standard(r, u, a)
<1>1. /\ p.ok = (~(IsIn(r) /\ r.len = 0) /\ (std \/ OtherRequests(r)))
      /\ p.size = IF IsIn(r) /\ (std \/ r.name = "Wcid") THEN Cut(r) ELSE 0
      /\ p.cb = (std /\ r.name = "SetAddress")
      /\ p.udc = UdcAfter(r, u, a)
  BY DEF ProcessSetup
<1>2. r.len \in Nat /\ Cut(r) \in Nat
  BY RequestType, CutFacts
<1>3. ASSUME IsIn(r), r.name # "Wcid" PROVE std <=> ~NoAnswer(r, u)
  BY <1>3 DEF IsIn, Standard, NoAnswer, Fixed
<1>4. r.name = "Wcid" => IsIn(r) /\ ~NoAnswer(r, u)
  BY DEF IsIn, NoAnswer, Fixed
<1>5. OtherRequests(r) <=> (r.name = "Wcid" => r.val \in {4, 5})
  BY DEF OtherRequests
<1>6. ~std => (OtherRequests(r) <=> (r.name = "Wcid" => r.val \in {4, 5}))
  BY <1>5
<1> HIDE DEF std
<1>7. p.ok \in BOOLEAN /\ p.cb \in BOOLEAN /\ p.size \in Nat
  BY <1>1, <1>2
<1>8. /\ p.cb => p.ok
      /\ r.len = 0 => (p.cb <=> r.name = "SetAddress")
      /\ r.len # 0 => ~p.cb
  <2>1. r.name = "SetAddress" => ~IsIn(r)
    BY DEF IsIn, Fixed
  <2>2. r.name = "SetAddress" => (std <=> r.len = 0)
    BY DEF Standard, std
  <2> QED
    BY <1>1, <2>1, <2>2, Zenon
<1>9. ~p.ok => \/ IsIn(r) /\ r.len = 0
               \/ r.name = "Wcid" /\ r.val \notin {4, 5}
  BY <1>1, <1>5
<1>10. p.ok /\ IsIn(r) => r.len > 0 /\ p.size = IF NoAnswer(r, u) THEN 0 ELSE Cut(r)
  <2> SUFFICES ASSUME p.ok, IsIn(r)
               PROVE  r.len > 0 /\ p.size = IF NoAnswer(r, u) THEN 0 ELSE Cut(r)
    OBVIOUS
  <2>1. r.len # 0
    BY <1>1, Zenon
  <2>2. p.size = IF NoAnswer(r, u) THEN 0 ELSE Cut(r)
    BY <1>1, <1>3, <1>4
  <2> QED
    BY <1>2, <2>1, <2>2
<1> QED
  BY <1>1, <1>7, <1>8, <1>9, <1>10

(***************************************************************************)
(* The driver's routines, component by component.                          *)
(***************************************************************************)

DriverState == [ctrl : CtrlType, udc : UdcType, addr : Nat, in : InType, out : OutType,
                buserr : BOOLEAN]

Closed(c) == [c EXCEPT !.cb = FALSE, !.size = 0, !.st = "SETUP"]
Quieted(e) == [e EXCEPT !.nack = TRUE, !.cnt = 0, !.tc = FALSE, !.unf = FALSE]
Cleared(e) == [e EXCEPT !.tc = FALSE, !.ovf = FALSE]

LEMMA StateType ==
  ASSUME TypeOK
  PROVE  /\ State \in DriverState
         /\ State.ctrl = ctrl /\ State.udc = udc /\ State.addr = addr
         /\ State.in = in /\ State.out = out /\ State.buserr = buserr
  BY ControlAssumption DEF TypeOK, State, DriverState

LEMMA InitFields ==
  ASSUME NEW s \in DriverState
  PROVE  /\ CtrlInit(s) \in DriverState
         /\ CtrlInit(s).ctrl = Closed(s.ctrl) /\ CtrlInit(s).in = Quieted(s.in)
         /\ CtrlInit(s).out = Cleared(s.out)
         /\ CtrlInit(s).udc = s.udc /\ CtrlInit(s).addr = s.addr /\ CtrlInit(s).buserr = FALSE
<1> DEFINE t == CtrlInit(s)
<1> CtrlSize \in Nat /\ s.ctrl \in CtrlType /\ s.in \in InType /\ s.out \in OutType
  BY UdcAssumption DEF DriverState
<1>1. /\ t.ctrl = Closed(s.ctrl) /\ t.in = Quieted(s.in) /\ t.out = Cleared(s.out)
      /\ t.udc = s.udc /\ t.addr = s.addr /\ t.buserr = FALSE
  BY DEF CtrlInit, DriverState, Closed, Quieted, Cleared
<1>2. Closed(s.ctrl) \in CtrlType
  BY DEF Closed, CtrlType, States
<1>3. Quieted(s.in) \in InType
  <2>1. 0 \in Packet
    BY DEF Packet
  <2> QED
    BY <2>1 DEF Quieted, InType
<1>4. Cleared(s.out) \in OutType
  BY DEF Cleared, OutType
<1>5. t \in DriverState
  BY <1>2, <1>3, <1>4 DEF CtrlInit, DriverState, Closed, Quieted, Cleared
<1> QED
  BY <1>1, <1>5

LEMMA EndedFields ==
  ASSUME NEW s \in DriverState
  PROVE  /\ Ended(s) \in DriverState
         /\ Ended(s).ctrl = Closed(s.ctrl) /\ Ended(s).in = Quieted(s.in)
         /\ Ended(s).out = Cleared(s.out)
         /\ Ended(s).udc = s.udc /\ Ended(s).buserr = FALSE
         /\ Ended(s).addr = IF s.ctrl.cb THEN s.ctrl.req.val ELSE s.addr
<1> DEFINE t == Ended(s)
<1> DEFINE e == EndOfRequest(s)
<1>1. s.ctrl.req.val \in Nat
  BY RequestType DEF DriverState, CtrlType
<1>2. /\ e \in DriverState
      /\ e.ctrl = s.ctrl /\ e.in = s.in /\ e.out = s.out /\ e.udc = s.udc
      /\ e.addr = IF s.ctrl.cb THEN s.ctrl.req.val ELSE s.addr
  BY <1>1 DEF EndOfRequest, DriverState
<1>3. t = CtrlInit(e)
  BY DEF Ended
<1> HIDE DEF e
<1> QED
  BY <1>2, <1>3, InitFields

\* The stages the driver arms an answer or a status packet in.
LEMMA ZlpFields ==
  ASSUME NEW s \in DriverState
  PROVE  /\ SendZlpIn(s) \in DriverState
         /\ SendZlpIn(s).ctrl = [s.ctrl EXCEPT !.st = "WAIT_IN_ZLP"]
         /\ SendZlpIn(s).in = [s.in EXCEPT !.cnt = 0, !.nack = FALSE]
         /\ SendZlpIn(s).out = s.out /\ SendZlpIn(s).udc = s.udc
         /\ SendZlpIn(s).addr = s.addr /\ SendZlpIn(s).buserr = s.buserr
         /\ SendZlpOut(s) \in DriverState
         /\ SendZlpOut(s).ctrl = [s.ctrl EXCEPT !.st = "WAIT_OUT_ZLP"]
         /\ SendZlpOut(s).out = [s.out EXCEPT !.nack = FALSE]
         /\ SendZlpOut(s).in = s.in /\ SendZlpOut(s).udc = s.udc
         /\ SendZlpOut(s).addr = s.addr /\ SendZlpOut(s).buserr = s.buserr
<1> DEFINE i == SendZlpIn(s)
           o == SendZlpOut(s)
<1> s.ctrl \in CtrlType /\ s.in \in InType /\ s.out \in OutType /\ 0 \in Packet
  BY UdcAssumption DEF DriverState, Packet
<1>1. /\ i.ctrl = [s.ctrl EXCEPT !.st = "WAIT_IN_ZLP"]
      /\ i.in = [s.in EXCEPT !.cnt = 0, !.nack = FALSE]
      /\ i.out = s.out /\ i.udc = s.udc /\ i.addr = s.addr /\ i.buserr = s.buserr
  BY DEF SendZlpIn, DriverState
<1>2. /\ o.ctrl = [s.ctrl EXCEPT !.st = "WAIT_OUT_ZLP"]
      /\ o.out = [s.out EXCEPT !.nack = FALSE]
      /\ o.in = s.in /\ o.udc = s.udc /\ o.addr = s.addr /\ o.buserr = s.buserr
  BY DEF SendZlpOut, DriverState
<1>3. /\ [s.ctrl EXCEPT !.st = "WAIT_IN_ZLP"] \in CtrlType
      /\ [s.ctrl EXCEPT !.st = "WAIT_OUT_ZLP"] \in CtrlType
  BY DEF CtrlType, States, Waiting
<1>4. [s.in EXCEPT !.cnt = 0, !.nack = FALSE] \in InType
  BY DEF InType
<1>5. [s.out EXCEPT !.nack = FALSE] \in OutType
  BY DEF OutType
<1>6. i \in DriverState
  BY <1>3, <1>4 DEF DriverState, SendZlpIn
<1>7. o \in DriverState
  BY <1>3, <1>5 DEF DriverState, SendZlpOut
<1> QED
  BY <1>1, <1>2, <1>6, <1>7

LEMMA StallFields ==
  ASSUME NEW s \in DriverState
  PROVE  /\ StallBoth(s) \in DriverState /\ StallData(s) \in DriverState
         /\ StallBoth(s).ctrl = s.ctrl
         /\ StallData(s).ctrl = [s.ctrl EXCEPT !.st = "STALL_REQ"]
         /\ StallBoth(s).in = [s.in EXCEPT !.stall = TRUE] /\ StallData(s).in = StallBoth(s).in
         /\ StallBoth(s).out = [s.out EXCEPT !.stall = TRUE]
         /\ StallData(s).out = StallBoth(s).out
         /\ StallBoth(s).udc = s.udc /\ StallBoth(s).addr = s.addr
         /\ StallBoth(s).buserr = s.buserr
         /\ StallData(s).udc = s.udc /\ StallData(s).addr = s.addr
         /\ StallData(s).buserr = s.buserr
<1> DEFINE t == StallBoth(s)
           d == StallData(s)
<1> DEFINE q == [s EXCEPT !.ctrl.st = "STALL_REQ"]
<1>1. ASSUME NEW u \in DriverState, NEW v, v = StallBoth(u)
      PROVE  /\ v \in DriverState /\ v.ctrl = u.ctrl
             /\ v.in = [u.in EXCEPT !.stall = TRUE] /\ v.out = [u.out EXCEPT !.stall = TRUE]
             /\ v.udc = u.udc /\ v.addr = u.addr /\ v.buserr = u.buserr
  <2> u.in \in InType /\ u.out \in OutType
    BY DEF DriverState
  <2>1. [u.in EXCEPT !.stall = TRUE] \in InType /\ [u.out EXCEPT !.stall = TRUE] \in OutType
    BY DEF InType, OutType
  <2>2. /\ v.ctrl = u.ctrl
        /\ v.in = [u.in EXCEPT !.stall = TRUE] /\ v.out = [u.out EXCEPT !.stall = TRUE]
        /\ v.udc = u.udc /\ v.addr = u.addr /\ v.buserr = u.buserr
    BY <1>1 DEF StallBoth, DriverState
  <2>3. v \in DriverState
    BY <1>1, <2>1 DEF StallBoth, DriverState
  <2> QED
    BY <2>2, <2>3
<1>2. /\ q \in DriverState
      /\ q.ctrl = [s.ctrl EXCEPT !.st = "STALL_REQ"] /\ q.in = s.in /\ q.out = s.out
      /\ q.udc = s.udc /\ q.addr = s.addr /\ q.buserr = s.buserr
  <2>1. s.ctrl \in CtrlType
    BY DEF DriverState
  <2>2. [s.ctrl EXCEPT !.st = "STALL_REQ"] \in CtrlType
    BY <2>1 DEF CtrlType, States
  <2> QED
    BY <2>2 DEF DriverState
<1>3. d = StallBoth(q)
  BY DEF StallData
<1> HIDE DEF q
<1> QED
  BY <1>1, <1>2, <1>3

\* The next packet of an answer.
Left(s) == s.ctrl.size - s.ctrl.nb
Now(s)  == IF Left(s) < CtrlSize THEN Left(s) ELSE CtrlSize

LEMMA NextFields ==
  ASSUME NEW s \in DriverState, s.ctrl.nb <= s.ctrl.size
  PROVE  /\ SendNext(s) \in DriverState
         /\ SendNext(s).ctrl.st = s.ctrl.st /\ SendNext(s).ctrl.req = s.ctrl.req
         /\ SendNext(s).ctrl.cb = s.ctrl.cb
         /\ SendNext(s).ctrl.size = s.ctrl.size /\ SendNext(s).ctrl.prev = s.ctrl.prev
         /\ SendNext(s).ctrl.short = (Left(s) < CtrlSize)
         /\ SendNext(s).ctrl.nb = s.ctrl.nb + Now(s)
         /\ SendNext(s).in.cnt = Now(s) /\ SendNext(s).in.nack = FALSE
         /\ SendNext(s).in.stall = s.in.stall /\ SendNext(s).in.tc = s.in.tc
         /\ SendNext(s).in.unf = s.in.unf
         /\ SendNext(s).out = s.out /\ SendNext(s).udc = s.udc
         /\ SendNext(s).addr = s.addr /\ SendNext(s).buserr = s.buserr
<1> DEFINE t == SendNext(s)
<1> /\ s.ctrl \in CtrlType /\ s.in \in InType
    /\ s.ctrl.nb \in Nat /\ s.ctrl.size \in Nat
    /\ CtrlSize \in Nat
  BY UdcAssumption DEF DriverState, CtrlType
<1>1. Now(s) \in Nat /\ Now(s) \in Packet /\ s.ctrl.nb + Now(s) \in Nat
  BY DEF Packet, Left, Now
<1>2. /\ t.ctrl = [s.ctrl EXCEPT !.short = (Left(s) < CtrlSize), !.nb = s.ctrl.nb + Now(s)]
      /\ t.in = [s.in EXCEPT !.cnt = Now(s), !.nack = FALSE]
      /\ t.out = s.out /\ t.udc = s.udc /\ t.addr = s.addr /\ t.buserr = s.buserr
  BY DEF SendNext, DriverState, CtrlType, Left, Now
<1>3. [s.ctrl EXCEPT !.short = (Left(s) < CtrlSize), !.nb = s.ctrl.nb + Now(s)] \in CtrlType
  <2>1. (Left(s) < CtrlSize) \in BOOLEAN
    OBVIOUS
  <2> QED
    BY <1>1, <2>1 DEF CtrlType
<1>4. [s.in EXCEPT !.cnt = Now(s), !.nack = FALSE] \in InType
  BY <1>1 DEF InType
<1>5. t = [s EXCEPT !.ctrl = t.ctrl, !.in = t.in]
  BY <1>2 DEF SendNext, DriverState
<1>6. t \in DriverState
  BY <1>2, <1>3, <1>4, <1>5 DEF DriverState
<1>7. /\ t.ctrl.st = s.ctrl.st /\ t.ctrl.req = s.ctrl.req /\ t.ctrl.cb = s.ctrl.cb
      /\ t.ctrl.size = s.ctrl.size /\ t.ctrl.prev = s.ctrl.prev
      /\ t.ctrl.short = (Left(s) < CtrlSize) /\ t.ctrl.nb = s.ctrl.nb + Now(s)
  BY <1>2 DEF CtrlType
<1>8. /\ t.in.cnt = Now(s) /\ t.in.nack = FALSE
      /\ t.in.stall = s.in.stall /\ t.in.tc = s.in.tc /\ t.in.unf = s.in.unf
  BY <1>2 DEF InType
<1> QED
  BY <1>2, <1>6, <1>7, <1>8

\* Sending it keeps what is known about the data stage.
LEMMA NextSending ==
  ASSUME NEW s \in DriverState,
         s.ctrl.prev = 0, s.ctrl.nb < s.ctrl.size,
         s.ctrl.nb \in {0, CtrlSize, 2 * CtrlSize}, s.ctrl.size = Cut(s.ctrl.req)
  PROVE  Sending(SendNext(s).ctrl, SendNext(s).in) /\ SendNext(s).ctrl.nb = s.ctrl.nb + SendNext(s).in.cnt
<1> DEFINE t == SendNext(s)
<1> DEFINE left == Left(s)
           now  == Now(s)
<1>1. /\ s.ctrl \in CtrlType /\ s.in \in InType /\ s.ctrl.req \in Request
      /\ s.ctrl.nb \in Nat /\ s.ctrl.size \in Nat
      /\ CtrlSize \in Nat /\ CtrlSize >= 2 /\ s.ctrl.req.len \in Nat
  BY UdcAssumption, RequestType DEF DriverState, CtrlType
<1>2. s.ctrl.nb <= s.ctrl.size
  BY <1>1
<1>3. /\ t.ctrl.prev = 0 /\ t.ctrl.size = s.ctrl.size /\ t.ctrl.req = s.ctrl.req
      /\ t.ctrl.nb = s.ctrl.nb + now /\ (t.ctrl.short <=> left < CtrlSize)
      /\ t.in.cnt = now
  BY <1>2, NextFields
<1>4. /\ s.ctrl.size <= s.ctrl.req.len /\ s.ctrl.size <= 2 * CtrlSize + 1
      /\ s.ctrl.size < s.ctrl.req.len => s.ctrl.size \in {1, 2 * CtrlSize + 1}
  BY <1>1, CutFacts
<1>5. /\ s.ctrl.nb + now <= s.ctrl.size /\ now <= s.ctrl.nb + now
      /\ left < CtrlSize <=> now < CtrlSize
      /\ s.ctrl.nb + now < s.ctrl.size => ~(left < CtrlSize) /\ s.ctrl.nb + now \in {CtrlSize, 2 * CtrlSize}
      /\ s.ctrl.nb + now = s.ctrl.size => left < CtrlSize \/ s.ctrl.req.len = s.ctrl.nb + now
  <2> DEFINE size == s.ctrl.size
             nb   == s.ctrl.nb
             len  == s.ctrl.req.len
  <2>1. /\ nb \in {0, CtrlSize, 2 * CtrlSize} /\ nb < size /\ size <= len
        /\ size <= 2 * CtrlSize + 1 /\ (size < len => size \in {1, 2 * CtrlSize + 1})
        /\ nb \in Nat /\ size \in Nat /\ len \in Nat /\ CtrlSize \in Nat /\ CtrlSize >= 2
        /\ left = size - nb /\ now = IF left < CtrlSize THEN left ELSE CtrlSize
    BY <1>1, <1>4 DEF Left, Now
  <2> HIDE DEF size, nb, len, left, now
  <2>2. now \in Nat /\ left \in Nat
    BY <2>1
  <2> SUFFICES /\ nb + now <= size /\ now <= nb + now
               /\ left < CtrlSize <=> now < CtrlSize
               /\ nb + now < size => ~(left < CtrlSize) /\ nb + now \in {CtrlSize, 2 * CtrlSize}
               /\ nb + now = size => left < CtrlSize \/ len = nb + now
    BY DEF size, nb, len
  <2>3. CASE nb = 0
    BY <2>1, <2>2, <2>3
  <2>4. CASE nb = CtrlSize
    BY <2>1, <2>2, <2>4
  <2>5. CASE nb = 2 * CtrlSize
    BY <2>1, <2>2, <2>5
  <2> QED
    BY <2>1, <2>3, <2>4, <2>5
<1> HIDE DEF left, now
<1> QED
  BY <1>3, <1>5 DEF Sending

\* An answer of nothing is one empty packet.
LEMMA EmptySending ==
  ASSUME NEW s \in DriverState,
         s.ctrl.prev = 0, s.ctrl.nb = 0, s.ctrl.size = 0
  PROVE  Sending(SendNext(s).ctrl, SendNext(s).in) /\ SendNext(s).ctrl.nb = 0 /\ SendNext(s).in.cnt = 0
<1> DEFINE t == SendNext(s)
<1>1. /\ s.ctrl \in CtrlType /\ s.in \in InType
      /\ CtrlSize \in Nat /\ CtrlSize >= 2
  BY UdcAssumption DEF DriverState
<1>2. Left(s) = 0 /\ Now(s) = 0 /\ s.ctrl.nb + Now(s) = 0 /\ s.ctrl.nb <= s.ctrl.size
  BY <1>1 DEF Left, Now
<1>3. /\ t.ctrl.prev = 0 /\ t.ctrl.size = 0 /\ t.ctrl.nb = 0 /\ (t.ctrl.short <=> 0 < CtrlSize)
      /\ t.in.cnt = 0
  BY <1>2, NextFields
<1> QED
  BY <1>1, <1>3 DEF Sending

(***************************************************************************)
(* What each handler does, given the invariant.                            *)
(***************************************************************************)

Typed == /\ ctrl' \in CtrlType /\ udc' \in UdcType /\ in' \in InType /\ out' \in OutType
         /\ buserr' \in BOOLEAN

\* The end of a request.
Ending ==
  /\ ctrl'.st = "SETUP" /\ ctrl'.cb = FALSE /\ ctrl'.req = ctrl.req
  /\ in'.nack = TRUE /\ in'.tc = FALSE /\ in'.unf = FALSE /\ in'.stall = in.stall
  /\ out'.tc = FALSE /\ out'.ovf = FALSE /\ out'.nack = out.nack /\ out'.stall = out.stall
  /\ buserr' = FALSE /\ udc' = udc
  /\ addr' = IF ctrl.cb THEN ctrl.req.val ELSE addr

\* The next packet of an answer.
Sends ==
  /\ ctrl'.st = ctrl.st /\ ctrl'.cb = ctrl.cb /\ ctrl'.req = ctrl.req /\ ctrl'.size = ctrl.size
  /\ Sending(ctrl', in') /\ ctrl'.nb = ctrl.nb + in'.cnt
  /\ in'.nack = FALSE /\ in'.tc = in.tc /\ in'.unf = in.unf /\ in'.stall = in.stall
  /\ UNCHANGED <<out, udc, addr, buserr>>

AwaitsOut ==
  /\ ctrl'.st = "WAIT_OUT_ZLP" /\ ctrl'.cb = ctrl.cb /\ ctrl'.req = ctrl.req
  /\ ctrl'.size = ctrl.size
  /\ out'.nack = FALSE /\ out'.tc = out.tc /\ out'.ovf = out.ovf /\ out'.stall = out.stall
  /\ UNCHANGED <<in, udc, addr, buserr>>

AwaitsIn ==
  /\ ctrl'.st = "WAIT_IN_ZLP" /\ ctrl'.cb = ctrl.cb /\ ctrl'.req = ctrl.req
  /\ in'.nack = FALSE /\ in'.tc = in.tc /\ in'.unf = in.unf /\ in'.stall = in.stall
  /\ UNCHANGED <<out, udc, addr, buserr>>

Stalls ==
  /\ in'.nack = in.nack /\ in'.tc = in.tc /\ in'.unf = in.unf /\ in'.stall = TRUE
  /\ out'.nack = out.nack /\ out'.tc = out.tc /\ out'.ovf = out.ovf /\ out'.stall = TRUE
  /\ UNCHANGED <<ctrl, udc, addr, buserr>>

LEMMA EndingEffect ==
  ASSUME TypeOK, Becomes(Ended(State))
  PROVE  Typed /\ Ending
<1> DEFINE t == Ended(State)
<1>1. /\ t \in DriverState
      /\ t.ctrl = Closed(ctrl) /\ t.in = Quieted(in) /\ t.out = Cleared(out)
      /\ t.udc = udc /\ t.buserr = FALSE
      /\ t.addr = IF ctrl.cb THEN ctrl.req.val ELSE addr
  BY StateType, EndedFields
<1>2. /\ ctrl' = t.ctrl /\ in' = t.in /\ out' = t.out /\ udc' = t.udc /\ buserr' = t.buserr
      /\ addr' = t.addr
  BY DEF Becomes
<1> HIDE DEF t
<1>3. Typed
  BY <1>1, <1>2 DEF Typed, DriverState
<1>4. ctrl'.st = "SETUP" /\ ctrl'.cb = FALSE /\ ctrl'.req = ctrl.req
  BY <1>1, <1>2 DEF Closed, TypeOK, CtrlType
<1>5. in'.nack = TRUE /\ in'.tc = FALSE /\ in'.unf = FALSE /\ in'.stall = in.stall
  BY <1>1, <1>2 DEF Quieted, TypeOK, InType
<1>6. out'.tc = FALSE /\ out'.ovf = FALSE /\ out'.nack = out.nack /\ out'.stall = out.stall
  BY <1>1, <1>2 DEF Cleared, TypeOK, OutType
<1> QED
  BY <1>1, <1>2, <1>3, <1>4, <1>5, <1>6 DEF Ending

LEMMA InWorkEffect ==
  ASSUME TypeOK, EndpointInv, RequestInv, DataInv, InWork
  PROVE  /\ isr = "in" /\ isr' = "none" /\ UNCHANGED <<flags, fifo, setupif, buf, host>>
         /\ Typed
         /\ \/ ctrl.st = "WAIT_IN_ZLP" /\ Ending
            \/ ctrl.st = "DATA_IN" /\ ~AllDone /\ Sends
            \/ ctrl.st = "DATA_IN" /\ AllDone /\ AwaitsOut
<1> DEFINE t == InSent(State)
<1>1. /\ isr = "in" /\ isr' = "none" /\ UNCHANGED <<flags, fifo, setupif, buf, host>>
      /\ Becomes(t)
  BY DEF InWork, Work
<1>2. /\ ctrl' = t.ctrl /\ in' = t.in /\ out' = t.out /\ udc' = t.udc /\ buserr' = t.buserr
      /\ addr' = t.addr
  BY <1>1 DEF Becomes
<1>3. ctrl.st \in {"DATA_IN", "WAIT_IN_ZLP"}
  BY <1>1 DEF EndpointInv, InBusy
<1>4. CASE ctrl.st = "WAIT_IN_ZLP"
  <2>1. t = Ended(State)
    BY <1>4, StateType DEF InSent
  <2> QED
    BY <1>1, <1>4, <2>1, EndingEffect
<1>5. CASE ctrl.st = "DATA_IN" /\ ctrl.nb # ctrl.size
  <2>1. t = SendNext(State)
    BY <1>5, StateType DEF InSent
  <2>2. /\ ctrl.prev = 0 /\ ctrl.nb < ctrl.size /\ ctrl.nb \in {CtrlSize, 2 * CtrlSize}
        /\ ctrl.size = Cut(ctrl.req)
    <3>1. ctrl.nb \in Nat /\ ctrl.size \in Nat
      BY DEF TypeOK, CtrlType
    <3>2. ctrl.prev = 0 /\ ctrl.nb < ctrl.size /\ ctrl.nb \in {CtrlSize, 2 * CtrlSize}
      BY <1>5, <3>1 DEF DataInv, Sending
    <3>3. ctrl.size # 0
      BY <3>1, <3>2
    <3> QED
      BY <1>5, <3>2, <3>3 DEF RequestInv
  <2>3. Sending(t.ctrl, t.in) /\ t.ctrl.nb = ctrl.nb + t.in.cnt
    BY <2>1, <2>2, StateType, NextSending
  <2>4. State.ctrl.nb <= State.ctrl.size
    BY <2>2, StateType DEF TypeOK, CtrlType
  <2> HIDE DEF t
  <2>5. /\ t \in DriverState
        /\ t.ctrl.st = ctrl.st /\ t.ctrl.req = ctrl.req /\ t.ctrl.cb = ctrl.cb
        /\ t.ctrl.size = ctrl.size
        /\ t.in.nack = FALSE
        /\ t.in.stall = in.stall /\ t.in.tc = in.tc /\ t.in.unf = in.unf
        /\ t.out = out /\ t.udc = udc /\ t.addr = addr /\ t.buserr = buserr
    <3>1. State \in DriverState
      BY StateType
    <3>2. /\ SendNext(State) \in DriverState
          /\ SendNext(State).ctrl.st = State.ctrl.st
          /\ SendNext(State).ctrl.req = State.ctrl.req
          /\ SendNext(State).ctrl.cb = State.ctrl.cb
          /\ SendNext(State).ctrl.size = State.ctrl.size
          /\ SendNext(State).in.nack = FALSE
          /\ SendNext(State).in.stall = State.in.stall /\ SendNext(State).in.tc = State.in.tc
          /\ SendNext(State).in.unf = State.in.unf
          /\ SendNext(State).out = State.out /\ SendNext(State).udc = State.udc
          /\ SendNext(State).addr = State.addr /\ SendNext(State).buserr = State.buserr
      BY <2>4, <3>1, NextFields
    <3> QED
      BY <2>1, <3>2, StateType
  <2>6. Typed /\ Sends
    BY <1>2, <2>3, <2>5 DEF Typed, Sends, DriverState
  <2> QED
    BY <1>1, <1>5, <2>6 DEF AllDone
<1>6. CASE ctrl.st = "DATA_IN" /\ ctrl.nb = ctrl.size
  <2> DEFINE p == [State EXCEPT !.ctrl.prev = @ + State.ctrl.nb]
  <2>1. ctrl.prev + ctrl.nb \in Nat /\ ctrl.prev = 0 /\ ctrl.nb \in Nat
    BY <1>6 DEF TypeOK, CtrlType, DataInv, Sending
  <2>2. /\ p \in DriverState
        /\ p.ctrl = [ctrl EXCEPT !.prev = ctrl.prev + ctrl.nb]
        /\ p.in = in /\ p.out = out /\ p.udc = udc /\ p.addr = addr /\ p.buserr = buserr
    <3>1. ctrl \in CtrlType
      BY DEF TypeOK
    <3>2. [ctrl EXCEPT !.prev = ctrl.prev + ctrl.nb] \in CtrlType
      BY <2>1, <3>1 DEF CtrlType
    <3>3. /\ p.ctrl = [ctrl EXCEPT !.prev = ctrl.prev + ctrl.nb]
          /\ p.in = in /\ p.out = out /\ p.udc = udc /\ p.addr = addr /\ p.buserr = buserr
      BY StateType DEF State
    <3>4. p = [State EXCEPT !.ctrl = [ctrl EXCEPT !.prev = ctrl.prev + ctrl.nb]]
      BY StateType DEF State
    <3> QED
      BY StateType, <3>2, <3>3, <3>4 DEF DriverState
  <2>3. AllSent(p)
    <3>1. p.ctrl.prev = ctrl.nb /\ p.ctrl.short = ctrl.short /\ p.ctrl.req = ctrl.req
      BY <2>1, <2>2 DEF TypeOK, CtrlType
    <3>2. ctrl.short \/ ctrl.req.len = ctrl.nb
      BY <1>6 DEF DataInv, Sending
    <3> HIDE DEF p
    <3> QED
      BY <3>1, <3>2 DEF AllSent
  <2>4. t = SendZlpOut(p)
    BY <1>6, <2>3, StateType DEF InSent
  <2> HIDE DEF p
  <2>5. /\ t \in DriverState
        /\ t.ctrl = [p.ctrl EXCEPT !.st = "WAIT_OUT_ZLP"]
        /\ t.out = [out EXCEPT !.nack = FALSE]
        /\ t.in = in /\ t.udc = udc /\ t.addr = addr /\ t.buserr = buserr
    BY <2>2, <2>4, ZlpFields
  <2> HIDE DEF t
  <2>6. Typed
    BY <1>2, <2>5 DEF Typed, DriverState
  <2>7. /\ ctrl'.st = "WAIT_OUT_ZLP" /\ ctrl'.cb = ctrl.cb /\ ctrl'.req = ctrl.req
        /\ ctrl'.size = ctrl.size
    BY <1>2, <2>1, <2>2, <2>5 DEF TypeOK, CtrlType
  <2>8. out'.nack = FALSE /\ out'.tc = out.tc /\ out'.ovf = out.ovf /\ out'.stall = out.stall
    BY <1>2, <2>5 DEF TypeOK, OutType
  <2>9. AwaitsOut
    BY <1>2, <2>5, <2>7, <2>8 DEF AwaitsOut
  <2> QED
    BY <1>1, <1>6, <2>6, <2>9 DEF AllDone
<1> QED
  BY <1>3, <1>4, <1>5, <1>6

LEMMA OutWorkEffect ==
  ASSUME TypeOK, EndpointInv, OutWork
  PROVE  /\ isr = "out" /\ isr' = "none" /\ UNCHANGED <<flags, fifo, setupif, buf, host>>
         /\ Typed
         /\ \/ ctrl.st = "WAIT_OUT_ZLP" /\ Ending
            \/ ctrl.st = "DATA_OUT" /\ AwaitsIn
<1> DEFINE t == OutReceived(State)
<1>1. /\ isr = "out" /\ isr' = "none" /\ UNCHANGED <<flags, fifo, setupif, buf, host>>
      /\ Becomes(t)
  BY DEF OutWork, Work
<1>2. /\ ctrl' = t.ctrl /\ in' = t.in /\ out' = t.out /\ udc' = t.udc /\ buserr' = t.buserr
      /\ addr' = t.addr
  BY <1>1 DEF Becomes
<1>3. ctrl.st \in {"DATA_OUT", "WAIT_OUT_ZLP"}
  BY <1>1 DEF EndpointInv, OutBusy
<1>4. CASE ctrl.st = "WAIT_OUT_ZLP"
  <2>1. t = Ended(State)
    BY <1>4, StateType DEF OutReceived
  <2> QED
    BY <1>1, <1>4, <2>1, EndingEffect
<1>5. CASE ctrl.st = "DATA_OUT"
  <2> DEFINE p == [State EXCEPT !.ctrl.size = State.ctrl.nb]
  <2>1. ctrl \in CtrlType /\ ctrl.nb \in Nat
    BY DEF TypeOK, CtrlType
  <2>2. /\ p \in DriverState
        /\ p.ctrl = [ctrl EXCEPT !.size = ctrl.nb]
        /\ p.in = in /\ p.out = out /\ p.udc = udc /\ p.addr = addr /\ p.buserr = buserr
    <3>1. [ctrl EXCEPT !.size = ctrl.nb] \in CtrlType
      BY <2>1 DEF CtrlType
    <3>2. /\ p.ctrl = [ctrl EXCEPT !.size = ctrl.nb]
          /\ p.in = in /\ p.out = out /\ p.udc = udc /\ p.addr = addr /\ p.buserr = buserr
      BY StateType DEF State
    <3>3. p = [State EXCEPT !.ctrl = [ctrl EXCEPT !.size = ctrl.nb]]
      BY StateType DEF State
    <3> QED
      BY StateType, <3>1, <3>2, <3>3 DEF DriverState
  <2>3. t = SendZlpIn(p)
    BY <1>5, StateType DEF OutReceived
  <2> HIDE DEF p
  <2>4. /\ t \in DriverState
        /\ t.ctrl = [p.ctrl EXCEPT !.st = "WAIT_IN_ZLP"]
        /\ t.in = [in EXCEPT !.cnt = 0, !.nack = FALSE]
        /\ t.out = out /\ t.udc = udc /\ t.addr = addr /\ t.buserr = buserr
    BY <2>2, <2>3, ZlpFields
  <2> HIDE DEF t
  <2>5. Typed
    BY <1>2, <2>4 DEF Typed, DriverState
  <2>6. ctrl'.st = "WAIT_IN_ZLP" /\ ctrl'.cb = ctrl.cb /\ ctrl'.req = ctrl.req
    BY <1>2, <2>1, <2>2, <2>4 DEF CtrlType
  <2>7. in'.nack = FALSE /\ in'.tc = in.tc /\ in'.unf = in.unf /\ in'.stall = in.stall
    BY <1>2, <2>4 DEF TypeOK, InType
  <2>8. AwaitsIn
    BY <1>2, <2>4, <2>6, <2>7 DEF AwaitsIn
  <2> QED
    BY <1>1, <1>5, <2>5, <2>8
<1> QED
  BY <1>3, <1>4, <1>5

LEMMA StallsEffect ==
  ASSUME TypeOK, Becomes(StallBoth(State))
  PROVE  Typed /\ Stalls
<1> DEFINE t == StallBoth(State)
<1>1. /\ t \in DriverState /\ t.ctrl = ctrl
      /\ t.in = [in EXCEPT !.stall = TRUE] /\ t.out = [out EXCEPT !.stall = TRUE]
      /\ t.udc = udc /\ t.addr = addr /\ t.buserr = buserr
  BY StateType, StallFields
<1>2. /\ ctrl' = t.ctrl /\ in' = t.in /\ out' = t.out /\ udc' = t.udc /\ buserr' = t.buserr
      /\ addr' = t.addr
  BY DEF Becomes
<1> HIDE DEF t
<1>3. Typed
  BY <1>1, <1>2 DEF Typed, DriverState
<1>4. in'.nack = in.nack /\ in'.tc = in.tc /\ in'.unf = in.unf /\ in'.stall = TRUE
  BY <1>1, <1>2 DEF TypeOK, InType
<1>5. out'.nack = out.nack /\ out'.tc = out.tc /\ out'.ovf = out.ovf /\ out'.stall = TRUE
  BY <1>1, <1>2 DEF TypeOK, OutType
<1> QED
  BY <1>1, <1>2, <1>3, <1>4, <1>5 DEF Stalls

LEMMA NothingEffect ==
  ASSUME TypeOK, Becomes(State)
  PROVE  UNCHANGED devVars /\ Typed
  BY StateType DEF Becomes, devVars, Typed, TypeOK

LEMMA EmptyFifo ==
  ASSUME FifoInv, fifo = <<>>
  PROVE  ~in.tc /\ ~out.tc /\ ~Queued("in") /\ ~Queued("out")
<1>1. ASSUME NEW e PROVE ~Queued(e)
  BY DEF Queued
<1> QED
  BY <1>1 DEF FifoInv

\* The two error events stall a status stage or take the next SETUP, no more.
ErrorEffect(f, own, st) ==
  /\ isr = "none" /\ flags' = flags \ {f} /\ UNCHANGED <<fifo, buf, host>>
  /\ Typed
  /\ \/ UNCHANGED <<devVars, setupif, isr>>
     \/ /\ fifo = <<>> /\ setupif /\ setupif' = FALSE /\ isr' = "setup"
        /\ UNCHANGED devVars
     \/ /\ fifo = <<>> /\ ~setupif /\ UNCHANGED <<setupif, isr>> /\ f \in flags /\ own
        /\ ctrl.st = st /\ Stalls

LEMMA UnderflowEffect ==
  ASSUME TypeOK, FifoInv, ErrorInv, UnderflowEvent
  PROVE  ErrorEffect("unf", in.unf, "WAIT_OUT_ZLP")
<1>1. /\ BusRuns("unf") /\ UNCHANGED <<fifo, buf, host>>
      /\ IF in.unf /\ NothingToDo
         THEN IF setupif THEN AckSetup /\ UNCHANGED devVars
                         ELSE Becomes(Underflow(State)) /\ UNCHANGED <<setupif, isr>>
         ELSE UNCHANGED <<devVars, setupif, isr>>
  BY DEF UnderflowEvent, ControlError
<1>2. isr = "none" /\ flags' = flags \ {"unf"} /\ "unf" \in flags
  BY <1>1 DEF BusRuns, ServesFirst
<1>3. CASE UNCHANGED <<devVars, setupif, isr>>
  BY <1>1, <1>2, <1>3 DEF ErrorEffect, Typed, TypeOK, devVars
<1>4. CASE in.unf /\ NothingToDo /\ setupif
  <2>1. AckSetup /\ UNCHANGED devVars
    BY <1>1, <1>4
  <2> QED
    BY <1>1, <1>2, <1>4, <2>1
       DEF ErrorEffect, Typed, TypeOK, devVars, AckSetup, NothingToDo
<1>5. CASE in.unf /\ NothingToDo /\ ~setupif
  <2>1. Becomes(Underflow(State)) /\ UNCHANGED <<setupif, isr>> /\ fifo = <<>>
    BY <1>1, <1>5 DEF NothingToDo
  <2>2. ctrl.st # "DATA_OUT"
    BY <1>2, <1>5, <2>1, EmptyFifo DEF ErrorInv, Unserved, OutBusy
  <2>3. CASE ctrl.st = "WAIT_OUT_ZLP"
    <3>1. Underflow(State) = StallBoth(State)
      BY <2>3, StateType DEF Underflow
    <3>2. Typed /\ Stalls
      BY <2>1, <3>1, StallsEffect
    <3> QED
      BY <1>1, <1>2, <1>5, <2>1, <2>3, <3>2 DEF ErrorEffect
  <2>4. CASE ctrl.st # "WAIT_OUT_ZLP"
    <3>1. Underflow(State) = State
      BY <2>2, <2>4, StateType DEF Underflow
    <3>2. Typed /\ UNCHANGED devVars
      BY <2>1, <3>1, NothingEffect
    <3> QED
      BY <1>1, <1>2, <2>1, <3>2 DEF ErrorEffect
  <2> QED
    BY <2>3, <2>4
<1> QED
  BY <1>1, <1>3, <1>4, <1>5

LEMMA OverflowEffect ==
  ASSUME TypeOK, FifoInv, ErrorInv, OverflowEvent
  PROVE  ErrorEffect("ovf", out.ovf, "WAIT_IN_ZLP")
<1>1. /\ BusRuns("ovf") /\ UNCHANGED <<fifo, buf, host>>
      /\ IF out.ovf /\ NothingToDo
         THEN IF setupif THEN AckSetup /\ UNCHANGED devVars
                         ELSE Becomes(Overflow(State)) /\ UNCHANGED <<setupif, isr>>
         ELSE UNCHANGED <<devVars, setupif, isr>>
  BY DEF OverflowEvent, ControlError
<1>2. isr = "none" /\ flags' = flags \ {"ovf"} /\ "ovf" \in flags
  BY <1>1 DEF BusRuns, ServesFirst
<1>3. CASE UNCHANGED <<devVars, setupif, isr>>
  BY <1>1, <1>2, <1>3 DEF ErrorEffect, Typed, TypeOK, devVars
<1>4. CASE out.ovf /\ NothingToDo /\ setupif
  <2>1. AckSetup /\ UNCHANGED devVars
    BY <1>1, <1>4
  <2> QED
    BY <1>1, <1>2, <1>4, <2>1
       DEF ErrorEffect, Typed, TypeOK, devVars, AckSetup, NothingToDo
<1>5. CASE out.ovf /\ NothingToDo /\ ~setupif
  <2>1. Becomes(Overflow(State)) /\ UNCHANGED <<setupif, isr>> /\ fifo = <<>>
    BY <1>1, <1>5 DEF NothingToDo
  <2>2. ctrl.st # "DATA_IN"
    BY <1>2, <1>5, <2>1, EmptyFifo DEF ErrorInv, Unserved, InBusy
  <2>3. CASE ctrl.st = "WAIT_IN_ZLP"
    <3>1. Overflow(State) = StallBoth(State)
      BY <2>3, StateType DEF Overflow
    <3>2. Typed /\ Stalls
      BY <2>1, <3>1, StallsEffect
    <3> QED
      BY <1>1, <1>2, <1>5, <2>1, <2>3, <3>2 DEF ErrorEffect
  <2>4. CASE ctrl.st # "WAIT_IN_ZLP"
    <3>1. Overflow(State) = State
      BY <2>2, <2>4, StateType DEF Overflow
    <3>2. Typed /\ UNCHANGED devVars
      BY <2>1, <3>1, NothingEffect
    <3> QED
      BY <1>1, <1>2, <2>1, <3>2 DEF ErrorEffect
  <2> QED
    BY <2>3, <2>4
<1> QED
  BY <1>1, <1>3, <1>4, <1>5

(***************************************************************************)
(* A SETUP: the last request is closed, and the new one answered.          *)
(***************************************************************************)

\* What an accepted SETUP finds: nothing armed, nothing stalled.
Ready(s) ==
  /\ s.in.nack = TRUE /\ s.in.tc = FALSE /\ s.in.stall = FALSE
  /\ s.out.nack = TRUE /\ s.out.tc = FALSE /\ s.out.stall = FALSE

Refuses(r) ==
  \/ IsIn(r) /\ r.len = 0
  \/ r.name = "Wcid" /\ r.val \notin {4, 5}

Expected(r, u) == IF NoAnswer(r, u) THEN 0 ELSE Cut(r)

\* The ways a request r can be answered, in the driver's state t.
Answered(r, t) ==
  \/ /\ t.ctrl.st = "STALL_REQ" /\ Refuses(r)
     /\ t.in.nack = TRUE /\ t.out.nack = TRUE /\ t.in.stall = TRUE /\ t.out.stall = TRUE
  \/ /\ t.ctrl.st = "DATA_IN" /\ IsIn(r) /\ r.len > 0 /\ t.ctrl.size = Expected(r, t.udc)
     /\ Sending(t.ctrl, t.in) /\ t.ctrl.nb = t.in.cnt
     /\ t.in.nack = FALSE /\ t.out.nack = TRUE /\ t.in.stall = FALSE /\ t.out.stall = FALSE
  \/ /\ t.ctrl.st = "WAIT_OUT_ZLP" /\ IsIn(r) /\ r.len > 0 /\ t.ctrl.size = Expected(r, t.udc)
     /\ t.ctrl.size = 0
     /\ t.in.nack = TRUE /\ t.out.nack = FALSE /\ t.in.stall = FALSE /\ t.out.stall = FALSE
  \/ /\ t.ctrl.st = "WAIT_IN_ZLP" /\ ~IsIn(r) /\ r.len = 0
     /\ t.in.nack = FALSE /\ t.out.nack = TRUE /\ t.in.stall = FALSE /\ t.out.stall = FALSE
  \/ /\ t.ctrl.st = "DATA_OUT" /\ ~IsIn(r) /\ r.len > 0
     /\ t.in.nack = TRUE /\ t.out.nack = FALSE /\ t.in.stall = FALSE /\ t.out.stall = FALSE

\* Everything else an answer leaves as it was or sets to the same in each case.
Keeps(s, t) ==
  /\ t \in DriverState
  /\ t.ctrl.req = s.ctrl.req /\ t.ctrl.cb = s.ctrl.cb
  /\ t.in.tc = s.in.tc /\ t.in.unf = s.in.unf /\ t.out.tc = s.out.tc /\ t.out.ovf = s.out.ovf
  /\ t.udc = s.udc /\ t.addr = s.addr /\ t.buserr = s.buserr

\* udd_ctrl_in_sent on a request that has just been accepted.
LEMMA FirstPacket ==
  ASSUME NEW r \in Request, NEW s \in DriverState, Ready(s),
         s.ctrl.req = r, s.ctrl.st = "DATA_IN", s.ctrl.prev = 0, s.ctrl.nb = 0,
         IsIn(r), r.len > 0, s.ctrl.size = Expected(r, s.udc)
  PROVE  Keeps(s, InSent(s)) /\ Answered(r, InSent(s))
<1> DEFINE t == InSent(s)
<1>1. s.ctrl \in CtrlType /\ s.in \in InType /\ s.out \in OutType /\ s.ctrl.size \in Nat
  BY DEF DriverState, CtrlType
<1>2. CASE s.ctrl.size # 0
  <2>1. t = SendNext(s)
    BY <1>2 DEF InSent
  <2>2. s.ctrl.nb < s.ctrl.size /\ s.ctrl.nb <= s.ctrl.size /\ s.ctrl.size = Cut(s.ctrl.req)
    BY <1>1, <1>2 DEF Expected
  <2>3. Sending(SendNext(s).ctrl, SendNext(s).in)
        /\ SendNext(s).ctrl.nb = s.ctrl.nb + SendNext(s).in.cnt
    BY <2>2, NextSending
  <2>4. /\ SendNext(s) \in DriverState
        /\ SendNext(s).ctrl.st = s.ctrl.st /\ SendNext(s).ctrl.req = s.ctrl.req
        /\ SendNext(s).ctrl.cb = s.ctrl.cb /\ SendNext(s).ctrl.size = s.ctrl.size
        /\ SendNext(s).in.nack = FALSE
        /\ SendNext(s).in.stall = s.in.stall /\ SendNext(s).in.tc = s.in.tc
        /\ SendNext(s).in.unf = s.in.unf
        /\ SendNext(s).out = s.out /\ SendNext(s).udc = s.udc
        /\ SendNext(s).addr = s.addr /\ SendNext(s).buserr = s.buserr
    BY <2>2, NextFields
  <2>5. SendNext(s).ctrl.nb = SendNext(s).in.cnt
    <3>1. SendNext(s).in.cnt \in Nat
      BY <2>4, UdcAssumption DEF DriverState, InType, Packet
    <3> QED
      BY <2>3, <3>1
  <2> HIDE DEF t
  <2>6. Keeps(s, t)
    BY <2>1, <2>4 DEF Keeps
  <2>7. Answered(r, t)
    BY <2>1, <2>3, <2>4, <2>5 DEF Answered, Ready
  <2> QED
    BY <2>6, <2>7 DEF t
<1>3. CASE s.ctrl.size = 0
  <2> DEFINE p == [s EXCEPT !.ctrl.prev = @ + s.ctrl.nb]
  <2>1. p.ctrl = [s.ctrl EXCEPT !.prev = s.ctrl.prev + s.ctrl.nb]
        /\ p.in = s.in /\ p.out = s.out /\ p.udc = s.udc /\ p.addr = s.addr
        /\ p.buserr = s.buserr
    BY <1>1 DEF DriverState
  <2>2. s.ctrl.prev + s.ctrl.nb = 0
    BY <1>1 DEF CtrlType
  <2>3. /\ p.ctrl.st = "DATA_IN" /\ p.ctrl.req = r /\ p.ctrl.cb = s.ctrl.cb /\ p.ctrl.size = 0
        /\ p.ctrl.prev = 0 /\ p.ctrl.nb = 0 /\ p.ctrl \in CtrlType
    BY <1>1, <1>3, <2>1, <2>2 DEF CtrlType
  <2>4. p \in DriverState
    <3>1. p = [s EXCEPT !.ctrl = [s.ctrl EXCEPT !.prev = s.ctrl.prev + s.ctrl.nb]]
      BY <1>1 DEF DriverState
    <3> QED
      BY <2>1, <2>3, <3>1 DEF DriverState
  <2>5. t = IF AllSent(p) THEN SendZlpOut(p) ELSE SendNext(p)
    BY <1>3 DEF InSent
  <2>6. Expected(r, s.udc) = 0
    BY <1>3
  <2> HIDE DEF p, t
  <2>7. CASE AllSent(p)
    <3>1. /\ t \in DriverState
          /\ t.ctrl = [p.ctrl EXCEPT !.st = "WAIT_OUT_ZLP"]
          /\ t.out = [p.out EXCEPT !.nack = FALSE]
          /\ t.in = p.in /\ t.udc = p.udc /\ t.addr = p.addr /\ t.buserr = p.buserr
      BY <2>4, <2>5, <2>7, ZlpFields
    <3>2. /\ t.ctrl.st = "WAIT_OUT_ZLP" /\ t.ctrl.req = r /\ t.ctrl.cb = s.ctrl.cb
          /\ t.ctrl.size = 0
      BY <2>3, <3>1 DEF CtrlType
    <3>3. /\ t.out.nack = FALSE /\ t.out.tc = s.out.tc /\ t.out.ovf = s.out.ovf
          /\ t.out.stall = s.out.stall
      BY <1>1, <2>1, <3>1 DEF OutType
    <3>4. Keeps(s, t)
      BY <2>1, <3>1, <3>2, <3>3 DEF Keeps
    <3>5. Answered(r, t)
      BY <2>1, <2>6, <3>1, <3>2, <3>3 DEF Answered, Ready
    <3> QED
      BY <3>4, <3>5 DEF t
  <2>8. CASE ~AllSent(p)
    <3>1. t = SendNext(p) /\ p.ctrl.nb <= p.ctrl.size
      BY <2>3, <2>5, <2>8
    <3>2. Sending(SendNext(p).ctrl, SendNext(p).in) /\ SendNext(p).ctrl.nb = 0
          /\ SendNext(p).in.cnt = 0
      BY <2>3, <2>4, EmptySending
    <3>3. /\ SendNext(p) \in DriverState
          /\ SendNext(p).ctrl.st = p.ctrl.st /\ SendNext(p).ctrl.req = p.ctrl.req
          /\ SendNext(p).ctrl.cb = p.ctrl.cb /\ SendNext(p).ctrl.size = p.ctrl.size
          /\ SendNext(p).in.nack = FALSE
          /\ SendNext(p).in.stall = p.in.stall /\ SendNext(p).in.tc = p.in.tc
          /\ SendNext(p).in.unf = p.in.unf
          /\ SendNext(p).out = p.out /\ SendNext(p).udc = p.udc
          /\ SendNext(p).addr = p.addr /\ SendNext(p).buserr = p.buserr
      BY <2>4, <3>1, NextFields
    <3>4. Keeps(s, t)
      BY <2>1, <2>3, <3>1, <3>3 DEF Keeps
    <3>5. Answered(r, t)
      BY <2>1, <2>3, <2>6, <3>1, <3>2, <3>3 DEF Answered, Ready
    <3> QED
      BY <3>4, <3>5 DEF t
  <2> QED
    BY <2>7, <2>8
<1> QED
  BY <1>2, <1>3

LEMMA AcceptFields ==
  ASSUME NEW r \in Requests, NEW s \in DriverState, Ready(s), Owned(s.udc)
  PROVE  LET t == Accept(s, r)
         IN  /\ t \in DriverState
             /\ t.ctrl.req = r /\ t.udc = UdcAfter(r, s.udc, s.addr) /\ t.addr = s.addr
             /\ t.buserr = TRUE
             /\ t.in.tc = s.in.tc /\ t.in.unf = s.in.unf
             /\ t.out.tc = s.out.tc /\ t.out.ovf = s.out.ovf
             /\ t.ctrl.cb <=> r.name = "SetAddress"
             /\ Answered(r, t)
<1> DEFINE p == ProcessSetup(r, s.udc, s.addr)
           t == [s EXCEPT !.ctrl.req = r, !.ctrl.size = p.size, !.ctrl.cb = p.cb,
                          !.udc = p.udc, !.buserr = TRUE]
           u == [t EXCEPT !.ctrl.prev = 0, !.ctrl.nb = 0]
           reads == [u EXCEPT !.ctrl.st = "DATA_IN"]
           takes == [u EXCEPT !.ctrl.st = "DATA_OUT", !.out.nack = FALSE]
<1>1. /\ s.ctrl \in CtrlType /\ s.in \in InType /\ s.out \in OutType /\ s.udc \in UdcType
      /\ r \in Request /\ r.val \in Nat /\ r.len \in Nat
  <2>1. r \in Request
    BY DEF Request
  <2> QED
    BY <2>1, RequestType DEF DriverState
<1>2. /\ p.ok \in BOOLEAN /\ p.cb \in BOOLEAN /\ p.size \in Nat
      /\ p.udc = UdcAfter(r, s.udc, s.addr)
      /\ p.cb => p.ok
      /\ p.cb <=> r.name = "SetAddress"
      /\ ~p.ok => Refuses(r)
      /\ p.ok /\ IsIn(r) => r.len > 0 /\ p.size = Expected(r, s.udc)
  <2>1. r.name = "SetAddress" => r.len = 0
    BY ControlAssumption
  <2> QED
    BY <1>1, <2>1, Answer DEF Refuses, Expected
<1>3. p.udc \in UdcType
  BY <1>1, <1>2, RequestOwns DEF Owned
<1>4. IsIn(r) => p.udc = s.udc
  <2>1. IsIn(r) => r.name # "SetConfiguration" /\ r.name # "SetInterface"
    BY DEF IsIn, Fixed
  <2> QED
    BY <1>2, <2>1 DEF UdcAfter
<1>5. p.cb => ~IsIn(r) /\ r.len = 0
  <2>1. r.name = "SetAddress" => ~IsIn(r) /\ r.len = 0
    BY ControlAssumption DEF IsIn, Fixed
  <2> QED
    BY <1>2, <2>1
<1>6. Accept(s, r) = CASE ~p.ok -> StallData(t)
                       [] p.ok /\ IsIn(r) -> InSent(reads)
                       [] p.ok /\ ~IsIn(r) /\ r.len = 0 -> SendZlpIn(t)
                       [] OTHER -> takes
  BY DEF Accept
<1> HIDE DEF p
<1>7. /\ t.ctrl = [s.ctrl EXCEPT !.req = r, !.size = p.size, !.cb = p.cb]
      /\ t.in = s.in /\ t.out = s.out /\ t.udc = p.udc /\ t.addr = s.addr /\ t.buserr = TRUE
  BY <1>1 DEF DriverState
<1>8. [s.ctrl EXCEPT !.req = r, !.size = p.size, !.cb = p.cb] \in CtrlType
  BY <1>1, <1>2 DEF CtrlType
<1>9. t \in DriverState
  <2>1. t = [s EXCEPT !.ctrl = [s.ctrl EXCEPT !.req = r, !.size = p.size, !.cb = p.cb],
                      !.udc = p.udc, !.buserr = TRUE]
    BY <1>1 DEF DriverState
  <2> QED
    BY <1>3, <1>8, <2>1 DEF DriverState
<1> HIDE DEF t
<1>10. t.ctrl.req = r /\ t.ctrl.size = p.size /\ t.ctrl.cb = p.cb /\ t.ctrl \in CtrlType
  BY <1>1, <1>2, <1>7, <1>8 DEF CtrlType
<1>11. /\ u.ctrl = [t.ctrl EXCEPT !.prev = 0, !.nb = 0] /\ u.ctrl \in CtrlType
       /\ u.ctrl.req = r /\ u.ctrl.size = p.size /\ u.ctrl.cb = p.cb
       /\ u.ctrl.prev = 0 /\ u.ctrl.nb = 0
       /\ u.in = t.in /\ u.out = t.out /\ u.udc = t.udc /\ u.addr = t.addr /\ u.buserr = TRUE
       /\ u \in DriverState
  <2>1. /\ u.ctrl = [t.ctrl EXCEPT !.prev = 0, !.nb = 0]
        /\ u.in = t.in /\ u.out = t.out /\ u.udc = t.udc /\ u.addr = t.addr
        /\ u.buserr = t.buserr
    BY <1>9, <1>10 DEF DriverState
  <2>2. [t.ctrl EXCEPT !.prev = 0, !.nb = 0] \in CtrlType
    BY <1>10 DEF CtrlType
  <2>3. /\ u.ctrl.req = r /\ u.ctrl.size = p.size /\ u.ctrl.cb = p.cb
        /\ u.ctrl.prev = 0 /\ u.ctrl.nb = 0
    BY <1>10, <2>1 DEF CtrlType
  <2>4. u = [t EXCEPT !.ctrl = [t.ctrl EXCEPT !.prev = 0, !.nb = 0]]
    BY <1>9, <1>10 DEF DriverState
  <2>5. u \in DriverState
    BY <1>9, <2>2, <2>4 DEF DriverState
  <2> QED
    BY <1>7, <2>1, <2>2, <2>3, <2>5
<1> HIDE DEF u
<1>12. CASE ~p.ok
  <2>1. Accept(s, r) = StallData(t)
    BY <1>6, <1>12
  <2>2. /\ StallData(t) \in DriverState
        /\ StallData(t).ctrl = [t.ctrl EXCEPT !.st = "STALL_REQ"]
        /\ StallData(t).in = [t.in EXCEPT !.stall = TRUE]
        /\ StallData(t).out = [t.out EXCEPT !.stall = TRUE]
        /\ StallData(t).udc = t.udc /\ StallData(t).addr = t.addr
        /\ StallData(t).buserr = t.buserr
    BY <1>9, StallFields
  <2> DEFINE d == StallData(t)
  <2> HIDE DEF d
  <2>3. d.ctrl.st = "STALL_REQ" /\ d.ctrl.req = r /\ d.ctrl.cb = p.cb
    BY <1>10, <2>2 DEF d, CtrlType
  <2>4. /\ d.in.nack = TRUE /\ d.in.tc = s.in.tc /\ d.in.unf = s.in.unf /\ d.in.stall = TRUE
    BY <1>1, <1>7, <2>2 DEF d, InType, Ready
  <2>5. /\ d.out.nack = TRUE /\ d.out.tc = s.out.tc /\ d.out.ovf = s.out.ovf
        /\ d.out.stall = TRUE
    BY <1>1, <1>7, <2>2 DEF d, OutType, Ready
  <2>6. Answered(r, d)
    BY <1>2, <1>12, <2>3, <2>4, <2>5 DEF Answered
  <2>7. d.ctrl.cb <=> r.name = "SetAddress"
    BY <1>2, <2>3
  <2>8. /\ d \in DriverState /\ d.udc = UdcAfter(r, s.udc, s.addr) /\ d.addr = s.addr
        /\ d.buserr = TRUE
    BY <1>2, <1>7, <2>2 DEF d
  <2> QED
    BY <2>1, <2>3, <2>4, <2>5, <2>6, <2>7, <2>8 DEF d
<1>13. CASE p.ok /\ IsIn(r)
  <2>1. Accept(s, r) = InSent(reads)
    BY <1>6, <1>13
  <2>2. /\ reads.ctrl = [u.ctrl EXCEPT !.st = "DATA_IN"]
        /\ reads.in = s.in /\ reads.out = s.out /\ reads.udc = s.udc /\ reads.addr = s.addr
        /\ reads.buserr = TRUE
    BY <1>4, <1>7, <1>11, <1>13 DEF DriverState
  <2>3. [u.ctrl EXCEPT !.st = "DATA_IN"] \in CtrlType
    BY <1>11 DEF CtrlType, States
  <2> HIDE DEF reads
  <2>4. /\ reads.ctrl.st = "DATA_IN" /\ reads.ctrl.req = r /\ reads.ctrl.size = p.size
        /\ reads.ctrl.cb = p.cb /\ reads.ctrl.prev = 0 /\ reads.ctrl.nb = 0
    BY <1>11, <2>2 DEF CtrlType
  <2>5. reads \in DriverState
    <3>1. reads = [u EXCEPT !.ctrl = [u.ctrl EXCEPT !.st = "DATA_IN"]]
      BY <1>11 DEF DriverState, reads
    <3> QED
      BY <1>11, <2>3, <3>1 DEF DriverState
  <2>6. r.len > 0 /\ reads.ctrl.size = Expected(r, reads.udc) /\ Ready(reads)
    BY <1>2, <1>13, <2>2, <2>4 DEF Ready
  <2>7. Keeps(reads, InSent(reads)) /\ Answered(r, InSent(reads))
    BY <1>1, <1>13, <2>4, <2>5, <2>6, FirstPacket
  <2>8. p.udc = s.udc /\ ~p.cb
    BY <1>4, <1>5, <1>13
  <2> QED
    BY <1>2, <2>1, <2>2, <2>4, <2>7, <2>8 DEF Keeps
<1>14. CASE p.ok /\ ~IsIn(r) /\ r.len = 0
  <2>1. Accept(s, r) = SendZlpIn(t)
    BY <1>6, <1>14
  <2>2. /\ SendZlpIn(t) \in DriverState
        /\ SendZlpIn(t).ctrl = [t.ctrl EXCEPT !.st = "WAIT_IN_ZLP"]
        /\ SendZlpIn(t).in = [t.in EXCEPT !.cnt = 0, !.nack = FALSE]
        /\ SendZlpIn(t).out = t.out /\ SendZlpIn(t).udc = t.udc
        /\ SendZlpIn(t).addr = t.addr /\ SendZlpIn(t).buserr = t.buserr
    BY <1>9, ZlpFields
  <2> DEFINE d == SendZlpIn(t)
  <2> HIDE DEF d
  <2>3. d.ctrl.st = "WAIT_IN_ZLP" /\ d.ctrl.req = r /\ d.ctrl.cb = p.cb
    BY <1>10, <2>2 DEF d, CtrlType
  <2>4. d.in.nack = FALSE /\ d.in.tc = s.in.tc /\ d.in.unf = s.in.unf /\ d.in.stall = FALSE
    BY <1>1, <1>7, <2>2 DEF d, InType, Ready
  <2>5. Answered(r, d)
    BY <1>7, <1>14, <2>2, <2>3, <2>4 DEF Answered, Ready, d
  <2> QED
    BY <1>2, <1>7, <2>1, <2>2, <2>3, <2>4, <2>5 DEF d
<1>15. CASE p.ok /\ ~IsIn(r) /\ r.len # 0
  <2>1. Accept(s, r) = takes
    BY <1>1, <1>6, <1>15
  <2>2. /\ takes.ctrl = [u.ctrl EXCEPT !.st = "DATA_OUT"]
        /\ takes.out = [u.out EXCEPT !.nack = FALSE]
        /\ takes.in = u.in /\ takes.udc = u.udc /\ takes.addr = u.addr
        /\ takes.buserr = u.buserr
    BY <1>11 DEF DriverState
  <2>3. /\ [u.ctrl EXCEPT !.st = "DATA_OUT"] \in CtrlType
        /\ [u.out EXCEPT !.nack = FALSE] \in OutType
    <3>1. u.out \in OutType
      BY <1>11 DEF DriverState
    <3> QED
      BY <1>11, <3>1 DEF CtrlType, States, OutType
  <2> HIDE DEF takes
  <2>4. takes.ctrl.st = "DATA_OUT" /\ takes.ctrl.req = r /\ takes.ctrl.cb = p.cb
    BY <1>11, <2>2 DEF CtrlType
  <2>5. /\ takes.out.nack = FALSE /\ takes.out.tc = s.out.tc /\ takes.out.ovf = s.out.ovf
        /\ takes.out.stall = FALSE
    BY <1>1, <1>7, <1>11, <2>2 DEF OutType, Ready
  <2>6. takes \in DriverState
    <3>1. takes = [u EXCEPT !.ctrl = [u.ctrl EXCEPT !.st = "DATA_OUT"],
                            !.out = [u.out EXCEPT !.nack = FALSE]]
      BY <1>11 DEF DriverState, takes
    <3> QED
      BY <1>11, <2>3, <3>1 DEF DriverState
  <2>7. r.len > 0
    BY <1>1, <1>15
  <2>8. Answered(r, takes)
    BY <1>7, <1>11, <1>15, <2>2, <2>4, <2>5, <2>7 DEF Answered, Ready
  <2>9. ~p.cb
    BY <1>5, <1>15
  <2> QED
    BY <1>2, <1>7, <1>11, <2>1, <2>2, <2>4, <2>5, <2>6, <2>8, <2>9
<1> QED
  BY <1>12, <1>13, <1>14, <1>15

LEMMA FinishFields ==
  ASSUME TypeOK, EndpointInv, UnservedInv, RequestInv, ErrorInv, isr = "setup"
  PROVE  LET t == FinishLast(State)
         IN  /\ t \in DriverState /\ Ready(t)
             /\ t.udc = udc /\ t.addr = IF ctrl.cb THEN ctrl.req.val ELSE addr
             /\ t.in.unf => IsIn(buf) \/ buf.len = 0
             /\ t.out.ovf => ~IsIn(buf) /\ buf.len > 0
<1> DEFINE t == FinishLast(State)
<1>1. /\ in \in InType /\ out \in OutType
      /\ in.nack = TRUE /\ out.nack = TRUE /\ in.stall = FALSE /\ out.stall = FALSE
      /\ out.tc = FALSE
  BY DEF UnservedInv, Unserved, EndpointInv, TypeOK, InType, OutType
<1>2. CASE ctrl.st = "SETUP"
  <2>1. t = State
    BY <1>2, StateType DEF FinishLast
  <2>2. in.tc = FALSE /\ ~ctrl.cb
    BY <1>1, <1>2 DEF EndpointInv, InBusy, RequestInv, InType
  <2>3. /\ in.unf => IsIn(buf) \/ buf.len = 0
        /\ out.ovf => ~IsIn(buf) /\ buf.len > 0
    BY <1>2 DEF ErrorInv
  <2> QED
    BY <1>1, <2>1, <2>2, <2>3, StateType DEF Ready
<1>3. CASE ctrl.st \in Waiting
  <2>1. t = Ended(State)
    BY <1>3, StateType DEF FinishLast, Waiting
  <2>2. /\ Ended(State) \in DriverState
        /\ Ended(State).in = Quieted(in) /\ Ended(State).out = Cleared(out)
        /\ Ended(State).udc = udc
        /\ Ended(State).addr = IF ctrl.cb THEN ctrl.req.val ELSE addr
    BY StateType, EndedFields
  <2>3. /\ Quieted(in).nack = TRUE /\ Quieted(in).tc = FALSE /\ Quieted(in).unf = FALSE
        /\ Quieted(in).stall = FALSE
    BY <1>1 DEF Quieted, InType
  <2>4. /\ Cleared(out).nack = TRUE /\ Cleared(out).tc = FALSE /\ Cleared(out).ovf = FALSE
        /\ Cleared(out).stall = FALSE
    BY <1>1 DEF Cleared, OutType
  <2> QED
    BY <2>1, <2>2, <2>3, <2>4 DEF Ready
<1>4. CASE ctrl.st # "SETUP" /\ ctrl.st \notin Waiting
  <2>1. t = CtrlInit(State)
    BY <1>4, StateType DEF FinishLast, Waiting
  <2>2. /\ CtrlInit(State) \in DriverState
        /\ CtrlInit(State).in = Quieted(in) /\ CtrlInit(State).out = Cleared(out)
        /\ CtrlInit(State).udc = udc /\ CtrlInit(State).addr = addr
    BY StateType, InitFields
  <2>3. /\ Quieted(in).nack = TRUE /\ Quieted(in).tc = FALSE /\ Quieted(in).unf = FALSE
        /\ Quieted(in).stall = FALSE
    BY <1>1 DEF Quieted, InType
  <2>4. /\ Cleared(out).nack = TRUE /\ Cleared(out).tc = FALSE /\ Cleared(out).ovf = FALSE
        /\ Cleared(out).stall = FALSE
    BY <1>1 DEF Cleared, OutType
  <2>5. ~ctrl.cb
    BY <1>4 DEF RequestInv, Waiting
  <2> QED
    BY <2>1, <2>2, <2>3, <2>4, <2>5 DEF Ready
<1> QED
  BY <1>2, <1>3, <1>4

Serves ==
  /\ addr' = IF ctrl.cb THEN ctrl.req.val ELSE addr
  /\ udc' = UdcAfter(buf, udc, addr')
  /\ ctrl'.req = buf /\ buserr' = TRUE
  /\ ctrl'.cb <=> buf.name = "SetAddress"
  /\ in'.tc = FALSE /\ out'.tc = FALSE
  /\ in'.unf => IsIn(buf) \/ buf.len = 0
  /\ out'.ovf => ~IsIn(buf) /\ buf.len > 0
  /\ Answered(buf, State')

LEMMA SetupWorkEffect ==
  ASSUME TypeOK, EndpointInv, UnservedInv, RequestInv, ErrorInv, CoreInv, SetupWork
  PROVE  /\ isr = "setup" /\ isr' = "none" /\ UNCHANGED <<flags, fifo, setupif, buf, host>>
         /\ buf \in Requests
         /\ Typed /\ Serves
<1> DEFINE s == FinishLast(State)
           t == Accept(s, buf)
<1>1. /\ isr = "setup" /\ isr' = "none" /\ UNCHANGED <<flags, fifo, setupif, buf, host>>
      /\ Becomes(t)
  BY DEF SetupWork, Work, SetupReceived
<1>2. /\ ctrl' = t.ctrl /\ in' = t.in /\ out' = t.out /\ udc' = t.udc /\ buserr' = t.buserr
      /\ addr' = t.addr
  BY <1>1 DEF Becomes
<1>3. buf \in Requests
  BY <1>1 DEF UnservedInv, Unserved
<1>4. /\ s \in DriverState /\ Ready(s)
      /\ s.udc = udc /\ s.addr = IF ctrl.cb THEN ctrl.req.val ELSE addr
      /\ s.in.unf => IsIn(buf) \/ buf.len = 0
      /\ s.out.ovf => ~IsIn(buf) /\ buf.len > 0
  BY <1>1, FinishFields
<1> HIDE DEF s
<1>5. Owned(s.udc)
  BY <1>4 DEF CoreInv, Owned, TypeOK
<1>6. /\ t \in DriverState
      /\ t.ctrl.req = buf /\ t.udc = UdcAfter(buf, s.udc, s.addr) /\ t.addr = s.addr
      /\ t.buserr = TRUE
      /\ t.in.tc = s.in.tc /\ t.in.unf = s.in.unf
      /\ t.out.tc = s.out.tc /\ t.out.ovf = s.out.ovf
      /\ t.ctrl.cb <=> buf.name = "SetAddress"
      /\ Answered(buf, t)
  BY <1>3, <1>4, <1>5, AcceptFields
<1> HIDE DEF t
<1>7. Typed
  BY <1>2, <1>6 DEF Typed, DriverState
<1>8. Answered(buf, State')
  BY <1>2, <1>6 DEF Answered, State
<1>9. Serves
  BY <1>2, <1>4, <1>6, <1>8 DEF Serves, Ready
<1> QED
  BY <1>1, <1>3, <1>7, <1>9

\* The bus reset puts everything but what has been queued back to the start.
Resets ==
  /\ ctrl'.st = "SETUP" /\ ctrl'.cb = FALSE /\ ctrl'.req = ctrl.req
  /\ in'.nack = TRUE /\ in'.tc = FALSE
  /\ in'.unf = FALSE /\ in'.stall = FALSE
  /\ out'.nack = TRUE /\ out'.tc = FALSE /\ out'.ovf = FALSE /\ out'.stall = FALSE
  /\ buserr' = FALSE /\ udc' = UdcReset(udc) /\ addr' = 0

LEMMA ResetEffect ==
  ASSUME TypeOK, CoreInv, ResetEvent
  PROVE  /\ isr = "none" /\ "rst" \in flags /\ flags' = flags \ {"rst"}
         /\ UNCHANGED <<fifo, setupif, isr, buf, host>>
         /\ Typed /\ Resets
<1> DEFINE s == [State EXCEPT !.udc = UdcReset(udc), !.addr = 0, !.in = Ep0In, !.out = Ep0Out]
           t == CtrlInit(s)
<1>1. /\ BusRuns("rst") /\ Becomes(t) /\ UNCHANGED <<fifo, setupif, isr, buf, host>>
  BY DEF ResetEvent
<1>2. isr = "none" /\ "rst" \in flags /\ flags' = flags \ {"rst"}
  BY <1>1 DEF BusRuns, ServesFirst
<1>3. /\ ctrl' = t.ctrl /\ in' = t.in /\ out' = t.out /\ udc' = t.udc /\ buserr' = t.buserr
      /\ addr' = t.addr
  BY <1>1 DEF Becomes
<1>4. UdcReset(udc) \in UdcType
  BY ResetFrees DEF CoreInv, TypeOK, Owned
<1>5. Ep0In \in InType /\ Ep0Out \in OutType
  BY UdcAssumption DEF Ep0In, Ep0Out, InType, OutType, Packet
<1>6. /\ s \in DriverState /\ s.ctrl = ctrl /\ s.in = Ep0In /\ s.out = Ep0Out
      /\ s.udc = UdcReset(udc) /\ s.addr = 0
  BY <1>4, <1>5, StateType DEF DriverState
<1> HIDE DEF s
<1>7. /\ t \in DriverState
      /\ t.ctrl = Closed(ctrl) /\ t.in = Quieted(Ep0In) /\ t.out = Cleared(Ep0Out)
      /\ t.udc = UdcReset(udc) /\ t.addr = 0 /\ t.buserr = FALSE
  BY <1>6, InitFields
<1> HIDE DEF t
<1>8. Typed
  BY <1>3, <1>7 DEF Typed, DriverState
<1>9. ctrl'.st = "SETUP" /\ ctrl'.cb = FALSE /\ ctrl'.req = ctrl.req
  BY <1>3, <1>7 DEF Closed, TypeOK, CtrlType
<1>10. /\ in'.nack = TRUE /\ in'.tc = FALSE /\ in'.unf = FALSE /\ in'.stall = FALSE
  BY <1>3, <1>7 DEF Quieted, Ep0In
<1>11. out'.nack = TRUE /\ out'.tc = FALSE /\ out'.ovf = FALSE /\ out'.stall = FALSE
  BY <1>3, <1>7 DEF Cleared, Ep0Out
<1> QED
  BY <1>1, <1>2, <1>3, <1>7, <1>8, <1>9, <1>10, <1>11 DEF Resets
=============================================================================
