-------------------------- MODULE Fw1DeviceProofs --------------------------
(***************************************************************************)
(* Fw1Control implements ControlDevice, for every set of requests and      *)
(* addresses and every packet size: which action of ControlDevice each     *)
(* step is, or that it is none.                                            *)
(***************************************************************************)
EXTENDS Fw1InvariantProofs

\* A step that ControlDevice does not see.
Same == UNCHANGED <<Transfer, Pending, udc, addr, host.addr, Unsure, Live>>

\* An address that is known to both sides, or has never been asked for.
LEMMA NotUnsure ==
  ASSUME ~Live \/ ~ctrl.cb \/ (host.stage # "idle" /\ ~Unserved)
  PROVE  Unsure = {}
  BY DEF Unsure

(***************************************************************************)
(* What udc_process_setup makes of a request, and the reset's handler of   *)
(* the configuration, comes to what ControlDevice is told of them.         *)
(***************************************************************************)

LEMMA UdcEqual ==
  ASSUME NEW v \in UdcType, NEW w \in UdcType,
         v.conf = w.conf, v.alt = w.alt, v.eps <=> w.eps
  PROVE  v = w
<1>1. v.eps = w.eps
  BY DEF UdcType
<1> QED
  BY <1>1 DEF UdcType

\* What a reset or a disabled setting leaves.
LEMMA Freed ==
  ASSUME NEW u, Owned(u)
  PROVE  /\ UdcReset(u) \in UdcType
         /\ UdcReset(u).conf = 0 /\ UdcReset(u).alt = u.alt /\ ~UdcReset(u).eps
<1>1. u \in UdcType /\ UdcReset(u) \in UdcType /\ ~UdcReset(u).eps
  BY ResetFrees DEF Owned
<1>2. CASE u.conf = 0
  BY <1>1, <1>2 DEF UdcReset, UdcType
<1>3. CASE u.conf # 0
  <2>1. IfaceDisable(u) \in UdcType /\ IfaceDisable(u).alt = u.alt
    BY DisableFrees
  <2> QED
    BY <1>1, <1>3, <2>1 DEF UdcReset, UdcType
<1> QED
  BY <1>1, <1>2, <1>3

\* Enabling a setting where no endpoint is in use.
LEMMA Enabled ==
  ASSUME NEW w \in UdcType, ~w.eps, NEW v \in Nat
  PROVE  /\ IfaceEnable(w, v) \in UdcType
         /\ IfaceEnable(w, v).conf = w.conf
         /\ IfaceEnable(w, v).alt = IF v <= 1 THEN v ELSE w.alt
         /\ IfaceEnable(w, v).eps <=> v = 1
<1> DEFINE eps == w.eps \/ v = 1
<1>1. CASE v \in {0, 1}
  <2>1. IfaceEnable(w, v) = [w EXCEPT !.alt = v, !.eps = eps]
    BY <1>1 DEF IfaceEnable, CanEnable
  <2>2. eps \in BOOLEAN /\ (eps <=> v = 1)
    OBVIOUS
  <2> HIDE DEF eps
  <2>3. v <= 1
    BY <1>1
  <2> QED
    BY <1>1, <2>1, <2>2, <2>3 DEF UdcType
<1>2. CASE v \notin {0, 1}
  BY <1>2 DEF IfaceEnable, CanEnable
<1> QED
  BY <1>1, <1>2

LEMMA EffectFields ==
  ASSUME NEW u \in UdcType, NEW r, r.val \in Nat, NEW a
  PROVE  /\ r.name = "SetConfiguration" /\ r.val <= 1 /\ a # 0 =>
              /\ EffectOf(r, u, a) \in UdcType
              /\ EffectOf(r, u, a).conf = r.val
              /\ EffectOf(r, u, a).alt = IF r.val = 1 THEN 0 ELSE u.alt
              /\ ~EffectOf(r, u, a).eps
         /\ r.name = "SetInterface" /\ u.conf # 0 =>
              /\ EffectOf(r, u, a) \in UdcType
              /\ EffectOf(r, u, a).conf = u.conf
              /\ EffectOf(r, u, a).alt = IF r.val <= 1 THEN r.val ELSE u.alt
              /\ EffectOf(r, u, a).eps <=> r.val = 1
<1>1. ASSUME r.name = "SetConfiguration", r.val <= 1, a # 0
      PROVE  /\ EffectOf(r, u, a) \in UdcType
             /\ EffectOf(r, u, a).conf = r.val
             /\ EffectOf(r, u, a).alt = IF r.val = 1 THEN 0 ELSE u.alt
             /\ ~EffectOf(r, u, a).eps
  <2>1. EffectOf(r, u, a) =
          [conf |-> r.val, alt |-> IF r.val = 1 THEN 0 ELSE u.alt, eps |-> FALSE]
    BY <1>1 DEF EffectOf
  <2>2. r.val \in {0, 1} /\ u.alt \in {0, 1}
    BY <1>1 DEF UdcType
  <2> QED
    BY <2>1, <2>2 DEF UdcType
<1>2. ASSUME r.name = "SetInterface", u.conf # 0
      PROVE  /\ EffectOf(r, u, a) \in UdcType
             /\ EffectOf(r, u, a).conf = u.conf
             /\ EffectOf(r, u, a).alt = IF r.val <= 1 THEN r.val ELSE u.alt
             /\ EffectOf(r, u, a).eps <=> r.val = 1
  <2>1. EffectOf(r, u, a) =
          [u EXCEPT !.alt = IF r.val <= 1 THEN r.val ELSE @, !.eps = r.val = 1]
    BY <1>2 DEF EffectOf
  <2> DEFINE alt == IF r.val <= 1 THEN r.val ELSE u.alt
             eps == r.val = 1
  <2>2. alt \in {0, 1} /\ eps \in BOOLEAN
    BY DEF UdcType
  <2>3. EffectOf(r, u, a) = [u EXCEPT !.alt = alt, !.eps = eps]
    BY <2>1
  <2>4. alt = (IF r.val <= 1 THEN r.val ELSE u.alt) /\ (eps <=> r.val = 1)
    OBVIOUS
  <2> HIDE DEF alt, eps
  <2> QED
    BY <2>2, <2>3, <2>4 DEF UdcType
<1> QED
  BY <1>1, <1>2

LEMMA UdcEffect ==
  ASSUME NEW u, Owned(u), NEW r \in Requests, NEW a
  PROVE  UdcAfter(r, u, a) = EffectOf(r, u, a)
<1>1. /\ r.val \in Nat /\ u \in UdcType
      /\ r.name \in {"SetConfiguration", "SetInterface"} => r.len = 0
  BY RequestType, ControlAssumption DEF Request, Owned
<1>2. CASE r.name = "SetConfiguration" /\ r.val <= 1 /\ a # 0
  <2> DEFINE v == [UdcReset(u) EXCEPT !.conf = 1]
  <2>1. UdcAfter(r, u, a) = SetConfiguration(u, r.val)
    BY <1>1, <1>2 DEF UdcAfter, ConfigurationAllowed
  <2>2. v \in UdcType /\ v.conf = 1 /\ v.alt = u.alt /\ ~v.eps
    BY Freed DEF UdcType
  <2>3. CASE r.val = 0
    <3>1. UdcAfter(r, u, a) = UdcReset(u)
      BY <2>1, <2>3 DEF SetConfiguration
    <3> QED
      BY <1>1, <1>2, <2>3, <3>1, Freed, EffectFields, UdcEqual
  <2>4. CASE r.val = 1
    <3>1. UdcAfter(r, u, a) = IfaceEnable(v, 0)
      BY <2>1, <2>4 DEF SetConfiguration
    <3> HIDE DEF v
    <3> QED
      BY <1>1, <1>2, <2>2, <2>4, <3>1, Enabled, EffectFields, UdcEqual
  <2> QED
    BY <1>1, <1>2, <2>3, <2>4
<1>3. CASE r.name = "SetInterface" /\ u.conf # 0
  <2>1. UdcAfter(r, u, a) = IfaceEnable(IfaceDisable(u), r.val)
    BY <1>1, <1>3 DEF UdcAfter, SetInterface, InterfaceAllowed
  <2> QED
    BY <1>1, <1>3, <2>1, DisableFrees, Enabled, EffectFields, UdcEqual
<1>4. CASE /\ ~(r.name = "SetConfiguration" /\ r.val <= 1 /\ a # 0)
           /\ ~(r.name = "SetInterface" /\ u.conf # 0)
  <2>1. EffectOf(r, u, a) = u
    BY <1>4 DEF EffectOf
  <2>2. UdcAfter(r, u, a) = u
    BY <1>4 DEF UdcAfter, ConfigurationAllowed, InterfaceAllowed
  <2> QED
    BY <2>1, <2>2
<1> QED
  BY <1>2, <1>3, <1>4

LEMMA UdcUnconfigured ==
  ASSUME NEW u, Owned(u)
  PROVE  UdcReset(u) = Unconfigure(u)
<1>1. /\ Unconfigure(u) \in UdcType
      /\ Unconfigure(u).conf = 0 /\ Unconfigure(u).alt = u.alt /\ ~Unconfigure(u).eps
  BY DEF Unconfigure, Owned, UdcType
<1> QED
  BY <1>1, Freed, UdcEqual

\* A request that is only refused is stalled at once.
LEMMA NeverAnswered ==
  ASSUME NEW r, NEW s \in DriverState, Never(r), Accept(s, r).ctrl.st # "STALL_REQ",
         Accept(s, r) \in DriverState
  PROVE  FALSE
<1> DEFINE p == ProcessSetup(r, s.udc, s.addr)
           t == [s EXCEPT !.ctrl.req = r, !.ctrl.size = p.size, !.ctrl.cb = p.cb,
                          !.udc = p.udc, !.buserr = TRUE]
<1>1. ~p.ok
  BY DEF Never, ProcessSetup, Standard, OtherRequests, Fixed
<1>2. Accept(s, r) = StallData(t)
  BY <1>1 DEF Accept
<1>3. StallData(t).ctrl.st = "STALL_REQ"
  BY DEF StallData, StallBoth, DriverState, CtrlType
<1> QED
  BY <1>2, <1>3

(***************************************************************************)
(* The value a read has brought the host is still in force.                *)
(***************************************************************************)

LEMMA SetupWorkFresh ==
  ASSUME IInv, FreshInv, SetupWork
  PROVE  FreshInv'
<1> DEFINE s == FinishLast(State)
<1>1. /\ isr = "setup" /\ UNCHANGED host /\ buf \in Requests /\ Typed /\ ctrl'.req = buf
  BY SetupWorkEffect DEF IInv, Serves
<1>2. InTransfer => Live /\ host.got = 0
  BY <1>1 DEF IInv, PendingInv, Unserved, CoreInv, InTransfer
<1>3. InTransfer => host.val = 0
  BY <1>2 DEF FreshInv
<1>4. ctrl'.st # "STALL_REQ" => ~Never(buf)
  <2>1. s \in DriverState /\ Ready(s) /\ s.udc = udc
    BY <1>1, FinishFields DEF IInv
  <2>2. ctrl' = Accept(s, buf).ctrl
    BY DEF SetupWork, Work, SetupReceived, Becomes
  <2> HIDE DEF s
  <2>3. Accept(s, buf) \in DriverState
    BY <1>1, <2>1, AcceptFields DEF IInv, CoreInv, Owned, TypeOK
  <2> QED
    BY <1>1, <2>1, <2>2, <2>3, NeverAnswered
<1> QED
  BY <1>1, <1>2, <1>3, <1>4 DEF FreshInv, InTransfer

LEMMA HandlersFresh ==
  ASSUME IInv, FreshInv, Trncompl \/ Busevent
  PROVE  FreshInv'
<1> USE DEF IInv
<1>1. CASE TrnComplete \/ TakeSetup \/ Line
  BY <1>1 DEF TrnComplete, TakeSetup, Line, FreshInv, InTransfer, devVars
<1>2. CASE SetupWork
  BY <1>2, SetupWorkFresh
<1>3. CASE InWork
  <2>1. UNCHANGED <<host, udc>> /\ ctrl'.req = ctrl.req
        /\ (ctrl'.st = "SETUP" \/ ctrl.st = "DATA_IN")
    BY <1>3, InWorkEffect DEF Ending, Sends, AwaitsOut
  <2> QED
    BY <2>1 DEF FreshInv, InTransfer
<1>4. CASE OutWork
  <2>1. UNCHANGED <<host, udc>> /\ ctrl'.st \in {"SETUP", "WAIT_IN_ZLP"}
    BY <1>4, OutWorkEffect DEF Ending, AwaitsIn
  <2> QED
    BY <2>1 DEF FreshInv, InTransfer
<1>5. CASE UnderflowEvent \/ OverflowEvent
  <2>1. UNCHANGED <<host, udc, ctrl>>
    BY <1>5, UnderflowEffect, OverflowEffect DEF ErrorEffect, Stalls, devVars
  <2> QED
    BY <2>1 DEF FreshInv, InTransfer
<1>6. CASE ResetEvent
  <2>1. UNCHANGED host /\ ~Live /\ ctrl'.st = "SETUP"
    BY <1>6, ResetEffect DEF Resets, Live
  <2> QED
    BY <2>1 DEF FreshInv, InTransfer, CoreInv
<1> QED
  BY <1>1, <1>2, <1>3, <1>4, <1>5, <1>6 DEF Trncompl, Busevent

\* A packet of an answer carries the value that is in force.
LEMMA HostInFresh ==
  ASSUME IInv, FreshInv, HostIn
  PROVE  FreshInv'
<1>1. /\ Hears /\ InTransfer /\ ~Unserved /\ ~in.nack /\ ctrl.st \in {"DATA_IN", "WAIT_IN_ZLP"}
      /\ UNCHANGED <<ctrl, udc>>
  BY InTaken
<1>2. host \in HostType /\ host.req = ctrl.req /\ Match /\ in.cnt \in Nat /\ host.got \in Nat
  BY <1>1, Serving, UdcAssumption DEF IInv, TypeOK, InType, Packet, HostType
<1>3. CASE host.stage = "status_in"
  BY <1>1, <1>2, <1>3, ConcludeFields, Serving DEF HostIn, FreshInv, InTransfer, IInv
<1>4. CASE host.stage = "data_in"
  <2>1. ctrl.st = "DATA_IN"
    BY <1>1, <1>2, <1>4 DEF Match, IInv, RequestInv
  <2>2. IsIn(host.req)
    BY <1>2, <2>1 DEF IInv, RequestInv
  <2>3. /\ host'.got = host.got + in.cnt /\ host'.req = host.req
        /\ host'.val = IF in.cnt = 0 THEN host.val ELSE Value
    BY <1>2, <1>4 DEF HostIn, HostType
  <2>4. Value = ValueOf(host.req, udc)
    BY <1>2 DEF Value, ValueOf
  <2>5. host'.val = IF host'.got > 0 THEN ValueOf(host.req, udc) ELSE 0
    BY <1>1, <1>2, <2>2, <2>3, <2>4 DEF FreshInv
  <2> QED
    BY <1>1, <2>2, <2>3, <2>5 DEF FreshInv
<1> QED
  BY <1>3, <1>4 DEF HostIn

LEMMA HostOutFresh ==
  ASSUME IInv, FreshInv, HostOut
  PROVE  FreshInv'
<1>1. /\ Hears /\ InTransfer /\ ~Unserved /\ ~out.nack
      /\ ctrl.st \in {"DATA_OUT", "WAIT_OUT_ZLP"} /\ UNCHANGED <<ctrl, udc>>
  BY OutTaken
<1>2. host \in HostType /\ host.req = ctrl.req /\ Match
  BY <1>1, Serving DEF IInv, TypeOK
<1>3. CASE host.stage = "status_out"
  BY <1>1, <1>2, <1>3, ConcludeFields, Serving DEF HostOut, FreshInv, InTransfer, IInv
<1>4. CASE host.stage = "data_out"
  <2>1. ~IsIn(host.req)
    BY <1>1, <1>2, <1>4 DEF Match, IInv, RequestInv
  <2>2. host'.req = host.req /\ host'.val = host.val
    BY <1>2, <1>4 DEF HostOut, HostType
  <2> QED
    BY <1>1, <2>1, <2>2 DEF FreshInv
<1> QED
  BY <1>3, <1>4 DEF HostOut

LEMMA HostFresh ==
  ASSUME IInv, FreshInv, Host
  PROVE  FreshInv'
<1> USE DEF IInv
<1>1. ASSUME NEW r \in Requests, HostSetup(r) PROVE FreshInv'
  <2> DEFINE h == [host EXCEPT !.stage = First(r), !.req = r, !.got = 0, !.val = 0, !.of = r]
  <2>1. h \in HostType /\ h.got = 0 /\ h.val = 0
    BY DEF TypeOK, HostType, First, Stages, Request
  <2>2. host' = Learn(h, r)
    BY <1>1 DEF HostSetup, First
  <2> HIDE DEF h
  <2>3. host'.got = 0 /\ host'.val = 0
    BY <2>1, <2>2, LearnFields
  <2> QED
    BY <1>1, <2>3 DEF FreshInv, HostSetup
<1>2. CASE HostStalled \/ HostAbandon \/ HostReset
  <2>1. UNCHANGED ctrl /\ host'.stage \in {"stalled", "idle"}
    BY <1>2 DEF HostStalled, HostAbandon, HostReset, Forgets, devVars, TypeOK, HostType
  <2> QED
    BY <2>1 DEF FreshInv, InTransfer
<1>3. CASE HostNakked \/ BusFlag \/ BulkNak \/ BulkComplete
  BY <1>3 DEF HostNakked, BusFlag, BulkNak, BulkComplete, devVars, FreshInv, InTransfer
<1> QED
  BY <1>1, <1>2, <1>3, HostInFresh, HostOutFresh DEF Host

LEMMA FreshStep == IInv /\ FreshInv /\ [Next]_vars => FreshInv'
<1>1. ASSUME FreshInv, UNCHANGED vars PROVE FreshInv'
  BY <1>1 DEF vars, devVars, FreshInv, InTransfer
<1> QED
  BY <1>1, HandlersFresh, HostFresh DEF Next

(***************************************************************************)
(* The handlers: a SETUP takes effect as udc_process_setup sees it, the    *)
(* end of a request may move the address, and the rest shows nothing.      *)
(***************************************************************************)

LEMMA TransferKeeps == UNCHANGED host => UNCHANGED <<Transfer, host.addr>>
  BY DEF Transfer, InTransfer, Got

LEMMA EnteringSame ==
  ASSUME IInv, TrnComplete \/ TakeSetup \/ Line \/ UnderflowEvent \/ OverflowEvent
  PROVE  Same
<1> USE DEF IInv
<1>1. /\ UNCHANGED <<ctrl, udc, addr, buf, host>> /\ (Unserved' <=> Unserved) /\ Live' = Live
  <2>1. CASE TrnComplete \/ TakeSetup
    BY <2>1 DEF TrnComplete, TakeSetup, TrnRuns, AckSetup, Unserved, Live, TypeOK, devVars
  <2>2. CASE Line
    BY <2>2 DEF Line, BusRuns, Unserved, Live, devVars
  <2>3. CASE UnderflowEvent
    <3>1. ErrorEffect("unf", in.unf, "WAIT_OUT_ZLP")
      BY <2>3, UnderflowEffect
    <3>2. Live' = Live /\ UNCHANGED <<buf, host>> /\ isr = "none"
      BY <3>1 DEF ErrorEffect, Live
    <3>3. UNCHANGED <<ctrl, udc, addr>>
      BY <3>1 DEF ErrorEffect, Stalls, devVars
    <3>4. Unserved' <=> Unserved
      BY <3>1 DEF ErrorEffect, Unserved, TypeOK
    <3> QED
      BY <3>2, <3>3, <3>4
  <2>4. CASE OverflowEvent
    <3>1. ErrorEffect("ovf", out.ovf, "WAIT_IN_ZLP")
      BY <2>4, OverflowEffect
    <3>2. Live' = Live /\ UNCHANGED <<buf, host>> /\ isr = "none"
      BY <3>1 DEF ErrorEffect, Live
    <3>3. UNCHANGED <<ctrl, udc, addr>>
      BY <3>1 DEF ErrorEffect, Stalls, devVars
    <3>4. Unserved' <=> Unserved
      BY <3>1 DEF ErrorEffect, Unserved, TypeOK
    <3> QED
      BY <3>2, <3>3, <3>4
  <2> QED
    BY <2>1, <2>2, <2>3, <2>4
<1> QED
  BY <1>1, TransferKeeps DEF Same, Pending, Unsure

\* An address that the driver is to take over is one a host may assign.
LEMMA CallbackAddress ==
  ASSUME IInv, ctrl.cb
  PROVE  ctrl.req.val \in Address
<1>1. ctrl.req \in Requests /\ ctrl.req.name = "SetAddress"
  BY DEF IInv, RequestInv
<1> QED
  BY <1>1, ControlAssumption

LEMMA SetupTakesEffect ==
  ASSUME IInv, SetupWork
  PROVE  Device!TakeEffect
<1> USE DEF IInv
<1>1. /\ isr = "setup" /\ isr' = "none" /\ UNCHANGED <<flags, setupif, buf, host>>
      /\ buf \in Requests
      /\ addr' = (IF ctrl.cb THEN ctrl.req.val ELSE addr)
      /\ udc' = UdcAfter(buf, udc, addr')
  BY SetupWorkEffect DEF Serves
<1>2. Unserved /\ ~Unserved' /\ Live' = Live
  BY <1>1 DEF UnservedInv, Unserved, Live
<1>3. Pending = buf /\ Pending' = NoRequest /\ buf # NoRequest
  BY <1>1, <1>2, ControlAssumption DEF Pending, NoRequest, Req
<1>4. UNCHANGED <<Transfer, host.addr>>
  BY <1>1, TransferKeeps
<1>5. Unsure' = {}
  BY <1>1, <1>2 DEF Unsure, PendingInv, First
<1>6. addr' \in Device!AddressDue(Unsure \cup {addr})
  BY <1>1, <1>2, CallbackAddress DEF Device!AddressDue, Unsure
<1>7. udc' = EffectOf(Pending, udc, addr')
  BY <1>1, <1>3, UdcEffect DEF CoreInv, Owned, TypeOK
<1> QED
  BY <1>2, <1>3, <1>4, <1>5, <1>6, <1>7 DEF Device!TakeEffect

LEMMA InWorkFollows ==
  ASSUME IInv, InWork
  PROVE  Device!Follow \/ Same
<1> USE DEF IInv
<1>1. /\ isr = "in" /\ isr' = "none" /\ UNCHANGED <<flags, setupif, buf, host>>
      /\ \/ ctrl.st = "WAIT_IN_ZLP" /\ Ending
         \/ Sends \/ AwaitsOut
  BY InWorkEffect
<1>2. InBusy /\ Unserved' = Unserved /\ Live' = Live /\ UNCHANGED <<Transfer, host.addr, Pending>>
  BY <1>1, TransferKeeps DEF InBusy, Unserved, Live, Pending
<1>3. CASE Sends \/ AwaitsOut
  BY <1>1, <1>2, <1>3 DEF Sends, AwaitsOut, Same, Unsure
<1>4. CASE Ending
  <2>1. ctrl'.cb = FALSE /\ udc' = udc /\ addr' = IF ctrl.cb THEN ctrl.req.val ELSE addr
    BY <1>4 DEF Ending
  <2>2. Unsure = {}
    <3>1. Live /\ host.stage = "idle" => FALSE
      BY <1>1 DEF HostInv, Idle
    <3>2. Live /\ ctrl.cb /\ Unserved => ctrl.req.val = addr
      BY <1>2 DEF PendingInv, AddressInv
    <3> QED
      BY <3>1, <3>2 DEF Unsure
  <2>3. Unsure' = {}
    BY <2>1 DEF Unsure
  <2>4. CASE ctrl.cb
    <3>1. Live => addr' = host.addr
      BY <1>2, <2>1, <2>4 DEF AddressInv
    <3>2. addr' \in Device!AddressDue({host.addr})
      BY <2>1, <2>4, <3>1, CallbackAddress DEF Device!AddressDue
    <3> QED
      BY <1>2, <2>1, <2>2, <2>3, <3>2 DEF Device!Follow
  <2>5. CASE ~ctrl.cb
    BY <1>2, <2>1, <2>2, <2>3, <2>5 DEF Same
  <2> QED
    BY <2>4, <2>5
<1> QED
  BY <1>1, <1>3, <1>4

LEMMA OutWorkSame ==
  ASSUME IInv, OutWork
  PROVE  Same
<1> USE DEF IInv
<1>1. /\ isr = "out" /\ isr' = "none" /\ UNCHANGED <<flags, setupif, buf, host>>
      /\ \/ ctrl.st = "WAIT_OUT_ZLP" /\ Ending
         \/ AwaitsIn
  BY OutWorkEffect
<1>2. Unserved' = Unserved /\ Live' = Live /\ UNCHANGED <<Transfer, host.addr, Pending>>
  BY <1>1, TransferKeeps DEF Unserved, Live, Pending
<1>3. CASE AwaitsIn
  BY <1>1, <1>2, <1>3 DEF AwaitsIn, Same, Unsure
<1>4. CASE ctrl.st = "WAIT_OUT_ZLP" /\ Ending
  <2>1. ~ctrl.cb /\ ctrl'.cb = FALSE /\ udc' = udc /\ addr' = addr
    BY <1>4 DEF Ending, RequestInv
  <2> QED
    BY <1>2, <2>1 DEF Same, Unsure
<1> QED
  BY <1>1, <1>3, <1>4

LEMMA ResetServes ==
  ASSUME IInv, ResetEvent
  PROVE  Device!ServeReset
<1> USE DEF IInv
<1>1. /\ isr = "none" /\ "rst" \in flags /\ flags' = flags \ {"rst"}
      /\ UNCHANGED <<setupif, isr, buf, host>> /\ Resets
  BY ResetEffect
<1>2. ~Live /\ Live' /\ ~Unserved /\ ~Unserved'
  BY <1>1 DEF Live, Unserved, UnservedInv
<1>3. Pending' = NoRequest
  BY <1>2 DEF Pending
<1>4. UNCHANGED <<Transfer, host.addr>>
  BY <1>1, TransferKeeps
<1>5. Unsure = {} /\ Unsure' = {}
  BY <1>1, <1>2 DEF Unsure, Resets
<1>6. udc' = Unconfigure(udc) /\ addr' = 0
  BY <1>1, UdcUnconfigured DEF Resets, CoreInv, Owned, TypeOK
<1> QED
  BY <1>2, <1>3, <1>4, <1>5, <1>6 DEF Device!ServeReset

(***************************************************************************)
(* The host: what it begins, concludes, sees refused or gives up.          *)
(***************************************************************************)

LEMMA BeginStep ==
  ASSUME IInv, NEW r \in Requests, HostSetup(r)
  PROVE  Device!Begin(r)
<1> USE DEF IInv
<1>1. /\ Live /\ host.addr = addr /\ ~InTransfer /\ host.stage # "detached"
      /\ setupif' = TRUE /\ buf' = r /\ UNCHANGED <<ctrl, udc, addr, flags>>
  BY DEF HostSetup, Hears, Live
<1>2. host'.stage = First(r) /\ host'.req = r /\ host'.addr = host.addr
  <2> DEFINE h == [host EXCEPT !.stage = First(r), !.req = r, !.got = 0, !.val = 0, !.of = r]
  <2>1. h \in HostType /\ h.stage = First(r) /\ h.req = r /\ h.addr = host.addr
    BY DEF TypeOK, HostType, First, Stages, Request
  <2>2. host' = Learn(h, r)
    BY DEF HostSetup, First
  <2> HIDE DEF h
  <2> QED
    BY <2>1, <2>2, LearnFields
<1>3. ~Unserved /\ Unserved' /\ Live' = Live
  BY <1>1 DEF Unserved, Live, PendingInv, First, InTransfer
<1>4. Pending' = r
  BY <1>1, <1>3 DEF Pending
<1>5. Transfer' = [stage |-> "open", req |-> r, got |-> NoRequest]
  BY <1>2 DEF Transfer, InTransfer, First
<1>6. Transfer.stage # "open"
  BY <1>1 DEF Transfer
<1>7. Unsure' = Unsure
  <2>1. ctrl.cb /\ host.stage # "idle" => ctrl.req.val = addr
    <3>1. CASE host.stage = "done"
      BY <1>1, <3>1 DEF HostInv, RequestInv, AddressInv
    <3>2. CASE host.stage = "stalled"
      BY <3>2, ControlAssumption DEF HostInv, StallInv, RequestInv
    <3> QED
      BY <1>1, <3>1, <3>2 DEF InTransfer, TypeOK, HostType, Stages
  <2>2. Unsure' = IF ctrl.cb THEN {ctrl.req.val} \ {addr} ELSE {}
    BY <1>1, <1>3 DEF Unsure
  <2>3. Unsure = IF ctrl.cb /\ host.stage = "idle" THEN {ctrl.req.val} \ {addr} ELSE {}
    BY <1>1, <1>3 DEF Unsure
  <2> QED
    BY <2>1, <2>2, <2>3
<1> QED
  BY <1>1, <1>2, <1>3, <1>4, <1>5, <1>6, <1>7
     DEF Device!Begin, Device!Heard, Device!Open, Device!Transfer

\* What a status packet of either direction concludes.
LEMMA Concludes ==
  ASSUME IInv, Live, host.addr = addr, InTransfer, ~Unserved, ~Unserved', Live',
         UNCHANGED <<ctrl, udc, addr>>, host' = Conclude(host), ~Never(host.req),
         Got' = AnswerTo(host.req, udc), host.req \in Requests
  PROVE  Device!Complete
<1>1. /\ host'.stage = "done" /\ host'.req = host.req
      /\ host'.addr = IF host.req.name = "SetAddress" THEN host.req.val ELSE host.addr
  BY ConcludeFields DEF IInv
<1>2. /\ Transfer = [stage |-> "open", req |-> host.req, got |-> NoRequest]
      /\ Transfer' = [stage |-> "done", req |-> host.req, got |-> AnswerTo(host.req, udc)]
  BY <1>1 DEF Transfer, InTransfer
<1>3. Pending = NoRequest /\ Pending' = NoRequest
  BY DEF Pending
<1>4. Unsure = {} /\ Unsure' = {}
  BY <1>1, NotUnsure DEF Unsure, InTransfer
<1> QED
  BY <1>1, <1>2, <1>3, <1>4
     DEF Device!Complete, Device!Heard, Device!Open, Device!Transfer, Accepts

LEMMA InTokenStep ==
  ASSUME IInv, HostIn
  PROVE  Device!Complete \/ Same
<1>1. /\ Hears /\ InTransfer /\ ~Unserved /\ ~in.nack /\ ctrl.st \in {"DATA_IN", "WAIT_IN_ZLP"}
      /\ ~Unserved' /\ Live' /\ UNCHANGED <<ctrl, udc, addr>>
  BY InTaken
<1>2. /\ Live /\ host.addr = addr /\ host \in HostType /\ host.req \in Requests
      /\ host.req = ctrl.req /\ Match
  BY <1>1, Serving DEF IInv, TypeOK
<1>3. CASE host.stage = "status_in"
  <2>1. ~IsIn(host.req) /\ host' = Conclude(host)
    BY <1>1, <1>2, <1>3 DEF Match, IInv, RequestInv, HostIn
  <2>2. host'.req = host.req
    BY <1>2, <2>1, ConcludeFields DEF IInv
  <2>3. ~Never(host.req) /\ Got' = AnswerTo(host.req, udc)
    BY <2>1, <2>2 DEF Never, IsIn, Got, AnswerTo
  <2> QED
    BY <1>1, <1>2, <2>1, <2>3, Concludes
<1>4. CASE host.stage = "data_in"
  <2>1. host'.stage \in {"data_in", "status_out"} /\ host'.req = host.req /\ host'.addr = host.addr
    BY <1>2, <1>4 DEF HostIn, HostType
  <2>2. Unsure = {} /\ Unsure' = {}
    BY <1>1, <1>4, <2>1 DEF Unsure
  <2>3. Pending = NoRequest /\ Pending' = NoRequest
    BY <1>1 DEF Pending
  <2>4. Transfer' = Transfer
    BY <1>4, <2>1 DEF Transfer, InTransfer
  <2> QED
    BY <1>1, <1>2, <2>1, <2>2, <2>3, <2>4 DEF Same, Live
<1> QED
  BY <1>3, <1>4 DEF HostIn

\* The host has got as many bytes as the driver has counted, and the value in force.
LEMMA OutTokenStep ==
  ASSUME IInv, FreshInv, HostOut
  PROVE  Device!Complete \/ Same
<1>1. /\ Hears /\ InTransfer /\ ~Unserved /\ ~out.nack
      /\ ctrl.st \in {"DATA_OUT", "WAIT_OUT_ZLP"}
      /\ ~Unserved' /\ Live' /\ UNCHANGED <<ctrl, udc, addr>>
  BY OutTaken
<1>2. /\ Live /\ host.addr = addr /\ host \in HostType /\ host.req \in Requests
      /\ host.req = ctrl.req /\ Match
  BY <1>1, Serving DEF IInv, TypeOK
<1>3. CASE host.stage = "status_out"
  <2> DEFINE r == host.req
  <2>1. /\ ctrl.st = "WAIT_OUT_ZLP" /\ IsIn(r) /\ r.len > 0 /\ host.got = ctrl.size
        /\ ctrl.size = IF NoAnswer(r, udc) THEN 0 ELSE Cut(r)
    BY <1>1, <1>2, <1>3 DEF Match, IInv, RequestInv
  <2>2. ~Never(r) /\ host.val = IF host.got > 0 THEN ValueOf(r, udc) ELSE 0
    BY <1>1, <1>2, <2>1 DEF FreshInv
  <2>3. host' = Conclude(host) /\ host'.req = r /\ host'.got = host.got /\ host'.val = host.val
    BY <1>2, <1>3, ConcludeFields DEF HostOut, IInv
  <2>4. Cut(r) > 0
    BY <1>2, <2>1, CutFacts DEF Request
  <2>5. Got' = AnswerTo(r, udc)
    <3>1. Got' = [len |-> host.got, val |-> host.val]
      BY <2>1, <2>3 DEF Got
    <3>2. CASE NoAnswer(r, udc)
      BY <2>1, <2>2, <3>1, <3>2 DEF AnswerTo
    <3>3. CASE ~NoAnswer(r, udc)
      BY <2>1, <2>2, <2>4, <3>1, <3>3 DEF AnswerTo
    <3> QED
      BY <3>2, <3>3
  <2> QED
    BY <1>1, <1>2, <2>2, <2>3, <2>5, Concludes
<1>4. CASE host.stage = "data_out"
  <2>1. host'.stage \in {"data_out", "status_in"} /\ host'.req = host.req /\ host'.addr = host.addr
    BY <1>2, <1>4 DEF HostOut, HostType
  <2>2. Unsure = {} /\ Unsure' = {}
    BY <1>1, <1>4, <2>1 DEF Unsure
  <2>3. Pending = NoRequest /\ Pending' = NoRequest
    BY <1>1 DEF Pending
  <2>4. Transfer' = Transfer
    BY <1>4, <2>1 DEF Transfer, InTransfer
  <2> QED
    BY <1>1, <1>2, <2>1, <2>2, <2>3, <2>4 DEF Same, Live
<1> QED
  BY <1>3, <1>4 DEF HostOut

LEMMA StalledStep ==
  ASSUME IInv, HostStalled
  PROVE  Device!Refuse
<1> USE DEF IInv
<1>1. /\ Hears /\ InTransfer /\ in.stall
      /\ host' = [host EXCEPT !.stage = "stalled", !.of = NoRequest, !.got = 0, !.val = 0]
      /\ UNCHANGED <<ctrl, udc, addr, flags, setupif, isr, buf>>
  BY DEF HostStalled, InTransfer, EndpointInv, devVars, irqVars
<1>2. host'.stage = "stalled" /\ host'.req = host.req /\ host'.addr = host.addr
  BY <1>1 DEF TypeOK, HostType
<1>3. ~Unserved /\ ~Unserved'
  BY <1>1 DEF UnservedInv, Unserved
<1>4. Live /\ Live' /\ host.addr = addr /\ host.req \in Requests /\ host.req = ctrl.req
  BY <1>1, <1>3, Serving DEF Live
<1>5. MayStall(host.req, udc)
  <2>1. ctrl.st \in {"STALL_REQ", "WAIT_IN_ZLP", "WAIT_OUT_ZLP"}
    BY <1>1 DEF StallInv
  <2>2. CASE ctrl.st = "STALL_REQ"
    BY <1>4, <2>2 DEF RequestInv, MayStall, Never
  <2>3. CASE ctrl.st = "WAIT_IN_ZLP"
    BY <1>1, <1>4, <2>3 DEF StallInv, RequestInv, MayStall
  <2>4. CASE ctrl.st = "WAIT_OUT_ZLP"
    BY <1>1, <1>4, <2>4, CutFacts DEF StallInv, RequestInv, MayStall, Request
  <2> QED
    BY <2>1, <2>2, <2>3, <2>4
<1>6. Pending = NoRequest /\ Pending' = NoRequest
  BY <1>3 DEF Pending
<1>7. Unsure = {} /\ Unsure' = {}
  BY <1>1, <1>2, <1>3 DEF Unsure, InTransfer
<1>8. /\ Transfer = [stage |-> "open", req |-> host.req, got |-> NoRequest]
      /\ Transfer' = [stage |-> "stalled", req |-> host.req, got |-> NoRequest]
  BY <1>1, <1>2 DEF Transfer, InTransfer
<1> QED
  BY <1>1, <1>2, <1>4, <1>5, <1>6, <1>7, <1>8
     DEF Device!Refuse, Device!Heard, Device!Open, Device!Transfer

LEMMA AbandonStep ==
  ASSUME IInv, HostAbandon
  PROVE  Device!GiveUp
<1> USE DEF IInv
<1>1. /\ InTransfer /\ UNCHANGED <<ctrl, udc, addr, flags, setupif, isr, buf>>
      /\ host'.stage = "idle" /\ host'.addr = host.addr
  BY ForgetsFields DEF HostAbandon, devVars, irqVars, Stages
<1>2. Live' = Live /\ Unserved' = Unserved /\ Pending' = Pending
  BY <1>1 DEF Live, Unserved, Pending
<1>3. Transfer = [stage |-> "open", req |-> host.req, got |-> NoRequest]
  BY <1>1 DEF Transfer, InTransfer
<1>4. Transfer' = [stage |-> "idle", req |-> NoRequest, got |-> NoRequest]
  BY <1>1 DEF Transfer, InTransfer
<1>5. Unsure' \in {Unsure, IF host.req.name = "SetAddress" THEN {host.req.val} ELSE Unsure}
  <2>1. CASE Unserved \/ ~ctrl.cb
    BY <1>1, <1>2, <2>1 DEF Unsure, InTransfer
  <2>2. CASE ~Unserved /\ ctrl.cb
    <3>1. host.req = ctrl.req /\ host.req.name = "SetAddress"
      BY <1>1, <2>2 DEF HostInv, RequestInv
    <3>2. Unsure = {}
      BY <1>1, <2>2 DEF Unsure, InTransfer
    <3>3. Unsure' \in {{}, {ctrl.req.val}}
      BY <1>1 DEF Unsure
    <3> QED
      BY <3>1, <3>2, <3>3
  <2> QED
    BY <2>1, <2>2
<1> QED
  BY <1>1, <1>2, <1>3, <1>4, <1>5 DEF Device!GiveUp, Device!Open, Device!Idle, Device!Transfer

LEMMA ResetStep ==
  ASSUME IInv, HostReset
  PROVE  Device!Reset
<1> USE DEF IInv
<1>1. /\ Live /\ ~Live' /\ UNCHANGED <<ctrl, udc, addr, setupif, isr, buf>>
      /\ host'.stage = "idle" /\ host'.addr = 0
  BY DEF HostReset, Forgets, Live, devVars, TypeOK, HostType
<1>2. Pending' = Pending
  BY <1>1 DEF Unserved, Pending
<1>3. Transfer' = [stage |-> "idle", req |-> NoRequest, got |-> NoRequest]
  BY <1>1 DEF Transfer, InTransfer
<1>4. Unsure' = {}
  BY <1>1 DEF Unsure
<1> QED
  BY <1>1, <1>2, <1>3, <1>4 DEF Device!Reset, Device!Idle, Device!Transfer

LEMMA OthersSame ==
  ASSUME HostNakked \/ BusFlag \/ BulkNak \/ BulkComplete \/ UNCHANGED vars
  PROVE  Same
<1>1. UNCHANGED <<ctrl, udc, addr, buf, host, setupif, isr>> /\ Live' = Live
  <2>1. CASE HostNakked \/ BulkNak \/ BulkComplete
    BY <2>1 DEF HostNakked, BulkNak, BulkComplete, Live, devVars
  <2>2. CASE BusFlag
    BY <2>2 DEF BusFlag, Live, devVars
  <2>3. CASE UNCHANGED vars
    BY <2>3 DEF vars, devVars, irqVars, Live
  <2> QED
    BY <2>1, <2>2, <2>3
<1> QED
  BY <1>1, TransferKeeps DEF Same, Pending, Unserved, Unsure

(***************************************************************************)
(* The theorem.                                                            *)
(***************************************************************************)

\* Behind both interrupt handlers and the device core stands one device that takes each
\* request once, where udc_process_setup sees it, and answers as of then, whatever the
\* host gives up and whenever it is served (usb_device.c:1043-1133, udc.c:988-1015).
THEOREM Fw1ControlIsDevice == Spec => IsDevice
<1>1. Init => Device!Init /\ FreshInv
  <2> SUFFICES ASSUME Init PROVE Device!Init /\ FreshInv
    OBVIOUS
  <2>1. /\ host.stage = "detached" /\ host.addr = 0 /\ addr = 0 /\ ctrl.cb = FALSE
        /\ ctrl.st = "SETUP" /\ ~Unserved /\ Live /\ udc = [conf |-> 0, alt |-> 0, eps |-> FALSE]
    BY DEF Init, Unserved, Live
  <2>2. Pending = NoRequest /\ Unsure = {}
    BY <2>1 DEF Pending, Unsure
  <2>3. Transfer = [stage |-> "idle", req |-> NoRequest, got |-> NoRequest]
    BY <2>1 DEF Transfer, InTransfer
  <2> QED
    BY <2>1, <2>2, <2>3 DEF Device!Init, Device!Idle, Device!Transfer, FreshInv, InTransfer
<1>2. IInv /\ FreshInv /\ [Next]_vars => [Device!Next]_(Device!vars)
  <2> SUFFICES ASSUME IInv, FreshInv, [Next]_vars PROVE Device!Next \/ Same
    BY DEF Device!vars, Same
  <2>1. CASE Trncompl \/ Busevent
    BY <2>1, EnteringSame, SetupTakesEffect, InWorkFollows, OutWorkSame, ResetServes
       DEF Trncompl, Busevent, Device!Next
  <2>2. CASE \E r \in Requests : HostSetup(r)
    BY <2>2, BeginStep DEF Device!Next
  <2>3. CASE HostIn \/ HostOut
    BY <2>3, InTokenStep, OutTokenStep DEF Device!Next
  <2>4. CASE HostStalled \/ HostAbandon \/ HostReset
    BY <2>4, StalledStep, AbandonStep, ResetStep DEF Device!Next
  <2>5. CASE HostNakked \/ BusFlag \/ BulkNak \/ BulkComplete \/ UNCHANGED vars
    BY <2>5, OthersSame
  <2> QED
    BY <2>1, <2>2, <2>3, <2>4, <2>5 DEF Next, Host
<1> QED
  BY <1>1, <1>2, FreshStep, Fw1ControlInvariant, PTL DEF Spec, IsDevice, Device!Spec
=============================================================================
