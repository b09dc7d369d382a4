------------------------- MODULE Fw1InvariantProofs -------------------------
(***************************************************************************)
(* Every step of Fw1Control keeps its inductive invariant, whatever the    *)
(* requests, the addresses and the packet size.  There is a lemma for each *)
(* interrupt handler and each action of the hardware and the host, with a  *)
(* step for each part of the invariant; the theorems are at the end.       *)
(***************************************************************************)
EXTENDS Fw1TransferProofs

\* A step that changes no more than the bus flags, and of these not the reset's.
LEMMA FlagsKeep ==
  ASSUME IInv, UNCHANGED <<devVars, fifo, setupif, isr, buf, host>>,
         flags' \subseteq {"sof", "unf", "ovf", "rst", "line"}, Live' = Live,
         "unf" \in flags' => "unf" \in flags \/ udc.eps,
         "ovf" \in flags' => "ovf" \in flags \/ udc.eps
  PROVE  IInv'
<1> USE DEF IInv
<1>1. UNCHANGED <<ctrl, udc, addr, in, out, buserr, fifo, setupif, isr, buf, host>>
  BY DEF devVars
<1>2. TypeOK'
  BY <1>1 DEF TypeOK
<1>3. FifoInv'
  BY <1>1 DEF FifoInv, Distinct, Queued
<1>4. EndpointInv'
  BY <1>1 DEF EndpointInv, InBusy, OutBusy
<1>5. UnservedInv'
  BY <1>1 DEF UnservedInv, Unserved, InBusy, OutBusy
<1>6. RequestInv'
  BY <1>1 DEF RequestInv
<1>7. DataInv'
  BY <1>1 DEF DataInv
<1>8. ErrorInv'
  BY <1>1 DEF ErrorInv, Unserved, InBusy, OutBusy, AllDone
<1>9. StallInv'
  BY <1>1 DEF StallInv
<1>10. CoreInv'
  BY <1>1 DEF CoreInv
<1>11. PendingInv'
  BY <1>1 DEF PendingInv, Unserved
<1>12. HostInv'
  BY <1>1 DEF HostInv, Idle, InTransfer, Unserved, Match, InBusy, OutBusy, AllDone, ReplyMatches,
              StallsExplained, Refused, TooMuchData
<1>13. AddressInv'
  BY <1>1 DEF AddressInv, InBusy, Idle, InTransfer, Unserved
<1> QED
  BY <1>2, <1>3, <1>4, <1>5, <1>6, <1>7, <1>8, <1>9, <1>10, <1>11, <1>12, <1>13

(***************************************************************************)
(* The queue of completed transactions, each endpoint at most once.        *)
(***************************************************************************)

LEMMA QueuePop ==
  ASSUME fifo \in Seq({"in", "out", "bulk"}), Distinct, fifo # <<>>, fifo' = Tail(fifo)
  PROVE  /\ fifo' \in Seq({"in", "out", "bulk"}) /\ Distinct'
         /\ Head(fifo) \in {"in", "out", "bulk"}
         /\ Queued("in")' <=> Queued("in") /\ Head(fifo) # "in"
         /\ Queued("out")' <=> Queued("out") /\ Head(fifo) # "out"
         /\ Head(fifo) = "in" => Queued("in")
         /\ Head(fifo) = "out" => Queued("out")
<1>1. /\ fifo' \in Seq({"in", "out", "bulk"}) /\ Len(fifo') = Len(fifo) - 1 /\ Len(fifo) \in Nat
      /\ Len(fifo) > 0 /\ Head(fifo) = fifo[1] /\ Head(fifo) \in {"in", "out", "bulk"}
      /\ \A i \in 1..Len(fifo') : i + 1 \in 1..Len(fifo) /\ fifo'[i] = fifo[i + 1]
  OBVIOUS
<1>2. Distinct'
  BY <1>1 DEF Distinct
<1>3. ASSUME NEW e
      PROVE  /\ (\E i \in 1..Len(fifo') : fifo'[i] = e) <=>
                (\E i \in 1..Len(fifo) : fifo[i] = e) /\ Head(fifo) # e
             /\ Head(fifo) = e => (\E i \in 1..Len(fifo) : fifo[i] = e)
  <2>1. ASSUME NEW i \in 1..Len(fifo'), fifo'[i] = e
        PROVE  (\E j \in 1..Len(fifo) : fifo[j] = e) /\ Head(fifo) # e
    <3>1. i + 1 \in 1..Len(fifo) /\ fifo[i + 1] = e /\ 1 \in 1..Len(fifo) /\ i + 1 # 1
      BY <1>1, <2>1
    <3> QED
      BY <1>1, <3>1 DEF Distinct
  <2>2. ASSUME NEW i \in 1..Len(fifo), fifo[i] = e, Head(fifo) # e
        PROVE  \E j \in 1..Len(fifo') : fifo'[j] = e
    <3>1. i - 1 \in 1..Len(fifo') /\ (i - 1) + 1 = i
      BY <1>1, <2>2
    <3>2. fifo'[i - 1] = e
      BY <1>1, <2>2, <3>1
    <3> QED
      BY <3>1, <3>2
  <2>3. Head(fifo) = e => (\E i \in 1..Len(fifo) : fifo[i] = e)
    BY <1>1
  <2> QED
    BY <2>1, <2>2, <2>3
<1> QED
  BY <1>1, <1>2, <1>3 DEF Queued

LEMMA QueuePush ==
  ASSUME fifo \in Seq({"in", "out", "bulk"}), Distinct,
         NEW x \in {"in", "out", "bulk"}, ~Queued(x), fifo' = Append(fifo, x)
  PROVE  /\ fifo' \in Seq({"in", "out", "bulk"}) /\ Distinct'
         /\ Queued("in")' <=> Queued("in") \/ x = "in"
         /\ Queued("out")' <=> Queued("out") \/ x = "out"
<1>1. /\ fifo' \in Seq({"in", "out", "bulk"}) /\ Len(fifo') = Len(fifo) + 1 /\ Len(fifo) \in Nat
      /\ \A i \in 1..Len(fifo) : i \in 1..Len(fifo') /\ fifo'[i] = fifo[i]
      /\ fifo'[Len(fifo')] = x /\ Len(fifo') \in 1..Len(fifo')
      /\ \A i \in 1..Len(fifo') : i \in 1..Len(fifo) \/ i = Len(fifo')
  OBVIOUS
<1>2. \A i \in 1..Len(fifo) : fifo[i] # x
  BY DEF Queued
<1>3. Distinct'
  <2> SUFFICES ASSUME NEW i \in 1..Len(fifo'), NEW j \in 1..Len(fifo'), fifo'[i] = fifo'[j]
               PROVE  i = j
    BY DEF Distinct
  <2>1. CASE i \in 1..Len(fifo) /\ j \in 1..Len(fifo)
    BY <1>1, <2>1 DEF Distinct
  <2>2. CASE ~(i \in 1..Len(fifo) /\ j \in 1..Len(fifo))
    BY <1>1, <1>2, <2>2
  <2> QED
    BY <2>1, <2>2
<1>4. ASSUME NEW e
      PROVE  (\E i \in 1..Len(fifo') : fifo'[i] = e) <=>
             (\E i \in 1..Len(fifo) : fifo[i] = e) \/ x = e
  BY <1>1
<1> QED
  BY <1>1, <1>3, <1>4 DEF Queued

\* At most one entry for each endpoint.
LEMMA QueueBound ==
  ASSUME fifo \in Seq({"in", "out", "bulk"}), Distinct
  PROVE  Len(fifo) <= 3
<1>1. Len(fifo) \in Nat /\ \A i \in 1..Len(fifo) : fifo[i] \in {"in", "out", "bulk"}
  OBVIOUS
<1>2. ASSUME Len(fifo) > 3 PROVE FALSE
  <2>1. /\ 1 \in 1..Len(fifo) /\ 2 \in 1..Len(fifo) /\ 3 \in 1..Len(fifo) /\ 4 \in 1..Len(fifo)
    BY <1>1, <1>2
  <2>2. /\ fifo[1] # fifo[2] /\ fifo[1] # fifo[3] /\ fifo[1] # fifo[4]
        /\ fifo[2] # fifo[3] /\ fifo[2] # fifo[4] /\ fifo[3] # fifo[4]
    BY <2>1 DEF Distinct
  <2> QED
    BY <1>1, <2>1, <2>2
<1> QED
  BY <1>1, <1>2

\* The host completes a bulk transaction.
LEMMA BulkCompleteKeeps ==
  ASSUME IInv, BulkComplete
  PROVE  IInv'
<1> USE DEF IInv
<1>1. UNCHANGED <<ctrl, udc, addr, in, out, buserr, flags, setupif, isr, buf, host>>
  BY DEF BulkComplete, devVars
<1>2. /\ fifo' \in Seq({"in", "out", "bulk"}) /\ Distinct'
      /\ Queued("in")' <=> Queued("in")
      /\ Queued("out")' <=> Queued("out")
  <2>1. fifo' = Append(fifo, "bulk") /\ ~Queued("bulk")
    BY DEF BulkComplete, Queued
  <2> QED
    BY <2>1, QueuePush DEF TypeOK, FifoInv
<1>3. TypeOK'
  BY <1>1, <1>2 DEF TypeOK
<1>4. FifoInv'
  BY <1>1, <1>2 DEF FifoInv
<1>5. EndpointInv' /\ UnservedInv'
  BY <1>1 DEF EndpointInv, UnservedInv, Unserved, InBusy, OutBusy, Live
<1>6. RequestInv' /\ DataInv'
  BY <1>1 DEF RequestInv, DataInv
<1>7. ErrorInv'
  BY <1>1 DEF ErrorInv, Unserved, InBusy, OutBusy, AllDone
<1>8. StallInv' /\ CoreInv' /\ PendingInv'
  BY <1>1 DEF StallInv, CoreInv, PendingInv, Unserved, Live
<1>9. HostInv'
  BY <1>1 DEF HostInv, Live, Idle, InTransfer, Unserved, Match, InBusy, OutBusy, AllDone,
              ReplyMatches, StallsExplained, Refused, TooMuchData
<1>10. AddressInv'
  BY <1>1 DEF AddressInv, Live, InBusy, Idle, InTransfer, Unserved
<1> QED
  BY <1>3, <1>4, <1>5, <1>6, <1>7, <1>8, <1>9, <1>10

\* The handler takes the first entry of the queue, and enters for it if its flag is
\* still set: what was busy stays busy, and an entry that a SETUP has hidden is only
\* dropped.
LEMMA TrnCompleteKeeps ==
  ASSUME IInv, TrnComplete
  PROVE  IInv'
<1> USE DEF IInv
<1>1. /\ UNCHANGED <<ctrl, udc, addr, buserr, flags, setupif, buf, host>>
      /\ isr = "none" /\ ~BusPending /\ fifo # <<>> /\ fifo' = Tail(fifo)
  BY DEF TrnComplete, TrnRuns
<1>2. /\ fifo' \in Seq({"in", "out", "bulk"}) /\ Distinct'
      /\ Head(fifo) \in {"in", "out", "bulk"}
      /\ Queued("in")' <=> Queued("in") /\ Head(fifo) # "in"
      /\ Queued("out")' <=> Queued("out") /\ Head(fifo) # "out"
  BY <1>1, QueuePop DEF TypeOK, FifoInv
<1>3. /\ in' \in InType /\ out' \in OutType
      /\ in'.nack = in.nack /\ in'.stall = in.stall /\ in'.unf = in.unf /\ in'.cnt = in.cnt
      /\ out'.nack = out.nack /\ out'.stall = out.stall /\ out'.ovf = out.ovf
      /\ in'.tc <=> in.tc /\ Head(fifo) # "in"
      /\ out'.tc <=> out.tc /\ Head(fifo) # "out"
      /\ isr' = IF Completed(Head(fifo)) THEN Head(fifo) ELSE "none"
  BY <1>2 DEF TrnComplete, TypeOK, InType, OutType
<1>4. /\ isr' = "in" <=> in.tc /\ Head(fifo) = "in"
      /\ isr' = "out" <=> out.tc /\ Head(fifo) = "out"
      /\ isr' \in {"none", "in", "out"}
  BY <1>2, <1>3 DEF Completed
<1>5. InBusy' = InBusy /\ OutBusy' = OutBusy /\ Unserved' = Unserved
  BY <1>1, <1>3, <1>4 DEF InBusy, OutBusy, Unserved
<1>6. Idle' = Idle
  BY <1>1, <1>2, <1>3, <1>4 DEF Idle
<1>7. TypeOK'
  BY <1>1, <1>2, <1>3, <1>4 DEF TypeOK
<1>8. FifoInv'
  BY <1>1, <1>2, <1>3, <1>4 DEF FifoInv
<1>9. EndpointInv'
  BY <1>1, <1>3, <1>4, <1>5 DEF EndpointInv
<1>10. UnservedInv'
  BY <1>1, <1>3, <1>4, <1>5 DEF UnservedInv, Live
<1>11. RequestInv' /\ DataInv'
  BY <1>1, <1>3 DEF RequestInv, DataInv, Sending
<1>12. ErrorInv'
  <2>1. ctrl.st # "SETUP" => "unf" \notin flags /\ "ovf" \notin flags
    BY <1>1 DEF EndpointInv, BusPending, BusEnabled
  <2> QED
    BY <1>1, <1>3, <1>4, <1>5, <2>1 DEF ErrorInv, AllDone
<1>13. StallInv' /\ CoreInv' /\ PendingInv'
  BY <1>1, <1>3, <1>5 DEF StallInv, CoreInv, PendingInv, Live
<1>14. HostInv'
  <2>1. Match' = Match
    BY <1>1, <1>3, <1>5 DEF Match, AllDone
  <2> QED
    BY <1>1, <1>3, <1>5, <1>6, <2>1
       DEF HostInv, Live, InTransfer, ReplyMatches, StallsExplained, Refused, TooMuchData
<1>15. AddressInv'
  BY <1>1, <1>5, <1>6 DEF AddressInv, Live, InTransfer
<1> QED
  BY <1>7, <1>8, <1>9, <1>10, <1>11, <1>12, <1>13, <1>14, <1>15

(***************************************************************************)
(* The handlers.                                                           *)
(***************************************************************************)

\* A SETUP is acknowledged, once nothing is queued before it.
LEMMA AckKeeps ==
  ASSUME IInv, isr = "none", fifo = <<>>, setupif, setupif' = FALSE, isr' = "setup",
         UNCHANGED <<devVars, fifo, buf, host>>, flags' \subseteq flags, Live' = Live
  PROVE  IInv'
<1> USE DEF IInv
<1>1. UNCHANGED <<ctrl, udc, addr, in, out, buserr, fifo, buf, host>>
  BY DEF devVars
<1>2. ~in.tc /\ ~out.tc /\ ~Queued("in") /\ ~Queued("out")
  BY EmptyFifo
<1>3. ~Queued("in")' /\ ~Queued("out")' /\ Distinct'
  BY <1>1, <1>2 DEF Queued, FifoInv, Distinct
<1>4. Unserved /\ Unserved' /\ InBusy' = InBusy /\ OutBusy' = OutBusy
  BY <1>1 DEF Unserved, InBusy, OutBusy
<1>5. TypeOK'
  BY <1>1 DEF TypeOK
<1>6. FifoInv'
  BY <1>1, <1>2, <1>3 DEF FifoInv
<1>7. EndpointInv' /\ UnservedInv'
  BY <1>1, <1>4 DEF EndpointInv, UnservedInv
<1>8. RequestInv' /\ DataInv' /\ ErrorInv'
  BY <1>1, <1>4 DEF RequestInv, DataInv, ErrorInv
<1>9. StallInv' /\ CoreInv' /\ PendingInv'
  BY <1>1, <1>4 DEF StallInv, CoreInv, PendingInv
<1>10. Live => host.addr = addr /\ host.stage = First(buf)
  BY <1>4 DEF PendingInv
<1>11. HostInv'
  BY <1>1, <1>4, <1>10 DEF HostInv, First, InTransfer, ReplyMatches, StallsExplained,
                           Refused, TooMuchData
<1>12. AddressInv'
  BY <1>1, <1>4, <1>10 DEF AddressInv
<1> QED
  BY <1>5, <1>6, <1>7, <1>8, <1>9, <1>11, <1>12

LEMMA TakeSetupKeeps ==
  ASSUME IInv, TakeSetup
  PROVE  IInv'
<1>1. /\ isr = "none" /\ fifo = <<>> /\ setupif /\ setupif' = FALSE /\ isr' = "setup"
      /\ UNCHANGED <<devVars, flags, fifo, buf, host>>
  BY DEF TakeSetup, TrnRuns, AckSetup
<1>2. Live' = Live
  BY <1>1 DEF Live
<1> QED
  BY <1>1, <1>2, AckKeeps

\* A token that was refused in a status stage makes the driver stall it; without bulk
\* traffic such a token shows that the host sends more than was asked for, or reads
\* what was refused.
LEMMA StallsKeep ==
  ASSUME IInv, isr = "none", fifo = <<>>, ~setupif, Typed, Stalls,
         UNCHANGED <<setupif, isr, fifo, buf, host>>, flags' \subseteq flags, Live' = Live,
         \/ ctrl.st = "WAIT_OUT_ZLP" /\ in.unf /\ "unf" \in flags
         \/ ctrl.st = "WAIT_IN_ZLP" /\ out.ovf /\ "ovf" \in flags
  PROVE  IInv'
<1> USE DEF IInv
<1>1. /\ UNCHANGED <<ctrl, udc, addr, buserr>>
      /\ in'.nack = in.nack /\ in'.tc = in.tc /\ in'.unf = in.unf /\ in'.stall = TRUE
      /\ out'.nack = out.nack /\ out'.tc = out.tc /\ out'.ovf = out.ovf /\ out'.stall = TRUE
      /\ in' \in InType /\ out' \in OutType
  BY DEF Stalls, Typed
<1>2. ~in.tc /\ ~out.tc /\ ~Queued("in") /\ ~Queued("out")
  BY EmptyFifo
<1>3. ~Queued("in")' /\ ~Queued("out")' /\ Distinct'
  BY <1>2 DEF Queued, FifoInv, Distinct
<1>4. /\ ~Unserved /\ ~Unserved' /\ Idle' = Idle
      /\ ~InBusy /\ ~InBusy' /\ ~OutBusy /\ ~OutBusy'
  BY <1>1, <1>2 DEF Unserved, InBusy, OutBusy, Idle
<1>5. TypeOK'
  BY <1>1 DEF TypeOK
<1>6. FifoInv'
  BY <1>1, <1>2, <1>3 DEF FifoInv
<1>7. EndpointInv' /\ UnservedInv'
  BY <1>1, <1>2, <1>4 DEF EndpointInv, UnservedInv
<1>8. RequestInv' /\ DataInv'
  BY <1>1 DEF RequestInv, DataInv
<1>9. ErrorInv'
  BY <1>1, <1>4 DEF ErrorInv, AllDone
<1>10. StallInv'
  BY <1>1, <1>4 DEF StallInv, ErrorInv
<1>11. CoreInv' /\ PendingInv'
  BY <1>1, <1>4 DEF CoreInv, PendingInv
<1>12. HostInv'
  <2>1. Match' = Match
    BY <1>1, <1>4 DEF Match
  <2> QED
    BY <1>1, <1>4, <2>1 DEF HostInv, InTransfer, ReplyMatches, StallsExplained,
                            Refused, TooMuchData
<1>13. AddressInv'
  BY <1>1, <1>4 DEF AddressInv, InTransfer
<1> QED
  BY <1>5, <1>6, <1>7, <1>8, <1>9, <1>10, <1>11, <1>12, <1>13

LEMMA ErrorEffectKeeps ==
  ASSUME IInv, NEW f \in {"unf", "ovf"}, NEW own, NEW st, ErrorEffect(f, own, st),
         \/ f = "unf" /\ own = in.unf /\ st = "WAIT_OUT_ZLP"
         \/ f = "ovf" /\ own = out.ovf /\ st = "WAIT_IN_ZLP"
  PROVE  IInv'
<1>1. /\ isr = "none" /\ flags' = flags \ {f} /\ UNCHANGED <<fifo, buf, host>>
      /\ Typed
  BY DEF ErrorEffect
<1>2. Live' = Live /\ flags' \subseteq flags
  BY <1>1 DEF Live
<1>3. CASE UNCHANGED <<devVars, setupif, isr>>
  BY <1>1, <1>2, <1>3, FlagsKeep DEF IInv, TypeOK
<1>4. CASE fifo = <<>> /\ setupif /\ setupif' = FALSE /\ isr' = "setup" /\ UNCHANGED devVars
  BY <1>1, <1>2, <1>4, AckKeeps
<1>5. CASE /\ fifo = <<>> /\ ~setupif /\ UNCHANGED <<setupif, isr>> /\ f \in flags /\ own
           /\ ctrl.st = st /\ Stalls
  BY <1>1, <1>2, <1>5, StallsKeep
<1> QED
  BY <1>3, <1>4, <1>5 DEF ErrorEffect

LEMMA ErrorEventsKeep ==
  ASSUME IInv, UnderflowEvent \/ OverflowEvent
  PROVE  IInv'
<1>1. CASE UnderflowEvent
  <2>1. ErrorEffect("unf", in.unf, "WAIT_OUT_ZLP")
    BY <1>1, UnderflowEffect DEF IInv
  <2> QED
    BY <2>1, ErrorEffectKeeps
<1>2. CASE OverflowEvent
  <2>1. ErrorEffect("ovf", out.ovf, "WAIT_IN_ZLP")
    BY <1>2, OverflowEffect DEF IInv
  <2> QED
    BY <2>1, ErrorEffectKeeps
<1> QED
  BY <1>1, <1>2

LEMMA LineKeeps ==
  ASSUME IInv, Line
  PROVE  IInv'
<1>1. /\ UNCHANGED <<devVars, fifo, setupif, isr, buf, host>>
      /\ flags' = flags \ {"sof"} \/ flags' = flags \ {"line"}
  BY DEF Line, BusRuns
<1>2. Live' = Live
  BY <1>1 DEF Live
<1> QED
  BY <1>1, <1>2, FlagsKeep DEF IInv, TypeOK

\* A request ends with the status packet that was due: the address it assigned is the
\* one the host uses from that packet on.
LEMMA EndingKeeps ==
  ASSUME IInv, isr' = "none", UNCHANGED <<flags, fifo, setupif, buf, host>>, Typed, Ending,
         \/ isr = "in" /\ ctrl.st = "WAIT_IN_ZLP"
         \/ isr = "out" /\ ctrl.st = "WAIT_OUT_ZLP"
  PROVE  IInv'
<1> USE DEF IInv
<1>1. /\ ctrl'.st = "SETUP" /\ ctrl'.cb = FALSE /\ ctrl'.req = ctrl.req
      /\ in'.nack = TRUE /\ in'.tc = FALSE /\ in'.unf = FALSE /\ in'.stall = in.stall
      /\ out'.tc = FALSE /\ out'.ovf = FALSE /\ out'.nack = out.nack /\ out'.stall = out.stall
      /\ buserr' = FALSE /\ udc' = udc
      /\ addr' = IF ctrl.cb THEN ctrl.req.val ELSE addr
      /\ ctrl' \in CtrlType /\ in' \in InType /\ out' \in OutType
  BY DEF Ending, Typed
<1>2. /\ InBusy \/ OutBusy
      /\ InBusy <=> isr = "in"
      /\ out.nack /\ in.nack /\ ~in.stall /\ ~out.stall
  BY DEF InBusy, OutBusy, EndpointInv
<1>3. /\ Unserved' = setupif /\ Unserved = setupif /\ ~InBusy' /\ ~OutBusy' /\ ~Idle /\ Idle'
  BY <1>1 DEF Unserved, InBusy, OutBusy, Idle, TypeOK
<1>4. Live /\ ctrl.cb => addr' = host.addr
  BY <1>1, <1>2 DEF AddressInv, RequestInv
<1>5. addr' \in Address \cup {0}
  BY <1>1, ControlAssumption DEF TypeOK, RequestInv
<1>6. Live' = Live
  BY DEF Live
<1>7. TypeOK'
  BY <1>1, <1>5 DEF TypeOK
<1>8. FifoInv'
  BY <1>1, <1>2 DEF FifoInv, Queued, Distinct
<1>9. EndpointInv' /\ UnservedInv'
  BY <1>1, <1>2, <1>3, <1>6 DEF EndpointInv, UnservedInv
<1>10. RequestInv' /\ DataInv' /\ ErrorInv' /\ StallInv'
  BY <1>1, <1>2 DEF RequestInv, DataInv, ErrorInv, StallInv
<1>11. CoreInv'
  BY <1>1, <1>6 DEF CoreInv
<1>12. PendingInv'
  BY <1>1, <1>3, <1>4, <1>6 DEF PendingInv
<1>13. HostInv'
  <2>1. InTransfer /\ ~Unserved => FALSE
    BY <1>2 DEF HostInv, Match, InBusy, OutBusy
  <2> QED
    BY <1>1, <1>2, <1>3, <2>1 DEF HostInv, InTransfer, ReplyMatches, StallsExplained,
                                  Refused, TooMuchData
<1>14. AddressInv'
  BY <1>1, <1>2, <1>3, <1>4, <1>6 DEF AddressInv
<1> QED
  BY <1>7, <1>8, <1>9, <1>10, <1>11, <1>12, <1>13, <1>14

\* The handler of a transaction has a request in its data stage only when no SETUP is
\* waiting: the SETUP would have taken the flag of the transaction with it.
LEMMA SendsKeeps ==
  ASSUME IInv, isr = "in", isr' = "none", UNCHANGED <<flags, fifo, setupif, buf, host>>,
         Typed, ctrl.st = "DATA_IN", ~AllDone, Sends
  PROVE  IInv'
<1> USE DEF IInv
<1>1. /\ ctrl'.st = ctrl.st /\ ctrl'.cb = ctrl.cb /\ ctrl'.req = ctrl.req /\ ctrl'.size = ctrl.size
      /\ Sending(ctrl', in') /\ ctrl'.nb = ctrl.nb + in'.cnt
      /\ in'.nack = FALSE /\ in'.tc = in.tc /\ in'.unf = in.unf /\ in'.stall = in.stall
      /\ UNCHANGED <<out, udc, addr, buserr>>
      /\ ctrl' \in CtrlType /\ in' \in InType
  BY DEF Sends, Typed
<1>2. InBusy /\ ~in.tc /\ ~Queued("in") /\ ~Queued("out") /\ in.nack /\ ~in.stall /\ ~ctrl.cb
  BY DEF InBusy, FifoInv, EndpointInv, RequestInv
<1>3. ~OutBusy /\ ~out.tc /\ out.nack
  BY DEF OutBusy, EndpointInv
<1>4. ~Unserved /\ ~Unserved' /\ ~setupif
  BY <1>2 DEF UnservedInv, Unserved
<1>5. ~InBusy' /\ ~OutBusy' /\ ~Idle /\ Idle' /\ Live' = Live
  BY <1>1, <1>2, <1>3 DEF InBusy, OutBusy, Idle, Live
<1>6. TypeOK'
  BY <1>1 DEF TypeOK
<1>7. FifoInv'
  BY <1>1, <1>2, <1>3 DEF FifoInv, Queued, Distinct
<1>8. EndpointInv' /\ UnservedInv'
  BY <1>1, <1>2, <1>3, <1>4, <1>5 DEF EndpointInv, UnservedInv
<1>9. RequestInv' /\ DataInv' /\ StallInv'
  BY <1>1, <1>2 DEF RequestInv, DataInv, StallInv
<1>10. ErrorInv'
  BY <1>1, <1>3, <1>4, <1>5 DEF ErrorInv
<1>11. CoreInv' /\ PendingInv'
  BY <1>1, <1>4, <1>5 DEF CoreInv, PendingInv
<1>12. HostInv'
  <2>1. InTransfer => host.req = ctrl.req /\ host.got = ctrl.nb /\ host.stage = "data_in"
    BY <1>2, <1>4 DEF HostInv, Match
  <2>2. InTransfer => Match'
    BY <1>1, <2>1 DEF Match
  <2> QED
    BY <1>1, <1>2, <1>3, <1>4, <1>5, <2>1, <2>2
       DEF HostInv, InTransfer, ReplyMatches, StallsExplained, Refused, TooMuchData
<1>13. AddressInv'
  BY <1>1, <1>2, <1>5 DEF AddressInv
<1> QED
  BY <1>6, <1>7, <1>8, <1>9, <1>10, <1>11, <1>12, <1>13

LEMMA AwaitsOutKeeps ==
  ASSUME IInv, isr = "in", isr' = "none", UNCHANGED <<flags, fifo, setupif, buf, host>>,
         Typed, ctrl.st = "DATA_IN", AllDone, AwaitsOut
  PROVE  IInv'
<1> USE DEF IInv
<1>1. /\ ctrl'.st = "WAIT_OUT_ZLP" /\ ctrl'.cb = ctrl.cb /\ ctrl'.req = ctrl.req
      /\ ctrl'.size = ctrl.size
      /\ out'.nack = FALSE /\ out'.tc = out.tc /\ out'.ovf = out.ovf /\ out'.stall = out.stall
      /\ UNCHANGED <<in, udc, addr, buserr>>
      /\ ctrl' \in CtrlType /\ out' \in OutType
  BY DEF AwaitsOut, Typed
<1>2. InBusy /\ ~in.tc /\ ~Queued("in") /\ ~Queued("out") /\ in.nack /\ ~in.stall /\ ~ctrl.cb
  BY DEF InBusy, FifoInv, EndpointInv, RequestInv
<1>3. ~OutBusy /\ ~out.tc /\ ~out.stall
  BY <1>2 DEF OutBusy, EndpointInv
<1>4. ~Unserved /\ ~Unserved' /\ ~setupif
  BY <1>2 DEF UnservedInv, Unserved
<1>5. ~InBusy' /\ ~OutBusy' /\ ~Idle /\ Idle' /\ Live' = Live
  BY <1>1, <1>2, <1>3 DEF InBusy, OutBusy, Idle, Live
<1>6. TypeOK'
  BY <1>1 DEF TypeOK
<1>7. FifoInv'
  BY <1>1, <1>2, <1>3 DEF FifoInv, Queued, Distinct
<1>8. EndpointInv' /\ UnservedInv'
  BY <1>1, <1>2, <1>3, <1>4, <1>5 DEF EndpointInv, UnservedInv
<1>9. RequestInv' /\ DataInv' /\ StallInv'
  BY <1>1, <1>2 DEF RequestInv, DataInv, StallInv
<1>10. ErrorInv'
  BY <1>1, <1>4, <1>5 DEF ErrorInv
<1>11. CoreInv' /\ PendingInv'
  BY <1>1, <1>4, <1>5 DEF CoreInv, PendingInv
<1>12. HostInv'
  <2>1. InTransfer => host.req = ctrl.req /\ host.got = ctrl.size /\ host.stage = "status_out"
    BY <1>2, <1>4 DEF HostInv, Match, AllDone
  <2>2. InTransfer => Match'
    BY <1>1, <1>5, <2>1 DEF Match
  <2> QED
    BY <1>1, <1>2, <1>3, <1>4, <1>5, <2>1, <2>2
       DEF HostInv, InTransfer, ReplyMatches, StallsExplained, Refused, TooMuchData
<1>13. AddressInv'
  BY <1>1, <1>2, <1>5 DEF AddressInv
<1> QED
  BY <1>6, <1>7, <1>8, <1>9, <1>10, <1>11, <1>12, <1>13

LEMMA AwaitsInKeeps ==
  ASSUME IInv, isr = "out", isr' = "none", UNCHANGED <<flags, fifo, setupif, buf, host>>,
         Typed, ctrl.st = "DATA_OUT", AwaitsIn
  PROVE  IInv'
<1> USE DEF IInv
<1>1. /\ ctrl'.st = "WAIT_IN_ZLP" /\ ctrl'.cb = ctrl.cb /\ ctrl'.req = ctrl.req
      /\ in'.nack = FALSE /\ in'.tc = in.tc /\ in'.unf = in.unf /\ in'.stall = in.stall
      /\ UNCHANGED <<out, udc, addr, buserr>>
      /\ ctrl' \in CtrlType /\ in' \in InType
  BY DEF AwaitsIn, Typed
<1>2. OutBusy /\ ~out.tc /\ ~Queued("in") /\ ~Queued("out") /\ out.nack /\ ~in.stall /\ ~ctrl.cb
  BY DEF OutBusy, FifoInv, EndpointInv, RequestInv
<1>3. ~InBusy /\ ~in.tc /\ ~out.stall
  BY <1>2 DEF InBusy, EndpointInv
<1>4. ~Unserved /\ ~Unserved' /\ ~setupif
  BY <1>2 DEF UnservedInv, Unserved
<1>5. ~InBusy' /\ ~OutBusy' /\ ~Idle /\ Idle' /\ Live' = Live
  BY <1>1, <1>2, <1>3 DEF InBusy, OutBusy, Idle, Live
<1>6. /\ ctrl.req \in Requests /\ ~IsIn(ctrl.req) /\ ctrl.req.len > 0
      /\ ctrl.req.name # "SetAddress" /\ ctrl.req.name # "SetConfiguration"
  BY ControlAssumption DEF RequestInv
<1>7. TypeOK'
  BY <1>1 DEF TypeOK
<1>8. FifoInv'
  BY <1>1, <1>2, <1>3 DEF FifoInv, Queued, Distinct
<1>9. EndpointInv' /\ UnservedInv'
  BY <1>1, <1>2, <1>3, <1>4, <1>5 DEF EndpointInv, UnservedInv
<1>10. RequestInv' /\ DataInv' /\ StallInv'
  BY <1>1, <1>2, <1>6 DEF RequestInv, DataInv, StallInv
<1>11. ErrorInv'
  BY <1>1, <1>4, <1>5, <1>6 DEF ErrorInv
<1>12. CoreInv' /\ PendingInv'
  BY <1>1, <1>4, <1>5 DEF CoreInv, PendingInv
<1>13. HostInv'
  <2>1. InTransfer => /\ host.req = ctrl.req
                      /\ host.stage = IF TooLong(ctrl.req) THEN "data_out" ELSE "status_in"
    BY <1>2, <1>4 DEF HostInv, Match
  <2>2. InTransfer => Match'
    BY <1>1, <1>5, <2>1 DEF Match
  <2> QED
    BY <1>1, <1>2, <1>3, <1>4, <1>5, <2>1, <2>2
       DEF HostInv, InTransfer, ReplyMatches, StallsExplained, Refused, TooMuchData
<1>14. AddressInv'
  BY <1>1, <1>2, <1>5 DEF AddressInv
<1> QED
  BY <1>7, <1>8, <1>9, <1>10, <1>11, <1>12, <1>13, <1>14

LEMMA InWorkKeep ==
  ASSUME IInv, InWork
  PROVE  IInv'
<1>1. /\ isr = "in" /\ isr' = "none" /\ UNCHANGED <<flags, fifo, setupif, buf, host>>
      /\ Typed
      /\ \/ ctrl.st = "WAIT_IN_ZLP" /\ Ending
         \/ ctrl.st = "DATA_IN" /\ ~AllDone /\ Sends
         \/ ctrl.st = "DATA_IN" /\ AllDone /\ AwaitsOut
  BY InWorkEffect DEF IInv
<1> QED
  BY <1>1, EndingKeeps, SendsKeeps, AwaitsOutKeeps

LEMMA OutWorkKeep ==
  ASSUME IInv, OutWork
  PROVE  IInv'
<1>1. /\ isr = "out" /\ isr' = "none" /\ UNCHANGED <<flags, fifo, setupif, buf, host>>
      /\ Typed
      /\ \/ ctrl.st = "WAIT_OUT_ZLP" /\ Ending
         \/ ctrl.st = "DATA_OUT" /\ AwaitsIn
  BY OutWorkEffect DEF IInv
<1> QED
  BY <1>1, EndingKeeps, AwaitsInKeeps

\* A bus reset frees the endpoints and unconfigures the device.
LEMMA ResetKeeps ==
  ASSUME IInv, ResetEvent
  PROVE  IInv'
<1> USE DEF IInv
<1>1. /\ isr = "none" /\ "rst" \in flags /\ flags' = flags \ {"rst"}
      /\ UNCHANGED <<fifo, setupif, isr, buf, host>>
      /\ Typed /\ Resets
  BY ResetEffect
<1>2. /\ ctrl'.st = "SETUP" /\ ctrl'.cb = FALSE /\ ctrl'.req = ctrl.req
      /\ in'.nack = TRUE /\ in'.tc = FALSE
      /\ in'.unf = FALSE /\ in'.stall = FALSE
      /\ out'.nack = TRUE /\ out'.tc = FALSE /\ out'.ovf = FALSE /\ out'.stall = FALSE
      /\ buserr' = FALSE /\ udc' = UdcReset(udc) /\ addr' = 0
      /\ ctrl' \in CtrlType /\ in' \in InType /\ out' \in OutType /\ udc' \in UdcType
  BY <1>1 DEF Resets, Typed
<1>3. udc'.conf = 0 /\ ~udc'.eps
  <2>1. Owned(udc)
    BY DEF CoreInv, TypeOK, Owned
  <2>2. ~UdcReset(udc).eps
    BY <2>1, ResetFrees
  <2>3. udc'.conf = 0
    <3>1. udc \in UdcType /\ IfaceDisable(udc) \in UdcType
      BY <2>1, DisableFrees DEF Owned
    <3> QED
      BY <1>2, <3>1 DEF UdcReset, UdcType
  <2> QED
    BY <1>2, <2>2, <2>3
<1>4. ~Live /\ Live' /\ ~setupif /\ ~Unserved' /\ ~InBusy' /\ ~OutBusy' /\ Idle'
  BY <1>1, <1>2 DEF Live, UnservedInv, Unserved, InBusy, OutBusy, Idle
<1>5. host.stage = "idle" /\ host.addr = 0 /\ 0 \in host.confs
  BY <1>4 DEF CoreInv
<1>6. TypeOK'
  BY <1>1, <1>2 DEF TypeOK
<1>7. FifoInv'
  BY <1>1, <1>2 DEF FifoInv, Queued, Distinct
<1>8. EndpointInv' /\ UnservedInv'
  BY <1>1, <1>2, <1>4 DEF EndpointInv, UnservedInv
<1>9. RequestInv' /\ DataInv' /\ ErrorInv' /\ StallInv'
  BY <1>2, <1>4 DEF RequestInv, DataInv, ErrorInv, StallInv
<1>10. CoreInv' /\ PendingInv'
  BY <1>1, <1>3, <1>4, <1>5 DEF CoreInv, PendingInv
<1>11. HostInv'
  BY <1>1, <1>4, <1>5 DEF HostInv, InTransfer, ReplyMatches, StallsExplained
<1>12. AddressInv'
  BY <1>1, <1>2, <1>5 DEF AddressInv
<1> QED
  BY <1>6, <1>7, <1>8, <1>9, <1>10, <1>11, <1>12

\* What a request makes of the configuration and the setting is what the host has been
\* counting with since it sent it.
LEMMA CoreAfter ==
  ASSUME NEW r \in Requests, NEW u, Owned(u), NEW a, NEW confs, NEW alts,
         u.conf \in confs, u.conf # 0 => u.alt \in alts,
         r.name = "SetConfiguration" /\ r.val <= 1 => r.val \in confs /\ 0 \in alts,
         r.name = "SetInterface" /\ r.val <= 1 => r.val \in alts
  PROVE  LET v == UdcAfter(r, u, a)
         IN  /\ v.conf \in confs
             /\ v.conf # 0 => v.alt \in alts
             /\ r.name = "SetConfiguration" /\ r.val <= 1 /\ a # 0 =>
                  v.conf = r.val /\ (v.conf # 0 => v.alt = 0)
<1> DEFINE v == UdcAfter(r, u, a)
<1>1. /\ r.val \in Nat /\ u \in UdcType
      /\ r.name \in {"SetConfiguration", "SetInterface"} => r.len = 0
  BY RequestType, ControlAssumption DEF Request, Owned
<1>2. /\ UdcReset(u) \in UdcType /\ ~UdcReset(u).eps
      /\ IfaceDisable(u) \in UdcType /\ ~IfaceDisable(u).eps
      /\ IfaceDisable(u).conf = u.conf /\ IfaceDisable(u).alt = u.alt
  BY ResetFrees, DisableFrees DEF Owned
<1>3. CASE r.name = "SetConfiguration" /\ ConfigurationAllowed(r, a)
  <2>1. v = SetConfiguration(u, r.val) /\ r.val \in {0, 1}
    BY <1>1, <1>3 DEF UdcAfter, ConfigurationAllowed
  <2>2. CASE r.val = 0
    <3>1. v = UdcReset(u)
      BY <2>1, <2>2 DEF SetConfiguration
    <3>2. UdcReset(u).conf = 0
      BY <1>1, <1>2 DEF UdcReset, UdcType
    <3> QED
      BY <1>3, <2>1, <2>2, <3>1, <3>2 DEF ConfigurationAllowed
  <2>3. CASE r.val = 1
    <3> DEFINE w == [UdcReset(u) EXCEPT !.conf = 1]
    <3>1. w \in UdcType /\ w.conf = 1
      BY <1>2 DEF UdcType
    <3>2. v = IfaceEnable(w, 0)
      BY <2>1, <2>3 DEF SetConfiguration
    <3> HIDE DEF w
    <3>3. v.conf = 1 /\ v.alt = 0
      BY <3>1, <3>2 DEF IfaceEnable, CanEnable, UdcType
    <3> QED
      BY <1>3, <2>1, <2>3, <3>3
  <2> QED
    BY <2>1, <2>2, <2>3
<1>4. CASE r.name = "SetInterface" /\ InterfaceAllowed(r, u)
  <2> DEFINE w == IfaceDisable(u)
  <2>1. v = IfaceEnable(w, r.val)
    BY <1>4 DEF UdcAfter, SetInterface
  <2> HIDE DEF w
  <2>2. w \in UdcType /\ ~w.eps /\ w.conf = u.conf /\ w.alt = u.alt
    BY <1>2 DEF w
  <2>3. CASE CanEnable(w, r.val)
    <3>1. v.conf = u.conf /\ v.alt = r.val /\ r.val <= 1
      BY <1>1, <2>1, <2>2, <2>3 DEF IfaceEnable, CanEnable, UdcType
    <3> QED
      BY <1>4, <3>1
  <2>4. CASE ~CanEnable(w, r.val)
    <3>1. v = w
      BY <2>1, <2>4 DEF IfaceEnable
    <3> QED
      BY <1>4, <2>2, <3>1
  <2> QED
    BY <2>3, <2>4
<1>5. CASE /\ ~(r.name = "SetConfiguration" /\ ConfigurationAllowed(r, a))
           /\ ~(r.name = "SetInterface" /\ InterfaceAllowed(r, u))
  <2>1. v = u
    BY <1>5 DEF UdcAfter
  <2>2. ~(r.name = "SetConfiguration" /\ r.val <= 1 /\ a # 0)
    BY <1>1, <1>5 DEF ConfigurationAllowed
  <2> QED
    BY <2>1, <2>2
<1> QED
  BY <1>3, <1>4, <1>5

\* The request is answered, one of five ways, from a state in which nothing is armed; a
\* status stage that this SETUP has hidden is concluded first, which moves the address
\* of a host that gave the request up.
LEMMA SetupWorkKeeps ==
  ASSUME IInv, SetupWork
  PROVE  IInv'
<1> USE DEF IInv
<1>1. /\ isr = "setup" /\ isr' = "none" /\ UNCHANGED <<flags, fifo, setupif, buf, host>>
      /\ buf \in Requests
      /\ Typed /\ Serves
  BY SetupWorkEffect
<1>2. /\ addr' = IF ctrl.cb THEN ctrl.req.val ELSE addr
      /\ udc' = UdcAfter(buf, udc, addr')
      /\ ctrl'.req = buf /\ buserr' = TRUE
      /\ ctrl'.cb <=> buf.name = "SetAddress"
      /\ in'.tc = FALSE /\ out'.tc = FALSE
      /\ in'.unf => IsIn(buf) \/ buf.len = 0
      /\ out'.ovf => ~IsIn(buf) /\ buf.len > 0
      /\ ctrl' \in CtrlType /\ in' \in InType /\ out' \in OutType /\ udc' \in UdcType
  BY <1>1 DEF Serves, Typed
<1> DEFINE Stalled  == /\ ctrl'.st = "STALL_REQ" /\ Refuses(buf)
                       /\ in'.nack = TRUE /\ out'.nack = TRUE
                       /\ in'.stall = TRUE /\ out'.stall = TRUE
           Reads    == /\ ctrl'.st = "DATA_IN" /\ IsIn(buf) /\ buf.len > 0
                       /\ ctrl'.size = Expected(buf, udc')
                       /\ Sending(ctrl', in') /\ ctrl'.nb = in'.cnt
                       /\ in'.nack = FALSE /\ out'.nack = TRUE
                       /\ in'.stall = FALSE /\ out'.stall = FALSE
           Empty    == /\ ctrl'.st = "WAIT_OUT_ZLP" /\ IsIn(buf) /\ buf.len > 0
                       /\ ctrl'.size = Expected(buf, udc') /\ ctrl'.size = 0
                       /\ in'.nack = TRUE /\ out'.nack = FALSE
                       /\ in'.stall = FALSE /\ out'.stall = FALSE
           Confirms == /\ ctrl'.st = "WAIT_IN_ZLP" /\ ~IsIn(buf) /\ buf.len = 0
                       /\ in'.nack = FALSE /\ out'.nack = TRUE
                       /\ in'.stall = FALSE /\ out'.stall = FALSE
           Takes    == /\ ctrl'.st = "DATA_OUT" /\ ~IsIn(buf) /\ buf.len > 0
                       /\ in'.nack = TRUE /\ out'.nack = FALSE
                       /\ in'.stall = FALSE /\ out'.stall = FALSE
<1>3. Stalled \/ Reads \/ Empty \/ Confirms \/ Takes
  BY <1>1, <1>2 DEF Serves, Answered, State, InType, OutType
<1>4. /\ ~setupif /\ Unserved /\ ~Unserved' /\ Idle' /\ ~InBusy' /\ ~OutBusy'
      /\ ~Queued("in") /\ ~Queued("out") /\ Live' = Live
  BY <1>1, <1>2 DEF UnservedInv, Unserved, FifoInv, Idle, InBusy, OutBusy, Live
<1>5. ~Queued("in")' /\ ~Queued("out")' /\ Distinct'
  BY <1>1, <1>4 DEF Queued, FifoInv, Distinct
<1>6. Live => /\ host.addr = addr /\ host.req = buf /\ host.stage = First(buf)
              /\ host.got = 0 /\ InTransfer
  BY <1>4 DEF PendingInv, First, InTransfer
<1>7. ~Live => host.stage = "idle" /\ ~InTransfer
  BY DEF CoreInv, InTransfer
<1>8. /\ addr' \in Address \cup {0}
      /\ ctrl.cb => addr' # 0
  BY <1>2, ControlAssumption DEF TypeOK, RequestInv
<1>9. /\ buf.name = "SetAddress" => ~IsIn(buf) /\ buf.len = 0 /\ buf.val \in Address
      /\ buf.name = "SetConfiguration" => ~IsIn(buf) /\ buf.len = 0
      /\ buf.len \in Nat
  BY <1>1, ControlAssumption DEF IsIn, Fixed
<1>10. TypeOK'
  BY <1>1, <1>2, <1>8 DEF TypeOK, Typed
<1>11. FifoInv'
  BY <1>1, <1>2, <1>4, <1>5 DEF FifoInv
<1>12. EndpointInv'
  BY <1>1, <1>2, <1>3, <1>4 DEF EndpointInv
<1>13. UnservedInv' /\ PendingInv'
  BY <1>1, <1>4 DEF UnservedInv, PendingInv
<1>14. Owned(udc') /\ (Live => udc'.conf \in host.confs /\ (udc'.conf # 0 => udc'.alt \in host.alts))
       /\ (buf.name = "SetConfiguration" /\ buf.val <= 1 /\ addr' # 0 =>
             udc'.conf = buf.val /\ (udc'.conf # 0 => udc'.alt = 0))
  <2>1. Owned(udc) /\ buf.val \in Nat
    BY <1>1, RequestType DEF CoreInv, TypeOK, Owned, Request
  <2>2. Owned(udc')
    BY <1>2, <2>1, RequestOwns
  <2> DEFINE v == UdcAfter(buf, udc, addr')
  <2>3. ASSUME Live
        PROVE  v.conf \in host.confs /\ (v.conf # 0 => v.alt \in host.alts)
    <3>1. /\ udc.conf \in host.confs /\ (udc.conf # 0 => udc.alt \in host.alts)
          /\ buf.name = "SetConfiguration" /\ buf.val <= 1 =>
               buf.val \in host.confs /\ 0 \in host.alts
          /\ buf.name = "SetInterface" /\ buf.val <= 1 => buf.val \in host.alts
      BY <1>4, <2>3 DEF CoreInv, PendingInv
    <3> QED
      BY <1>1, <2>1, <3>1, CoreAfter
  <2>4. buf.name = "SetConfiguration" /\ buf.val <= 1 /\ addr' # 0 =>
          v.conf = buf.val /\ (v.conf # 0 => v.alt = 0)
    <3> DEFINE any == {0, 1}
    <3>1. /\ udc.conf \in any /\ udc.alt \in any /\ 0 \in any
          /\ buf.val <= 1 => buf.val \in any
      BY <2>1 DEF Owned, UdcType
    <3> HIDE DEF any
    <3> QED
      BY <1>1, <2>1, <3>1, CoreAfter
  <2> HIDE DEF v
  <2> QED
    BY <1>2, <2>2, <2>3, <2>4 DEF v
<1>15. CoreInv'
  BY <1>1, <1>4, <1>7, <1>14 DEF CoreInv, Owned
<1>16. RequestInv'
  <2>1. ctrl'.cb <=> ctrl'.st = "WAIT_IN_ZLP" /\ ctrl'.req.name = "SetAddress"
    BY <1>2, <1>3, <1>9 DEF Refuses
  <2>2. /\ ctrl'.st \in {"DATA_IN", "WAIT_OUT_ZLP"} =>
             /\ IsIn(buf) /\ buf.len > 0
             /\ ctrl'.size = IF NoAnswer(buf, udc') THEN 0 ELSE Cut(buf)
        /\ ctrl'.st = "DATA_OUT" => ~IsIn(buf) /\ buf.len > 0
        /\ ctrl'.st = "WAIT_IN_ZLP" => ~IsIn(buf)
        /\ ctrl'.st = "STALL_REQ" => \/ IsIn(buf) /\ buf.len = 0
                                     \/ buf.name = "Wcid" /\ buf.val \notin {4, 5}
    BY <1>3 DEF Refuses, Expected
  <2> QED
    BY <1>1, <1>2, <1>14, <2>1, <2>2 DEF RequestInv, IsIn, NoAnswer, Cut, Size
<1>17. DataInv'
  BY <1>3 DEF DataInv, Sending
<1>18. ErrorInv'
  BY <1>1, <1>2, <1>3, <1>4, <1>9 DEF ErrorInv
<1>19. StallInv'
  BY <1>3 DEF StallInv
<1>20. HostInv'
  <2>1. Live => Match'
    <3> SUFFICES ASSUME Live PROVE Match'
      OBVIOUS
    <3>1. host'.got = 0 /\ host'.stage = First(buf)
      BY <1>1, <1>6
    <3>2. CASE Stalled
      BY <3>1, <3>2 DEF Match
    <3>3. CASE Reads
      <4>1. in'.cnt \in Nat
        BY <1>2, UdcAssumption DEF InType, Packet
      <4> QED
        BY <1>9, <3>1, <3>3, <4>1 DEF Match, First
    <3>4. CASE Empty
      BY <1>4, <1>9, <3>1, <3>4 DEF Match, First
    <3>5. CASE Confirms
      BY <1>4, <3>1, <3>5 DEF Match, First
    <3>6. CASE Takes
      BY <1>9, <3>1, <3>6 DEF Match, First
    <3> QED
      BY <1>3, <3>2, <3>3, <3>4, <3>5, <3>6
  <2>2. UNCHANGED host /\ InTransfer' = InTransfer
    BY <1>1 DEF InTransfer
  <2>3. /\ host.stage \notin {"done", "stalled"}
        /\ host.stage \in {"idle", "detached"} => ~Live
    BY <1>6, <1>7 DEF First
  <2>4. ReplyMatches' /\ StallsExplained'
    BY <2>2, <2>3 DEF ReplyMatches, StallsExplained
  <2>5. InTransfer => Live /\ host.req = buf
    BY <1>6, <1>7
  <2> QED
    BY <1>2, <1>4, <2>1, <2>2, <2>3, <2>4, <2>5 DEF HostInv
<1>21. AddressInv'
  <2> SUFFICES ASSUME Live
               PROVE  /\ ctrl'.cb /\ InBusy' => host.addr = ctrl'.req.val
                      /\ host.addr # addr' =>
                           /\ MayAbandon /\ addr' # 0
                           /\ InTransfer \/ host.stage = "idle"
                           /\ Idle'
                      /\ ~MayAbandon /\ ctrl'.cb =>
                           host.addr = ctrl'.req.val \/ (host.stage = "status_in" /\ ~Unserved')
    BY <1>1, <1>4 DEF AddressInv, InTransfer
  <2>1. host.addr # addr' => ctrl.cb /\ addr' = ctrl.req.val
    BY <1>2, <1>6
  <2>2. ctrl.cb /\ ~MayAbandon => host.addr = ctrl.req.val
    BY <1>4 DEF AddressInv
  <2>3. ctrl'.cb => host.stage = "status_in"
    BY <1>2, <1>6, <1>9 DEF First
  <2> QED
    BY <1>4, <1>6, <1>8, <2>1, <2>2, <2>3, ControlAssumption
<1> QED
  BY <1>10, <1>11, <1>12, <1>13, <1>15, <1>16, <1>17, <1>18, <1>19, <1>20, <1>21

(***************************************************************************)
(* The host.                                                               *)
(***************************************************************************)

\* What a host knows once it has sent a request.
LEMMA LearnFields ==
  ASSUME NEW h \in HostType, NEW r \in Requests, NEW g, g = Learn(h, r)
  PROVE  /\ g \in HostType
         /\ g.stage = h.stage /\ g.req = h.req /\ g.got = h.got /\ g.val = h.val
         /\ g.of = h.of /\ g.addr = h.addr
         /\ h.confs \subseteq g.confs /\ h.alts \subseteq g.alts
         /\ r.name = "SetConfiguration" /\ r.val <= 1 => r.val \in g.confs /\ 0 \in g.alts
         /\ r.name = "SetInterface" /\ r.val <= 1 => r.val \in g.alts
<1>1. r.val \in Nat
  BY RequestType DEF Request
<1>2. CASE r.name = "SetConfiguration" /\ r.val <= 1
  <2> DEFINE c == h.confs \cup {r.val}
             a == h.alts \cup {0}
  <2>1. g = [h EXCEPT !.confs = c, !.alts = a]
    BY <1>2 DEF Learn, HostType
  <2>2. /\ c \in SUBSET {0, 1} /\ a \in SUBSET {0, 1}
        /\ h.confs \subseteq c /\ h.alts \subseteq a /\ r.val \in c /\ 0 \in a
    BY <1>1, <1>2 DEF HostType
  <2> HIDE DEF c, a
  <2>3. g \in HostType /\ g.confs = c /\ g.alts = a
    BY <2>1, <2>2 DEF HostType
  <2>4. /\ g.stage = h.stage /\ g.req = h.req /\ g.got = h.got /\ g.val = h.val
        /\ g.of = h.of /\ g.addr = h.addr
    BY <2>1 DEF HostType
  <2> QED
    BY <1>2, <2>2, <2>3, <2>4
<1>3. CASE r.name = "SetInterface" /\ r.val <= 1
  <2>1. g = [h EXCEPT !.alts = @ \cup {r.val}]
    BY <1>3 DEF Learn
  <2>2. r.val \in {0, 1}
    BY <1>1, <1>3
  <2> QED
    BY <1>3, <2>1, <2>2 DEF HostType
<1>4. CASE /\ ~(r.name = "SetConfiguration" /\ r.val <= 1)
           /\ ~(r.name = "SetInterface" /\ r.val <= 1)
  BY <1>4 DEF Learn
<1> QED
  BY <1>2, <1>3, <1>4

\* A SETUP replaces what is armed and what is stalled, and may hide a completion.
LEMMA HostSetupKeeps ==
  ASSUME IInv, NEW r \in Requests, HostSetup(r)
  PROVE  IInv'
<1> USE DEF IInv
<1>1. /\ Live /\ host.stage # "detached" /\ host.addr = addr /\ ~InTransfer
      /\ host.stage = "idle" => isr = "none"
      /\ setupif' = TRUE /\ buf' = r
      /\ UNCHANGED <<ctrl, udc, addr, buserr, flags, fifo, isr>>
  BY DEF HostSetup, Hears, Live
<1>2. /\ in' \in InType /\ out' \in OutType
      /\ in'.nack = TRUE /\ in'.stall = FALSE /\ in'.unf = in.unf /\ in'.cnt = in.cnt
      /\ in'.tc => in.tc
      /\ out'.nack = TRUE /\ out'.stall = FALSE /\ out'.tc = FALSE /\ out'.ovf = out.ovf
  BY DEF HostSetup, TypeOK, InType, OutType
<1>3. /\ host' \in HostType
      /\ host'.stage = First(r) /\ host'.req = r /\ host'.got = 0
      /\ host'.of = r /\ host'.addr = host.addr
      /\ host.confs \subseteq host'.confs /\ host.alts \subseteq host'.alts
      /\ r.name = "SetConfiguration" /\ r.val <= 1 => r.val \in host'.confs /\ 0 \in host'.alts
      /\ r.name = "SetInterface" /\ r.val <= 1 => r.val \in host'.alts
  <2> DEFINE h == [host EXCEPT !.stage = First(r), !.req = r, !.got = 0, !.val = 0, !.of = r]
  <2>1. /\ h \in HostType
        /\ h.stage = First(r) /\ h.req = r /\ h.got = 0 /\ h.of = r /\ h.addr = host.addr
        /\ h.confs = host.confs /\ h.alts = host.alts
    BY DEF TypeOK, HostType, First, Stages, Request
  <2>2. host' = Learn(h, r)
    BY DEF HostSetup, First
  <2> HIDE DEF h
  <2> QED
    BY <2>1, <2>2, LearnFields
<1>4. ~Unserved
  BY <1>1 DEF PendingInv, First, InTransfer
<1>5. /\ InBusy => ctrl.st = "WAIT_IN_ZLP"
      /\ OutBusy => ctrl.st = "WAIT_OUT_ZLP"
      /\ in.tc => Queued("in")
  <2>1. CASE host.stage = "idle"
    BY <1>1, <2>1 DEF HostInv, Idle, InBusy, OutBusy, FifoInv
  <2>2. CASE host.stage = "done"
    BY <1>1, <2>2 DEF HostInv, EndpointInv, FifoInv
  <2>3. CASE host.stage = "stalled"
    BY <1>1, <2>3 DEF HostInv, EndpointInv, InBusy, OutBusy, FifoInv
  <2> QED
    BY <1>1, <2>1, <2>2, <2>3 DEF InTransfer, TypeOK, HostType, Stages
<1>6. /\ Live' /\ Unserved' /\ setupif' /\ isr # "setup" /\ (InBusy' => InBusy) /\ (OutBusy' => OutBusy)
  BY <1>1, <1>2, <1>4 DEF Live, Unserved, InBusy, OutBusy
<1>7. InTransfer'
  BY <1>3 DEF InTransfer, First
<1>8. TypeOK'
  BY <1>1, <1>2, <1>3 DEF TypeOK, Request
<1>9. FifoInv'
  BY <1>1, <1>2, <1>5 DEF FifoInv, Queued, Distinct
<1>10. EndpointInv'
  BY <1>1, <1>2, <1>6 DEF EndpointInv
<1>11. UnservedInv'
  BY <1>1, <1>2, <1>5, <1>6 DEF UnservedInv
<1>12. RequestInv' /\ DataInv' /\ StallInv'
  BY <1>1, <1>2 DEF RequestInv, DataInv, Sending, StallInv
<1>13. ErrorInv'
  BY <1>1, <1>2, <1>4, <1>6 DEF ErrorInv
<1>14. CoreInv'
  BY <1>1, <1>3, <1>6 DEF CoreInv
<1>15. PendingInv'
  BY <1>1, <1>3 DEF PendingInv
<1>16. HostInv'
  BY <1>3, <1>6, <1>7 DEF HostInv, InTransfer, ReplyMatches, StallsExplained
<1>17. AddressInv'
  BY <1>1, <1>3, <1>4, <1>6 DEF AddressInv, InTransfer
<1> QED
  BY <1>8, <1>9, <1>10, <1>11, <1>12, <1>13, <1>14, <1>15, <1>16, <1>17

\* A host that forgets its transfer, to start again or for a reset.
LEMMA ForgetsFields ==
  ASSUME TypeOK, NEW stage \in Stages
  PROVE  /\ Forgets(stage) \in HostType
         /\ Forgets(stage).stage = stage /\ Forgets(stage).got = 0
         /\ Forgets(stage).addr = host.addr
         /\ Forgets(stage).confs = host.confs /\ Forgets(stage).alts = host.alts
  BY DEF Forgets, TypeOK, HostType, Request

\* The next request comes only when nothing is left of this one but its status packet.
LEMMA HostAbandonKeeps ==
  ASSUME IInv, HostAbandon
  PROVE  IInv'
<1> USE DEF IInv
<1>1. /\ InTransfer /\ ((MayAbandon /\ Quiet) \/ host.addr # addr)
      /\ host' = Forgets("idle")
      /\ UNCHANGED <<ctrl, udc, addr, in, out, buserr, flags, fifo, setupif, isr, buf>>
  BY DEF HostAbandon, devVars, irqVars
<1>2. /\ host' \in HostType /\ host'.stage = "idle" /\ host'.addr = host.addr
      /\ host'.confs = host.confs /\ host'.alts = host.alts
  BY <1>1, ForgetsFields DEF Stages
<1>3. Live
  BY <1>1 DEF CoreInv, InTransfer
<1>4. /\ MayAbandon /\ Idle /\ ~Unserved
      /\ host.addr # addr => addr # 0
  <2>1. CASE host.addr = addr
    BY <1>1, <2>1, EmptyFifo DEF Quiet, Idle, Unserved
  <2>2. CASE host.addr # addr
    BY <1>1, <1>3, <2>2 DEF AddressInv, InTransfer, PendingInv
  <2> QED
    BY <2>1, <2>2
<1>5. Live' /\ Idle' /\ ~Unserved' /\ InBusy' = InBusy /\ OutBusy' = OutBusy /\ ~InTransfer'
  BY <1>1, <1>2, <1>3, <1>4 DEF Live, Idle, Unserved, InBusy, OutBusy, InTransfer
<1>6. TypeOK'
  BY <1>1, <1>2 DEF TypeOK
<1>7. FifoInv'
  BY <1>1 DEF FifoInv, Queued, Distinct
<1>8. EndpointInv' /\ UnservedInv'
  BY <1>1, <1>4, <1>5 DEF EndpointInv, UnservedInv
<1>9. RequestInv' /\ DataInv' /\ StallInv'
  BY <1>1 DEF RequestInv, DataInv, StallInv
<1>10. ErrorInv'
  BY <1>1, <1>4, <1>5 DEF ErrorInv, AllDone
<1>11. CoreInv' /\ PendingInv'
  BY <1>1, <1>2, <1>3, <1>5 DEF CoreInv, PendingInv
<1>12. HostInv'
  BY <1>2, <1>5 DEF HostInv, ReplyMatches, StallsExplained
<1>13. AddressInv'
  BY <1>1, <1>2, <1>3, <1>4, <1>5 DEF AddressInv, InBusy, Idle
<1> QED
  BY <1>6, <1>7, <1>8, <1>9, <1>10, <1>11, <1>12, <1>13

LEMMA HostResetKeeps ==
  ASSUME IInv, HostReset
  PROVE  IInv'
<1> USE DEF IInv
<1>1. /\ ~setupif /\ flags' = flags \cup {"rst"}
      /\ host' = [Forgets("idle") EXCEPT !.addr = 0, !.confs = {0}, !.alts = {0}]
      /\ UNCHANGED <<ctrl, udc, addr, in, out, buserr, fifo, setupif, isr, buf>>
  BY DEF HostReset, devVars
<1>2. host' \in HostType /\ host'.stage = "idle" /\ host'.addr = 0 /\ host'.confs = {0}
  <2> DEFINE h == Forgets("idle")
  <2>1. h \in HostType /\ h.stage = "idle"
    BY ForgetsFields DEF Stages
  <2>2. host' = [h EXCEPT !.addr = 0, !.confs = {0}, !.alts = {0}]
    BY <1>1
  <2> HIDE DEF h
  <2> QED
    BY <2>1, <2>2 DEF HostType
<1>3. /\ ~Live' /\ ~InTransfer' /\ Unserved' = Unserved /\ InBusy' = InBusy /\ OutBusy' = OutBusy
  BY <1>1, <1>2 DEF Live, InTransfer, Unserved, InBusy, OutBusy
<1>4. TypeOK'
  BY <1>1, <1>2 DEF TypeOK
<1>5. FifoInv'
  BY <1>1 DEF FifoInv, Queued, Distinct
<1>6. EndpointInv' /\ UnservedInv'
  BY <1>1, <1>3 DEF EndpointInv, UnservedInv
<1>7. RequestInv' /\ DataInv' /\ StallInv'
  BY <1>1 DEF RequestInv, DataInv, StallInv
<1>8. ErrorInv'
  BY <1>1, <1>3 DEF ErrorInv, AllDone
<1>9. CoreInv' /\ PendingInv' /\ AddressInv'
  BY <1>1, <1>2, <1>3 DEF CoreInv, PendingInv, AddressInv
<1>10. HostInv'
  BY <1>2, <1>3 DEF HostInv, ReplyMatches, StallsExplained
<1> QED
  BY <1>4, <1>5, <1>6, <1>7, <1>8, <1>9, <1>10

LEMMA ConcludeFields ==
  ASSUME TypeOK, host.req \in Requests
  PROVE  /\ Conclude(host) \in HostType /\ Conclude(host).stage = "done"
         /\ Conclude(host).req = host.req /\ Conclude(host).got = host.got
         /\ Conclude(host).val = host.val /\ Conclude(host).of = host.of
         /\ Conclude(host).addr = IF host.req.name = "SetAddress" THEN host.req.val ELSE host.addr
         /\ Reconfigures(host) =>
              Conclude(host).confs = {host.req.val} /\ Conclude(host).alts = {0}
         /\ ~Reconfigures(host) =>
              Conclude(host).confs = host.confs /\ Conclude(host).alts = host.alts
<1> DEFINE adr   == IF host.req.name = "SetAddress" THEN host.req.val ELSE host.addr
           confs == IF Reconfigures(host) THEN {host.req.val} ELSE host.confs
           alts  == IF Reconfigures(host) THEN {0} ELSE host.alts
           g     == Conclude(host)
<1>1. host \in HostType /\ host.req.val \in Nat
  BY RequestType DEF TypeOK, Request
<1>2. g = [host EXCEPT !.stage = "done", !.addr = adr, !.confs = confs, !.alts = alts]
  BY <1>1 DEF Conclude, HostType
<1>3. adr \in Address \cup {0}
  BY <1>1, ControlAssumption DEF HostType
<1>4. confs \in SUBSET {0, 1} /\ alts \in SUBSET {0, 1}
  <2>1. Reconfigures(host) => host.req.val \in {0, 1}
    BY <1>1 DEF Reconfigures
  <2>2. host.confs \in SUBSET {0, 1} /\ host.alts \in SUBSET {0, 1}
    BY <1>1 DEF HostType
  <2> QED
    BY <2>1, <2>2
<1>5. /\ Reconfigures(host) => confs = {host.req.val} /\ alts = {0}
      /\ ~Reconfigures(host) => confs = host.confs /\ alts = host.alts
  OBVIOUS
<1> HIDE DEF confs, alts, g
<1>6. /\ g \in HostType /\ g.stage = "done" /\ g.req = host.req /\ g.got = host.got
      /\ g.val = host.val /\ g.of = host.of /\ g.addr = adr
      /\ g.confs = confs /\ g.alts = alts
  BY <1>1, <1>2, <1>3, <1>4 DEF HostType, Stages
<1> QED
  BY <1>5, <1>6 DEF g

\* A transfer is answered for the request it belongs to.
LEMMA Serving ==
  ASSUME IInv, Hears, InTransfer
  PROVE  /\ Live /\ host.addr = addr /\ host.req \in Requests /\ host.of = host.req
         /\ ~Unserved => host.req = ctrl.req /\ Match
         /\ Unserved => /\ host.req = buf /\ host.stage = First(buf)
                        /\ in.nack /\ out.nack /\ ~in.stall /\ ~out.stall
  BY DEF IInv, HostInv, Hears, Live, PendingInv, UnservedInv, EndpointInv

\* The packet the host has taken is queued.
LEMMA InTaken ==
  ASSUME IInv, HostIn
  PROVE  /\ Hears /\ InTransfer /\ ~Unserved /\ ~in.stall /\ ~out.stall /\ ~in.nack
         /\ ctrl.st \in {"DATA_IN", "WAIT_IN_ZLP"}
         /\ ~InBusy /\ InBusy' /\ OutBusy' = OutBusy /\ ~Unserved' /\ Live' /\ ~Idle'
         /\ in' \in InType /\ in'.nack /\ in'.tc /\ in'.stall = in.stall
         /\ in'.unf = in.unf /\ in'.cnt = in.cnt
         /\ UNCHANGED <<ctrl, udc, addr, out, buserr, flags, setupif, isr, buf>>
         /\ fifo' \in Seq({"in", "out", "bulk"}) /\ FifoInv' /\ EndpointInv' /\ UnservedInv'
<1> USE DEF IInv
<1>1. /\ Hears /\ host.stage \in {"data_in", "status_in"}
      /\ ~in.stall /\ ~in.nack /\ ~in.tc
      /\ in' = [in EXCEPT !.nack = TRUE, !.tc = TRUE] /\ fifo' = Append(fifo, "in")
      /\ UNCHANGED <<ctrl, udc, addr, out, buserr, flags, setupif, isr, buf>>
  BY DEF HostIn
<1>2. /\ in' \in InType /\ in'.nack /\ in'.tc /\ in'.stall = in.stall
      /\ in'.unf = in.unf /\ in'.cnt = in.cnt
  BY <1>1 DEF TypeOK, InType
<1>3. Live /\ InTransfer
  BY <1>1 DEF Hears, Live, InTransfer
<1>4. /\ ctrl.st \in {"DATA_IN", "WAIT_IN_ZLP"} /\ ~InBusy /\ ~out.stall
      /\ ~Queued("in") /\ ~Unserved
  BY <1>1 DEF EndpointInv, FifoInv, UnservedInv
<1>5. InBusy' /\ OutBusy' = OutBusy /\ ~Unserved' /\ Live' /\ ~Idle'
  BY <1>1, <1>2, <1>3, <1>4 DEF InBusy, OutBusy, Unserved, Live, Idle
<1>6. /\ fifo' \in Seq({"in", "out", "bulk"}) /\ Distinct'
      /\ Queued("in")' /\ (Queued("out")' <=> Queued("out"))
  BY <1>1, <1>4, QueuePush DEF TypeOK, FifoInv
<1>7. FifoInv'
  BY <1>1, <1>2, <1>4, <1>6 DEF FifoInv, InBusy, Unserved
<1>8. EndpointInv' /\ UnservedInv'
  BY <1>1, <1>2, <1>3, <1>4, <1>5 DEF EndpointInv, UnservedInv, Unserved
<1> QED
  BY <1>1, <1>2, <1>3, <1>4, <1>5, <1>6, <1>7, <1>8

\* The status packet of a request: from here on the device is where the host takes it
\* to be.
LEMMA HostInStatusKeeps ==
  ASSUME IInv, HostIn, host.stage = "status_in"
  PROVE  IInv'
<1> USE DEF IInv
<1>1. /\ Hears /\ InTransfer /\ ~Unserved /\ ~in.stall /\ ~out.stall /\ ~in.nack
      /\ ctrl.st \in {"DATA_IN", "WAIT_IN_ZLP"}
      /\ ~InBusy /\ InBusy' /\ OutBusy' = OutBusy /\ ~Unserved' /\ Live' /\ ~Idle'
      /\ in' \in InType /\ in'.nack /\ in'.tc /\ in'.stall = in.stall
      /\ in'.unf = in.unf /\ in'.cnt = in.cnt
      /\ UNCHANGED <<ctrl, udc, addr, out, buserr, flags, setupif, isr, buf>>
      /\ fifo' \in Seq({"in", "out", "bulk"}) /\ FifoInv' /\ EndpointInv' /\ UnservedInv'
  BY InTaken
<1>2. /\ Live /\ host.addr = addr /\ host.req \in Requests /\ host.of = host.req
      /\ host.req = ctrl.req /\ Match
  BY <1>1, Serving
<1>3. ctrl.st = "WAIT_IN_ZLP" /\ ~IsIn(host.req)
  BY <1>1, <1>2 DEF Match, RequestInv
<1>4. host' = Conclude(host)
  BY DEF HostIn
<1>5. /\ host' \in HostType /\ host'.stage = "done"
      /\ host'.req = host.req /\ host'.got = host.got
      /\ host'.val = host.val /\ host'.of = host.of
      /\ host'.addr = IF host.req.name = "SetAddress" THEN host.req.val ELSE host.addr
      /\ Reconfigures(host) => host'.confs = {host.req.val} /\ host'.alts = {0}
      /\ ~Reconfigures(host) => host'.confs = host.confs /\ host'.alts = host.alts
  BY <1>2, <1>4, ConcludeFields
<1>6. TypeOK'
  BY <1>1, <1>5 DEF TypeOK
<1>7. RequestInv' /\ DataInv' /\ StallInv'
  BY <1>1 DEF RequestInv, DataInv, Sending, StallInv
<1>8. ErrorInv'
  BY <1>1, <1>3 DEF ErrorInv
<1>9. CoreInv' /\ PendingInv'
  <2>1. Reconfigures(host) => udc.conf = host.req.val /\ (udc.conf # 0 => udc.alt = 0)
    BY <1>2, <1>3 DEF Reconfigures, RequestInv
  <2> QED
    BY <1>1, <1>2, <1>5, <2>1 DEF CoreInv, PendingInv
<1>10. HostInv'
  <2>1. host'.req.name # "GetConfiguration" /\ host'.req.name # "GetInterface" /\ ~IsIn(host'.req)
    BY <1>3, <1>5 DEF IsIn, Fixed
  <2>2. ~InTransfer' /\ ReplyMatches' /\ StallsExplained'
    BY <1>5, <2>1 DEF InTransfer, ReplyMatches, StallsExplained, IsIn
  <2> QED
    BY <1>1, <1>2, <1>3, <1>5, <2>1, <2>2 DEF HostInv
<1>11. AddressInv'
  BY <1>1, <1>2, <1>3, <1>5 DEF AddressInv, RequestInv
<1> QED
  BY <1>1, <1>6, <1>7, <1>8, <1>9, <1>10, <1>11

\* A packet of the answer: the counts of the driver and of the host agree, so each of
\* them finds the end of the data stage at the same packet.
LEMMA HostInDataKeeps ==
  ASSUME IInv, HostIn, host.stage = "data_in"
  PROVE  IInv'
<1> USE DEF IInv
<1>1. /\ Hears /\ InTransfer /\ ~Unserved /\ ~in.stall /\ ~out.stall /\ ~in.nack
      /\ ctrl.st \in {"DATA_IN", "WAIT_IN_ZLP"}
      /\ ~InBusy /\ InBusy' /\ OutBusy' = OutBusy /\ ~Unserved' /\ Live' /\ ~Idle'
      /\ in' \in InType /\ in'.nack /\ in'.tc /\ in'.stall = in.stall
      /\ in'.unf = in.unf /\ in'.cnt = in.cnt
      /\ UNCHANGED <<ctrl, udc, addr, out, buserr, flags, setupif, isr, buf>>
      /\ fifo' \in Seq({"in", "out", "bulk"}) /\ FifoInv' /\ EndpointInv' /\ UnservedInv'
  BY InTaken
<1>2. /\ Live /\ host.addr = addr /\ host.req \in Requests /\ host.of = host.req
      /\ host.req = ctrl.req /\ Match
  BY <1>1, Serving
<1>3. ctrl.st = "DATA_IN" /\ host.got + in.cnt = ctrl.nb
  BY <1>1, <1>2 DEF Match
<1>4. /\ in.cnt \in Nat /\ host.got \in Nat /\ ctrl.nb \in Nat /\ ctrl.size \in Nat
      /\ CtrlSize \in Nat /\ host.req.len \in Nat /\ udc.conf \in {0, 1} /\ udc.alt \in {0, 1}
  BY <1>2, UdcAssumption, RequestType DEF TypeOK, InType, Packet, HostType, CtrlType, UdcType, Request
<1> DEFINE ends == in.cnt < CtrlSize \/ ctrl.nb = host.req.len
           val  == IF in.cnt = 0 THEN host.val ELSE Value
<1>5. /\ host' \in HostType
      /\ host'.req = host.req /\ host'.got = ctrl.nb /\ host'.of = host.req
      /\ host'.val = val
      /\ host'.stage = IF ends THEN "status_out" ELSE "data_in"
      /\ host'.addr = host.addr /\ host'.confs = host.confs /\ host'.alts = host.alts
  <2>1. host' = [host EXCEPT !.got = ctrl.nb, !.of = host.req, !.val = val,
                             !.stage = IF ends THEN "status_out" ELSE "data_in"]
    BY <1>2, <1>3 DEF HostIn, TypeOK, HostType
  <2>2. val \in {0, 1}
    BY <1>4 DEF Value, TypeOK, HostType
  <2> HIDE DEF val, ends
  <2> QED
    BY <1>2, <1>4, <2>1, <2>2 DEF TypeOK, HostType, Stages, Request
<1>6. ends <=> AllDone
  <2>1. Sending(ctrl, in)
    BY <1>3 DEF DataInv
  <2>2. ctrl.size <= host.req.len
    <3>1. ctrl.size = 0 \/ ctrl.size = Cut(ctrl.req)
      BY <1>3 DEF RequestInv
    <3> QED
      BY <1>2, <1>4, <3>1, CutFacts DEF Request
  <2> QED
    BY <1>2, <1>4, <2>1, <2>2 DEF Sending, AllDone
<1>7. ctrl.nb > 0 => /\ host.req.name = "GetConfiguration" => val \in host.confs
                     /\ host.req.name = "GetInterface" => val \in host.alts
  <2>1. CASE in.cnt = 0
    BY <1>1, <1>3, <1>4, <2>1 DEF HostInv
  <2>2. CASE in.cnt # 0
    <3>1. host.req.name = "GetInterface" => udc.conf # 0
      <4>1. ctrl.size # 0
        BY <1>3, <1>4, <2>2 DEF DataInv, Sending
      <4> QED
        BY <1>2, <1>3, <4>1 DEF RequestInv, NoAnswer
    <3> QED
      BY <1>2, <2>2, <3>1 DEF Value, CoreInv
  <2> QED
    BY <2>1, <2>2
<1> HIDE DEF ends, val
<1>8. TypeOK'
  BY <1>1, <1>5 DEF TypeOK
<1>9. RequestInv' /\ DataInv' /\ StallInv'
  BY <1>1 DEF RequestInv, DataInv, Sending, StallInv
<1>10. ErrorInv'
  BY <1>1, <1>3 DEF ErrorInv, InBusy
<1>11. CoreInv' /\ PendingInv'
  BY <1>1, <1>2, <1>5 DEF CoreInv, PendingInv
<1>12. HostInv'
  <2>1. AllDone' = AllDone
    BY <1>1 DEF AllDone
  <2>2. Match'
    BY <1>1, <1>3, <1>5, <1>6, <2>1 DEF Match
  <2>3. host'.stage \in {"status_out", "data_in"}
    BY <1>5
  <2>4. ReplyMatches' /\ StallsExplained'
    BY <2>3 DEF ReplyMatches, StallsExplained
  <2> QED
    BY <1>1, <1>2, <1>5, <1>7, <2>2, <2>3, <2>4 DEF HostInv
<1>13. AddressInv'
  BY <1>1, <1>2, <1>3, <1>5 DEF AddressInv, RequestInv
<1> QED
  BY <1>1, <1>8, <1>9, <1>10, <1>11, <1>12, <1>13

LEMMA HostInKeeps ==
  ASSUME IInv, HostIn
  PROVE  IInv'
<1>1. host.stage \in {"data_in", "status_in"}
  BY DEF HostIn
<1> QED
  BY <1>1, HostInStatusKeeps, HostInDataKeeps

LEMMA OutTaken ==
  ASSUME IInv, HostOut
  PROVE  /\ Hears /\ InTransfer /\ ~Unserved /\ ~in.stall /\ ~out.stall /\ ~out.nack
         /\ ctrl.st \in {"DATA_OUT", "WAIT_OUT_ZLP"}
         /\ ~OutBusy /\ OutBusy' /\ InBusy' = InBusy /\ ~Unserved' /\ Live' /\ ~Idle'
         /\ out' \in OutType /\ out'.nack /\ out'.tc /\ out'.stall = out.stall
         /\ out'.ovf = out.ovf
         /\ UNCHANGED <<ctrl, udc, addr, in, buserr, flags, setupif, isr, buf>>
         /\ fifo' \in Seq({"in", "out", "bulk"}) /\ FifoInv' /\ EndpointInv' /\ UnservedInv'
<1> USE DEF IInv
<1>1. /\ Hears /\ host.stage \in {"data_out", "status_out"}
      /\ ~out.stall /\ ~out.nack /\ ~out.tc
      /\ out' = [out EXCEPT !.nack = TRUE, !.tc = TRUE] /\ fifo' = Append(fifo, "out")
      /\ UNCHANGED <<ctrl, udc, addr, in, buserr, flags, setupif, isr, buf>>
  BY DEF HostOut
<1>2. /\ out' \in OutType /\ out'.nack /\ out'.tc /\ out'.stall = out.stall
      /\ out'.ovf = out.ovf
  BY <1>1 DEF TypeOK, OutType
<1>3. Live /\ InTransfer
  BY <1>1 DEF Hears, Live, InTransfer
<1>4. /\ ctrl.st \in {"DATA_OUT", "WAIT_OUT_ZLP"} /\ ~OutBusy /\ ~in.stall
      /\ ~Queued("out") /\ ~Unserved
  BY <1>1 DEF EndpointInv, FifoInv, UnservedInv
<1>5. OutBusy' /\ InBusy' = InBusy /\ ~Unserved' /\ Live' /\ ~Idle'
  BY <1>1, <1>2, <1>3, <1>4 DEF InBusy, OutBusy, Unserved, Live, Idle
<1>6. /\ fifo' \in Seq({"in", "out", "bulk"}) /\ Distinct'
      /\ Queued("out")' /\ (Queued("in")' <=> Queued("in"))
  BY <1>1, <1>4, QueuePush DEF TypeOK, FifoInv
<1>7. FifoInv'
  BY <1>1, <1>2, <1>4, <1>6 DEF FifoInv, OutBusy, Unserved
<1>8. EndpointInv' /\ UnservedInv'
  BY <1>1, <1>2, <1>3, <1>4, <1>5 DEF EndpointInv, UnservedInv, Unserved
<1> QED
  BY <1>1, <1>2, <1>3, <1>4, <1>5, <1>6, <1>7, <1>8

\* The host has what it asked for and says so: the whole answer, or none.
LEMMA HostOutStatusKeeps ==
  ASSUME IInv, HostOut, host.stage = "status_out"
  PROVE  IInv'
<1> USE DEF IInv
<1>1. /\ Hears /\ InTransfer /\ ~Unserved /\ ~in.stall /\ ~out.stall /\ ~out.nack
      /\ ctrl.st \in {"DATA_OUT", "WAIT_OUT_ZLP"}
      /\ ~OutBusy /\ OutBusy' /\ InBusy' = InBusy /\ ~Unserved' /\ Live' /\ ~Idle'
      /\ out' \in OutType /\ out'.nack /\ out'.tc /\ out'.stall = out.stall
      /\ out'.ovf = out.ovf
      /\ UNCHANGED <<ctrl, udc, addr, in, buserr, flags, setupif, isr, buf>>
      /\ fifo' \in Seq({"in", "out", "bulk"}) /\ FifoInv' /\ EndpointInv' /\ UnservedInv'
  BY OutTaken
<1>2. /\ Live /\ host.addr = addr /\ host.req \in Requests /\ host.of = host.req
      /\ host.req = ctrl.req /\ Match
  BY <1>1, Serving
<1>3. ctrl.st = "WAIT_OUT_ZLP" /\ IsIn(host.req) /\ host.got = ctrl.size
  BY <1>1, <1>2 DEF Match, RequestInv
<1>4. host.req.name # "SetAddress" /\ ~Reconfigures(host)
  BY <1>3 DEF IsIn, Fixed, Reconfigures
<1>5. /\ host' \in HostType /\ host'.stage = "done"
      /\ host'.req = host.req /\ host'.got = host.got
      /\ host'.val = host.val /\ host'.of = host.of /\ host'.addr = host.addr
      /\ host'.confs = host.confs /\ host'.alts = host.alts
  <2>1. host' = Conclude(host)
    BY DEF HostOut
  <2> QED
    BY <1>2, <1>4, <2>1, ConcludeFields
<1>6. host.got = Cut(host.req) \/ (Refused(host) /\ host.got = 0)
  <2>1. ctrl.size = IF NoAnswer(host.req, udc) THEN 0 ELSE Cut(host.req)
    BY <1>2, <1>3 DEF RequestInv
  <2>2. NoAnswer(host.req, udc) => Refused(host)
    BY <1>2 DEF NoAnswer, Refused, CoreInv
  <2> QED
    BY <1>3, <2>1, <2>2
<1>7. TypeOK'
  BY <1>1, <1>5 DEF TypeOK
<1>8. RequestInv' /\ DataInv' /\ StallInv'
  BY <1>1 DEF RequestInv, DataInv, StallInv
<1>9. ErrorInv'
  BY <1>1, <1>3 DEF ErrorInv
<1>10. CoreInv' /\ PendingInv'
  BY <1>1, <1>2, <1>5 DEF CoreInv, PendingInv
<1>11. HostInv'
  <2>1. ReplyMatches'
    BY <1>1, <1>2, <1>5, <1>6 DEF ReplyMatches, HostInv, Refused
  <2>2. ~InTransfer' /\ StallsExplained'
    BY <1>5 DEF InTransfer, StallsExplained
  <2> QED
    BY <1>1, <1>2, <1>3, <1>5, <2>1, <2>2 DEF HostInv
<1>12. AddressInv'
  BY <1>1, <1>2, <1>3, <1>5 DEF AddressInv, RequestInv
<1> QED
  BY <1>1, <1>7, <1>8, <1>9, <1>10, <1>11, <1>12

\* A packet of data, of which the driver takes one.
LEMMA HostOutDataKeeps ==
  ASSUME IInv, HostOut, host.stage = "data_out"
  PROVE  IInv'
<1> USE DEF IInv
<1>1. /\ Hears /\ InTransfer /\ ~Unserved /\ ~in.stall /\ ~out.stall /\ ~out.nack
      /\ ctrl.st \in {"DATA_OUT", "WAIT_OUT_ZLP"}
      /\ ~OutBusy /\ OutBusy' /\ InBusy' = InBusy /\ ~Unserved' /\ Live' /\ ~Idle'
      /\ out' \in OutType /\ out'.nack /\ out'.tc /\ out'.stall = out.stall
      /\ out'.ovf = out.ovf
      /\ UNCHANGED <<ctrl, udc, addr, in, buserr, flags, setupif, isr, buf>>
      /\ fifo' \in Seq({"in", "out", "bulk"}) /\ FifoInv' /\ EndpointInv' /\ UnservedInv'
  BY OutTaken
<1>2. /\ Live /\ host.addr = addr /\ host.req \in Requests /\ host.of = host.req
      /\ host.req = ctrl.req /\ Match
  BY <1>1, Serving
<1>3. ctrl.st = "DATA_OUT" /\ host.got = 0 /\ ~IsIn(host.req)
  BY <1>1, <1>2 DEF Match, RequestInv
<1>4. CtrlSize \in Nat /\ host.req.len \in Nat
  BY <1>2, UdcAssumption, RequestType DEF Request
<1>5. /\ host' \in HostType
      /\ host'.req = host.req /\ host'.of = host.of
      /\ host'.stage = IF TooLong(host.req) THEN "data_out" ELSE "status_in"
      /\ host'.addr = host.addr /\ host'.confs = host.confs /\ host'.alts = host.alts
  <2> DEFINE got   == host.got + CtrlSize
             stage == IF got >= host.req.len THEN "status_in" ELSE host.stage
  <2>1. host' = [host EXCEPT !.got = got, !.stage = stage]
    BY DEF HostOut
  <2>2. got \in Nat /\ stage = IF TooLong(host.req) THEN "data_out" ELSE "status_in"
    BY <1>3, <1>4 DEF TooLong
  <2> HIDE DEF got, stage
  <2> QED
    BY <2>1, <2>2 DEF TypeOK, HostType, Stages
<1>6. TypeOK'
  BY <1>1, <1>5 DEF TypeOK
<1>7. RequestInv' /\ DataInv' /\ StallInv'
  BY <1>1 DEF RequestInv, DataInv, StallInv
<1>8. ErrorInv'
  BY <1>1, <1>3 DEF ErrorInv, OutBusy
<1>9. CoreInv' /\ PendingInv'
  BY <1>1, <1>2, <1>5 DEF CoreInv, PendingInv
<1>10. HostInv'
  <2>1. Match'
    BY <1>1, <1>2, <1>3, <1>5 DEF Match
  <2>2. host'.stage \in {"data_out", "status_in"}
    BY <1>5
  <2>3. ReplyMatches' /\ StallsExplained'
    BY <2>2 DEF ReplyMatches, StallsExplained
  <2>4. host'.req.name # "GetConfiguration" /\ host'.req.name # "GetInterface"
    BY <1>3, <1>5 DEF IsIn, Fixed
  <2> QED
    BY <1>1, <1>2, <1>5, <2>1, <2>2, <2>3, <2>4 DEF HostInv
<1>11. AddressInv'
  BY <1>1, <1>2, <1>3, <1>5 DEF AddressInv, RequestInv
<1> QED
  BY <1>1, <1>6, <1>7, <1>8, <1>9, <1>10, <1>11

LEMMA HostOutKeeps ==
  ASSUME IInv, HostOut
  PROVE  IInv'
<1>1. host.stage \in {"data_out", "status_out"}
  BY DEF HostOut
<1> QED
  BY <1>1, HostOutStatusKeeps, HostOutDataKeeps

\* A token the endpoint was not ready for leaves its flag: what that flag can mean to the
\* driver later, in each state.
LEMMA HostNakkedKeeps ==
  ASSUME IInv, HostNakked
  PROVE  IInv'
<1> USE DEF IInv
<1>1. /\ Hears /\ InTransfer
      /\ UNCHANGED <<ctrl, udc, addr, buserr, fifo, setupif, isr, buf, host>>
      /\ in' \in InType /\ out' \in OutType
      /\ in'.nack = in.nack /\ in'.tc = in.tc /\ in'.stall = in.stall /\ in'.cnt = in.cnt
      /\ out'.nack = out.nack /\ out'.tc = out.tc /\ out'.stall = out.stall
      /\ \/ /\ host.stage \in {"data_in", "status_in"}
            /\ flags' = flags \cup {"unf"} /\ out'.ovf = out.ovf
         \/ /\ host.stage \in {"data_out", "status_out"}
            /\ flags' = flags \cup {"ovf"} /\ in'.unf = in.unf
  BY DEF HostNakked, InTransfer, TypeOK, InType, OutType
<1>2. /\ Live /\ Live' /\ Unserved' = Unserved /\ InBusy' = InBusy /\ OutBusy' = OutBusy
      /\ Idle' = Idle
  BY <1>1 DEF Hears, Live, Unserved, InBusy, OutBusy, Idle
<1>3. TypeOK'
  BY <1>1 DEF TypeOK
<1>4. FifoInv'
  BY <1>1 DEF FifoInv, Queued, Distinct
<1>5. EndpointInv' /\ UnservedInv'
  BY <1>1, <1>2 DEF EndpointInv, UnservedInv
<1>6. RequestInv' /\ DataInv' /\ StallInv'
  BY <1>1 DEF RequestInv, DataInv, Sending, StallInv
<1>7. ErrorInv'
  <2>1. ctrl.st = "SETUP" => Unserved
    BY <1>1 DEF HostInv, Match
  <2>2. Unserved => host.stage = First(buf)
    BY <1>2 DEF PendingInv
  <2>3. buf.len \in Nat /\ ctrl.req.len \in Nat /\ CtrlSize \in Nat
    BY RequestType, UdcAssumption DEF TypeOK, CtrlType
  <2>4. /\ host.stage \in {"data_in", "status_in"} /\ Unserved => IsIn(buf) \/ buf.len = 0
        /\ host.stage \in {"data_out", "status_out"} /\ Unserved => ~IsIn(buf) /\ buf.len > 0
    BY <2>2, <2>3 DEF First
  <2>5. ASSUME ~Unserved, host.stage \in {"data_in", "status_in"}
        PROVE  /\ ctrl.st = "DATA_OUT" => OutBusy
               /\ ctrl.st = "WAIT_OUT_ZLP" => ctrl.size = 0
               /\ ctrl.st = "DATA_IN" /\ AllDone => isr # "in"
    <3>1. Match
      BY <1>1, <2>5 DEF HostInv
    <3> QED
      BY <2>5, <3>1 DEF Match, EndpointInv, InBusy
  <2>6. ASSUME ~Unserved, host.stage \in {"data_out", "status_out"}
        PROVE  /\ ctrl.st = "DATA_IN" => InBusy /\ AllDone
               /\ ctrl.st = "WAIT_IN_ZLP" => ctrl.req.len > 0 /\ TooLong(ctrl.req)
               /\ ctrl.st = "DATA_OUT" /\ isr = "out" => TooLong(ctrl.req)
    <3>1. Match
      BY <1>1, <2>6 DEF HostInv
    <3>2. TooLong(ctrl.req) => ctrl.req.len > 0
      BY <2>3 DEF TooLong
    <3> QED
      BY <2>6, <3>1, <3>2 DEF Match, EndpointInv, OutBusy
  <2>7. AllDone' = AllDone
    BY <1>1 DEF AllDone
  <2> QED
    BY <1>1, <1>2, <2>1, <2>4, <2>5, <2>6, <2>7 DEF ErrorInv
<1>8. CoreInv' /\ PendingInv'
  BY <1>1, <1>2 DEF CoreInv, PendingInv
<1>9. HostInv'
  <2>1. Match' = Match
    BY <1>1, <1>2 DEF Match, AllDone
  <2> QED
    BY <1>1, <1>2, <2>1 DEF HostInv, InTransfer, ReplyMatches, StallsExplained,
                            Refused, TooMuchData
<1>10. AddressInv'
  BY <1>1, <1>2 DEF AddressInv, InTransfer
<1> QED
  BY <1>3, <1>4, <1>5, <1>6, <1>7, <1>8, <1>9, <1>10

\* A STALL reaches the host only in a state in which there is a reason for it.
LEMMA HostStalledKeeps ==
  ASSUME IInv, HostStalled
  PROVE  IInv'
<1> USE DEF IInv
<1>1. /\ Hears /\ InTransfer /\ in.stall
      /\ host' = [host EXCEPT !.stage = "stalled", !.of = NoRequest, !.got = 0, !.val = 0]
      /\ UNCHANGED <<ctrl, udc, addr, in, out, buserr, flags, fifo, setupif, isr, buf>>
  BY DEF HostStalled, InTransfer, EndpointInv, devVars, irqVars
<1>2. /\ host' \in HostType
      /\ host'.stage = "stalled" /\ host'.req = host.req /\ host'.addr = host.addr
      /\ host'.confs = host.confs /\ host'.alts = host.alts
  BY <1>1 DEF TypeOK, HostType, Stages, Request
<1>3. ~Unserved
  BY <1>1 DEF UnservedInv
<1>4. /\ Live /\ host.addr = addr /\ host.req \in Requests
      /\ host.req = ctrl.req /\ Match
  BY <1>1, <1>3, Serving
<1>5. /\ Live' /\ ~Unserved' /\ InBusy' = InBusy /\ OutBusy' = OutBusy /\ ~InTransfer'
  BY <1>1, <1>2, <1>3, <1>4 DEF Live, Unserved, InBusy, OutBusy, InTransfer
<1>6. Refused(host) \/ TooMuchData(host) \/ udc.eps
  <2>1. ctrl.st \in {"STALL_REQ", "WAIT_IN_ZLP", "WAIT_OUT_ZLP"}
    BY <1>1 DEF StallInv
  <2>2. CASE ctrl.st = "STALL_REQ"
    BY <1>4, <2>2 DEF RequestInv, Refused
  <2>3. CASE ctrl.st = "WAIT_IN_ZLP"
    BY <1>1, <1>4, <2>3 DEF StallInv, RequestInv, TooMuchData, TooLong
  <2>4. CASE ctrl.st = "WAIT_OUT_ZLP"
    <3>1. ctrl.size = 0 => NoAnswer(host.req, udc)
      BY <1>4, <2>4, CutFacts DEF RequestInv, Request
    <3>2. NoAnswer(host.req, udc) => Refused(host)
      BY <1>4 DEF NoAnswer, Refused, CoreInv
    <3> QED
      BY <1>1, <2>4, <3>1, <3>2 DEF StallInv
  <2> QED
    BY <2>1, <2>2, <2>3, <2>4
<1>7. ~ctrl.cb
  BY <1>1, ControlAssumption DEF StallInv, RequestInv
<1>8. TypeOK'
  BY <1>1, <1>2 DEF TypeOK
<1>9. FifoInv'
  BY <1>1 DEF FifoInv, Queued, Distinct
<1>10. EndpointInv' /\ UnservedInv'
  BY <1>1, <1>3, <1>5 DEF EndpointInv, UnservedInv
<1>11. RequestInv' /\ DataInv' /\ StallInv'
  BY <1>1 DEF RequestInv, DataInv, StallInv
<1>12. ErrorInv'
  BY <1>1, <1>3, <1>5 DEF ErrorInv, AllDone
<1>13. CoreInv' /\ PendingInv'
  BY <1>1, <1>2, <1>4, <1>5 DEF CoreInv, PendingInv
<1>14. HostInv'
  <2>1. StallsExplained'
    BY <1>1, <1>2, <1>6 DEF StallsExplained, Refused, TooMuchData
  <2>2. ReplyMatches'
    BY <1>2 DEF ReplyMatches
  <2> QED
    BY <1>1, <1>2, <1>5, <2>1, <2>2 DEF HostInv
<1>15. AddressInv'
  BY <1>1, <1>2, <1>4, <1>7 DEF AddressInv
<1> QED
  BY <1>8, <1>9, <1>10, <1>11, <1>12, <1>13, <1>14, <1>15

\* The flags of the bus and of the bulk endpoints.
LEMMA OthersFlagsKeep ==
  ASSUME IInv, BusFlag \/ BulkNak
  PROVE  IInv'
<1>1. CASE BusFlag
  <2>1. PICK f \in {"sof", "line"} : flags' = flags \cup {f}
    BY <1>1 DEF BusFlag
  <2>2. UNCHANGED <<devVars, fifo, setupif, isr, buf, host>> /\ Live' = Live
    BY <1>1, <2>1 DEF BusFlag, Live
  <2> QED
    BY <2>1, <2>2, FlagsKeep DEF IInv, TypeOK
<1>2. CASE BulkNak
  <2>1. PICK f \in {"unf", "ovf"} : flags' = flags \cup {f}
    BY <1>2 DEF BulkNak
  <2>2. UNCHANGED <<devVars, fifo, setupif, isr, buf, host>> /\ udc.eps /\ Live' = Live
    BY <1>2, <2>1 DEF BulkNak, Live
  <2> QED
    BY <2>1, <2>2, FlagsKeep DEF IInv, TypeOK
<1> QED
  BY <1>1, <1>2

(***************************************************************************)
(* The theorems.                                                           *)
(***************************************************************************)

LEMMA InitInv == Init => IInv
<1> SUFFICES ASSUME Init PROVE IInv
  OBVIOUS
<1>1. /\ ctrl = [st |-> "SETUP", req |-> NoRequest, cb |-> FALSE, size |-> 0,
                 nb |-> 0, prev |-> 0, short |-> FALSE]
      /\ udc = [conf |-> 0, alt |-> 0, eps |-> FALSE] /\ addr = 0
      /\ in = Ep0In /\ out = Ep0Out /\ buserr = FALSE
      /\ flags = {} /\ fifo = <<>> /\ setupif = FALSE /\ isr = "none"
      /\ buf = NoRequest
      /\ host = [stage |-> "detached", req |-> NoRequest, got |-> 0, val |-> 0,
                 of |-> NoRequest, addr |-> 0, confs |-> {0}, alts |-> {0}]
  BY DEF Init
<1>2. Ep0In \in InType /\ Ep0Out \in OutType /\ NoRequest \in Request
  BY UdcAssumption DEF Ep0In, Ep0Out, InType, OutType, Packet, Request
<1>3. /\ in.nack = TRUE /\ in.stall = FALSE /\ in.tc = FALSE /\ in.unf = FALSE
      /\ out.nack = TRUE /\ out.stall = FALSE /\ out.tc = FALSE /\ out.ovf = FALSE
  BY <1>1 DEF Ep0In, Ep0Out
<1>4. ctrl.st = "SETUP" /\ ctrl.cb = FALSE /\ host.stage = "detached" /\ host.addr = 0
  BY <1>1
<1>5. ~Unserved /\ ~InBusy /\ ~OutBusy /\ Idle /\ Live /\ ~InTransfer
  BY <1>1, <1>3, <1>4 DEF Unserved, InBusy, OutBusy, Idle, Live, InTransfer
<1>6. TypeOK
  <2>1. ctrl \in CtrlType
    BY <1>1, <1>2 DEF CtrlType, States
  <2>2. host \in HostType
    BY <1>1, <1>2 DEF HostType, Stages
  <2>3. udc \in UdcType
    BY <1>1 DEF UdcType
  <2>4. in \in InType /\ out \in OutType /\ buf \in Request /\ addr \in Address \cup {0}
    BY <1>1, <1>2
  <2>5. buserr \in BOOLEAN /\ setupif \in BOOLEAN
    BY <1>1, Zenon
  <2>6. flags \subseteq {"sof", "unf", "ovf", "rst", "line"}
    BY <1>1
  <2>7. fifo \in Seq({"in", "out", "bulk"})
    <3>1. <<>> \in Seq({"in", "out", "bulk"})
      OBVIOUS
    <3> QED
      BY <1>1, <3>1
  <2>8. isr \in {"none", "setup", "in", "out"}
    BY <1>1
  <2> QED
    BY <2>1, <2>2, <2>3, <2>4, <2>5, <2>6, <2>7, <2>8 DEF TypeOK
<1>7. FifoInv
  BY <1>1, <1>3, <1>4 DEF FifoInv, Distinct
<1>8. EndpointInv /\ UnservedInv
  BY <1>1, <1>3, <1>4, <1>5 DEF EndpointInv, UnservedInv
<1>9. RequestInv /\ DataInv /\ ErrorInv /\ StallInv
  BY <1>3, <1>4, <1>5 DEF RequestInv, DataInv, ErrorInv, StallInv
<1>10. CoreInv /\ PendingInv
  BY <1>1, <1>5 DEF CoreInv, PendingInv
<1>11. HostInv
  BY <1>4, <1>5 DEF HostInv, ReplyMatches, StallsExplained
<1>12. AddressInv
  BY <1>1, <1>4, <1>5 DEF AddressInv
<1> QED
  BY <1>6, <1>7, <1>8, <1>9, <1>10, <1>11, <1>12 DEF IInv

LEMMA NextInv == IInv /\ [Next]_vars => IInv'
<1> SUFFICES ASSUME IInv, [Next]_vars PROVE IInv'
  OBVIOUS
<1>1. CASE UNCHANGED vars
  <2>1. UNCHANGED <<devVars, flags, fifo, setupif, isr, buf, host>> /\ Live' = Live
    BY <1>1 DEF vars, irqVars, Live
  <2> QED
    BY <2>1, FlagsKeep DEF IInv, TypeOK
<1>2. CASE Trncompl
  BY <1>2, TrnCompleteKeeps, TakeSetupKeeps, SetupWorkKeeps, InWorkKeep, OutWorkKeep
     DEF Trncompl
<1>3. CASE Busevent
  BY <1>3, LineKeeps, ErrorEventsKeep, ResetKeeps DEF Busevent
<1>4. CASE Host
  BY <1>4, HostSetupKeeps, HostInKeeps, HostOutKeeps, HostNakkedKeeps, HostStalledKeeps,
     HostAbandonKeeps, HostResetKeeps, OthersFlagsKeep, BulkCompleteKeeps DEF Host
<1> QED
  BY <1>1, <1>2, <1>3, <1>4 DEF Next

\* The state of the driver, the registers of endpoint 0 and what the host is waiting for
\* stay in the relation that usb_device.c relies on, whatever the host sends and
\* whenever it sends it (usb_device.c:1006-1300, udc.c:1003-1015).
THEOREM Fw1ControlInvariant == Spec => []IInv
<1> QED
  BY InitInv, NextInv, PTL DEF Spec

\* The driver's variables, endpoint 0's registers and the host keep their types.
THEOREM Fw1ControlTypeCorrect == Spec => []TypeOK
<1>1. IInv => TypeOK
  BY DEF IInv
<1> QED
  BY <1>1, Fw1ControlInvariant, PTL

\* At most three completions wait in the hardware's FIFO: one of each side of endpoint 0
\* beside the bulk endpoint's, which is not armed again before its entry is read.  The
\* FIFO never overwrites one that the driver has not read (usb_device.c:204, 883-897).
THEOREM Fw1QueueBounded == Spec => [](Len(fifo) <= 3)
<1>1. IInv => Len(fifo) <= 3
  BY QueueBound DEF IInv, FifoInv, TypeOK
<1> QED
  BY <1>1, Fw1ControlInvariant, PTL

\* udd_ctrl_in_sent and udd_ctrl_out_received never meet a state their assertions do not
\* name (usb_device.c:1099, 1151).
THEOREM Fw1StateExpected == Spec => []StateExpected
<1>1. IInv => StateExpected
  BY DEF IInv, EndpointInv, InBusy, OutBusy, StateExpected
<1> QED
  BY <1>1, Fw1ControlInvariant, PTL

\* A read that ends has sent the host its own answer, of any length and through any
\* number of packets, and the configuration and setting in force (usb_device.c:1077-1133,
\* udc.c:1003-1015).
THEOREM Fw1ReplyMatches == Spec => []ReplyMatches
<1>1. IInv => ReplyMatches
  BY DEF IInv, HostInv
<1> QED
  BY <1>1, Fw1ControlInvariant, PTL

\* A STALL has a cause: a request that is refused, more data than a packet, or bulk
\* traffic (usb_device.c:1199-1231, 1266).
THEOREM Fw1StallsExplained == Spec => []StallsExplained
<1>1. IInv => StallsExplained
  BY DEF IInv, HostInv
<1> QED
  BY <1>1, Fw1ControlInvariant, PTL

\* The bulk endpoints are enabled only where the host may have selected setting 1
\* (udc.c:329-340, 803-861, 895-915).
THEOREM Fw1EndpointsFollowHost == Spec => []EndpointsFollowHost
<1>1. IInv => EndpointsFollowHost
  BY DEF IInv, CoreInv, EndpointsFollowHost, Live
<1> QED
  BY <1>1, Fw1ControlInvariant, PTL

\* A host that has moved the device finds it at its address. A host may lose it by giving
\* up a SET_ADDRESS to another address than the one it uses, so where hosts give up there
\* is one address to assign (usb_device.c:1028-1040, 1077-1089, 1131-1140).
THEOREM Fw1AddressReached ==
  (~MayAbandon \/ \A a, b \in Address : a = b) => (Spec => []AddressReached)
<1> SUFFICES ASSUME ~MayAbandon \/ \A a, b \in Address : a = b
             PROVE  Spec => []AddressReached
  OBVIOUS
<1>1. IInv => AddressReached
  <2> SUFFICES ASSUME IInv, host.addr # 0, addr # host.addr, Live, isr = "none", fifo = <<>>
               PROVE  FALSE
    BY DEF AddressReached, Live
  <2>1. ~InBusy
    BY EmptyFifo DEF IInv, InBusy
  <2>2. MayAbandon /\ addr # 0
    BY <2>1 DEF IInv, AddressInv
  <2>3. host.addr \in Address /\ addr \in Address
    BY <2>2 DEF IInv, TypeOK, HostType
  <2> QED
    BY <2>2, <2>3
<1> QED
  BY <1>1, Fw1ControlInvariant, PTL

\* The address moves only where the host has moved it.
LEMMA EndingAddress ==
  ASSUME IInv, Ending, InBusy, addr' # addr, Live
  PROVE  addr' = host.addr
  BY DEF IInv, Ending, AddressInv

LEMMA InStatus ==
  ASSUME IInv, NEW r, r = ctrl.req, ctrl.cb
  PROVE  r = Req("SetAddress", r.val, 0)
<1>1. r \in Requests /\ r.name = "SetAddress" /\ r.len = 0
  BY ControlAssumption DEF IInv, RequestInv
<1>2. r \in [name : STRING, val : Nat, len : Nat]
  BY <1>1, ControlAssumption
<1>3. r = [name |-> r.name, val |-> r.val, len |-> r.len]
  BY <1>2
<1> QED
  BY <1>1, <1>3 DEF Req

\* The address changes only as the host concludes SET_ADDRESS, as it hides the status
\* stage of one it gives up, or as it resets the bus (usb_device.c:1028-1040,
\* udc.c:575-590).
THEOREM Fw1AddressFollowsHost == Spec => AddressFollowsHost
<1> DEFINE Follows ==
      addr' # addr =>
        \/ "rst" \in flags
        \/ addr' = host.addr
        \/ /\ isr = "setup" /\ MayAbandon
           /\ ctrl.st = "WAIT_IN_ZLP" /\ ctrl.req = Req("SetAddress", addr', 0)
<1>1. ASSUME IInv, [Next]_vars PROVE Follows
  <2> SUFFICES ASSUME addr' # addr, Live
               PROVE  \/ addr' = host.addr
                      \/ /\ isr = "setup" /\ MayAbandon /\ ctrl.st = "WAIT_IN_ZLP"
                         /\ ctrl.req = Req("SetAddress", addr', 0)
    BY DEF Live
  <2>1. CASE UNCHANGED vars
    BY <2>1 DEF vars, devVars
  <2>2. CASE TrnComplete \/ TakeSetup \/ Line \/ Host
    BY <2>2 DEF TrnComplete, TakeSetup, Line, Host, HostSetup, HostIn, HostOut, HostNakked,
                HostStalled, HostAbandon, HostReset, BusFlag, BulkNak, BulkComplete, devVars
  <2>3. CASE SetupWork
    <3>1. isr = "setup" /\ addr' = IF ctrl.cb THEN ctrl.req.val ELSE addr
      BY <1>1, <2>3, SetupWorkEffect DEF IInv, Serves
    <3>2. ctrl.cb /\ addr' = ctrl.req.val
      BY <3>1
    <3>3. ctrl.st = "WAIT_IN_ZLP" /\ ctrl.req = Req("SetAddress", addr', 0)
      BY <1>1, <3>2, InStatus DEF IInv, RequestInv
    <3>4. ~MayAbandon => addr' = host.addr
      BY <1>1, <3>1, <3>2 DEF IInv, AddressInv, Unserved
    <3> QED
      BY <3>1, <3>3, <3>4
  <2>4. CASE InWork
    <3>1. Ending /\ InBusy
      BY <1>1, <2>4, InWorkEffect DEF IInv, Sends, AwaitsOut, InBusy
    <3> QED
      BY <1>1, <3>1, EndingAddress
  <2>5. CASE OutWork
    <3>1. Ending /\ ctrl.st = "WAIT_OUT_ZLP"
      BY <1>1, <2>5, OutWorkEffect DEF IInv, AwaitsIn
    <3> QED
      BY <1>1, <3>1 DEF IInv, Ending, RequestInv
  <2>6. CASE UnderflowEvent
    BY <1>1, <2>6, UnderflowEffect DEF IInv, ErrorEffect, Stalls, devVars
  <2>7. CASE OverflowEvent
    BY <1>1, <2>7, OverflowEffect DEF IInv, ErrorEffect, Stalls, devVars
  <2>8. CASE ResetEvent
    BY <1>1, <2>8, ResetEffect DEF IInv, Live
  <2> QED
    BY <1>1, <2>1, <2>2, <2>3, <2>4, <2>5, <2>6, <2>7, <2>8 DEF Next, Trncompl, Busevent
<1>2. IInv /\ [Next]_vars => [Follows]_vars
  BY <1>1
<1> QED
  BY <1>2, Fw1ControlInvariant, PTL DEF Spec, AddressFollowsHost
=============================================================================
