-------------------------- MODULE Fw1StreamProofs --------------------------
(***************************************************************************)
(* Proofs about Fw1Stream, for every buffer size, packet size and choice   *)
(* of host faults; each theorem names the faults it excludes.  Most        *)
(* properties hold until a request or a reset is served inside udd_ep_run, *)
(* which breaks Sound, and their theorems say ~crossed; InStep and         *)
(* CompletionServed, at the end, hold wherever requests are served.        *)
(***************************************************************************)
EXTENDS Fw1Stream, TLAPS

\* Taking a remainder leaves what is below the modulus alone.
LEMMA ModSmall ==
  ASSUME NEW w \in Nat \ {0}, NEW a \in 0..(w - 1)
  PROVE  a % w = a /\ (a + w) % w = a
  OBVIOUS

LEMMA ModRange ==
  ASSUME NEW w \in Nat \ {0}, NEW a \in Nat
  PROVE  a % w \in 0..(w - 1)
  OBVIOUS

\* One transfer sends the whole buffer.
LEMMA OneTransfer ==
  /\ NextTrans(0) = BufPackets
  /\ BufPackets % Wrap = BufPackets
  /\ ~AllSent(0) /\ AllSent(BufPackets)
<1>1. BufPackets \in 0..(Wrap - 1) /\ Wrap \in Nat \ {0}
  BY Fw1Assumption
<1>2. BufPackets % Wrap = BufPackets /\ (BufPackets + Wrap) % Wrap = BufPackets
  BY <1>1, ModSmall
<1>3. Left(0) = BufPackets
  BY <1>1, <1>2 DEF Left
<1> QED
  BY <1>2, <1>3, Fw1Assumption DEF NextTrans, AllSent

LEMMA CellsPositive == BufCells \in Nat \ {0}
  BY Fw1Assumption DEF BufCells

LEMMA InitIInv == Init => IInv
<1> SUFFICES ASSUME Init PROVE Sound /\ crossed = FALSE
  BY DEF IInv, Init
<1>1. TypeOK
  <2>1. uses \in [CellIds -> 0..MaxUses]
    BY DEF Init, MaxUses
  <2>2. 0 \in 0..BufCells /\ 0 \in 0..(Wrap - 1) /\ 0 \in 0..MaxTrans
    BY CellsPositive, Fw1Assumption
  <2>3. ep \in [enabled : BOOLEAN, stall : BOOLEAN, nack : BOOLEAN, trn : BOOLEAN,
               toggle : {0, 1}, dataptr : 0..(Wrap - 1),
               aux : 0..MaxTrans, cnt : 0..MaxTrans]
    BY <2>2 DEF Init
  <2> QED
    BY <2>1, <2>2, <2>3 DEF Init, TypeOK, Checks
<1> QED
  BY <1>1 DEF Init, Sound, MainInv, EndpointInv, UnderWay, Filling, Armed, Checks

\* Statements of main that leave the registers and the job alone, or change a
\* field that only the statements behind them rely on.
LEMMA MainStep ==
  ASSUME Sound, Main
  PROVE  Sound'
<1> USE Fw1Assumption
<1> USE DEF Sound, TypeOK, MainInv, EndpointInv, UnderWay, Armed, Checks, Filling,
            MainRuns, Goto, NoOther, Retry, drvVars, udcVars, hostVars
<1>1. CASE FillCell
  <2>1. n' \in 0..BufCells
    BY <1>1, CellsPositive DEF FillCell, Room
  <2>2. uses' \in [CellIds -> 0..MaxUses]
    <3>1. uses \in [CellIds -> 0..MaxUses] /\ 0 \in 0..MaxUses
      BY DEF MaxUses
    <3>2. uses' = [uses EXCEPT ![n] = 0]
      BY <1>1 DEF FillCell
    <3> HIDE DEF Sound
    <3> QED
      BY <3>1, <3>2
  <2> QED
    BY <1>1, <2>1, <2>2 DEF FillCell
<1>2. CASE FillDone
  BY <1>2 DEF FillDone
<1>3. CASE CheckEnabled
  BY <1>3 DEF CheckEnabled
<1>4. CASE CheckStall
  BY <1>4 DEF CheckStall
<1>5. CASE TakeJob
  BY <1>5 DEF TakeJob, JobFree
<1>6. CASE FillJob
  BY <1>6 DEF FillJob
<1>7. CASE ResetSent
  BY <1>7 DEF ResetSent, SentReset
<1>8. CASE CountSent
  BY <1>8, ModSmall DEF CountSent, Sent, State
<1>9. CASE SendMore
  <2>1. CASE pc # "more"
    BY <1>9, <2>1 DEF SendMore
  <2>2. CASE pc = "more"
    <3>1. job.nb = 0
      BY <2>2
    <3>2. ~AllSent(job.nb) /\ NextTrans(job.nb) = BufPackets
      BY <3>1, OneTransfer
    <3> QED
      BY <1>9, <2>2, <3>2 DEF SendMore
  <2> QED
    BY <2>1, <2>2
<1>10. CASE ClearSent
  BY <1>10 DEF ClearSent
<1>11. CASE SetByteCnt
  BY <1>11 DEF SetByteCnt
<1>12. CASE SetBuf
  BY <1>12 DEF SetBuf
<1>13. CASE ClearNack
  <2>1. TypeOK'
    <3>1. 0 \in 0..BufCells
      BY CellsPositive
    <3>2. ep' = [ep EXCEPT !.nack = FALSE]
      BY <1>13 DEF ClearNack
    <3>3. n' = 0 /\ pc' = "fill"
      BY <1>13 DEF ClearNack
    <3> QED
      BY <1>13, <3>1, <3>2, <3>3 DEF ClearNack
  <2>2. (~restarted /\ MainInv)'
    BY <1>13 DEF ClearNack
  <2>3. (EndpointInv /\ UnderWay)'
    BY <1>13 DEF ClearNack
  <2> QED
    BY <2>1, <2>2, <2>3
<1>14. CASE JobDone
  BY <1>14 DEF JobDone
<1> QED
  BY <1>1, <1>2, <1>3, <1>4, <1>5, <1>6, <1>7, <1>8, <1>9, <1>10, <1>11, <1>12,
     <1>13, <1>14 DEF Main

\* The handlers, which find main outside udd_ep_run or past its lock.
LEMMA HandlerStep ==
  ASSUME Sound, ~crossed', TransferComplete \/ Requests
  PROVE  Sound'
<1> USE Fw1Assumption
<1> USE DEF Sound, TypeOK, MainInv, EndpointInv, UnderWay, Armed, Checks, Filling,
            Served, InRun, Becomes, State, Abort, EndJob, mainVars, drvVars, udcVars, hostVars
<1>1. CASE TransferComplete
  <2>1. CASE ~ep.trn
    BY <1>1, <2>1 DEF TransferComplete
  <2>2. CASE ep.trn
    <3>1. Sent(Ack(State)) = BufPackets /\ AllSent(BufPackets)
      BY <2>2, OneTransfer DEF Sent, Ack
    <3>2. TransComplet(Ack(State)) =
            [ep |-> [ep EXCEPT !.trn = FALSE], job |-> [busy |-> FALSE, nb |-> BufPackets]]
      BY <3>1 DEF TransComplet, Ack
    <3>3. ep' = [ep EXCEPT !.trn = FALSE] /\ job' = [busy |-> FALSE, nb |-> BufPackets]
      BY <1>1, <2>2, <3>2 DEF TransferComplete
    <3>4. UNCHANGED <<mainVars, udcVars, restarted, hostVars>> /\ tc' = FALSE
      BY <1>1 DEF TransferComplete
    <3>5. TypeOK'
      <4>1. BufPackets \in 0..(Wrap - 1)
        OBVIOUS
      <4>2. job' \in [busy : BOOLEAN, nb : 0..(Wrap - 1)]
        BY <3>3, <4>1
      <4>3. ep' \in [enabled : BOOLEAN, stall : BOOLEAN, nack : BOOLEAN, trn : BOOLEAN,
                    toggle : {0, 1}, dataptr : 0..(Wrap - 1),
                    aux : 0..MaxTrans, cnt : 0..MaxTrans]
        BY <3>3
      <4> QED
        BY <3>4, <4>2, <4>3
    <3>6. (~restarted /\ MainInv /\ EndpointInv /\ UnderWay)'
      BY <2>2, <3>3, <3>4
    <3> QED
      BY <3>5, <3>6
  <2> QED
    BY <2>1, <2>2
<1>2. CASE BusReset
  BY <1>2 DEF BusReset, UdcReset, IfaceDisable, Free
<1>3. ASSUME NEW v \in {0, 1}, SetConfiguration(v)
      PROVE  Sound'
  BY <1>3 DEF SetConfiguration, UdcReset, IfaceDisable, Free
<1>4. ASSUME NEW v \in {0, 1, 2}, SetInterface(v)
      PROVE  Sound'
  <2>1. CASE v # 1
    BY <1>4, <2>1 DEF SetInterface, IfaceDisable, Free
  <2>2. CASE v = 1
    <3>1. CASE alt = 1
      <4>1. ep' = [ep EXCEPT !.nack = TRUE, !.enabled = TRUE, !.stall = FALSE,
                             !.trn = FALSE, !.toggle = 0]
            /\ job' = [job EXCEPT !.busy = FALSE]
        BY <1>4, <2>2, <3>1 DEF SetInterface, IfaceDisable, Free, Alloc
      <4> QED
        BY <1>4, <2>2, <4>1 DEF SetInterface
    <3>2. CASE alt # 1
      <4>1. ep' = [ep EXCEPT !.nack = TRUE, !.enabled = TRUE, !.stall = FALSE,
                             !.trn = FALSE, !.toggle = 0]
            /\ job' = job
        BY <1>4, <2>2, <3>2 DEF SetInterface, IfaceDisable, Alloc
      <4> QED
        BY <1>4, <2>2, <3>2, <4>1 DEF SetInterface
    <3> QED
      BY <3>1, <3>2
  <2> QED
    BY <2>1, <2>2
<1>5. CASE SetFeatureHalt
  BY <1>5 DEF SetFeatureHalt, SetHalt
<1>6. CASE ClearFeatureHalt
  BY <1>6 DEF ClearFeatureHalt, ClearHalt, CallsNohalt
<1> QED
  BY <1>1, <1>2, <1>3, <1>4, <1>5, <1>6 DEF Requests

\* A token of the host, whether or not its ACK comes back.
LEMMA TokenStep ==
  ASSUME Sound, InToken \/ InTokenAckLost
  PROVE  Sound'
<1> USE Fw1Assumption
<1> USE DEF Sound, TypeOK, MainInv, EndpointInv, UnderWay, Armed, Checks, Filling,
            mainVars, drvVars, udcVars, hostVars
<1>1. HostTakes
  BY DEF InToken, InTokenAckLost
<1>2. uses' \in [CellIds -> 0..MaxUses] /\ htoggle' \in {0, 1}
  <2>1. uses \in [CellIds -> 0..MaxUses]
    OBVIOUS
  <2>2. \A c \in CellIds : uses[c] < MaxUses => uses[c] + 1 \in 0..MaxUses
    BY <2>1 DEF MaxUses
  <2> QED
    BY <1>1, <2>1, <2>2 DEF HostTakes
<1>3. CASE InToken
  <2> DEFINE last == ep.aux + 1 >= ep.cnt
  <2>1. /\ ep' = [ep EXCEPT !.aux = @ + 1, !.toggle = 1 - @, !.trn = last, !.nack = last]
        /\ tc' = last
        /\ UNCHANGED <<mainVars, job, udcVars, restarted>>
    BY <1>3 DEF InToken
  <2>2. /\ ep.cnt = BufPackets /\ ep.aux < BufPackets /\ job.busy /\ job.nb = 0
        /\ ~tc /\ pc \in Checks
    BY <1>3 DEF InToken
  <2>3. last \in BOOLEAN /\ 1 - ep.toggle \in {0, 1} /\ ep.aux + 1 \in 0..MaxTrans
    BY <2>2
  <2>4. last => ep.aux + 1 = BufPackets
    BY <2>2
  <2>5. ~last => ep.aux + 1 < BufPackets
    BY <2>2
  <2> HIDE DEF last
  <2>6. TypeOK'
    BY <1>2, <2>1, <2>3
  <2>7. (~restarted /\ MainInv /\ EndpointInv /\ UnderWay)'
    BY <1>3, <2>1, <2>2, <2>3, <2>4, <2>5 DEF InToken
  <2> QED
    BY <2>6, <2>7
<1>4. CASE InTokenAckLost
  BY <1>2, <1>4 DEF InTokenAckLost
<1> QED
  BY <1>3, <1>4

LEMMA StepSound ==
  ASSUME Sound, ~crossed', [Next]_vars
  PROVE  Sound'
<1>1. CASE UNCHANGED vars
  BY <1>1 DEF Sound, TypeOK, MainInv, EndpointInv, UnderWay, Armed, vars,
              mainVars, drvVars, udcVars, hostVars
<1> QED
  BY <1>1, MainStep, HandlerStep, TokenStep DEF Next

\* A step may set crossed and never clears it.
LEMMA CrossedStays ==
  ASSUME crossed \in BOOLEAN, [Next]_vars
  PROVE  crossed' \in BOOLEAN /\ (crossed => crossed')
<1>1. CASE Main
  BY <1>1 DEF Main, FillCell, FillDone, CheckEnabled, CheckStall, TakeJob, FillJob,
     ResetSent, CountSent, SendMore, ClearSent, SetByteCnt, SetBuf, ClearNack, JobDone,
     NoOther
<1>2. CASE TransferComplete \/ InToken \/ InTokenAckLost
  BY <1>2 DEF TransferComplete, InToken, InTokenAckLost
<1>3. CASE Requests
  <2>1. Served
    BY <1>3 DEF Requests, BusReset, SetConfiguration, SetInterface, SetFeatureHalt,
       ClearFeatureHalt
  <2> QED
    BY <2>1 DEF Served, InRun
<1>4. CASE UNCHANGED vars
  BY <1>4 DEF vars
<1> QED
  BY <1>1, <1>2, <1>3, <1>4 DEF Next

LEMMA StepIInv ==
  ASSUME IInv, [Next]_vars
  PROVE  IInv'
<1>1. crossed' \in BOOLEAN /\ (~crossed' => ~crossed)
  BY CrossedStays DEF IInv
<1>2. ~crossed' => Sound'
  BY <1>1, StepSound DEF IInv
<1> QED
  BY <1>1, <1>2 DEF IInv

(***************************************************************************)
(* The invariants.                                                         *)
(***************************************************************************)

\* main, both interrupt handlers and the hardware keep the whole invariant until a
\* request or a reset is served inside udd_ep_run (usb_device.c:672-752, 1350-1457).
THEOREM Fw1Invariant == Spec => []IInv
<1>1. IInv /\ [Next]_vars => IInv'
  BY StepIInv
<1> QED
  BY <1>1, InitIInv, PTL DEF Spec

\* Until then: registers, counts and job keep their types, and the index main stores
\* at stays inside its buffer (rng.c:246-262, usb_device.c:1363-1385).
THEOREM Fw1TypeCorrect == Spec => [](~crossed => TypeOK)
<1>1. IInv => (~crossed => TypeOK)
  BY DEF IInv, Sound
<1> QED
  BY <1>1, Fw1Invariant, PTL

\* Until a request or a reset is served inside udd_ep_run, the interrupt handler's
\* use of the job and the registers never overlaps main's (usb_device.c:701-726).
THEOREM Fw1RegistersQuiet == Spec => []RegistersQuiet
<1>1. IInv => RegistersQuiet
  BY DEF IInv, Sound, MainInv, RegistersQuiet, Armed
<1> QED
  BY <1>1, Fw1Invariant, PTL

\* Until then, outside udd_ep_run an accepted job is under way or about to be
\* completed, and nothing is sent without one (usb_device.c:692-698, 739-744,
\* 1448-1449).
THEOREM Fw1JobUnderWay == Spec => []JobUnderWay
<1>1. IInv => JobUnderWay
  BY DEF IInv, Sound, JobUnderWay
<1> QED
  BY <1>1, Fw1Invariant, PTL

\* Until a request or a reset is served inside udd_ep_run, what is sent lies in
\* main's buffer, for every size of the buffer that one transfer can send
\* (usb_device.c:1366-1383).
THEOREM Fw1InBuffer == Spec => [](~crossed => InBuffer)
<1>1. IInv => (~crossed => InBuffer)
  BY Fw1Assumption DEF IInv, Sound, EndpointInv, InBuffer, Armed
<1> QED
  BY <1>1, Fw1Invariant, PTL

\* Until then no callback is called that was not registered (usb_device.c:662-667).
THEOREM Fw1NohaltRegistered == Spec => [](~crossed => NohaltRegistered)
<1>1. IInv => (~crossed => NohaltRegistered)
  BY DEF IInv, Sound, NohaltRegistered
<1> QED
  BY <1>1, Fw1Invariant, PTL

(***************************************************************************)
(* How often the host is given the same bytes.                             *)
(***************************************************************************)

\* Main stores over cells and arms the endpoint; its other steps touch nothing
\* that UsesBound speaks of.
LEMMA MainUses ==
  ASSUME Sound, UsesBound, Main
  PROVE  UsesBound'
<1> SUFFICES ASSUME NEW c \in CellIds
             PROVE  uses'[c] <= (IF Old(c) THEN 1 ELSE 0)'
                                  + (IF Undelivered(c) THEN 0 ELSE 1)'
  BY DEF UsesBound
<1>1. c \in Nat /\ n \in Nat /\ uses \in [CellIds -> 0..MaxUses]
  BY CellsPositive DEF Sound, TypeOK, CellIds
<1>2. uses[c] <= (IF Old(c) THEN 1 ELSE 0) + (IF Undelivered(c) THEN 0 ELSE 1)
  BY DEF UsesBound
<1>3. CASE FillCell
  <2>1. Undelivered(c)' = Undelivered(c)
    BY <1>3 DEF FillCell, drvVars, Undelivered, Armed
  <2>2. CASE c = n
    <3>1. uses'[c] = 0
      BY <1>1, <1>3, <2>2 DEF FillCell
    <3> QED
      BY <3>1
  <2>3. CASE c # n
    <3>1. uses'[c] = uses[c] /\ Old(c)' = Old(c)
      BY <1>1, <1>3, <2>3 DEF FillCell, Old
    <3> QED
      BY <1>2, <2>1, <3>1
  <2> QED
    BY <2>2, <2>3
<1>4. CASE FillDone
  <2>1. ~Old(c) /\ ~Old(c)'
    BY <1>1, <1>4, CellsPositive DEF FillDone, Room, Goto, Old, CellIds, Sound, TypeOK
  <2>2. uses' = uses /\ Undelivered(c)' = Undelivered(c)
    BY <1>4 DEF FillDone, drvVars, NoOther, hostVars, Undelivered, Armed
  <2> QED
    BY <1>2, <2>1, <2>2
<1>5. CASE ClearNack
  <2>1. ~Old(c) /\ Old(c)'
    BY <1>1, <1>5, CellsPositive DEF ClearNack, Goto, Old, CellIds
  <2>2. uses' = uses
    BY <1>5 DEF ClearNack, NoOther, hostVars
  <2>3. uses[c] <= 1
    BY <1>1, <1>2, <2>1
  <2> QED
    BY <1>1, <2>1, <2>2, <2>3
<1>6. CASE JobDone
  BY <1>6 DEF JobDone, Goto, Sound, MainInv
<1>7. CASE \/ CheckEnabled \/ CheckStall \/ TakeJob \/ FillJob \/ ResetSent
           \/ CountSent \/ SendMore \/ ClearSent \/ SetByteCnt \/ SetBuf
  <2>1. pc # "fill" /\ pc' # "fill" /\ uses' = uses
    BY <1>7 DEF CheckEnabled, CheckStall, TakeJob, FillJob, ResetSent, CountSent,
                SendMore, ClearSent, SetByteCnt, SetBuf, Goto, Retry, NoOther, hostVars
  <2>2. Undelivered(c)' = Undelivered(c)
    <3>1. CASE ep' = ep
      BY <1>7, <3>1 DEF Undelivered, Armed, CheckEnabled, CheckStall, TakeJob, FillJob,
           ResetSent, CountSent, SendMore, ClearSent, SetByteCnt, SetBuf, NoOther, hostVars
    <3>2. CASE ResetSent \/ ClearSent \/ SetByteCnt \/ SetBuf
      <4>1. ep.nack /\ ep'.nack
        BY <3>2 DEF ResetSent, SentReset, ClearSent, SetByteCnt, SetBuf, Goto, Sound,
                    TypeOK, MainInv, Filling
      <4> QED
        BY <4>1 DEF Undelivered, Armed
    <3> QED
      BY <1>7, <3>1, <3>2 DEF CheckEnabled, CheckStall, TakeJob, FillJob, CountSent,
           SendMore, drvVars
  <2> QED
    BY <1>2, <2>1, <2>2 DEF Old
<1> QED
  BY <1>3, <1>4, <1>5, <1>6, <1>7 DEF Main

\* A handler leaves the endpoint disarmed, or changes nothing that matters here.
LEMMA HandlerUses ==
  ASSUME Sound, UsesBound, ~ClearsUnset, TransferComplete \/ Requests
  PROVE  UsesBound'
<1>1. UNCHANGED <<pc, n, uses>>
  BY DEF TransferComplete, Requests, BusReset, SetConfiguration, SetInterface,
         SetFeatureHalt, ClearFeatureHalt, mainVars, hostVars
<1>2. ~Armed' \/ UNCHANGED <<ep, htoggle>>
  <2> USE DEF Sound, TypeOK, EndpointInv, Armed, Becomes, State, Abort, EndJob
  <2>1. CASE TransferComplete
    <3>1. CASE ep.trn
      <4>1. Sent(Ack(State)) = BufPackets /\ AllSent(BufPackets)
        BY <3>1, OneTransfer, Fw1Assumption DEF Sent, Ack
      <4>2. ep' = [ep EXCEPT !.trn = FALSE]
        BY <2>1, <3>1, <4>1 DEF TransferComplete, TransComplet, Ack
      <4> QED
        BY <3>1, <4>2
    <3> QED
      BY <2>1, <3>1 DEF TransferComplete, drvVars, hostVars
  <2>2. CASE BusReset
    BY <2>2 DEF BusReset, UdcReset, IfaceDisable, Free
  <2>3. ASSUME NEW v \in {0, 1}, SetConfiguration(v) PROVE ~Armed'
    BY <2>3 DEF SetConfiguration, UdcReset, IfaceDisable, Free
  <2>4. ASSUME NEW v \in {0, 1, 2}, SetInterface(v) PROVE ~Armed'
    BY <2>4 DEF SetInterface, IfaceDisable, Free, Alloc
  <2>5. CASE SetFeatureHalt
    BY <2>5 DEF SetFeatureHalt, SetHalt
  <2>6. CASE ClearFeatureHalt
    BY <2>6 DEF ClearFeatureHalt, ClearHalt
  <2> QED
    BY <2>1, <2>2, <2>3, <2>4, <2>5, <2>6 DEF Requests
<1> SUFFICES ASSUME NEW c \in CellIds
             PROVE  uses'[c] <= (IF Old(c) THEN 1 ELSE 0)'
                                  + (IF Undelivered(c) THEN 0 ELSE 1)'
  BY DEF UsesBound
<1>3. Old(c)' = Old(c) /\ uses'[c] = uses[c] /\ uses[c] \in Nat
  BY <1>1 DEF Old, Sound, TypeOK, MaxUses
<1>4. uses[c] <= (IF Old(c) THEN 1 ELSE 0) + (IF Undelivered(c) THEN 0 ELSE 1)
  BY DEF UsesBound
<1>5. Undelivered(c)' => Undelivered(c)
  BY <1>2 DEF Undelivered, Armed
<1> QED
  BY <1>3, <1>4, <1>5

LEMMA PacketIsNat ==
  ASSUME NEW c \in CellIds
  PROVE  Packet(c) \in Nat
<1>1. \A k \in Nat \ {0}, a \in Nat : a \div k \in Nat
  OBVIOUS
<1>2. c \in Nat
  BY CellsPositive DEF CellIds
<1> QED
  BY <1>1, <1>2, Fw1Assumption DEF Packet

\* The host takes a packet's cells only while they are undelivered, and then they
\* are not any more, whether the device learns of it or not.
LEMMA TokenUses ==
  ASSUME Sound, UsesBound, InToken \/ InTokenAckLost
  PROVE  UsesBound'
<1> SUFFICES ASSUME NEW c \in CellIds
             PROVE  uses'[c] <= (IF Old(c) THEN 1 ELSE 0)'
                                  + (IF Undelivered(c) THEN 0 ELSE 1)'
  BY DEF UsesBound
<1>1. /\ Armed /\ HostTakes
      /\ ep.dataptr = 0 /\ ep.aux \in Nat /\ ep.toggle \in {0, 1} /\ htoggle \in {0, 1}
      /\ uses \in [CellIds -> 0..MaxUses]
  BY Fw1Assumption DEF InToken, InTokenAckLost, Sound, TypeOK, EndpointInv, Armed
<1>2. uses[c] <= (IF Old(c) THEN 1 ELSE 0) + (IF Undelivered(c) THEN 0 ELSE 1)
  BY DEF UsesBound
<1>3. Old(c)' = Old(c)
  BY DEF InToken, InTokenAckLost, mainVars, Old
<1>4. /\ Packet(c) \in Nat
      /\ uses[c] \in Nat
  BY <1>1, PacketIsNat DEF MaxUses
<1>5. \/ ep'.aux = ep.aux + 1
      \/ ep'.aux = ep.aux /\ ep'.toggle = ep.toggle
  BY DEF InToken, InTokenAckLost, drvVars, Sound, TypeOK
<1>6. Undelivered(c)' => \/ Packet(c) > ep'.aux
                         \/ Packet(c) = ep'.aux /\ ep'.toggle = htoggle'
  BY DEF Undelivered, Packet
<1>7. CASE ep.toggle # htoggle
  <2>1. uses' = uses /\ htoggle' = htoggle
    BY <1>1, <1>7 DEF HostTakes, hostVars
  <2>2. Undelivered(c)' => Undelivered(c)
    BY <1>1, <1>4, <1>5, <1>6, <1>7, <2>1 DEF Undelivered
  <2> QED
    BY <1>2, <1>3, <1>4, <2>1, <2>2
<1>8. CASE ep.toggle = htoggle
  <2>1. htoggle' = 1 - htoggle
    BY <1>1, <1>8 DEF HostTakes
  <2>2. uses'[c] = IF Packet(c) = ep.aux /\ uses[c] < MaxUses
                   THEN uses[c] + 1 ELSE uses[c]
    BY <1>1, <1>8 DEF HostTakes
  <2>3. CASE Packet(c) = ep.aux
    <3>1. ~Undelivered(c)'
      BY <1>1, <1>4, <1>5, <1>6, <1>8, <2>1, <2>3
    <3>2. Undelivered(c)
      BY <1>1, <1>8, <2>3 DEF Undelivered
    <3>3. uses'[c] <= uses[c] + 1 /\ uses'[c] \in Nat
      BY <1>4, <2>2
    <3> QED
      BY <1>2, <1>3, <1>4, <3>1, <3>2, <3>3
  <2>4. CASE Packet(c) # ep.aux
    <3>1. Undelivered(c)' => Undelivered(c)
      BY <1>1, <1>4, <1>5, <1>6, <2>4 DEF Undelivered
    <3>2. uses'[c] = uses[c]
      BY <2>2, <2>4
    <3> QED
      BY <1>2, <1>3, <1>4, <3>1, <3>2
  <2> QED
    BY <2>3, <2>4
<1> QED
  BY <1>7, <1>8

\* Until a request or a reset is served inside udd_ep_run, every cell has been used
\* once for the transfer that delivered it, and once more at most until main stores
\* over it, if the host clears only halts that are set (xrng.c:88-94,
\* usb_device.c:1363-1385).
THEOREM Fw1UsesBounded ==
  ASSUME ~ClearsUnset
  PROVE  Spec => []UsesInv
<1>1. Init => UsesInv
  BY CellsPositive DEF Init, UsesInv, UsesBound, Old, Undelivered, Armed, CellIds, MaxUses
<1>2. IInv /\ UsesInv /\ [Next]_vars => UsesInv'
  <2> SUFFICES ASSUME IInv, UsesInv, [Next]_vars, ~crossed' PROVE UsesBound'
    BY DEF UsesInv
  <2>1. Sound /\ UsesBound
    BY CrossedStays DEF IInv, UsesInv
  <2>2. CASE UNCHANGED vars
    BY <2>1, <2>2 DEF UsesBound, Old, Undelivered, Armed, vars, mainVars, drvVars, hostVars
  <2> QED
    BY <2>1, <2>2, MainUses, HandlerUses, TokenUses DEF Next
<1> QED
  BY <1>1, <1>2, Fw1Invariant, PTL DEF Spec

\* Until a request or a reset is served inside udd_ep_run, the host is never given
\* the same bytes three times, nor bytes that were not filled in, whatever ACKs are
\* lost and whatever requests come, if it clears only halts that are set
\* (xrng.c:88-94).
THEOREM Fw1AtMostTwice ==
  ASSUME ~ClearsUnset
  PROVE  Spec => []AtMostTwice
<1>1. IInv /\ UsesInv => AtMostTwice
  <2> SUFFICES ASSUME IInv, UsesInv, ~crossed, NEW c \in CellIds PROVE uses[c] < MaxUses
    BY DEF AtMostTwice
  <2>1. uses[c] <= (IF Old(c) THEN 1 ELSE 0) + (IF Undelivered(c) THEN 0 ELSE 1)
    BY DEF UsesInv, UsesBound
  <2>2. uses[c] \in Nat
    BY DEF IInv, Sound, TypeOK, MaxUses
  <2> QED
    BY <2>1, <2>2 DEF MaxUses
<1> QED
  BY <1>1, Fw1Invariant, Fw1UsesBounded, PTL

(***************************************************************************)
(* What needs no assumption about when handlers are served: the registers  *)
(* of the endpoint keep their fields, and two facts about them survive     *)
(* whatever main and the handlers do to each other.                        *)
(***************************************************************************)

EpFields == {"enabled", "stall", "nack", "trn", "toggle", "dataptr", "aux", "cnt"}
EpShape  == DOMAIN ep = EpFields /\ ep = [f \in EpFields |-> ep[f]]

\* A statement of main that writes a register changes none of the bits that say
\* whether the host may be sent a packet, except that ClearNack arms the endpoint.
LEMMA MainBits ==
  ASSUME EpShape, Main
  PROVE  /\ EpShape'
         /\ UNCHANGED <<tc, configured, alt, htoggle>>
         /\ ep'.enabled = ep.enabled /\ ep'.stall = ep.stall
         /\ ep'.trn = ep.trn /\ ep'.toggle = ep.toggle
         /\ ep'.nack => ep.nack
<1> USE DEF EpShape, EpFields, drvVars, udcVars, hostVars, NoOther
<1>1. CASE FillCell
  BY <1>1 DEF FillCell
<1>2. CASE \/ FillDone \/ CheckEnabled \/ CheckStall \/ TakeJob \/ FillJob \/ CountSent
           \/ SendMore \/ JobDone
  BY <1>2 DEF FillDone, CheckEnabled, CheckStall, TakeJob, FillJob, CountSent, SendMore,
              JobDone
<1>3. CASE ResetSent \/ ClearSent
  BY <1>3 DEF ResetSent, SentReset, ClearSent
<1>4. CASE SetByteCnt
  BY <1>4 DEF SetByteCnt
<1>5. CASE SetBuf
  BY <1>5 DEF SetBuf
<1>6. CASE ClearNack
  BY <1>6 DEF ClearNack
<1> QED
  BY <1>1, <1>2, <1>3, <1>4, <1>5, <1>6 DEF Main

\* The handler of a completion clears the completion flag and leaves the rest of
\* those bits alone.
LEMMA CompleteBits ==
  ASSUME EpShape, TransferComplete
  PROVE  /\ EpShape'
         /\ UNCHANGED <<configured, alt, htoggle>> /\ tc' = FALSE
         /\ ep'.enabled = ep.enabled /\ ep'.stall = ep.stall
         /\ ep'.toggle = ep.toggle
         /\ ~ep.trn => ep' = ep
         /\ ~ep'.trn
<1> USE DEF EpShape, EpFields
<1>1. UNCHANGED <<configured, alt, htoggle>> /\ tc' = FALSE
  BY DEF TransferComplete, udcVars, hostVars
<1>2. CASE ~ep.trn
  BY <1>1, <1>2 DEF TransferComplete, drvVars
<1>3. CASE ep.trn
  <2>1. ep' = TransComplet(Ack(State)).ep
    BY <1>3 DEF TransferComplete, Becomes
  <2>2. CASE AllSent(Sent(Ack(State)))
    BY <1>1, <1>3, <2>1, <2>2 DEF TransComplet, Ack, State
  <2>3. CASE ~AllSent(Sent(Ack(State)))
    BY <1>1, <1>3, <2>1, <2>3 DEF TransComplet, Ack, State
  <2> QED BY <2>2, <2>3
<1> QED
  BY <1>2, <1>3

\* A request leaves each of those bits as it was, or as the routine sets it.
LEMMA RequestBits ==
  ASSUME EpShape, Requests
  PROVE  /\ EpShape'
         /\ UNCHANGED tc
         /\ ep'.trn => ep.trn
<1> USE DEF EpShape, EpFields, Becomes, State, Abort, EndJob
<1>1. CASE BusReset
  BY <1>1 DEF BusReset, UdcReset, IfaceDisable, Free
<1>2. ASSUME NEW v \in {0, 1}, SetConfiguration(v)
      PROVE  EpShape' /\ UNCHANGED tc /\ (ep'.trn => ep.trn)
  BY <1>2 DEF SetConfiguration, UdcReset, IfaceDisable, Free
<1>3. ASSUME NEW v \in {0, 1, 2}, SetInterface(v)
      PROVE  EpShape' /\ UNCHANGED tc /\ (ep'.trn => ep.trn)
  <2> DEFINE freed == IfaceDisable(State)
  <2>1. /\ freed.ep.trn = ep.trn
        /\ DOMAIN freed.ep = EpFields /\ freed.ep = [f \in EpFields |-> freed.ep[f]]
    BY DEF IfaceDisable, Free
  <2>2. ep' = IF v = 1 THEN Alloc(freed).ep ELSE freed.ep
    BY <1>3 DEF SetInterface
  <2>3. UNCHANGED tc
    BY <1>3 DEF SetInterface
  <2> HIDE DEF freed
  <2>4. CASE v # 1 \/ freed.ep.enabled
    <3>1. ep' = freed.ep
      BY <2>2, <2>4 DEF Alloc
    <3> QED BY <2>1, <2>3, <3>1
  <2>5. CASE v = 1 /\ ~freed.ep.enabled
    <3>1. ep' = [freed.ep EXCEPT !.enabled = TRUE, !.stall = FALSE, !.nack = TRUE,
                                 !.trn = FALSE, !.toggle = 0]
      BY <2>2, <2>5 DEF Alloc
    <3> QED BY <2>1, <2>3, <2>5, <3>1
  <2> QED BY <2>4, <2>5
<1>4. CASE SetFeatureHalt
  BY <1>4 DEF SetFeatureHalt, SetHalt
<1>5. CASE ClearFeatureHalt
  BY <1>5 DEF ClearFeatureHalt, ClearHalt
<1> QED
  BY <1>1, <1>2, <1>3, <1>4, <1>5 DEF Requests

LEMMA InitShape == Init => EpShape
  BY DEF Init, EpShape, EpFields

\* A completion flag blocks the endpoint until it is cleared, so one without an
\* interrupt to clear it would end the stream.  There is none, wherever requests and
\* resets are served (usb_device.c:878-897).
THEOREM Fw1CompletionServed == Spec => []CompletionServed
<1> DEFINE Inv == EpShape /\ CompletionServed
<1>1. Init => Inv
  BY InitShape DEF Init, CompletionServed
<1>2. Inv /\ [Next]_vars => Inv'
  <2> SUFFICES ASSUME EpShape, CompletionServed, [Next]_vars
               PROVE  EpShape' /\ CompletionServed'
    OBVIOUS
  <2>1. CASE Main
    BY <2>1, MainBits DEF CompletionServed
  <2>2. CASE TransferComplete
    BY <2>2, CompleteBits DEF CompletionServed
  <2>3. CASE Requests
    BY <2>3, RequestBits DEF CompletionServed
  <2>4. CASE InToken
    <3>1. EpShape'
      BY <2>4 DEF InToken, EpShape, EpFields
    <3>2. ep'.trn = tc'
      BY <2>4 DEF InToken, EpShape, EpFields
    <3> QED BY <3>1, <3>2 DEF CompletionServed
  <2>5. CASE InTokenAckLost \/ UNCHANGED vars
    BY <2>5 DEF InTokenAckLost, vars, drvVars, EpShape, CompletionServed
  <2> QED
    BY <2>1, <2>2, <2>3, <2>4, <2>5 DEF Next
<1>3. Inv => CompletionServed
  OBVIOUS
<1> QED
  BY <1>1, <1>2, <1>3, PTL DEF Spec

\* Why host and device agree on the sequence bit, but for a packet whose ACK was
\* lost and which is still armed.  It is 0 from the halt until the
\* clearing that makes the host start at 0 again, and an endpoint that is enabled
\* belongs to setting 1 of a configuration, so whatever else makes the host start
\* again frees it.
SyncInv ==
  /\ ep.enabled => alt = 1 /\ configured
  /\ ep.stall => ep.toggle = 0
  /\ ep.toggle \in {0, 1} /\ htoggle \in {0, 1}
  /\ InStep

LEMMA RequestSync ==
  ASSUME EpShape, SyncInv, ~ClearsUnset, Requests
  PROVE  SyncInv'
<1> USE DEF EpShape, EpFields, SyncInv, InStep, InService, Armed, Becomes, State, Abort, EndJob
<1>1. CASE BusReset
  BY <1>1 DEF BusReset, UdcReset, IfaceDisable, Free
<1>2. ASSUME NEW v \in {0, 1}, SetConfiguration(v)
      PROVE  SyncInv'
  BY <1>2 DEF SetConfiguration, UdcReset, IfaceDisable, Free
<1>3. ASSUME NEW v \in {0, 1, 2}, SetInterface(v)
      PROVE  SyncInv'
  <2> DEFINE freed == IfaceDisable(State)
  <2>1. /\ ~freed.ep.enabled
        /\ freed.ep.stall => freed.ep.toggle = 0
        /\ freed.ep.toggle \in {0, 1}
        /\ DOMAIN freed.ep = EpFields /\ freed.ep = [f \in EpFields |-> freed.ep[f]]
    BY DEF IfaceDisable, Free
  <2>2. ep' = IF v = 1 THEN Alloc(freed).ep ELSE freed.ep
    BY <1>3 DEF SetInterface
  <2>3. htoggle' = 0 /\ configured /\ configured' = configured /\ (v = 1 => alt' = 1)
    BY <1>3 DEF SetInterface
  <2> HIDE DEF freed
  <2>4. CASE v # 1 \/ freed.ep.enabled
    <3>1. ep' = freed.ep
      BY <2>2, <2>4 DEF Alloc
    <3> QED BY <2>1, <2>3, <3>1
  <2>5. CASE v = 1 /\ ~freed.ep.enabled
    <3>1. ep' = [freed.ep EXCEPT !.enabled = TRUE, !.stall = FALSE, !.nack = TRUE,
                                 !.trn = FALSE, !.toggle = 0]
      BY <2>2, <2>5 DEF Alloc
    <3> QED BY <2>1, <2>3, <2>5, <3>1
  <2> QED BY <2>4, <2>5
<1>4. CASE SetFeatureHalt
  BY <1>4 DEF SetFeatureHalt, SetHalt, udcVars, hostVars
<1>5. CASE ClearFeatureHalt
  BY <1>5 DEF ClearFeatureHalt, ClearHalt, udcVars
<1> QED
  BY <1>1, <1>2, <1>3, <1>4, <1>5 DEF Requests

\* An endpoint in service has the sequence bit the host expects, through resets, halts
\* and changes of setting, inside udd_ep_run as well, but for the packet whose ACK was
\* lost and which is still to be repeated; if the host clears only halts that are set
\* (usb_device.c:644, 994).
THEOREM Fw1InStep ==
  ASSUME ~ClearsUnset
  PROVE  Spec => []InStep
<1> DEFINE Inv == EpShape /\ SyncInv
<1>1. Init => Inv
  BY InitShape DEF Init, SyncInv, InStep, InService
<1>2. Inv /\ [Next]_vars => Inv'
  <2> SUFFICES ASSUME EpShape, SyncInv, [Next]_vars
               PROVE  EpShape' /\ SyncInv'
    OBVIOUS
  <2> USE DEF SyncInv, InStep, InService, Armed
  <2>1. CASE Main
    BY <2>1, MainBits
  <2>2. CASE TransferComplete
    BY <2>2, CompleteBits
  <2>3. CASE Requests
    BY <2>3, RequestBits, RequestSync
  <2>4. CASE InToken
    <3>1. /\ EpShape' /\ UNCHANGED <<configured, alt>>
          /\ ep'.enabled = ep.enabled /\ ep'.stall = ep.stall
          /\ ep'.toggle = 1 - ep.toggle
      BY <2>4 DEF InToken, EpShape, EpFields, udcVars
    <3>2. ~ep.stall /\ HostTakes
      BY <2>4 DEF InToken
    <3>3. CASE ep.toggle = htoggle
      BY <3>1, <3>2, <3>3 DEF HostTakes
    <3>4. CASE ep.toggle # htoggle
      <4>1. htoggle' = htoggle /\ ep'.toggle = htoggle'
        BY <3>1, <3>2, <3>4 DEF HostTakes, hostVars
      <4> QED BY <3>1, <3>2, <4>1
    <3> QED BY <3>3, <3>4
  <2>5. CASE InTokenAckLost
    <3>1. AckLoss /\ Armed /\ HostTakes /\ UNCHANGED <<ep, configured, alt>>
      BY <2>5 DEF InTokenAckLost, drvVars, udcVars
    <3>2. htoggle' \in {0, 1}
      BY <3>1 DEF HostTakes, hostVars
    <3> QED BY <3>1, <3>2 DEF EpShape
  <2>6. CASE UNCHANGED vars
    BY <2>6 DEF vars, drvVars, udcVars, hostVars, EpShape
  <2> QED
    BY <2>1, <2>2, <2>3, <2>4, <2>5, <2>6 DEF Next
<1>3. Inv => InStep
  BY DEF SyncInv
<1> QED
  BY <1>1, <1>2, <1>3, PTL DEF Spec
=============================================================================
