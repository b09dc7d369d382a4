------------------------- MODULE XrngControlProofs -------------------------
(***************************************************************************)
(* Proofs about XrngControl, for every set of addresses, configurations    *)
(* and requests: that the FIFO stays off, for every host; the rest, for an *)
(* orderly one, from an invariant of every register access.  A host is     *)
(* orderly that sends no SETUP while a handler runs, or that finishes its  *)
(* transfers and may send the next SETUP between any two accesses.         *)
(***************************************************************************)
EXTENDS XrngControl, TLAPS

\* The host record keeps its fields, which is all the proof needs of it.
HostShape ==
  host = [stage |-> host.stage, req |-> host.req, got |-> host.got,
          left |-> host.left, addr |-> host.addr, configs |-> host.configs]

FifoInv == HostShape /\ FifoOff

\* The steps of the USB_TRNCOMPL handler touch neither CTRLA nor the bus state.
LEMMA TrncomplFrame == Trncompl => UNCHANGED <<fifoen, busrst, host>>
  BY DEF Trncompl, EnterTrncompl, ReadStatus, AckSetup, CopySetup, HandleSetup,
         ArmIn, SetConfiguration, ArmOut, StallOut, StallIn, CheckIn, InComplete,
         SetAddress, ArmZlp, swVars, ep0Vars, busVars

\* A host step other than a bus reset needs the FIFO to be off already, if it
\* takes the host out of "detached" at all.
LEMMA HostFrame ==
  ASSUME HostShape, Host
  PROVE  /\ HostShape'
         /\ UNCHANGED fifoen
         /\ busrst' \/ (UNCHANGED busrst /\ (host'.stage # "detached" => host.stage # "detached"))
<1> USE DEF HostShape
<1>1. ASSUME NEW r \in Requests, HostSetup(r) PROVE
        /\ HostShape' /\ UNCHANGED <<fifoen, busrst>> /\ host.stage # "detached"
  BY <1>1 DEF HostSetup, Hears, busVars
<1>2. CASE HostIn
  BY <1>2 DEF HostIn, Hears, busVars
<1>3. CASE HostOut
  BY <1>3 DEF HostOut, Hears, busVars
<1>4. CASE HostStalled
  BY <1>4 DEF HostStalled, Hears
<1>5. CASE HostAbandon
  BY <1>5 DEF HostAbandon, InTransfer, busVars
<1>6. CASE HostReset
  BY <1>6 DEF HostReset
<1>7. CASE BusFlag \/ BulkComplete
  BY <1>7 DEF BusFlag, BulkComplete, busVars
<1> QED
  BY <1>1, <1>2, <1>3, <1>4, <1>5, <1>6, <1>7 DEF Host

\* Whatever the host and the handlers do, the transaction FIFO, which main
\* enables with no memory behind it, is off whenever a packet can be exchanged.
THEOREM ControlFifoOff == Spec => []FifoOff
<1>1. Init => FifoInv
  <2> SUFFICES ASSUME Init PROVE FifoInv
    OBVIOUS
  <2>1. HostShape
    BY Zenon DEF Init, HostShape
  <2>2. host.stage = "detached"
    BY DEF Init
  <2> QED
    BY <2>1, <2>2 DEF FifoInv, FifoOff
<1>2. FifoInv /\ [Next]_vars => FifoInv'
  <2> SUFFICES ASSUME FifoInv, [Next]_vars PROVE FifoInv'
    OBVIOUS
  <2> USE DEF FifoInv, FifoOff
  <2>1. CASE Trncompl
    BY <2>1, TrncomplFrame DEF HostShape
  <2>2. CASE Busevent
    BY <2>2 DEF Busevent, usb_reset, FifoenAfterReset, HostShape
  <2>3. CASE Host
    BY <2>3, HostFrame
  <2>4. CASE UNCHANGED vars
    BY <2>4 DEF vars, busVars, HostShape
  <2> QED
    BY <2>1, <2>2, <2>3, <2>4 DEF Next
<1> QED
  BY <1>1, <1>2, PTL DEF Spec, FifoInv

(***************************************************************************)
(* Sequences of accesses.  The provers know no concatenation of tuples.    *)
(***************************************************************************)

LEMMA OneThenOne == ASSUME NEW a, NEW b PROVE <<a>> \o <<b>> = <<a, b>>
<1> DEFINE S == {a, b}
           s == <<a>> \o <<b>>
<1>1. <<a>> \in Seq(S) /\ <<b>> \in Seq(S) /\ Len(<<a>>) = 1 /\ Len(<<b>>) = 1
  OBVIOUS
<1>2. s \in Seq(S) /\ Len(s) = 2 /\ s[1] = a /\ s[2] = b
  BY <1>1
<1> HIDE DEF s
<1>3. s = <<a, b>>
  BY <1>2
<1> QED
  BY <1>3 DEF s

LEMMA TwoThenOne == ASSUME NEW a, NEW b, NEW c PROVE <<a, b>> \o <<c>> = <<a, b, c>>
<1> DEFINE S == {a, b, c}
           s == <<a, b>> \o <<c>>
<1>1. <<a, b>> \in Seq(S) /\ <<c>> \in Seq(S) /\ Len(<<a, b>>) = 2 /\ Len(<<c>>) = 1
  OBVIOUS
<1>2. s \in Seq(S) /\ Len(s) = 3 /\ s[1] = a /\ s[2] = b /\ s[3] = c
  BY <1>1
<1> HIDE DEF s
<1>3. s = <<a, b, c>>
  BY <1>2
<1> QED
  BY <1>3 DEF s

LEMMA ThreeThenOne ==
  ASSUME NEW a, NEW b, NEW c, NEW d
  PROVE  <<a, b, c>> \o <<d>> = <<a, b, c, d>>
<1> DEFINE S == {a, b, c, d}
           s == <<a, b, c>> \o <<d>>
<1>1. /\ <<a, b, c>> \in Seq(S) /\ <<d>> \in Seq(S)
      /\ Len(<<a, b, c>>) = 3 /\ Len(<<d>>) = 1
  OBVIOUS
<1>2. s \in Seq(S) /\ Len(s) = 4 /\ s[1] = a /\ s[2] = b /\ s[3] = c /\ s[4] = d
  BY <1>1
<1> HIDE DEF s
<1>3. s = <<a, b, c, d>>
  BY <1>2
<1> QED
  BY <1>3 DEF s

\* What an access that puts nothing before the rest leaves to do.
LEMMA NextAccess ==
  ASSUME todo \in TodoShapes,
         NEW s \in {"ack_setup", "copy", "arm_in", "set_configuration", "stall_out",
                    "stall_in", "arm_out", "set_address", "arm_zlp"},
         Do(s, <<>>)
  PROVE  /\ At = s /\ todo' \in TodoShapes
         /\ s = "ack_setup" => At' = "copy"
         /\ s = "copy" => At' = "handle"
         /\ s = "arm_in" => At' \in {"arm_out", "check_in", "set_configuration"}
         /\ s = "arm_in" => At' = todo[2]
         /\ s = "set_configuration" => At' = "arm_out"
         /\ s = "stall_out" => At' = "stall_in"
         /\ s = "stall_in" => At' = "check_in"
         /\ s = "arm_out" => At' \in {"check_in", "idle"}
         /\ s = "set_address" => At' = "idle"
         /\ s = "arm_zlp" => At' = "arm_out"
<1>1. todo' = <<>> \o Tail(todo) /\ todo # <<>> /\ Head(todo) = s
  BY DEF Do
<1>2. todo' = Tail(todo)
  BY <1>1 DEF TodoShapes
<1>3. At = s
  BY <1>1 DEF At
<1>4. CASE s = "ack_setup"
  <2>1. todo = <<"ack_setup", "copy", "handle", "check_in">>
    BY <1>1, <1>4 DEF TodoShapes
  <2>2. todo' = <<"copy", "handle", "check_in">>
    BY <1>2, <2>1
  <2> QED
    BY <1>3, <1>4, <2>2 DEF TodoShapes, At
<1>5. CASE s = "copy"
  <2>1. todo = <<"copy", "handle", "check_in">>
    BY <1>1, <1>5 DEF TodoShapes
  <2>2. todo' = <<"handle", "check_in">>
    BY <1>2, <2>1
  <2> QED
    BY <1>3, <1>5, <2>2 DEF TodoShapes, At
<1>6. CASE s = "set_configuration"
  <2>1. todo = <<"set_configuration", "arm_out", "check_in">>
    BY <1>1, <1>6 DEF TodoShapes
  <2>2. todo' = <<"arm_out", "check_in">>
    BY <1>2, <2>1
  <2> QED
    BY <1>3, <1>6, <2>2 DEF TodoShapes, At
<1>7. CASE s = "stall_out"
  <2>1. todo = <<"stall_out", "stall_in", "check_in">>
    BY <1>1, <1>7 DEF TodoShapes
  <2>2. todo' = <<"stall_in", "check_in">>
    BY <1>2, <2>1
  <2> QED
    BY <1>3, <1>7, <2>2 DEF TodoShapes, At
<1>8. CASE s = "stall_in"
  <2>1. todo = <<"stall_in", "check_in">>
    BY <1>1, <1>8 DEF TodoShapes
  <2>2. todo' = <<"check_in">>
    BY <1>2, <2>1
  <2> QED
    BY <1>3, <1>8, <2>2 DEF TodoShapes, At
<1>9. CASE s = "set_address"
  <2>1. todo = <<"set_address">>
    BY <1>1, <1>9 DEF TodoShapes
  <2>2. todo' = <<>>
    BY <1>2, <2>1
  <2> QED
    BY <1>3, <1>9, <2>2 DEF TodoShapes, At
<1>10. CASE s = "arm_zlp"
  <2>1. todo = <<"arm_zlp", "arm_out">>
    BY <1>1, <1>10 DEF TodoShapes
  <2>2. todo' = <<"arm_out">>
    BY <1>2, <2>1
  <2> QED
    BY <1>3, <1>10, <2>2 DEF TodoShapes, At
<1>11. CASE s = "arm_in"
  <2>1. \/ todo = <<"arm_in", "arm_out", "check_in">>
        \/ todo = <<"arm_in", "check_in">>
        \/ todo = <<"arm_in", "set_configuration", "arm_out", "check_in">>
    BY <1>1, <1>11 DEF TodoShapes
  <2>2. CASE todo = <<"arm_in", "arm_out", "check_in">>
    <3>1. todo' = <<"arm_out", "check_in">>
      BY <1>2, <2>2
    <3> QED
      BY <1>3, <1>11, <2>2, <3>1 DEF TodoShapes, At
  <2>3. CASE todo = <<"arm_in", "check_in">>
    <3>1. todo' = <<"check_in">>
      BY <1>2, <2>3
    <3> QED
      BY <1>3, <1>11, <2>3, <3>1 DEF TodoShapes, At
  <2>4. CASE todo = <<"arm_in", "set_configuration", "arm_out", "check_in">>
    <3>1. todo' = <<"set_configuration", "arm_out", "check_in">>
      BY <1>2, <2>4
    <3> QED
      BY <1>3, <1>11, <2>4, <3>1 DEF TodoShapes, At
  <2> QED
    BY <2>1, <2>2, <2>3, <2>4
<1>12. CASE s = "arm_out"
  <2>1. \/ todo = <<"arm_out", "check_in">>
        \/ todo = <<"arm_out">>
    BY <1>1, <1>12 DEF TodoShapes
  <2>2. CASE todo = <<"arm_out", "check_in">>
    <3>1. todo' = <<"check_in">>
      BY <1>2, <2>2
    <3> QED
      BY <1>3, <1>12, <2>2, <3>1 DEF TodoShapes, At
  <2>3. CASE todo = <<"arm_out">>
    <3>1. todo' = <<>>
      BY <1>2, <2>3
    <3> QED
      BY <1>3, <1>12, <2>3, <3>1 DEF TodoShapes, At
  <2> QED
    BY <2>1, <2>2, <2>3
<1> QED
  BY <1>4, <1>5, <1>6, <1>7, <1>8, <1>9, <1>10, <1>11, <1>12

\* The same of the accesses that branch.
LEMMA EnterShape ==
  ASSUME EnterTrncompl
  PROVE  At = "idle" /\ At' = "read" /\ todo' \in TodoShapes
  BY DEF EnterTrncompl, At, TodoShapes

LEMMA BranchAccess ==
  ASSUME todo \in TodoShapes,
         NEW s \in {"read", "check_in", "in_complete"},
         NEW rest \in {<<>>, <<"ack_setup", "copy", "handle", "check_in">>, <<"check_in">>,
                       <<"in_complete">>, <<"set_address">>, <<"arm_zlp", "arm_out">>},
         Do(s, rest)
  PROVE  At = s /\ todo' = rest /\ todo' \in TodoShapes
<1>1. todo' = rest \o Tail(todo) /\ todo # <<>> /\ Head(todo) = s
  BY DEF Do
<1>2. todo = <<s>>
  BY <1>1 DEF TodoShapes
<1>3. rest \in Seq(Steps)
  <2>1. <<>> \in Seq(Steps)
    OBVIOUS
  <2>2. <<"ack_setup", "copy", "handle", "check_in">> \in Seq(Steps)
    BY DEF Steps
  <2>3. <<"check_in">> \in Seq(Steps) /\ <<"in_complete">> \in Seq(Steps)
    BY DEF Steps
  <2>4. <<"set_address">> \in Seq(Steps) /\ <<"arm_zlp", "arm_out">> \in Seq(Steps)
    BY DEF Steps
  <2> QED
    BY <2>1, <2>2, <2>3, <2>4
<1>4. todo' = rest
  BY <1>1, <1>2, <1>3
<1> QED
  BY <1>2, <1>4 DEF At, TodoShapes

LEMMA ReadShape ==
  ASSUME todo \in TodoShapes, ReadStatus
  PROVE  /\ At = "read" /\ todo' \in TodoShapes
         /\ At' = IF out.setup THEN "ack_setup" ELSE "check_in"
<1>1. CASE out.setup
  BY <1>1, BranchAccess DEF ReadStatus, At
<1>2. CASE ~out.setup
  BY <1>2, BranchAccess DEF ReadStatus, At
<1> QED
  BY <1>1, <1>2

LEMMA CheckInShape ==
  ASSUME todo \in TodoShapes, CheckIn
  PROVE  /\ At = "check_in" /\ todo' \in TodoShapes
         /\ At' = IF in.trn THEN "in_complete" ELSE "idle"
<1>1. CASE in.trn
  BY <1>1, BranchAccess DEF CheckIn, At
<1>2. CASE ~in.trn
  BY <1>2, BranchAccess DEF CheckIn, At
<1> QED
  BY <1>1, <1>2

LEMMA InCompleteShape ==
  ASSUME todo \in TodoShapes, InComplete
  PROVE  /\ At = "in_complete" /\ todo' \in TodoShapes
         /\ At' \in {"set_address", "arm_zlp", "idle"}
         /\ At' = "set_address" => usb_setup.name = "SetAddress"
         /\ At' = "arm_zlp" => usb_setup.name = "GetDescriptor"
<1>1. CASE usb_setup.name = "SetAddress"
  BY <1>1, BranchAccess DEF InComplete, At
<1>2. CASE usb_setup.name = "GetDescriptor"
  BY <1>2, BranchAccess DEF InComplete, At
<1>3. CASE usb_setup.name \notin {"SetAddress", "GetDescriptor"}
  BY <1>3, BranchAccess DEF InComplete, At
<1> QED
  BY <1>1, <1>2, <1>3

\* The accesses a handler can be about to make.
LEMMA AtAccess ==
  ASSUME todo \in TodoShapes
  PROVE  At \in {"idle", "read", "ack_setup", "copy", "handle", "check_in", "arm_in", "arm_out",
                "set_configuration", "stall_out", "stall_in", "in_complete",
                "set_address", "arm_zlp"}
<1>1. todo # <<>> => Head(todo) \in {"read", "ack_setup", "copy", "handle", "check_in", "arm_in",
        "arm_out", "set_configuration", "stall_out", "stall_in", "in_complete",
        "set_address", "arm_zlp"}
  BY DEF TodoShapes
<1> QED
  BY <1>1 DEF At

\* The steps usb_handle_setup chooses, by what the device supports.
LEMMA HandlerChooses ==
  ASSUME NEW r \in Request
  PROVE  \/ Handler(r) = Stall /\ ~Supported(r)
         \/ /\ Handler(r) = Answer /\ Supported(r)
            /\ r.name \notin {"SetConfiguration", "GetDescriptor"}
         \/ /\ Handler(r) = <<"arm_in">> /\ Supported(r)
            /\ r.name = "GetDescriptor"
         \/ /\ Handler(r) = SetConfigurationSteps /\ Supported(r)
            /\ r.name = "SetConfiguration" /\ r.val \in {0, 1}
<1>1. r.name = "SetConfiguration" => r.val \in Nat
  BY ControlAssumption DEF Request, Req
<1>2. r.name \in {"GetStatus", "Feature", "GetDescriptor", "GetConfiguration", "SetInterface",
                  "Wcid", "Unknown", "SetAddress", "SetConfiguration"}
  BY DEF Request, Req
<1>3. CASE r.name = "Wcid"
  BY <1>3 DEF Handler, HandleVendor, Supported
<1>4. CASE r.name = "SetConfiguration"
  BY <1>1, <1>4 DEF Handler, HandleStandard, Supported, usb_cb_set_configuration
<1>5. CASE r.name = "GetDescriptor"
  BY <1>5 DEF Handler, HandleStandard, Supported
<1>6. CASE r.name \in {"GetStatus", "Feature", "SetAddress", "GetConfiguration"}
  BY <1>6 DEF Handler, HandleStandard, Supported
<1>7. CASE r.name \in {"SetInterface", "Unknown"}
  BY <1>7 DEF Handler, HandleStandard, Supported
<1> QED
  BY <1>2, <1>3, <1>4, <1>5, <1>6, <1>7

LEMMA HandleShape ==
  ASSUME todo \in TodoShapes, HandleSetup, usb_setup \in Request
  PROVE  /\ At = "handle" /\ todo' \in TodoShapes
         /\ At' \in {"arm_in", "stall_out"}
         /\ Supported(usb_setup) <=> At' = "arm_in"
         /\ At' = "arm_in" =>
              /\ todo'[2] = "set_configuration" <=> usb_setup.name = "SetConfiguration"
              /\ todo'[2] = "arm_out" => usb_setup.name # "GetDescriptor"
<1>1. todo' = Handler(usb_setup) \o Tail(todo) /\ todo # <<>> /\ Head(todo) = "handle"
  BY DEF HandleSetup, Do
<1>2. todo = <<"handle", "check_in">>
  BY <1>1 DEF TodoShapes
<1>3. todo' = Handler(usb_setup) \o <<"check_in">>
  BY <1>1, <1>2
<1>4. At = "handle"
  BY <1>2 DEF At
<1>5. CASE Handler(usb_setup) = Stall /\ ~Supported(usb_setup)
  <2>1. todo' = <<"stall_out", "stall_in", "check_in">>
    BY <1>3, <1>5, TwoThenOne DEF Stall
  <2> QED
    BY <1>4, <1>5, <2>1 DEF At, TodoShapes
<1>6. CASE /\ Handler(usb_setup) = Answer /\ Supported(usb_setup)
           /\ usb_setup.name \notin {"SetConfiguration", "GetDescriptor"}
  <2>1. todo' = <<"arm_in", "arm_out", "check_in">>
    BY <1>3, <1>6, TwoThenOne DEF Answer
  <2> QED
    BY <1>4, <1>6, <2>1 DEF At, TodoShapes
<1>7. CASE /\ Handler(usb_setup) = <<"arm_in">> /\ Supported(usb_setup)
           /\ usb_setup.name = "GetDescriptor"
  <2>1. todo' = <<"arm_in", "check_in">>
    BY <1>3, <1>7, OneThenOne
  <2> QED
    BY <1>4, <1>7, <2>1 DEF At, TodoShapes
<1>8. CASE /\ Handler(usb_setup) = SetConfigurationSteps /\ Supported(usb_setup)
           /\ usb_setup.name = "SetConfiguration" /\ usb_setup.val \in {0, 1}
  <2>1. todo' = <<"arm_in", "set_configuration", "arm_out", "check_in">>
    BY <1>3, <1>8, ThreeThenOne DEF SetConfigurationSteps
  <2> QED
    BY <1>4, <1>8, <2>1 DEF At, TodoShapes
<1> QED
  BY <1>5, <1>6, <1>7, <1>8, HandlerChooses

LEMMA ShapesAreSteps == TodoShapes \subseteq Seq(Steps)
<1> USE DEF Steps
<1>1. /\ <<>> \in Seq(Steps)
      /\ <<"read">> \in Seq(Steps)
      /\ <<"check_in">> \in Seq(Steps)
      /\ <<"in_complete">> \in Seq(Steps)
      /\ <<"set_address">> \in Seq(Steps)
      /\ <<"arm_out">> \in Seq(Steps)
  OBVIOUS
<1>2. /\ <<"ack_setup", "copy", "handle", "check_in">> \in Seq(Steps)
      /\ <<"arm_in", "set_configuration", "arm_out", "check_in">> \in Seq(Steps)
  OBVIOUS
<1>3. /\ <<"copy", "handle", "check_in">> \in Seq(Steps)
      /\ <<"arm_in", "arm_out", "check_in">> \in Seq(Steps)
  OBVIOUS
<1>4. /\ <<"set_configuration", "arm_out", "check_in">> \in Seq(Steps)
      /\ <<"stall_out", "stall_in", "check_in">> \in Seq(Steps)
  OBVIOUS
<1>5. /\ <<"handle", "check_in">> \in Seq(Steps)
      /\ <<"arm_in", "check_in">> \in Seq(Steps)
      /\ <<"arm_out", "check_in">> \in Seq(Steps)
      /\ <<"stall_in", "check_in">> \in Seq(Steps)
      /\ <<"arm_zlp", "arm_out">> \in Seq(Steps)
  OBVIOUS
<1> QED
  BY <1>1, <1>2, <1>3, <1>4, <1>5 DEF TodoShapes

(***************************************************************************)
(* Each access of the USB_TRNCOMPL handler keeps the invariant.            *)
(***************************************************************************)

\* TypeOK in parts the provers can take one at a time.
SoftwareTypes ==
  /\ usb_setup \in Request \cup {NoRequest} /\ usb_configuration \in {0, 1}
  /\ addr \in Address \cup {0}
BitTypes == fifoen \in BOOLEAN /\ busrst \in BOOLEAN /\ irq \in BOOLEAN
EndpointTypes ==
  /\ out \in [setup : BOOLEAN, nack : BOOLEAN, trn : BOOLEAN, stall : BOOLEAN]
  /\ in \in [nack : BOOLEAN, trn : BOOLEAN, stall : BOOLEAN]
PacketTypes ==
  /\ ep0_buf_out \in Request \cup {NoRequest}
  /\ reply \in [answer : Request \cup {Zlp, Req("GetConfiguration", 1)}, left : 0..3]
Types == /\ SoftwareTypes /\ BitTypes /\ EndpointTypes /\ PacketTypes
         /\ flagsA \subseteq {"sof", "err", "stall", "bus"}

LEMMA TypeParts == IInv => Types
  BY DEF IInv, TypeOK, Types, SoftwareTypes, BitTypes, EndpointTypes, PacketTypes

LEMMA InvParts ==
  ASSUME Types', HostInv', HandlerInv', SetupInv', AnswerInv', ConfigInv',
         PatientInv'
  PROVE  IInv'
<1>1. todo' \in Seq(Steps)
  BY ShapesAreSteps DEF HandlerInv
<1>2. host'.addr \in Address \cup {0} /\ host'.configs \subseteq {0, 1}
  BY DEF HostInv
<1>3. TypeOK'
  BY <1>1, <1>2 DEF Types, SoftwareTypes, BitTypes, EndpointTypes, PacketTypes, TypeOK
<1> QED
  BY <1>3 DEF IInv

LEMMA EnterStep == IInv /\ EnterTrncompl => IInv'
<1> SUFFICES ASSUME IInv, EnterTrncompl PROVE IInv'
  OBVIOUS
<1> USE DEF HostInv, HandlerInv, SetupInv, AnswerInv, ConfigInv, PatientInv, Deciding, Lost, Expected,
            Types, SoftwareTypes, BitTypes, EndpointTypes, PacketTypes,
            swVars, ep0Vars, busVars, EnterTrncompl
<1>1. /\ Types /\ HostInv /\ HandlerInv /\ SetupInv
      /\ AnswerInv /\ ConfigInv /\ PatientInv
  BY TypeParts DEF IInv
<1>2. At = "idle" /\ At' = "read" /\ todo' \in TodoShapes
  BY EnterShape
<1>3. Types'
  <2>1. (SoftwareTypes /\ BitTypes)'
    BY <1>1
  <2>2. EndpointTypes'
    BY <1>1
  <2>3. PacketTypes'
    BY <1>1
  <2> QED
    BY <1>1, <2>1, <2>2, <2>3
<1>4. HostInv'
  BY <1>1, <1>2
<1>5. HandlerInv'
  BY <1>1, <1>2
<1>6. SetupInv'
  BY <1>1, <1>2
<1>7. AnswerInv'
  BY <1>1, <1>2
<1>8. ConfigInv'
  BY <1>1, <1>2
<1>20. PatientInv'
  BY <1>1, <1>2
<1> QED
  BY <1>3, <1>4, <1>5, <1>6, <1>7, <1>8, <1>20, InvParts

LEMMA ReadStep == IInv /\ ReadStatus => IInv'
<1> SUFFICES ASSUME IInv, ReadStatus PROVE IInv'
  OBVIOUS
<1> USE DEF HostInv, HandlerInv, SetupInv, AnswerInv, ConfigInv, PatientInv, Deciding, Lost, Expected,
            Types, SoftwareTypes, BitTypes, EndpointTypes, PacketTypes,
            swVars, ep0Vars, busVars, ReadStatus
<1>1. /\ Types /\ HostInv /\ HandlerInv /\ SetupInv
      /\ AnswerInv /\ ConfigInv /\ PatientInv
  BY TypeParts DEF IInv
<1>2. /\ At = "read" /\ todo' \in TodoShapes
      /\ At' = IF out.setup THEN "ack_setup" ELSE "check_in"
  BY <1>1, ReadShape
<1>3. Types'
  BY <1>1, <1>2
<1>4. HostInv'
  BY <1>1, <1>2
<1>5. HandlerInv'
  BY <1>1, <1>2
<1>6. SetupInv'
  BY <1>1, <1>2
<1>7. AnswerInv'
  BY <1>1, <1>2
<1>8. ConfigInv'
  BY <1>1, <1>2
<1>20. PatientInv'
  BY <1>1, <1>2
<1> QED
  BY <1>3, <1>4, <1>5, <1>6, <1>7, <1>8, <1>20, InvParts

LEMMA AckStep == IInv /\ AckSetup => IInv'
<1> SUFFICES ASSUME IInv, AckSetup PROVE IInv'
  OBVIOUS
<1> USE DEF HostInv, HandlerInv, SetupInv, AnswerInv, ConfigInv, PatientInv, Deciding, Lost, Expected,
            Types, SoftwareTypes, BitTypes, EndpointTypes, PacketTypes,
            swVars, ep0Vars, busVars, AckSetup
<1>1. /\ Types /\ HostInv /\ HandlerInv /\ SetupInv
      /\ AnswerInv /\ ConfigInv /\ PatientInv
  BY TypeParts DEF IInv
<1>2. At = "ack_setup" /\ At' = "copy" /\ todo' \in TodoShapes
  BY <1>1, NextAccess
<1>3. Types'
  BY <1>1, <1>2
<1>4. HostInv'
  BY <1>1, <1>2
<1>5. HandlerInv'
  BY <1>1, <1>2
<1>6. SetupInv'
  BY <1>1, <1>2
<1>7. AnswerInv'
  BY <1>1, <1>2
<1>8. ConfigInv'
  BY <1>1, <1>2
<1>20. PatientInv'
  BY <1>1, <1>2
<1> QED
  BY <1>3, <1>4, <1>5, <1>6, <1>7, <1>8, <1>20, InvParts

LEMMA CopyStep == IInv /\ CopySetup => IInv'
<1> SUFFICES ASSUME IInv, CopySetup PROVE IInv'
  OBVIOUS
<1> USE DEF HostInv, HandlerInv, SetupInv, AnswerInv, ConfigInv, PatientInv, Deciding, Lost, Expected,
            Types, SoftwareTypes, BitTypes, EndpointTypes, PacketTypes,
            swVars, ep0Vars, busVars, CopySetup
<1>1. /\ Types /\ HostInv /\ HandlerInv /\ SetupInv
      /\ AnswerInv /\ ConfigInv /\ PatientInv
  BY TypeParts DEF IInv
<1>2. At = "copy" /\ At' = "handle" /\ todo' \in TodoShapes
  BY <1>1, NextAccess
<1>3. Types'
  BY <1>1, <1>2
<1>4. HostInv'
  BY <1>1, <1>2
<1>5. HandlerInv'
  BY <1>1, <1>2
<1>6. SetupInv'
  BY <1>1, <1>2
<1>7. AnswerInv'
  BY <1>1, <1>2
<1>8. ConfigInv'
  BY <1>1, <1>2
<1>20. PatientInv'
  BY <1>1, <1>2
<1> QED
  BY <1>3, <1>4, <1>5, <1>6, <1>7, <1>8, <1>20, InvParts

LEMMA HandleStep == IInv /\ HandleSetup => IInv'
<1> SUFFICES ASSUME IInv, HandleSetup PROVE IInv'
  OBVIOUS
<1> USE DEF HostInv, HandlerInv, SetupInv, AnswerInv, ConfigInv, PatientInv, Deciding, Lost, Expected,
            Types, SoftwareTypes, BitTypes, EndpointTypes, PacketTypes,
            swVars, ep0Vars, busVars, HandleSetup
<1>1. /\ Types /\ HostInv /\ HandlerInv /\ SetupInv
      /\ AnswerInv /\ ConfigInv /\ PatientInv
  BY TypeParts DEF IInv
<1>0. usb_setup \in Request
  <2>1. At = "handle"
    BY DEF Do, At
  <2> QED
    BY <1>1, <2>1
<1>2. /\ At = "handle" /\ todo' \in TodoShapes /\ At' \in {"arm_in", "stall_out"}
      /\ Supported(usb_setup) <=> At' = "arm_in"
      /\ At' = "arm_in" =>
           /\ todo'[2] = "set_configuration" <=> usb_setup.name = "SetConfiguration"
           /\ todo'[2] = "arm_out" => usb_setup.name # "GetDescriptor"
  BY <1>0, <1>1, HandleShape
<1>3. Types'
  BY <1>1, <1>2
<1>4. HostInv'
  BY <1>1, <1>2
<1>5. HandlerInv'
  BY <1>1, <1>2
<1>6. SetupInv'
  BY <1>1, <1>2
<1>7. AnswerInv'
  BY <1>1, <1>2
<1>8. ConfigInv'
  BY <1>1, <1>2
<1>20. PatientInv'
  BY <1>1, <1>2
<1> QED
  BY <1>3, <1>4, <1>5, <1>6, <1>7, <1>8, <1>20, InvParts

LEMMA ArmInStep == IInv /\ ArmIn => IInv'
<1> SUFFICES ASSUME IInv, ArmIn PROVE IInv'
  OBVIOUS
<1> USE DEF HostInv, HandlerInv, SetupInv, AnswerInv, ConfigInv, PatientInv, Deciding, Lost, Expected,
            Types, SoftwareTypes, BitTypes, EndpointTypes, PacketTypes,
            swVars, ep0Vars, busVars, ArmIn
<1>1. /\ Types /\ HostInv /\ HandlerInv /\ SetupInv
      /\ AnswerInv /\ ConfigInv /\ PatientInv
  BY TypeParts DEF IInv
<1>2. /\ At = "arm_in" /\ At' \in {"arm_out", "check_in", "set_configuration"}
      /\ At' = "set_configuration" <=> usb_setup.name = "SetConfiguration"
      /\ At' = "arm_out" => usb_setup.name # "GetDescriptor"
      /\ todo' \in TodoShapes
  BY <1>1, NextAccess
<1>3. Types'
  <2>1. usb_setup \in Request /\ Supported(usb_setup)
    BY <1>1, <1>2
  <2>2. /\ reply' = [answer |-> Content(usb_setup), left |-> Packets(usb_setup)]
        /\ in' = [in EXCEPT !.nack = FALSE, !.trn = FALSE]
    BY DEF Arm
  <2>3. Req("GetConfiguration", 0) \in Request
    BY DEF Request
  <2>4. Content(usb_setup) \in Request \cup {Zlp, Req("GetConfiguration", 1)}
    BY <1>1, <2>1, <2>3 DEF Content
  <2>5. Packets(usb_setup) \in 0..3
    BY DEF Packets
  <2>6. (SoftwareTypes /\ BitTypes)'
    BY <1>1
  <2>7. EndpointTypes'
    BY <1>1, <2>2
  <2>8. PacketTypes'
    BY <1>1, <2>2, <2>4, <2>5
  <2> QED
    BY <1>1, <2>6, <2>7, <2>8
<1>4. HostInv'
  BY <1>1, <1>2
<1>5. HandlerInv'
  BY <1>1, <1>2 DEF Supported
<1>6. SetupInv'
  <2>1. in'.nack = FALSE /\ in'.trn = FALSE /\ in'.stall = in.stall
    BY <1>1 DEF Arm
  <2>2. ~out.setup
    BY <1>1, <1>2
  <2> QED
    BY <1>1, <1>2, <2>1, <2>2
<1>7. AnswerInv'
  <2>1. /\ in'.nack = FALSE /\ in'.trn = FALSE /\ in'.stall = FALSE
        /\ reply' = [answer |-> Content(usb_setup), left |-> Packets(usb_setup)]
    BY <1>1, <1>2 DEF Arm
  <2>2. /\ ~out.setup /\ host.stage \notin {"status_out", "done"}
        /\ Supported(usb_setup) /\ usb_setup \in Request
    BY <1>1, <1>2
  <2>3. Packets(usb_setup) >= 1
    BY DEF Packets
  <2>4. ASSUME host.stage \in {"data", "status_in"}
        PROVE  /\ host.req = usb_setup
               /\ Content(host.req) \in Expected(host.req)
               /\ host.stage = "data" => Content(host.req) # Zlp /\ host.left = Packets(host.req)
    <3>1. host.req = usb_setup
      BY <1>1, <1>2, <2>2, <2>4
    <3>2. CASE host.req.name = "GetConfiguration"
      BY <1>1, <1>2, <2>4, <3>1, <3>2 DEF HasData, Content, Zlp, Req
    <3>3. CASE HasData(host.req) /\ host.req.name # "GetConfiguration"
      <4>1. Content(host.req) = host.req
        BY <3>3 DEF HasData, Content
      <4>2. host.req # Zlp
        BY <3>3 DEF HasData, Zlp, Req
      <4> QED
        BY <1>1, <1>2, <2>4, <3>1, <3>3, <4>1, <4>2
    <3>4. CASE ~HasData(host.req)
      <4>1. Content(host.req) = Zlp
        BY <3>4 DEF HasData, Content
      <4> QED
        BY <1>1, <2>4, <3>1, <3>4, <4>1 DEF HasData
    <3> QED
      BY <3>2, <3>3, <3>4
  <2>5. host.stage \in {"data", "status_in"} /\ host.req.name = "SetConfiguration"
          /\ At' # "set_configuration" => usb_configuration = host.req.val
    <3>1. ASSUME host.stage \in {"data", "status_in"} PROVE host.req = usb_setup
      BY <1>1, <1>2, <2>2, <3>1
    <3> QED
      BY <1>2, <3>1
  <2>6. reply'.left >= 1 /\ reply'.answer = Content(usb_setup) /\ reply'.left = Packets(usb_setup)
    BY <2>1, <2>3
  <2>7. UNCHANGED <<host, usb_setup, usb_configuration, out, busrst>>
    OBVIOUS
  <2>8. /\ ~in'.nack /\ ~in'.stall /\ host.stage \in {"data", "status_in"} =>
             /\ Supported(host.req)
             /\ reply'.answer \in Expected(host.req)
             /\ host.stage = "data" => reply'.answer # Zlp /\ reply'.left = host.left
             /\ host.req.name = "SetConfiguration" /\ At' # "set_configuration" =>
                  usb_configuration = host.req.val
    BY <2>2, <2>4, <2>5, <2>6
  <2>9. Expected(host.req)' = Expected(host.req)
    BY <2>7
  <2>10. host.stage = "stalled" => ~Supported(host.req)
    BY <1>1
  <2> QED
    BY <2>1, <2>2, <2>6, <2>7, <2>8, <2>9, <2>10
<1>8. ConfigInv'
  BY <1>1, <1>2 DEF Supported
<1>20. PatientInv'
  <2>1. in'.nack = FALSE /\ in'.trn = FALSE /\ in'.stall = in.stall
    BY <1>1 DEF Arm
  <2> QED
    BY <1>1, <1>2, <2>1
<1> QED
  BY <1>3, <1>4, <1>5, <1>6, <1>7, <1>8, <1>20, InvParts

LEMMA SetConfigurationStep == IInv /\ SetConfiguration => IInv'
<1> SUFFICES ASSUME IInv, SetConfiguration PROVE IInv'
  OBVIOUS
<1> USE DEF HostInv, HandlerInv, SetupInv, AnswerInv, ConfigInv, PatientInv, Deciding, Lost, Expected,
            Types, SoftwareTypes, BitTypes, EndpointTypes, PacketTypes,
            swVars, ep0Vars, busVars, SetConfiguration
<1>1. /\ Types /\ HostInv /\ HandlerInv /\ SetupInv
      /\ AnswerInv /\ ConfigInv /\ PatientInv
  BY TypeParts DEF IInv
<1>2. At = "set_configuration" /\ At' = "arm_out" /\ todo' \in TodoShapes
  BY <1>1, NextAccess
<1>3. Types'
  BY <1>1, <1>2
<1>4. HostInv'
  BY <1>1, <1>2
<1>5. HandlerInv'
  BY <1>1, <1>2
<1>6. SetupInv'
  BY <1>1, <1>2
<1>7. AnswerInv'
  BY <1>1, <1>2
<1>8. ConfigInv'
  BY <1>1, <1>2
<1>20. PatientInv'
  BY <1>1, <1>2
<1> QED
  BY <1>3, <1>4, <1>5, <1>6, <1>7, <1>8, <1>20, InvParts

LEMMA ArmOutStep == IInv /\ ArmOut => IInv'
<1> SUFFICES ASSUME IInv, ArmOut PROVE IInv'
  OBVIOUS
<1> USE DEF HostInv, HandlerInv, SetupInv, AnswerInv, ConfigInv, PatientInv, Deciding, Lost, Expected,
            Types, SoftwareTypes, BitTypes, EndpointTypes, PacketTypes,
            swVars, ep0Vars, busVars, ArmOut
<1>1. /\ Types /\ HostInv /\ HandlerInv /\ SetupInv
      /\ AnswerInv /\ ConfigInv /\ PatientInv
  BY TypeParts DEF IInv
<1>2. At = "arm_out" /\ At' \in {"check_in", "idle"} /\ todo' \in TodoShapes
  BY <1>1, NextAccess
<1>3. Types'
  <2>1. (SoftwareTypes /\ BitTypes)'
    BY <1>1
  <2>2. EndpointTypes'
    <3>1. out' = [out EXCEPT !.setup = FALSE, !.nack = FALSE, !.trn = FALSE] /\ in' = in
      BY DEF Ep0OutClears
    <3> QED
      BY <1>1, <3>1
  <2>3. PacketTypes'
    BY <1>1
  <2> QED
    BY <1>1, <2>1, <2>2, <2>3
<1>4. HostInv'
  BY <1>1, <1>2
<1>5. HandlerInv'
  BY <1>1, <1>2
<1>6. SetupInv'
  <2>1. /\ out'.setup = FALSE /\ out'.stall = out.stall /\ in' = in
        /\ UNCHANGED <<host, ep0_buf_out, usb_setup>>
    BY <1>1 DEF Ep0OutClears
  <2> QED
    BY <1>1, <1>2, <2>1
<1>7. AnswerInv'
  BY <1>1, <1>2
<1>8. ConfigInv'
  BY <1>1, <1>2
<1>20. PatientInv'
  <2>1. /\ out'.setup = FALSE /\ out'.stall = out.stall /\ in' = in
        /\ UNCHANGED <<host, ep0_buf_out, usb_setup, busrst>>
    BY <1>1 DEF Ep0OutClears
  <2> QED
    BY <1>1, <1>2, <2>1
<1> QED
  BY <1>3, <1>4, <1>5, <1>6, <1>7, <1>8, <1>20, InvParts

LEMMA StallOutStep == IInv /\ StallOut => IInv'
<1> SUFFICES ASSUME IInv, StallOut PROVE IInv'
  OBVIOUS
<1> USE DEF HostInv, HandlerInv, SetupInv, AnswerInv, ConfigInv, PatientInv, Deciding, Lost, Expected,
            Types, SoftwareTypes, BitTypes, EndpointTypes, PacketTypes,
            swVars, ep0Vars, busVars, StallOut
<1>1. /\ Types /\ HostInv /\ HandlerInv /\ SetupInv
      /\ AnswerInv /\ ConfigInv /\ PatientInv
  BY TypeParts DEF IInv
<1>2. At = "stall_out" /\ At' = "stall_in" /\ todo' \in TodoShapes
  BY <1>1, NextAccess
<1>3. Types'
  BY <1>1, <1>2
<1>4. HostInv'
  BY <1>1, <1>2
<1>5. HandlerInv'
  BY <1>1, <1>2
<1>6. SetupInv'
  BY <1>1, <1>2
<1>7. AnswerInv'
  BY <1>1, <1>2
<1>8. ConfigInv'
  BY <1>1, <1>2
<1>20. PatientInv'
  BY <1>1, <1>2
<1> QED
  BY <1>3, <1>4, <1>5, <1>6, <1>7, <1>8, <1>20, InvParts

LEMMA StallInStep == IInv /\ StallIn => IInv'
<1> SUFFICES ASSUME IInv, StallIn PROVE IInv'
  OBVIOUS
<1> USE DEF HostInv, HandlerInv, SetupInv, AnswerInv, ConfigInv, PatientInv, Deciding, Lost, Expected,
            Types, SoftwareTypes, BitTypes, EndpointTypes, PacketTypes,
            swVars, ep0Vars, busVars, StallIn
<1>1. /\ Types /\ HostInv /\ HandlerInv /\ SetupInv
      /\ AnswerInv /\ ConfigInv /\ PatientInv
  BY TypeParts DEF IInv
<1>2. At = "stall_in" /\ At' = "check_in" /\ todo' \in TodoShapes
  BY <1>1, NextAccess
<1>3. Types'
  BY <1>1, <1>2
<1>4. HostInv'
  BY <1>1, <1>2
<1>5. HandlerInv'
  BY <1>1, <1>2
<1>6. SetupInv'
  BY <1>1, <1>2
<1>7. AnswerInv'
  <2>1. in'.stall = TRUE /\ in'.trn = in.trn /\ in'.nack = in.nack /\ ~out.setup
    BY <1>1, <1>2
  <2>2. usb_setup.name # "SetAddress"
    BY <1>1, <1>2 DEF Supported
  <2> QED
    BY <1>1, <1>2, <2>1, <2>2
<1>8. ConfigInv'
  BY <1>1, <1>2
<1>20. PatientInv'
  BY <1>1, <1>2
<1> QED
  BY <1>3, <1>4, <1>5, <1>6, <1>7, <1>8, <1>20, InvParts

LEMMA CheckInStep == IInv /\ CheckIn => IInv'
<1> SUFFICES ASSUME IInv, CheckIn PROVE IInv'
  OBVIOUS
<1> USE DEF HostInv, HandlerInv, SetupInv, AnswerInv, ConfigInv, PatientInv, Deciding, Lost, Expected,
            Types, SoftwareTypes, BitTypes, EndpointTypes, PacketTypes,
            swVars, ep0Vars, busVars, CheckIn
<1>1. /\ Types /\ HostInv /\ HandlerInv /\ SetupInv
      /\ AnswerInv /\ ConfigInv /\ PatientInv
  BY TypeParts DEF IInv
<1>2. /\ At = "check_in" /\ todo' \in TodoShapes
      /\ At' = IF in.trn THEN "in_complete" ELSE "idle"
  BY <1>1, CheckInShape
<1>3. Types'
  BY <1>1, <1>2
<1>4. HostInv'
  BY <1>1, <1>2
<1>5. HandlerInv'
  BY <1>1, <1>2
<1>6. SetupInv'
  BY <1>1, <1>2
<1>7. AnswerInv'
  BY <1>1, <1>2
<1>8. ConfigInv'
  BY <1>1, <1>2
<1>20. PatientInv'
  BY <1>1, <1>2
<1> QED
  BY <1>3, <1>4, <1>5, <1>6, <1>7, <1>8, <1>20, InvParts

LEMMA InCompleteStep == IInv /\ InComplete => IInv'
<1> SUFFICES ASSUME IInv, InComplete PROVE IInv'
  OBVIOUS
<1> USE DEF HostInv, HandlerInv, SetupInv, AnswerInv, ConfigInv, PatientInv, Deciding, Lost, Expected,
            Types, SoftwareTypes, BitTypes, EndpointTypes, PacketTypes,
            swVars, ep0Vars, busVars, InComplete
<1>1. /\ Types /\ HostInv /\ HandlerInv /\ SetupInv
      /\ AnswerInv /\ ConfigInv /\ PatientInv
  BY TypeParts DEF IInv
<1>2. /\ At = "in_complete" /\ todo' \in TodoShapes
      /\ At' \in {"set_address", "arm_zlp", "idle"}
      /\ At' = "set_address" => usb_setup.name = "SetAddress"
      /\ At' = "arm_zlp" => usb_setup.name = "GetDescriptor"
  BY <1>1, InCompleteShape
<1>3. Types'
  BY <1>1, <1>2
<1>4. HostInv'
  BY <1>1, <1>2
<1>5. HandlerInv'
  BY <1>1, <1>2
<1>6. SetupInv'
  BY <1>1, <1>2
<1>7. AnswerInv'
  BY <1>1, <1>2
<1>8. ConfigInv'
  BY <1>1, <1>2
<1>20. PatientInv'
  BY <1>1, <1>2
<1> QED
  BY <1>3, <1>4, <1>5, <1>6, <1>7, <1>8, <1>20, InvParts

LEMMA SetAddressStep == IInv /\ SetAddress => IInv'
<1> SUFFICES ASSUME IInv, SetAddress PROVE IInv'
  OBVIOUS
<1> USE DEF HostInv, HandlerInv, SetupInv, AnswerInv, ConfigInv, PatientInv, Deciding, Lost, Expected,
            Types, SoftwareTypes, BitTypes, EndpointTypes, PacketTypes,
            swVars, ep0Vars, busVars, SetAddress
<1>1. /\ Types /\ HostInv /\ HandlerInv /\ SetupInv
      /\ AnswerInv /\ ConfigInv /\ PatientInv
  BY TypeParts DEF IInv
<1>2. At = "set_address" /\ At' = "idle" /\ todo' \in TodoShapes
  BY <1>1, NextAccess
<1>3. Types'
  <2>1. usb_setup.val \in Address
    <3>1. usb_setup \in Request /\ usb_setup.name = "SetAddress"
      BY <1>1, <1>2 DEF NoRequest, Req
    <3> QED
      BY <3>1 DEF Request, Req
  <2>2. (SoftwareTypes /\ BitTypes)'
    BY <1>1, <2>1
  <2>3. EndpointTypes'
    BY <1>1
  <2>4. PacketTypes'
    BY <1>1
  <2> QED
    BY <1>1, <2>2, <2>3, <2>4
<1>4. HostInv'
  BY <1>1, <1>2
<1>5. HandlerInv'
  BY <1>1, <1>2
<1>6. SetupInv'
  BY <1>1, <1>2
<1>7. AnswerInv'
  BY <1>1, <1>2
<1>8. ConfigInv'
  BY <1>1, <1>2
<1>20. PatientInv'
  BY <1>1, <1>2
<1> QED
  BY <1>3, <1>4, <1>5, <1>6, <1>7, <1>8, <1>20, InvParts

LEMMA ArmZlpStep == IInv /\ ArmZlp => IInv'
<1> SUFFICES ASSUME IInv, ArmZlp PROVE IInv'
  OBVIOUS
<1> USE DEF HostInv, HandlerInv, SetupInv, AnswerInv, ConfigInv, PatientInv, Deciding, Lost, Expected,
            Types, SoftwareTypes, BitTypes, EndpointTypes, PacketTypes,
            swVars, ep0Vars, busVars, ArmZlp
<1>1. /\ Types /\ HostInv /\ HandlerInv /\ SetupInv
      /\ AnswerInv /\ ConfigInv /\ PatientInv
  BY TypeParts DEF IInv
<1>2. At = "arm_zlp" /\ At' = "arm_out" /\ todo' \in TodoShapes
  BY <1>1, NextAccess
<1>3. Types'
  <2>1. reply' = [answer |-> Zlp, left |-> 1]
        /\ in' = [in EXCEPT !.nack = FALSE, !.trn = FALSE]
    BY DEF Arm
  <2>2. (SoftwareTypes /\ BitTypes)'
    BY <1>1
  <2>3. EndpointTypes'
    BY <1>1, <2>1
  <2>4. PacketTypes'
    BY <1>1, <2>1
  <2> QED
    BY <1>1, <2>2, <2>3, <2>4
<1>4. HostInv'
  BY <1>1, <1>2
<1>5. HandlerInv'
  BY <1>1, <1>2
<1>6. SetupInv'
  <2>1. in'.nack = FALSE /\ in'.trn = FALSE /\ in'.stall = in.stall
    BY <1>1 DEF Arm
  <2>2. ~out.setup
    BY <1>1, <1>2
  <2> QED
    BY <1>1, <1>2, <2>1, <2>2
<1>7. AnswerInv'
  <2>1. /\ in'.nack = FALSE /\ in'.trn = FALSE /\ in'.stall = in.stall
        /\ reply' = [answer |-> Zlp, left |-> 1]
    BY <1>1 DEF Arm
  <2>2. ~out.setup /\ in.trn
    BY <1>1, <1>2
  <2> QED
    BY <1>1, <1>2, <2>1, <2>2
<1>8. ConfigInv'
  BY <1>1, <1>2
<1>20. PatientInv'
  <2>1. in'.nack = FALSE /\ in'.trn = FALSE /\ in'.stall = in.stall
    BY <1>1 DEF Arm
  <2> QED
    BY <1>1, <1>2, <2>1
<1> QED
  BY <1>3, <1>4, <1>5, <1>6, <1>7, <1>8, <1>20, InvParts

(***************************************************************************)
(* The bus interrupt and the host keep the invariant.                      *)
(***************************************************************************)

\* What a step that changes only flags and pending interrupts leaves alone.
FlagStep ==
  /\ UNCHANGED <<todo, swVars, addr, fifoen, ep0Vars, busrst, host>>
  /\ flagsA' \subseteq {"sof", "err", "stall", "bus"} /\ irq' \in BOOLEAN

LEMMA FlagsKeep == IInv /\ FlagStep => IInv'
<1> SUFFICES ASSUME IInv, FlagStep PROVE IInv'
  OBVIOUS
<1> USE DEF HostInv, HandlerInv, SetupInv, AnswerInv, ConfigInv, PatientInv, Deciding, Lost, Expected,
            Types, SoftwareTypes, BitTypes, EndpointTypes, PacketTypes,
            swVars, ep0Vars, busVars
<1>1. /\ Types /\ HostInv /\ HandlerInv /\ SetupInv
      /\ AnswerInv /\ ConfigInv /\ PatientInv
  BY TypeParts DEF IInv
<1>2. /\ UNCHANGED <<todo, swVars, addr, fifoen, ep0Vars, busrst, host>> /\ At' = At
      /\ flagsA' \subseteq {"sof", "err", "stall", "bus"} /\ irq' \in BOOLEAN
  BY DEF FlagStep, At
<1>3. Types'
  <2>1. (SoftwareTypes /\ BitTypes)'
    BY <1>1, <1>2
  <2>2. EndpointTypes'
    BY <1>1, <1>2
  <2>3. PacketTypes'
    BY <1>1, <1>2
  <2> QED
    BY <1>1, <1>2, <2>1, <2>2, <2>3
<1>4. HostInv'
  BY <1>1, <1>2
<1>5. HandlerInv'
  BY <1>1, <1>2
<1>6. SetupInv'
  BY <1>1, <1>2
<1>7. AnswerInv'
  BY <1>1, <1>2
<1>8. ConfigInv'
  BY <1>1, <1>2
<1>20. PatientInv'
  BY <1>1, <1>2
<1> QED
  BY <1>3, <1>4, <1>5, <1>6, <1>7, <1>8, <1>20, InvParts

\* usb_reset finds the host idle.
ResetHandled ==
  /\ todo = <<>> /\ busrst /\ busrst' = FALSE /\ usb_reset
  /\ flagsA' \subseteq flagsA
  /\ UNCHANGED <<todo, swVars, ep0_buf_out, reply, irq, host>>

LEMMA ResetServedStep == IInv /\ ResetHandled => IInv'
<1> SUFFICES ASSUME IInv, ResetHandled PROVE IInv'
  OBVIOUS
<1> USE DEF HostInv, HandlerInv, SetupInv, AnswerInv, ConfigInv, PatientInv, Deciding, Lost, Expected,
            Types, SoftwareTypes, BitTypes, EndpointTypes, PacketTypes,
            swVars, ep0Vars, busVars
<1>1. /\ Types /\ HostInv /\ HandlerInv /\ SetupInv
      /\ AnswerInv /\ ConfigInv /\ PatientInv
  BY TypeParts DEF IInv
<1>2. /\ addr' = 0 /\ busrst' = FALSE /\ fifoen' = FALSE
      /\ out' = [setup |-> FALSE, nack |-> FALSE, trn |-> FALSE, stall |-> FALSE]
      /\ in' = [nack |-> TRUE, trn |-> FALSE, stall |-> FALSE]
      /\ flagsA' \subseteq flagsA /\ host.stage = "idle" /\ At = "idle" /\ At' = "idle"
      /\ UNCHANGED <<todo, swVars, ep0_buf_out, reply, irq, host>>
  BY <1>1 DEF ResetHandled, usb_reset, OutAfterReset, InAfterReset, InDisarmed, FifoenAfterReset, At
<1>3. Types'
  <2>1. (SoftwareTypes /\ BitTypes)'
    BY <1>1, <1>2
  <2>2. EndpointTypes'
    BY <1>1, <1>2
  <2>3. PacketTypes'
    BY <1>1, <1>2
  <2> QED
    BY <1>1, <1>2, <2>1, <2>2, <2>3
<1>4. HostInv'
  BY <1>1, <1>2
<1>5. HandlerInv'
  BY <1>1, <1>2
<1>6. SetupInv'
  BY <1>1, <1>2
<1>7. AnswerInv'
  BY <1>1, <1>2
<1>8. ConfigInv'
  BY <1>1, <1>2
<1>20. PatientInv'
  BY <1>1, <1>2
<1> QED
  BY <1>3, <1>4, <1>5, <1>6, <1>7, <1>8, <1>20, InvParts

LEMMA BuseventStep == IInv /\ Busevent => IInv'
<1> SUFFICES ASSUME IInv, Busevent PROVE IInv'
  OBVIOUS
<1>1. flagsA' \subseteq flagsA /\ flagsA \subseteq {"sof", "err", "stall", "bus"} /\ irq \in BOOLEAN
  BY TypeParts DEF Busevent, FlagsServed, Types, BitTypes
<1>2. CASE ServedGroup = "bus" /\ busrst
  BY <1>1, <1>2, ResetServedStep DEF Busevent, ResetHandled
<1>3. CASE ~(ServedGroup = "bus" /\ busrst)
  BY <1>1, <1>3, FlagsKeep DEF Busevent, FlagStep, ep0Vars
<1> QED
  BY <1>2, <1>3

LEMMA FlagActions == IInv /\ (BusFlag \/ BulkComplete \/ UNCHANGED vars) => IInv'
<1> SUFFICES ASSUME IInv, BusFlag \/ BulkComplete \/ UNCHANGED vars PROVE IInv'
  OBVIOUS
<1>1. flagsA \subseteq {"sof", "err", "stall", "bus"} /\ irq \in BOOLEAN
  BY TypeParts DEF Types, BitTypes
<1> QED
  BY <1>1, FlagsKeep DEF BusFlag, BulkComplete, vars, busVars, FlagStep

LEMMA HostOutStep == IInv /\ HostOut => IInv'
<1> SUFFICES ASSUME IInv, HostOut PROVE IInv'
  OBVIOUS
<1> USE DEF HostInv, HandlerInv, SetupInv, AnswerInv, ConfigInv, PatientInv, Deciding, Lost, Expected,
            Types, SoftwareTypes, BitTypes, EndpointTypes, PacketTypes,
            swVars, ep0Vars, busVars
<1>1. /\ Types /\ HostInv /\ HandlerInv /\ SetupInv
      /\ AnswerInv /\ ConfigInv /\ PatientInv
  BY TypeParts DEF IInv
<1>2. /\ host.stage = "status_out" /\ host' = [host EXCEPT !.stage = "done"]
      /\ out' = [out EXCEPT !.trn = TRUE] /\ irq' = TRUE /\ At' = At
      /\ UNCHANGED <<todo, swVars, addr, fifoen, in, ep0_buf_out, reply, busVars>>
  BY DEF HostOut, At
<1>9. ~out.nack
  BY DEF HostOut
<1>3. Types'
  <2>1. (SoftwareTypes /\ BitTypes)'
    BY <1>1, <1>2
  <2>2. EndpointTypes'
    BY <1>1, <1>2
  <2>3. PacketTypes'
    BY <1>1, <1>2
  <2> QED
    BY <1>1, <1>2, <2>1, <2>2, <2>3
<1>4. HostInv'
  BY <1>1, <1>2
<1>5. HandlerInv'
  BY <1>1, <1>2
<1>6. SetupInv'
  BY <1>1, <1>2
<1>7. AnswerInv'
  BY <1>1, <1>2
<1>8. ConfigInv'
  BY <1>1, <1>2
<1>20. PatientInv'
  BY <1>1, <1>2, <1>9
<1> QED
  BY <1>3, <1>4, <1>5, <1>6, <1>7, <1>8, <1>20, InvParts

LEMMA HostStalledStep == IInv /\ HostStalled => IInv'
<1> SUFFICES ASSUME IInv, HostStalled PROVE IInv'
  OBVIOUS
<1> USE DEF HostInv, HandlerInv, SetupInv, AnswerInv, ConfigInv, PatientInv, Deciding, Lost, Expected,
            Types, SoftwareTypes, BitTypes, EndpointTypes, PacketTypes,
            swVars, ep0Vars, busVars
<1>1. /\ Types /\ HostInv /\ HandlerInv /\ SetupInv
      /\ AnswerInv /\ ConfigInv /\ PatientInv
  BY TypeParts DEF IInv
<1>2. /\ ~busrst
      /\ \/ host.stage \in {"data", "status_in"} /\ in.stall
         \/ host.stage = "status_out" /\ out.stall
      /\ host' = [host EXCEPT !.stage = "stalled"]
      /\ flagsA' = flagsA \cup {"stall"} /\ At' = At
      /\ UNCHANGED <<todo, swVars, addr, fifoen, ep0Vars, irq, busrst>>
  BY DEF HostStalled, Hears, At
<1>3. Types'
  <2>1. (SoftwareTypes /\ BitTypes)'
    BY <1>1, <1>2
  <2>2. EndpointTypes'
    BY <1>1, <1>2
  <2>3. PacketTypes'
    BY <1>1, <1>2
  <2> QED
    BY <1>1, <1>2, <2>1, <2>2, <2>3
<1>4. HostInv'
  BY <1>1, <1>2
<1>5. HandlerInv'
  BY <1>1, <1>2
<1>6. SetupInv'
  BY <1>1, <1>2
<1>7. AnswerInv'
  BY <1>1, <1>2
<1>8. ConfigInv'
  BY <1>1, <1>2
<1>20. PatientInv'
  BY <1>1, <1>2
<1> QED
  BY <1>3, <1>4, <1>5, <1>6, <1>7, <1>8, <1>20, InvParts

LEMMA HostAbandonStep == Orderly /\ IInv /\ HostAbandon => IInv'
<1> SUFFICES ASSUME Orderly, IInv, HostAbandon PROVE IInv'
  OBVIOUS
<1> USE DEF HostInv, HandlerInv, SetupInv, AnswerInv, ConfigInv, PatientInv, Deciding, Lost, Expected,
            Types, SoftwareTypes, BitTypes, EndpointTypes, PacketTypes,
            swVars, ep0Vars, busVars
<1>1. /\ Types /\ HostInv /\ HandlerInv /\ SetupInv
      /\ AnswerInv /\ ConfigInv /\ PatientInv
  BY TypeParts DEF IInv
<1>2. /\ host' = [host EXCEPT !.stage = "idle"] /\ At' = At
      /\ UNCHANGED <<todo, swVars, addr, fifoen, ep0Vars, irq, busVars>>
  BY DEF HostAbandon, At
<1>9. ~SetupDuringIsr
  BY DEF Orderly, HostAbandon
<1>3. Types'
  <2>1. (SoftwareTypes /\ BitTypes)'
    BY <1>1, <1>2
  <2>2. EndpointTypes'
    BY <1>1, <1>2
  <2>3. PacketTypes'
    BY <1>1, <1>2
  <2> QED
    BY <1>1, <1>2, <2>1, <2>2, <2>3
<1>4. HostInv'
  BY <1>1, <1>2
<1>5. HandlerInv'
  BY <1>1, <1>2, <1>9
<1>6. SetupInv'
  BY <1>1, <1>2, <1>9
<1>7. AnswerInv'
  BY <1>1, <1>2, <1>9
<1>8. ConfigInv'
  BY <1>1, <1>2, <1>9
<1>20. PatientInv'
  BY <1>1, <1>2, <1>9
<1> QED
  BY <1>3, <1>4, <1>5, <1>6, <1>7, <1>8, <1>20, InvParts

LEMMA HostResetStep == IInv /\ HostReset => IInv'
<1> SUFFICES ASSUME IInv, HostReset PROVE IInv'
  OBVIOUS
<1> USE DEF HostInv, HandlerInv, SetupInv, AnswerInv, ConfigInv, PatientInv, Deciding, Lost, Expected,
            Types, SoftwareTypes, BitTypes, EndpointTypes, PacketTypes,
            swVars, ep0Vars, busVars
<1>1. /\ Types /\ HostInv /\ HandlerInv /\ SetupInv
      /\ AnswerInv /\ ConfigInv /\ PatientInv
  BY TypeParts DEF IInv
<1>2. /\ busrst' = TRUE /\ flagsA' = flagsA \cup {"bus"} /\ At' = At
      /\ host' = [host EXCEPT !.stage = "idle", !.addr = 0]
      /\ UNCHANGED <<todo, swVars, addr, fifoen, ep0Vars, irq>>
  BY DEF HostReset, At
<1>3. Types'
  <2>1. (SoftwareTypes /\ BitTypes)'
    BY <1>1, <1>2
  <2>2. EndpointTypes'
    BY <1>1, <1>2
  <2>3. PacketTypes'
    BY <1>1, <1>2
  <2> QED
    BY <1>1, <1>2, <2>1, <2>2, <2>3
<1>4. HostInv'
  BY <1>1, <1>2
<1>5. HandlerInv'
  BY <1>1, <1>2
<1>6. SetupInv'
  BY <1>1, <1>2
<1>7. AnswerInv'
  BY <1>1, <1>2
<1>8. ConfigInv'
  BY <1>1, <1>2
<1>20. PatientInv'
  BY <1>1, <1>2
<1> QED
  BY <1>3, <1>4, <1>5, <1>6, <1>7, <1>8, <1>20, InvParts

LEMMA HostSetupStep == Orderly /\ IInv /\ (\E r \in Requests : HostSetup(r)) => IInv'
<1> SUFFICES ASSUME Orderly, IInv, (\E r \in Requests : HostSetup(r)) PROVE IInv'
  OBVIOUS
<1> USE DEF HostInv, HandlerInv, SetupInv, AnswerInv, ConfigInv, PatientInv, Deciding, Lost, Expected,
            Types, SoftwareTypes, BitTypes, EndpointTypes, PacketTypes,
            swVars, ep0Vars, busVars
<1>1. /\ Types /\ HostInv /\ HandlerInv /\ SetupInv
      /\ AnswerInv /\ ConfigInv /\ PatientInv
  BY TypeParts DEF IInv
<1>0. PICK r \in Requests : HostSetup(r)
  OBVIOUS
<1>11. PICK t \in BOOLEAN : in' = [nack |-> TRUE, trn |-> t, stall |-> FALSE]
  BY <1>0, <1>1 DEF HostSetup
<1>12. /\ ~InTransfer /\ host.stage # "detached" /\ ~busrst /\ todo' = todo
       /\ SetupDuringIsr => t = FALSE
  BY <1>0, <1>1, <1>11 DEF HostSetup, Hears, Orderly
<1>13. r \in Request /\ At' = At
  BY <1>0, <1>12, RequestsAssumption DEF At
<1>14. \/ At = "idle"
       \/ /\ SetupDuringIsr
          /\ At \in {"read", "set_configuration", "arm_out", "check_in", "in_complete",
                     "set_address"}
          /\ At \in {"arm_out", "in_complete"} => usb_setup.name # "GetDescriptor"
  <2>1. CASE ~SetupDuringIsr
    BY <1>0, <2>1 DEF HostSetup, At
  <2>2. CASE SetupDuringIsr
    <3>1. host.stage \in {"idle", "done", "stalled"}
      BY <1>1, <1>12 DEF InTransfer
    <3>2. At \in {"idle", "read", "ack_setup", "copy", "handle", "check_in", "arm_in", "arm_out",
                  "set_configuration", "stall_out", "stall_in", "in_complete",
                  "set_address", "arm_zlp"}
      BY <1>1, AtAccess
    <3>3. ~Deciding /\ At # "ack_setup"
      BY <1>1, <1>12, <2>2, <3>1
    <3>4. At # "arm_zlp" /\ (At \in {"arm_out", "in_complete"} => usb_setup.name # "GetDescriptor")
      BY <1>1, <1>12, <2>2, <3>1
    <3> QED
      BY <2>2, <3>2, <3>3, <3>4
  <2> QED
    BY <2>1, <2>2
<1>2. /\ r \in Request /\ ~busrst /\ At' = At
      /\ out' = [setup |-> TRUE, nack |-> TRUE, trn |-> FALSE, stall |-> FALSE]
      /\ in' = [nack |-> TRUE, trn |-> t, stall |-> FALSE]
      /\ ep0_buf_out' = r /\ irq' = TRUE
      /\ UNCHANGED <<todo, swVars, addr, fifoen, reply, busVars>>
  BY <1>0, <1>11, <1>12, <1>13 DEF HostSetup
<1>9. /\ host'.stage = IF HasData(r) THEN "data" ELSE "status_in"
      /\ host'.req = r /\ host'.got = NoRequest /\ host'.left = Packets(r)
      /\ host'.configs = IF r.name = "SetConfiguration" /\ Supported(r)
                         THEN host.configs \cup {r.val} ELSE host.configs
      /\ host'.addr = host.addr
  BY <1>0, <1>1 DEF HostSetup
<1>10. r # NoRequest
  BY <1>2 DEF Request, NoRequest, Req
<1>3. Types'
  <2>1. (SoftwareTypes /\ BitTypes)'
    BY <1>1, <1>2
  <2>2. EndpointTypes'
    BY <1>1, <1>2
  <2>3. PacketTypes'
    BY <1>1, <1>2
  <2> QED
    BY <1>1, <1>2, <2>1, <2>2, <2>3
<1>4. HostInv'
  <2>1. Packets(r) \in Int
    BY DEF Packets
  <2>2. host'.configs \in SUBSET {0, 1}
    BY <1>1, <1>9 DEF Supported
  <2>3. host' = [stage |-> host'.stage, req |-> host'.req, got |-> host'.got, left |-> host'.left,
                 addr |-> host'.addr, configs |-> host'.configs]
    BY <1>0, <1>1 DEF HostSetup
  <2>4. host' \in [stage : {"detached", "idle", "data", "status_in", "status_out", "done",
                            "stalled"},
                   req : Request \cup {NoRequest},
                   got : Request \cup {NoRequest, Zlp, Req("GetConfiguration", 1)},
                   left : Int, addr : Address \cup {0}, configs : SUBSET {0, 1}]
    BY <1>1, <1>2, <1>9, <2>1, <2>2, <2>3
  <2> QED
    BY <1>1, <1>2, <1>9, <2>4
<1>5. HandlerInv'
  BY <1>1, <1>2, <1>9, <1>14
<1>6. SetupInv'
  BY <1>1, <1>2, <1>9, <1>10, <1>14
<1>7. AnswerInv'
  BY <1>1, <1>2, <1>9, <1>14
<1>8. ConfigInv'
  BY <1>1, <1>2, <1>9, <1>14 DEF Supported
<1>20. PatientInv'
  BY <1>1, <1>2, <1>9, <1>12, <1>14
<1> QED
  BY <1>3, <1>4, <1>5, <1>6, <1>7, <1>8, <1>20, InvParts

LEMMA HostInStep == IInv /\ HostIn => IInv'
<1> SUFFICES ASSUME IInv, HostIn PROVE IInv'
  OBVIOUS
<1> USE DEF HostInv, HandlerInv, SetupInv, AnswerInv, ConfigInv, PatientInv, Deciding, Lost, Expected,
            Types, SoftwareTypes, BitTypes, EndpointTypes, PacketTypes,
            swVars, ep0Vars, busVars
<1>1. /\ Types /\ HostInv /\ HandlerInv /\ SetupInv
      /\ AnswerInv /\ ConfigInv /\ PatientInv
  BY TypeParts DEF IInv
<1> DEFINE last == reply.left = 1
           enough == host.left = 1 \/ reply.answer = Zlp
           done == host.stage = "status_in"
<1>2. /\ host.stage \in {"data", "status_in"} /\ ~in.stall /\ ~in.nack /\ ~in.trn /\ ~busrst
      /\ At' = At /\ reply' = [reply EXCEPT !.left = @ - 1]
      /\ in' = [in EXCEPT !.nack = last, !.trn = last] /\ irq' = (irq \/ last)
      /\ UNCHANGED <<todo, swVars, addr, fifoen, out, ep0_buf_out, busVars>>
  BY DEF HostIn, Hears, At
<1>9. host' = [host EXCEPT
        !.got = reply.answer, !.left = @ - 1,
        !.stage = IF done THEN "done" ELSE IF enough THEN "status_out" ELSE @,
        !.addr = IF done /\ host.req.name = "SetAddress" THEN host.req.val ELSE @,
        !.configs = IF done /\ host.req.name = "SetConfiguration"
                    THEN {host.req.val} ELSE @]
  BY DEF HostIn
<1>10. /\ ~out.setup /\ ~Deciding /\ Supported(host.req) /\ reply.answer \in Expected(host.req)
       /\ host.stage = "data" => reply.answer # Zlp /\ reply.left = host.left
       /\ host.req.name = "SetConfiguration" /\ At # "set_configuration" =>
            usb_configuration = host.req.val
       /\ ep0_buf_out = host.req /\ usb_setup = host.req /\ reply.left \in 1..3
       /\ host.stage = "data" <=> HasData(host.req)
       /\ host.req \in Request \cup {NoRequest}
  BY <1>1, <1>2
<1>11. /\ host'.got = reply.answer /\ host'.left = host.left - 1 /\ host'.req = host.req
       /\ host'.stage = IF done THEN "done" ELSE IF last THEN "status_out" ELSE "data"
       /\ host'.addr = IF done /\ host.req.name = "SetAddress" THEN host.req.val ELSE host.addr
       /\ host'.configs = IF done /\ host.req.name = "SetConfiguration"
                          THEN {host.req.val} ELSE host.configs
       /\ reply'.answer = reply.answer /\ reply'.left = reply.left - 1
       /\ in'.nack = last /\ in'.trn = last /\ in'.stall = FALSE
  BY <1>1, <1>2, <1>9, <1>10
<1>12. Expected(host.req)' = IF host.req.name = "GetConfiguration"
                            THEN {Req("GetConfiguration", c) : c \in host.configs}
                            ELSE IF HasData(host.req) THEN {host.req} ELSE {Zlp}
  BY <1>11 DEF HasData
<1>3. Types'
  <2>1. (SoftwareTypes /\ BitTypes)'
    BY <1>1, <1>2, <1>10
  <2>2. EndpointTypes'
    BY <1>1, <1>2, <1>10
  <2>3. PacketTypes'
    BY <1>1, <1>2, <1>10
  <2> QED
    BY <1>1, <1>2, <2>1, <2>2, <2>3
<1>4. HostInv'
  <2>1. host.req.name = "SetAddress" => host.req.val \in Address
    <3>1. host.req.name = "SetAddress" => host.req \in Request
      BY <1>10 DEF NoRequest, Req
    <3> QED
      BY <3>1 DEF Request, Req
  <2>2. host.req.name = "SetConfiguration" => host.req.val \in {0, 1}
    BY <1>10 DEF Supported
  <2>3. host' \in [stage : {"detached", "idle", "data", "status_in", "status_out", "done",
                            "stalled"},
                   req : Request \cup {NoRequest},
                   got : Request \cup {NoRequest, Zlp, Req("GetConfiguration", 1)},
                   left : Int, addr : Address \cup {0}, configs : SUBSET {0, 1}]
    <3>1. reply.answer \in Request \cup {Zlp, Req("GetConfiguration", 1)}
      BY <1>1
    <3>2. host'.addr \in Address \cup {0} /\ host'.configs \in SUBSET {0, 1}
      BY <1>1, <1>11, <2>1, <2>2
    <3>3. host' = [stage |-> host'.stage, req |-> host'.req, got |-> host'.got,
                   left |-> host'.left, addr |-> host'.addr, configs |-> host'.configs]
      BY <1>1, <1>9
    <3>4. host'.left \in Int /\ host'.req \in Request \cup {NoRequest}
      BY <1>1, <1>11
    <3>5. host'.stage \in {"done", "status_out", "data"}
      BY <1>11
    <3> QED
      BY <1>11, <3>1, <3>2, <3>3, <3>4, <3>5
  <2> QED
    BY <1>1, <1>2, <1>10, <1>11, <2>3
<1>5. HandlerInv'
  BY <1>1, <1>2
<1>6. SetupInv'
  BY <1>1, <1>2, <1>10, <1>11
<1>7. AnswerInv'
  <2>1. (in'.trn => in'.nack) /\ (~in'.nack => reply'.left >= 1)
    <3>1. ~last => reply.left - 1 >= 1
      BY <1>10
    <3> QED
      BY <1>11, <3>1
  <2>2. reply'.answer \in Expected(host.req)'
    BY <1>10, <1>11, <1>12
  <2>3. host'.stage \in {"data", "status_in"} => host.stage = "data" /\ ~done /\ ~last
    BY <1>2, <1>11
  <2>4. last => host'.stage \notin {"data", "status_in"}
    BY <1>2, <1>11
  <2>5. last /\ usb_setup.name = "SetAddress" => host'.addr = usb_setup.val
    <3>1. host.req.name = "SetAddress" => ~HasData(host.req)
      BY DEF HasData
    <3> QED
      BY <1>2, <1>10, <1>11, <3>1
  <2>6. host'.stage \in {"status_out", "done"} =>
          Supported(host'.req) /\ host'.got \in Expected(host.req)'
    BY <1>10, <1>11, <2>2
  <2>7. host'.stage \in {"data", "status_in"} =>
             /\ reply'.answer # Zlp /\ reply'.left = host'.left
             /\ host'.req.name # "SetConfiguration"
    BY <1>10, <1>11, <2>3 DEF HasData
  <2>8. UNCHANGED <<usb_setup, usb_configuration, out, busrst>> /\ At' = At
    BY <1>2
  <2> QED
    BY <1>10, <1>11, <2>1, <2>2, <2>4, <2>5, <2>6, <2>7, <2>8
<1>8. ConfigInv'
  BY <1>1, <1>2, <1>10, <1>11
<1>20. PatientInv'
  <2>1. ~out.stall /\ ~in.stall
    BY <1>1, <1>2, <1>10
  <2>2. usb_setup.name = "GetDescriptor" => HasData(host.req)
    BY <1>10 DEF HasData
  <2>3. usb_setup.name = "GetDescriptor" /\ SetupDuringIsr => out.nack /\ At # "arm_out"
    BY <1>1, <1>2, <1>10, <2>2
  <2>4. host'.stage # "idle" /\ UNCHANGED <<out, usb_setup, busrst>> /\ At' = At
    BY <1>2, <1>11
  <2> QED
    BY <1>2, <1>10, <1>11, <2>1, <2>2, <2>3, <2>4
<1> QED
  BY <1>3, <1>4, <1>5, <1>6, <1>7, <1>8, <1>20, InvParts

LEMMA InitHolds == Init => IInv
<1> SUFFICES ASSUME Init PROVE IInv
  OBVIOUS
<1>1. todo = <<>> /\ At = "idle" /\ todo \in TodoShapes
  BY DEF Init, At, TodoShapes
<1>2. NoRequest # Zlp /\ NoRequest.name = "None" /\ NoRequest.val = 0
  BY DEF NoRequest, Zlp, Req
<1>3. /\ out = [setup |-> FALSE, nack |-> FALSE, trn |-> FALSE, stall |-> FALSE]
      /\ in = [nack |-> TRUE, trn |-> FALSE, stall |-> FALSE]
  BY DEF Init, OutAfterReset, InDisarmed
<1>4. TypeOK
  <2>1. todo \in Seq(Steps)
    BY <1>1, ShapesAreSteps
  <2>2. out \in [setup : BOOLEAN, nack : BOOLEAN, trn : BOOLEAN, stall : BOOLEAN]
    BY <1>3
  <2>3. in \in [nack : BOOLEAN, trn : BOOLEAN, stall : BOOLEAN]
    BY <1>3
  <2>4. reply \in [answer : Request \cup {Zlp, Req("GetConfiguration", 1)}, left : 0..3]
    BY DEF Init
  <2> QED
    BY <2>1, <2>2, <2>3, <2>4 DEF Init, TypeOK
<1>5. HostInv
  <2>1. host \in [stage : {"detached", "idle", "data", "status_in", "status_out", "done",
                            "stalled"},
                   req : Request \cup {NoRequest},
                   got : Request \cup {NoRequest, Zlp, Req("GetConfiguration", 1)},
                   left : Int, addr : Address \cup {0}, configs : SUBSET {0, 1}]
    BY DEF Init
  <2> QED
    BY <2>1 DEF Init, HostInv
<1>6. HandlerInv
  BY <1>1, <1>3 DEF HandlerInv
<1>7. SetupInv
  BY <1>1, <1>3 DEF Init, SetupInv, Deciding
<1>8. AnswerInv
  BY <1>1, <1>3 DEF Init, AnswerInv, Deciding
<1>9. ConfigInv
  BY <1>1, <1>2 DEF Init, ConfigInv
<1>10. PatientInv
  BY <1>1, <1>2, <1>3 DEF Init, PatientInv, Deciding
<1> QED
  BY <1>4, <1>5, <1>6, <1>7, <1>8, <1>9, <1>10 DEF IInv

LEMMA StepHolds == Orderly /\ IInv /\ [Next]_vars => IInv'
<1> SUFFICES ASSUME Orderly, IInv, [Next]_vars PROVE IInv'
  OBVIOUS
<1>1. CASE Trncompl
  BY <1>1, EnterStep, ReadStep, AckStep, CopyStep, HandleStep, ArmInStep,
     SetConfigurationStep, ArmOutStep, StallOutStep, StallInStep, CheckInStep,
     InCompleteStep, SetAddressStep, ArmZlpStep DEF Trncompl
<1>2. CASE Busevent
  BY <1>2, BuseventStep
<1>3. CASE Host
  BY <1>3, HostSetupStep, HostInStep, HostOutStep, HostStalledStep, HostAbandonStep,
     HostResetStep, FlagActions DEF Host
<1>4. CASE UNCHANGED vars
  BY <1>4, FlagActions
<1> QED
  BY <1>1, <1>2, <1>3, <1>4 DEF Next

(***************************************************************************)
(* What follows for an orderly host.                                       *)
(***************************************************************************)

\* The inductive invariant: at every access of the two handlers of
\* usb_xmega.c, endpoint 0, the copied SETUP and the host's transfer agree.
THEOREM ControlInvariant == Orderly => (Spec => []IInv)
<1> SUFFICES ASSUME Orderly PROVE Spec => []IInv
  OBVIOUS
<1>1. IInv /\ [Next]_vars => IInv'
  BY StepHolds
<1> QED
  BY <1>1, InitHolds, PTL DEF Spec

\* Every variable keeps its type, and the device is only ever configured as 0 or
\* 1 (usb_requests.c:40-45).
THEOREM ControlTypeCorrect == Orderly => (Spec => []TypeOK)
<1> SUFFICES ASSUME Orderly PROVE Spec => []TypeOK
  OBVIOUS
<1>1. IInv => TypeOK
  BY DEF IInv
<1> QED
  BY <1>1, ControlInvariant, PTL

\* Whatever transfers were given up or SETUPs erased before it and whenever the bus was reset, a
\* transfer that ends has the answer to its own request (usb_requests.c:29-119).
THEOREM ControlReplyMatches == Orderly => (Spec => []ReplyMatches)
<1> SUFFICES ASSUME Orderly PROVE Spec => []ReplyMatches
  OBVIOUS
<1>1. IInv => ReplyMatches
  BY DEF IInv, AnswerInv, ReplyMatches
<1> QED
  BY <1>1, ControlInvariant, PTL

\* USB.ADDR only ever becomes the address the host uses, or 0 in the service of
\* a bus reset (usb_requests.c:113-115, usb_xmega.c:57-68).
THEOREM ControlAddressFollowsHost == Orderly => (Spec => AddressFollowsHost)
<1> SUFFICES ASSUME Orderly PROVE Spec => AddressFollowsHost
  OBVIOUS
<1>1. ASSUME IInv, [Next]_vars PROVE [addr' # addr => addr' = host.addr \/ busrst]_vars
  <2>1. CASE SetAddress
    <3>1. At = "set_address" /\ addr' = usb_setup.val
      BY <2>1 DEF SetAddress, Do, At
    <3> QED
      BY <1>1, <3>1 DEF IInv, HandlerInv
  <2>2. CASE Busevent
    BY <2>2 DEF Busevent
  <2>3. CASE Trncompl /\ ~SetAddress
    BY <2>3 DEF Trncompl, EnterTrncompl, ReadStatus, AckSetup, CopySetup, HandleSetup,
         ArmIn, SetConfiguration, ArmOut, StallOut, StallIn, CheckIn, InComplete, ArmZlp
  <2>4. CASE Host
    BY <2>4 DEF Host, HostSetup, HostIn, HostOut, HostStalled, HostAbandon, HostReset,
         BusFlag, BulkComplete
  <2>5. CASE UNCHANGED vars
    BY <2>5
  <2> QED
    BY <1>1, <2>1, <2>2, <2>3, <2>4, <2>5 DEF Next
<1> QED
  BY <1>1, ControlInvariant, PTL DEF Spec, AddressFollowsHost

\* usb_ep0_out clears SETUP along with the other flags of the OUT endpoint; for
\* a host that sends none while a handler runs there is never one to lose
\* (usb_xmega.c:157-162, usb.h:27).
THEOREM ControlEverySetupSeen == ~SetupDuringIsr => (Spec => EverySetupSeen)
<1> SUFFICES ASSUME ~SetupDuringIsr PROVE Spec => EverySetupSeen
  OBVIOUS
<1>0. Orderly
  BY DEF Orderly
<1>1. ASSUME IInv, [Next]_vars
      PROVE [out.setup /\ ~out'.setup => busrst \/ Head(todo) = "ack_setup"]_vars
  <2>1. CASE ArmOut \/ StallOut \/ AckSetup
    <3>1. At = Head(todo) /\ Head(todo) \in {"arm_out", "stall_out", "ack_setup"}
      BY <2>1 DEF ArmOut, StallOut, AckSetup, Do, At
    <3> QED
      BY <1>1, <3>1 DEF IInv, SetupInv
  <2>2. CASE Busevent
    BY <2>2 DEF Busevent
  <2>3. CASE Trncompl /\ ~ArmOut /\ ~StallOut /\ ~AckSetup
    BY <2>3 DEF Trncompl, EnterTrncompl, ReadStatus, CopySetup, HandleSetup, ep0Vars,
         ArmIn, SetConfiguration, StallIn, CheckIn, InComplete, SetAddress, ArmZlp
  <2>4. CASE Host
    <3>1. CASE \E r \in Requests : HostSetup(r)
      BY <3>1 DEF HostSetup
    <3>2. CASE HostOut
      BY <1>1, <3>2 DEF HostOut, IInv, TypeOK
    <3>3. CASE HostIn \/ HostStalled \/ HostAbandon \/ HostReset \/ BusFlag \/ BulkComplete
      BY <3>3 DEF HostIn, HostStalled, HostAbandon, HostReset, BusFlag, BulkComplete, ep0Vars
    <3> QED
      BY <2>4, <3>1, <3>2, <3>3 DEF Host
  <2>5. CASE UNCHANGED vars
    BY <2>5
  <2> QED
    BY <1>1, <2>1, <2>2, <2>3, <2>4, <2>5 DEF Next
<1> QED
  BY <1>0, <1>1, ControlInvariant, PTL DEF Spec, EverySetupSeen

=============================================================================
