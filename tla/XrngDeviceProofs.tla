-------------------------- MODULE XrngDeviceProofs --------------------------
(***************************************************************************)
(* XrngControl implements ControlDevice, for every orderly host and every  *)
(* set of requests and addresses; and the two hosts of MCXrngHosts keep    *)
(* the inductive invariant.                                                *)
(***************************************************************************)
EXTENDS XrngControlProofs, MCXrngHosts

(***************************************************************************)
(* What each step does to the request that is pending and to the           *)
(* configuration in force.                                                 *)
(***************************************************************************)

Parts == Types /\ HostInv /\ HandlerInv /\ SetupInv /\ AnswerInv /\ PatientInv

LEMMA PartsHold == IInv => Parts
  BY TypeParts DEF IInv, Parts

\* The host's view and the two values.
Same == UNCHANGED <<host, addr, busrst, Pending, Config>>

\* An access that neither decides nor answers leaves everything as it is.
LEMMA ReadingSame ==
  ASSUME IInv, EnterTrncompl \/ ReadStatus \/ CopySetup \/ CheckIn \/ InComplete
  PROVE  Same
<1> USE DEF Same, Pending, Unanswered, Config, Deciding, swVars, ep0Vars, busVars
<1>1. Parts /\ todo \in TodoShapes
  BY PartsHold DEF Parts, HandlerInv
<1>2. CASE EnterTrncompl
  BY <1>2, EnterShape DEF EnterTrncompl
<1>3. CASE ReadStatus
  BY <1>1, <1>3, ReadShape DEF ReadStatus
<1>4. CASE CopySetup
  <2>1. At = "copy" /\ At' = "handle"
    BY <1>1, <1>4, NextAccess DEF CopySetup
  <2> QED
    BY <1>4, <2>1 DEF CopySetup
<1>5. CASE CheckIn
  BY <1>1, <1>5, CheckInShape DEF CheckIn
<1>6. CASE InComplete
  BY <1>1, <1>6, InCompleteShape DEF InComplete
<1> QED
  BY <1>2, <1>3, <1>4, <1>5, <1>6

\* So do those that hand a SETUP on, store the configuration that counts already,
\* or find the transfer over.
LEMMA HandlingSame ==
  ASSUME IInv, AckSetup \/ HandleSetup \/ SetConfiguration \/ StallOut \/ ArmZlp
  PROVE  Same
<1> USE DEF Same, Pending, Unanswered, Config, Deciding, Types, EndpointTypes, swVars, ep0Vars, busVars
<1>1. Parts /\ todo \in TodoShapes
  BY PartsHold DEF Parts, HandlerInv
<1>2. CASE AckSetup
  <2>1. At = "ack_setup" /\ At' = "copy"
    BY <1>1, <1>2, NextAccess DEF AckSetup
  <2> QED
    BY <1>1, <1>2, <2>1 DEF AckSetup, Parts, HandlerInv
<1>3. CASE HandleSetup
  <2>1. At = "handle" /\ At' \in {"arm_in", "stall_out"}
    <3>1. At = "handle"
      BY <1>3 DEF HandleSetup, Do, At
    <3>2. usb_setup \in Request
      BY <1>1, <3>1 DEF Parts, HandlerInv, SetupInv, SoftwareTypes
    <3> QED
      BY <1>1, <1>3, <3>2, HandleShape
  <2> QED
    BY <1>3, <2>1 DEF HandleSetup
<1>4. CASE SetConfiguration
  <2>1. At = "set_configuration" /\ At' = "arm_out"
    BY <1>1, <1>4, NextAccess DEF SetConfiguration
  <2> QED
    BY <1>4, <2>1 DEF SetConfiguration
<1>5. CASE StallOut
  <2>1. At = "stall_out" /\ At' = "stall_in"
    BY <1>1, <1>5, NextAccess DEF StallOut
  <2> QED
    BY <1>1, <1>5, <2>1 DEF StallOut, Parts
<1>6. CASE ArmZlp
  <2>1. At = "arm_zlp" /\ At' = "arm_out"
    BY <1>1, <1>6, NextAccess DEF ArmZlp
  <2>2. in.trn /\ ~in'.nack
    BY <1>1, <1>6, <2>1 DEF ArmZlp, Arm, Parts, HandlerInv
  <2> QED
    BY <1>6, <2>1, <2>2 DEF ArmZlp
<1> QED
  BY <1>2, <1>3, <1>4, <1>5, <1>6

\* usb_ep0_out may erase a SETUP: the host waits for it ever after, or has begun a
\* reset.
LEMMA ArmOutErases ==
  ASSUME IInv, ArmOut
  PROVE  /\ UNCHANGED <<host, addr, busrst, Config>>
         /\ Pending' = Pending \/ (busrst /\ Pending' = NoRequest)
<1> USE DEF Pending, Unanswered, Config, Deciding, Types, EndpointTypes, swVars, ep0Vars, busVars
<1>1. Parts /\ todo \in TodoShapes
  BY PartsHold DEF Parts, HandlerInv
<1>2. At = "arm_out" /\ At' \in {"check_in", "idle"}
  BY <1>1, NextAccess DEF ArmOut
<1>3. UNCHANGED <<host, addr, busrst, in, ep0_buf_out, usb_setup, usb_configuration>> /\ ~out'.setup
  BY <1>1 DEF ArmOut, Ep0OutClears, Parts
<1>4. CASE out.setup
  <2>1. /\ SetupDuringIsr /\ in.nack /\ ~in.stall /\ ~in.trn
        /\ host.stage \in {"data", "status_in", "idle"}
        /\ host.stage = "idle" => busrst
    BY <1>1, <1>2, <1>4 DEF Parts, SetupInv, PatientInv
  <2> QED
    BY <1>2, <1>3, <1>4, <2>1
<1> QED
  BY <1>2, <1>3, <1>4

\* A request takes effect where its status or data stage is opened, or with the
\* second half of its STALL.
LEMMA Effective ==
  ASSUME IInv, ArmIn \/ StallIn
  PROVE  /\ UNCHANGED <<host, addr, busrst>>
         /\ Pending # NoRequest /\ Pending' = NoRequest
         /\ Config' = EffectOf(Pending, Config, addr)
<1> USE DEF Pending, Unanswered, Config, Deciding, Types, EndpointTypes, swVars, ep0Vars, busVars
<1>1. Parts /\ todo \in TodoShapes
  BY PartsHold DEF Parts, HandlerInv
<1>2. CASE ArmIn
  <2>1. /\ At = "arm_in" /\ At' \in {"arm_out", "check_in", "set_configuration"}
        /\ At' = "set_configuration" <=> usb_setup.name = "SetConfiguration"
    BY <1>1, <1>2, NextAccess DEF ArmIn, Parts, HandlerInv
  <2>2. /\ usb_setup = ep0_buf_out /\ Supported(usb_setup) /\ ep0_buf_out # NoRequest
        /\ ~out.setup
    BY <1>1, <2>1 DEF Parts, HandlerInv, SetupInv
  <2>3. ~in'.nack
    BY <1>1, <1>2 DEF ArmIn, Arm, Parts
  <2> QED
    BY <1>2, <2>1, <2>2, <2>3 DEF ArmIn, EffectOf
<1>3. CASE StallIn
  <2>1. At = "stall_in" /\ At' = "check_in"
    BY <1>1, <1>3, NextAccess DEF StallIn
  <2>2. Pending = ep0_buf_out /\ ep0_buf_out # NoRequest /\ ~Supported(usb_setup) /\ ~out.setup
    BY <1>1, <2>1 DEF Parts, HandlerInv, SetupInv
  <2>3. usb_setup = ep0_buf_out
    BY <1>1, <2>1 DEF Parts, HandlerInv
  <2>4. in'.stall
    BY <1>1, <1>3 DEF StallIn, Parts
  <2> QED
    BY <1>3, <2>1, <2>2, <2>3, <2>4 DEF StallIn, EffectOf
<1> QED
  BY <1>2, <1>3

(***************************************************************************)
(* The other steps: which action of ControlDevice each is.                 *)
(***************************************************************************)

LEMMA BeginStep ==
  ASSUME IInv, NEW r \in Requests, HostSetup(r)
  PROVE  Device!Begin(r)
<1> USE DEF Types, EndpointTypes, swVars, ep0Vars, busVars
<1>1. Parts
  BY PartsHold
<1>2. /\ host'.req = r /\ host'.stage \in {"data", "status_in"}
      /\ host'.addr = host.addr /\ out'.setup /\ ep0_buf_out' = r
      /\ UNCHANGED <<todo, usb_setup, usb_configuration, addr, busrst>>
  BY <1>1 DEF HostSetup, Parts, HostInv
<1>3. Pending' = r /\ Config' = Config
  BY <1>2 DEF Pending, Config, At
<1>4. Transfer' = [stage |-> "open", req |-> r, got |-> NoRequest]
  BY <1>2 DEF Transfer, InTransfer
<1>5. Transfer.stage # "open"
  BY DEF HostSetup, Transfer, InTransfer
<1>6. ~busrst /\ addr = host.addr
  BY DEF HostSetup, Hears
<1> QED
  BY <1>2, <1>3, <1>4, <1>5, <1>6 DEF Device!Begin, Device!Heard, Device!Open, Device!Transfer

\* The host's own moves leave what the handlers have.
LEMMA HostFrameParts ==
  ASSUME HostIn \/ HostOut \/ HostStalled \/ HostAbandon \/ HostReset
  PROVE  UNCHANGED <<todo, usb_setup, usb_configuration, addr, ep0_buf_out>> /\ Config' = Config
<1>1. UNCHANGED <<todo, usb_setup, usb_configuration, addr, ep0_buf_out>>
  BY DEF HostIn, HostOut, HostStalled, HostAbandon, HostReset, swVars, ep0Vars
<1> QED
  BY <1>1 DEF Config, At

\* A packet of the data stage leaves the transfer open; that of a status stage
\* ends it.
LEMMA InTokenStep ==
  ASSUME IInv, HostIn
  PROVE  \/ Device!Complete
         \/ UNCHANGED <<Transfer, Pending, Config, addr, host.addr, busrst>>
<1> USE DEF Types, EndpointTypes
<1>1. Parts
  BY PartsHold
<1>2. /\ ~busrst /\ host.addr = addr /\ host.stage \in {"data", "status_in"}
      /\ ~in.stall /\ ~in.nack /\ UNCHANGED <<out, busrst>>
  BY DEF HostIn, Hears, busVars
<1>3. in'.nack = in'.trn
  BY <1>1 DEF HostIn, Parts
<1>4. Pending = NoRequest /\ Pending' = NoRequest
  <2>1. ~out.setup /\ ~Deciding
    BY <1>1, <1>2 DEF Parts, SetupInv
  <2>2. ~out'.setup /\ ~Deciding'
    BY <1>2, <2>1, HostFrameParts DEF Deciding, At
  <2>3. ~Unanswered /\ ~Unanswered'
    BY <1>2, <1>3 DEF Unanswered
  <2> QED
    BY <2>1, <2>2, <2>3 DEF Pending
<1>5. /\ Supported(host.req) /\ reply.answer \in Expected(host.req)
      /\ host.stage = "status_in" => ~HasData(host.req)
  BY <1>1, <1>2 DEF Parts, AnswerInv, HostInv
<1>6. CASE host.stage = "status_in"
  <2>1. /\ host'.stage = "done" /\ host'.req = host.req /\ host'.got = reply.answer
        /\ host'.addr = IF host.req.name = "SetAddress" THEN host.req.val ELSE host.addr
    BY <1>1, <1>6 DEF HostIn, Parts, HostInv
  <2>2. reply.answer = AnswerTo(host.req, Config)
    BY <1>5, <1>6 DEF Expected, AnswerTo, HasData
  <2>3. /\ Transfer = [stage |-> "open", req |-> host.req, got |-> NoRequest]
        /\ Transfer' = [stage |-> "done", req |-> host.req, got |-> AnswerTo(host.req, Config)]
    BY <1>6, <2>1, <2>2 DEF Transfer, InTransfer
  <2> QED
    BY <1>2, <1>4, <1>5, <2>1, <2>3, HostFrameParts
       DEF Device!Complete, Device!Heard, Device!Open, Device!Transfer
<1>7. CASE host.stage = "data"
  <2>1. host'.stage \in {"data", "status_out"} /\ host'.req = host.req /\ host'.addr = host.addr
    BY <1>1, <1>7 DEF HostIn, Parts, HostInv
  <2>2. Transfer' = Transfer
    BY <1>7, <2>1 DEF Transfer, InTransfer
  <2> QED
    BY <1>2, <1>4, <2>1, <2>2, HostFrameParts
<1> QED
  BY <1>2, <1>6, <1>7

LEMMA OutTokenStep ==
  ASSUME IInv, FreshInv, HostOut
  PROVE  Device!Complete
<1> USE DEF Types, EndpointTypes
<1>1. Parts
  BY PartsHold
<1>2. /\ ~busrst /\ host.addr = addr /\ host.stage = "status_out" /\ UNCHANGED <<in, busrst>>
      /\ out'.setup = out.setup
      /\ host'.stage = "done" /\ host'.req = host.req /\ host'.got = host.got
      /\ host'.addr = host.addr
  BY <1>1 DEF HostOut, Hears, busVars, Parts, HostInv
<1>3. Pending = NoRequest /\ Pending' = NoRequest
  <2>1. ~out.setup /\ ~Deciding
    BY <1>1, <1>2 DEF Parts, SetupInv
  <2>2. ~out'.setup /\ ~Deciding'
    BY <1>2, <2>1, HostFrameParts DEF Deciding, At
  <2> QED
    BY <1>2, <2>1, <2>2 DEF Pending, Unanswered
<1>4. Supported(host.req) /\ host.got \in Expected(host.req) /\ host.req.name # "SetAddress"
  BY <1>1, <1>2 DEF Parts, AnswerInv, HostInv, HasData
<1>5. host.got = AnswerTo(host.req, Config)
  BY <1>2, <1>4 DEF FreshInv, Expected, AnswerTo
<1>6. /\ Transfer = [stage |-> "open", req |-> host.req, got |-> NoRequest]
      /\ Transfer' = [stage |-> "done", req |-> host.req, got |-> AnswerTo(host.req, Config)]
  BY <1>2, <1>5 DEF Transfer, InTransfer
<1> QED
  BY <1>2, <1>3, <1>4, <1>6, HostFrameParts
     DEF Device!Complete, Device!Heard, Device!Open, Device!Transfer

LEMMA StalledStep ==
  ASSUME IInv, HostStalled
  PROVE  Device!Refuse
<1> USE DEF Types, EndpointTypes
<1>1. Parts
  BY PartsHold
<1>2. /\ ~busrst /\ host.addr = addr /\ InTransfer /\ (in.stall \/ out.stall)
      /\ UNCHANGED <<in, out, busrst>>
      /\ host'.stage = "stalled" /\ host'.req = host.req /\ host'.addr = host.addr
  BY <1>1 DEF HostStalled, Hears, InTransfer, ep0Vars, Parts, HostInv
<1>3. ~out.setup /\ ~Deciding
  BY <1>1, <1>2 DEF HostStalled, Parts, SetupInv, Deciding, InTransfer
<1>4. Pending = NoRequest /\ Pending' = NoRequest
  <2>1. ~out'.setup /\ ~Deciding'
    BY <1>2, <1>3, HostFrameParts DEF Deciding, At
  <2>2. ~Unanswered /\ ~Unanswered'
    BY <1>2 DEF HostStalled, Unanswered
  <2> QED
    BY <1>3, <2>1, <2>2 DEF Pending
<1>5. ~Supported(host.req)
  <2>1. usb_setup = host.req
    BY <1>1, <1>2, <1>3 DEF HostStalled, Parts, SetupInv, Lost, InTransfer, Deciding
  <2> QED
    BY <1>1, <1>2, <2>1 DEF Parts, SetupInv
<1>6. /\ Transfer = [stage |-> "open", req |-> host.req, got |-> NoRequest]
      /\ Transfer' = [stage |-> "stalled", req |-> host.req, got |-> NoRequest]
  BY <1>2 DEF Transfer, InTransfer
<1> QED
  BY <1>2, <1>4, <1>5, <1>6, HostFrameParts
     DEF Device!Refuse, Device!Heard, Device!Open, Device!Transfer, Unsupported

\* A host that gives up or resets the bus stops waiting for what was erased.
LEMMA LeavingStep ==
  ASSUME IInv, HostAbandon \/ HostReset
  PROVE  Device!GiveUp \/ Device!Reset
<1> USE DEF ep0Vars, busVars
<1>1. /\ UNCHANGED <<in, out, ep0_buf_out>> /\ host'.stage = "idle"
  BY PartsHold DEF HostAbandon, HostReset, Parts, HostInv
<1>2. Pending' \in {Pending, NoRequest}
  BY <1>1, HostFrameParts DEF Pending, Unanswered, Deciding, At
<1>3. Transfer' = [stage |-> "idle", req |-> NoRequest, got |-> NoRequest]
  BY <1>1 DEF Transfer, InTransfer
<1>4. CASE HostAbandon
  <2>1. /\ Transfer.stage = "open" /\ Transfer.req = host.req
        /\ host'.addr = host.addr /\ UNCHANGED busrst
    BY <1>4, PartsHold DEF HostAbandon, Transfer, InTransfer, Parts, HostInv
  <2> QED
    BY <1>2, <1>3, <2>1, HostFrameParts, <1>4
       DEF Device!GiveUp, Device!Open, Device!Idle, Device!Transfer
<1>5. CASE HostReset
  <2>1. ~busrst /\ busrst' /\ host'.addr = 0
    BY <1>5, PartsHold DEF HostReset, Parts, HostInv
  <2>2. busrst' = TRUE
    BY <1>5 DEF HostReset
  <2> QED
    BY <1>2, <1>3, <2>1, <2>2, HostFrameParts, <1>5
       DEF Device!Reset, Device!Idle, Device!Transfer
<1> QED
  BY <1>4, <1>5

LEMMA SetAddressFollows ==
  ASSUME IInv, SetAddress
  PROVE  Device!Follow
<1> USE DEF Types, EndpointTypes, SoftwareTypes, swVars, ep0Vars, busVars
<1>1. Parts /\ todo \in TodoShapes
  BY PartsHold DEF Parts, HandlerInv
<1>2. At = "set_address" /\ At' = "idle"
  BY <1>1, NextAccess DEF SetAddress
<1>3. UNCHANGED <<host, busrst, Pending, Config, Transfer>>
  BY <1>2 DEF SetAddress, Pending, Unanswered, Deciding, Config, Transfer, InTransfer
<1>4. addr' = usb_setup.val /\ usb_setup.name = "SetAddress"
  BY <1>1, <1>2 DEF SetAddress, Parts, HandlerInv
<1>5. CASE busrst
  <2>1. usb_setup \in Request
    BY <1>1, <1>4 DEF Parts, NoRequest, Req
  <2>2. usb_setup.val \in Address
    BY <1>4, <2>1 DEF Request, Req
  <2> QED
    BY <1>3, <1>4, <1>5, <2>2 DEF Device!Follow, Device!AddressDue
<1>6. CASE ~busrst
  <2>1. addr' = host.addr
    BY <1>1, <1>2, <1>4, <1>6 DEF Parts, HandlerInv
  <2> QED
    BY <1>3, <1>6, <2>1 DEF Device!Follow, Device!AddressDue
<1> QED
  BY <1>5, <1>6

\* The bus handler serves a reset or changes nothing but flags; nor do flags of
\* their own.
LEMMA FlagsStep ==
  ASSUME IInv, Busevent \/ BusFlag \/ BulkComplete \/ UNCHANGED vars
  PROVE  \/ Device!ServeReset
         \/ UNCHANGED <<Transfer, Pending, Config, addr, host.addr, busrst>>
<1> USE DEF swVars, ep0Vars, busVars, vars
<1>1. CASE Busevent /\ ServedGroup = "bus" /\ busrst
  <2>1. /\ todo = <<>> /\ todo' = <<>> /\ busrst' = FALSE /\ busrst /\ addr' = 0
        /\ UNCHANGED <<host, usb_configuration>> /\ ~out'.setup
    BY <1>1 DEF Busevent, usb_reset, OutAfterReset
  <2>2. host.stage = "idle"
    BY <2>1, PartsHold DEF Parts, HostInv
  <2>3. Pending' = NoRequest /\ Config' = Config /\ Transfer' = Transfer
    BY <2>1, <2>2 DEF Pending, Unanswered, Deciding, At, Config, Transfer, InTransfer
  <2> QED
    BY <2>1, <2>3, PartsHold DEF Device!ServeReset, ConfigAfterReset, Parts, Types, BitTypes
<1>2. CASE \/ Busevent /\ ~(ServedGroup = "bus" /\ busrst)
           \/ BusFlag \/ BulkComplete \/ UNCHANGED vars
  <2>1. UNCHANGED <<todo, usb_setup, usb_configuration, addr, in, out, ep0_buf_out, busrst, host>>
    BY <1>2 DEF Busevent, BusFlag, BulkComplete
  <2> QED
    BY <2>1 DEF Pending, Unanswered, Deciding, At, Config, Transfer, InTransfer
<1> QED
  BY <1>1, <1>2

(***************************************************************************)
(* The answer of GET_CONFIGURATION stays in force.                         *)
(***************************************************************************)

\* A handler's access arms an answer or leaves the one there is.
LEMMA FreshHandler ==
  ASSUME IInv, FreshInv, Trncompl
  PROVE  FreshInv'
<1> USE DEF Types, EndpointTypes, PacketTypes, swVars, ep0Vars, busVars, Trncompl
<1>1. Parts /\ todo \in TodoShapes
  BY PartsHold DEF Parts, HandlerInv
<1>2. CASE \/ EnterTrncompl \/ ReadStatus \/ CopySetup \/ CheckIn \/ InComplete
           \/ AckSetup \/ HandleSetup \/ SetConfiguration \/ StallOut
  <2>1. UNCHANGED <<in, reply>>
    BY <1>2 DEF EnterTrncompl, ReadStatus, CopySetup, CheckIn, InComplete, AckSetup,
         HandleSetup, SetConfiguration, StallOut
  <2>2. Same
    BY <1>2, ReadingSame, HandlingSame
  <2> QED
    BY <2>1, <2>2 DEF Same, FreshInv
<1>3. CASE ArmZlp
  <2>1. Same
    BY <1>3, HandlingSame
  <2>2. At = "arm_zlp"
    BY <1>1, <1>3, NextAccess DEF ArmZlp
  <2>3. in.trn /\ ~out.setup /\ ~Deciding
    BY <1>1, <2>2 DEF Parts, HandlerInv, SetupInv, Deciding
  <2>4. in.stall \/ host.stage # "data"
    BY <1>1, <2>3 DEF Parts, AnswerInv
  <2>5. in'.stall = in.stall
    BY <1>1, <1>3 DEF ArmZlp, Arm, Parts
  <2> QED
    BY <2>1, <2>4, <2>5 DEF Same, FreshInv
<1>4. CASE ArmOut
  BY <1>4, ArmOutErases DEF ArmOut, FreshInv
<1>5. CASE SetAddress
  <2>1. At = "set_address" /\ At' = "idle"
    BY <1>1, <1>5, NextAccess DEF SetAddress
  <2> QED
    BY <1>5, <2>1 DEF SetAddress, FreshInv, Config
<1>6. CASE ArmIn
  <2>1. /\ At = "arm_in" /\ At' \in {"arm_out", "check_in", "set_configuration"}
        /\ At' = "set_configuration" <=> usb_setup.name = "SetConfiguration"
    BY <1>1, <1>6, NextAccess DEF ArmIn, Parts, HandlerInv
  <2>2. host.stage # "status_out" /\ (host.stage = "data" => usb_setup = host.req)
    BY <1>1, <2>1 DEF Parts, SetupInv, Deciding, Lost
  <2>3. reply'.answer = Content(usb_setup) /\ UNCHANGED <<host, usb_setup, usb_configuration>>
    BY <1>6 DEF ArmIn, Arm
  <2> QED
    BY <2>1, <2>2, <2>3 DEF FreshInv, Content, Config
<1>7. CASE StallIn
  <2>1. At = "stall_in" /\ in'.stall
    BY <1>1, <1>7, NextAccess DEF StallIn, Parts
  <2>2. host.stage # "status_out" /\ UNCHANGED host
    BY <1>1, <1>7, <2>1 DEF StallIn, Parts, SetupInv, Deciding
  <2> QED
    BY <2>1, <2>2 DEF FreshInv
<1> QED
  BY <1>2, <1>3, <1>4, <1>5, <1>6, <1>7

LEMMA FreshStep == IInv /\ FreshInv /\ [Next]_vars => FreshInv'
<1> SUFFICES ASSUME IInv, FreshInv, [Next]_vars PROVE FreshInv'
  OBVIOUS
<1> USE DEF Types, EndpointTypes, PacketTypes, swVars, ep0Vars, busVars
<1>1. Parts
  BY PartsHold
<1>2. CASE Trncompl
  BY <1>2, FreshHandler
<1>3. CASE Busevent /\ ServedGroup = "bus" /\ busrst
  BY <1>1, <1>3 DEF Busevent, Parts, HostInv, FreshInv
<1>4. CASE \/ Busevent /\ ~(ServedGroup = "bus" /\ busrst)
           \/ BusFlag \/ BulkComplete \/ UNCHANGED vars
  <2>1. UNCHANGED <<todo, usb_setup, usb_configuration, in, reply, host>>
    BY <1>4 DEF Busevent, BusFlag, BulkComplete, vars
  <2> QED
    BY <2>1 DEF FreshInv, Config, At
<1>5. CASE \E r \in Requests : HostSetup(r)
  <2>1. in'.nack /\ host'.stage \in {"data", "status_in"}
    BY <1>1, <1>5 DEF HostSetup, Parts, HostInv
  <2> QED
    BY <2>1 DEF FreshInv
<1>6. CASE HostIn
  <2>1. /\ host.stage = "data" => host'.got = reply.answer /\ host'.stage \in {"data", "status_out"}
        /\ host.stage # "data" => host'.stage = "done"
        /\ host'.req = host.req /\ reply'.answer = reply.answer
    BY <1>1, <1>6 DEF HostIn, Parts, HostInv
  <2>2. ~in.nack /\ ~in.stall
    BY <1>6 DEF HostIn
  <2> QED
    BY <1>6, <2>1, <2>2, HostFrameParts DEF FreshInv
<1>7. CASE HostOut \/ HostStalled \/ HostAbandon \/ HostReset
  <2>1. host'.stage \in {"done", "stalled", "idle"}
    BY <1>1, <1>7 DEF HostOut, HostStalled, HostAbandon, HostReset, Parts, HostInv
  <2> QED
    BY <2>1 DEF FreshInv
<1> QED
  BY <1>2, <1>3, <1>4, <1>5, <1>6, <1>7 DEF Next, Host

(***************************************************************************)
(* The refinement.                                                         *)
(***************************************************************************)

LEMMA HandlerSteps ==
  ASSUME IInv, Trncompl
  PROVE  \/ Device!Next
         \/ UNCHANGED <<Transfer, Pending, Config, addr, host.addr, busrst>>
<1>0. UNCHANGED host => UNCHANGED <<Transfer, host.addr>>
  BY DEF Transfer, InTransfer
<1>1. CASE \/ EnterTrncompl \/ ReadStatus \/ CopySetup \/ CheckIn \/ InComplete
           \/ AckSetup \/ HandleSetup \/ SetConfiguration \/ StallOut \/ ArmZlp
  BY <1>0, <1>1, ReadingSame, HandlingSame DEF Same
<1>2. CASE ArmOut
  BY <1>0, <1>2, ArmOutErases DEF Device!Next, Device!Forget
<1>3. CASE ArmIn \/ StallIn
  BY <1>0, <1>3, Effective DEF Device!Next, Device!TakeEffect, Device!AddressDue
<1>4. CASE SetAddress
  BY <1>4, SetAddressFollows DEF Device!Next
<1> QED
  BY <1>1, <1>2, <1>3, <1>4 DEF Trncompl

\* Behind every access of the two handlers stands one device that takes each request
\* once and answers as of then (usb_xmega.c:225-263, usb_requests.c:29-119).
THEOREM ControlIsDevice == Orderly => (Spec => IsDevice)
<1> SUFFICES ASSUME Orderly PROVE Spec => IsDevice
  OBVIOUS
<1>1. Init => Device!Init
  <2> SUFFICES ASSUME Init PROVE Device!Init
    OBVIOUS
  <2>1. /\ todo = <<>> /\ ~out.setup /\ host.stage = "detached" /\ host.addr = 0
        /\ addr = 0 /\ busrst = FALSE /\ usb_configuration = 0
    BY DEF Init, OutAfterReset
  <2>2. Pending = NoRequest /\ Config = 0
    BY <2>1 DEF Pending, Unanswered, Deciding, At, Config
  <2>3. Transfer = [stage |-> "idle", req |-> NoRequest, got |-> NoRequest]
    BY <2>1 DEF Transfer, InTransfer
  <2> QED
    BY <2>1, <2>2, <2>3 DEF Device!Init, Device!Idle, Device!Transfer
<1>2. Init => FreshInv
  BY DEF Init, FreshInv, NoRequest, Req
<1>3. IInv /\ FreshInv /\ [Next]_vars => [Device!Next]_(Device!vars)
  <2> SUFFICES ASSUME IInv, FreshInv, [Next]_vars
               PROVE  \/ Device!Next
                      \/ UNCHANGED <<Transfer, Pending, Config, addr, host.addr, busrst>>
    BY DEF Device!vars
  <2>1. CASE Trncompl
    BY <2>1, HandlerSteps
  <2>2. CASE Busevent \/ BusFlag \/ BulkComplete \/ UNCHANGED vars
    BY <2>2, FlagsStep DEF Device!Next
  <2>3. CASE \E r \in Requests : HostSetup(r)
    BY <2>3, BeginStep DEF Device!Next
  <2>4. CASE HostIn \/ HostOut
    BY <2>4, InTokenStep, OutTokenStep DEF Device!Next
  <2>5. CASE HostStalled \/ HostAbandon \/ HostReset
    BY <2>5, StalledStep, LeavingStep DEF Device!Next
  <2> QED
    BY <2>1, <2>2, <2>3, <2>4, <2>5 DEF Next, Host
<1> QED
  BY <1>1, <1>2, <1>3, FreshStep, ControlInvariant, PTL DEF Spec, IsDevice, Device!Spec

(***************************************************************************)
(* The two hosts of MCXrngHosts.  The patient one is an orderly host of    *)
(* XrngControl with other constants, for which the lemmas of               *)
(* XrngControlProofs are instantiated; P of MCXrngHosts and PP have the    *)
(* same definitions.                                                       *)
(***************************************************************************)

PP == INSTANCE XrngControlProofs WITH
        MayAbandon <- FALSE, SetupDuringIsr <- TRUE, SetupClearsIn <- TRUE

LEMMA SameInvariant == P!IInv <=> PP!IInv
  BY DEF P!IInv, PP!IInv, P!TypeOK, PP!TypeOK, P!Req, PP!Req, P!Request, PP!Request,
     P!NoRequest, PP!NoRequest, P!Zlp, PP!Zlp, P!Steps, PP!Steps, P!HostInv, PP!HostInv,
     P!HasData, PP!HasData, P!HandlerInv, PP!HandlerInv, P!Supported, PP!Supported,
     P!At, PP!At, P!TodoShapes, PP!TodoShapes, P!SetupInv, PP!SetupInv, P!Packets,
     PP!Packets, P!Deciding, PP!Deciding, P!Lost, PP!Lost, P!AnswerInv, PP!AnswerInv,
     P!Expected, PP!Expected, P!ConfigInv, PP!ConfigInv, P!PatientInv, PP!PatientInv

LEMMA SameStart == Init => PP!Init
  BY DEF Init, PP!Init, NoRequest, PP!NoRequest, Req, PP!Req, Zlp, PP!Zlp, OutAfterReset, PP!OutAfterReset, InDisarmed, PP!InDisarmed

LEMMA SameStep == P!Next => PP!Next
  BY DEF P!Next, PP!Next, P!Trncompl, PP!Trncompl, P!EnterTrncompl, PP!EnterTrncompl,
     P!swVars, PP!swVars, P!ep0Vars, PP!ep0Vars, P!busVars, PP!busVars, P!BusPending,
     PP!BusPending, P!ReadStatus, PP!ReadStatus, P!Do, PP!Do, P!AckSetup, PP!AckSetup,
     P!CopySetup, PP!CopySetup, P!CheckIn, PP!CheckIn, P!HandleSetup, PP!HandleSetup,
     P!Handler, PP!Handler, P!HandleStandard, PP!HandleStandard, P!Stall, PP!Stall,
     P!Answer, PP!Answer, P!usb_cb_set_configuration, PP!usb_cb_set_configuration,
     P!SetConfigurationSteps, PP!SetConfigurationSteps, P!HandleVendor, PP!HandleVendor,
     P!ArmIn, PP!ArmIn, P!Packets, PP!Packets, P!Req, PP!Req, P!Content, PP!Content,
     P!Zlp, PP!Zlp, P!Arm, PP!Arm, P!SetConfiguration, PP!SetConfiguration, P!ArmOut,
     PP!ArmOut, P!Ep0OutClears, PP!Ep0OutClears, P!StallOut, PP!StallOut, P!StallIn,
     PP!StallIn, P!InComplete, PP!InComplete, P!SetAddress, PP!SetAddress, P!ArmZlp,
     PP!ArmZlp, P!Busevent, PP!Busevent, P!ServedGroup, PP!ServedGroup, P!Rank, PP!Rank,
     P!usb_reset, PP!usb_reset, P!OutAfterReset, PP!OutAfterReset, P!InAfterReset,
     PP!InAfterReset, P!InDisarmed, PP!InDisarmed, P!FifoenAfterReset,
     PP!FifoenAfterReset, P!FlagsServed, PP!FlagsServed, P!Host, PP!Host, P!HostSetup,
     PP!HostSetup, P!NoRequest, PP!NoRequest, P!HasData, PP!HasData, P!Supported,
     PP!Supported, P!InTransfer, PP!InTransfer, P!Hears, PP!Hears, P!HostIn, PP!HostIn,
     P!HostOut, PP!HostOut, P!HostStalled, PP!HostStalled, P!HostAbandon,
     PP!HostAbandon, P!HostReset, PP!HostReset, P!BusFlag, PP!BusFlag, P!BulkComplete,
     PP!BulkComplete

LEMMA PatientStep == P!IInv /\ [P!Next]_vars => P!IInv'
<1>1. PP!Request = Request
  BY DEF PP!Request, PP!Req, Request, Req
<1>2. PP!IInv /\ [PP!Next]_(PP!vars) => PP!IInv'
  BY <1>1, PP!StepHolds, ControlAssumption, RequestsAssumption DEF PP!Orderly
<1>3. P!IInv' <=> PP!IInv'
  BY SameInvariant, PTL
<1>4. UNCHANGED vars => UNCHANGED PP!vars
  BY DEF vars, swVars, ep0Vars, busVars, PP!vars, PP!swVars, PP!ep0Vars, PP!busVars
<1> QED
  BY <1>2, <1>3, <1>4, SameInvariant, SameStep

\* Endpoint 0 stays in step with the transfer at every access of the two handlers, with
\* an orderly host as with a patient one that sends its SETUPs in between
\* (usb_xmega.c:225-263, usb_requests.c:27-119).
THEOREM HostsInvariant == Orderly => (HostsSpec => []HostsInv)
<1> SUFFICES ASSUME Orderly PROVE HostsSpec => []HostsInv
  OBVIOUS
<1> DEFINE Kept == patient \in BOOLEAN /\ HostsInv
<1>1. Init /\ patient \in BOOLEAN => Kept
  <2>1. PP!Request = Request
    BY DEF PP!Request, PP!Req, Request, Req
  <2>2. Init => PP!IInv
    BY <2>1, PP!InitHolds, ControlAssumption, RequestsAssumption, SameStart
  <2> QED
    BY <2>2, InitHolds, SameInvariant DEF HostsInv
<1>2. Kept /\ [HostsNext]_<<vars, patient>> => Kept'
  <2> SUFFICES ASSUME Kept, [HostsNext]_<<vars, patient>> PROVE Kept'
    OBVIOUS
  <2>1. patient' = patient /\ IF patient THEN [P!Next]_vars ELSE [Next]_vars
    BY DEF HostsNext
  <2>2. CASE patient
    BY <2>1, <2>2, PatientStep DEF HostsInv
  <2>3. CASE ~patient
    BY <2>1, <2>3, StepHolds DEF HostsInv
  <2> QED
    BY <2>2, <2>3
<1>3. Kept => HostsInv
  OBVIOUS
<1> QED
  BY <1>1, <1>2, <1>3, PTL DEF HostsSpec
=============================================================================
