---------------------------- MODULE XrngControl ----------------------------
(***************************************************************************)
(* The default control endpoint of firmware2: the two USB interrupt        *)
(* handlers, the request handlers they call, the endpoint 0 hardware they  *)
(* share registers with, and the host at the other end.                    *)
(*                                                                         *)
(* A handler is a sequence of register accesses, and between any two of    *)
(* them the hardware may take a token from the bus.  The accesses still to *)
(* come are kept in "todo"; the two handlers have one interrupt level, so  *)
(* neither interrupts the other and one sequence is enough.                *)
(***************************************************************************)
EXTENDS Integers, Sequences

CONSTANTS
  Address,         \* The addresses a host may assign.
  Configuration,   \* The wValues SET_CONFIGURATION is tried with.
  Requests,        \* The requests the host makes.
  MayAbandon,      \* Whether the host may give a transfer up half way.
  SetupDuringIsr,  \* Whether a SETUP may arrive while a handler runs.
  SetupClearsIn    \* Whether a SETUP is sure to clear the IN side's completion.

ASSUME ControlAssumption ==
  /\ Address \subseteq 1..127
  /\ Configuration \subseteq 0..255
  /\ MayAbandon \in BOOLEAN
  /\ SetupDuringIsr \in BOOLEAN
  /\ SetupClearsIn \in BOOLEAN

VARIABLES
  todo,               \* Accesses the running handler has still to make.
  usb_setup,          \* The copy of the SETUP packet the handlers work on.
  usb_configuration,
  addr,               \* USB.ADDR.
  fifoen,             \* USB_FIFOEN of USB.CTRLA.
  out, in,            \* Endpoint 0: STATUS bits, and STALL of CTRL.
  ep0_buf_out,        \* The SETUP packet as the hardware stored it.
  reply,              \* What the IN side was last told to send: answer, packets left.
  irq,                \* SETUPIF or TRNIF: the USB_TRNCOMPL interrupt is pending.
  flagsA,             \* The groups of INTFLAGSA that are set.
  busrst,             \* USB_BUSRST of USB.STATUS.
  host                \* The host's side of the control transfer.

swVars  == <<usb_setup, usb_configuration>>
ep0Vars == <<out, in, ep0_buf_out, reply>>
busVars == <<flagsA, busrst>>
vars    == <<todo, swVars, addr, fifoen, ep0Vars, irq, busVars, host>>

(***************************************************************************)
(* Requests and what they mean to the host.                                *)
(***************************************************************************)

Req(name, val) == [name |-> name, val |-> val]

\* val: 1 for a descriptor the device has; wIndex for the WCID request.
Request ==
  {Req(nm, 0) : nm \in {"GetStatus", "Feature", "GetDescriptor",
                        "GetConfiguration", "SetInterface", "Wcid", "Unknown"}}
  \cup {Req("GetDescriptor", 1), Req("Wcid", 4), Req("Wcid", 5)}
  \cup {Req("SetAddress", a) : a \in Address}
  \cup {Req("SetConfiguration", c) : c \in Configuration}

ASSUME RequestsAssumption == Requests \subseteq Request

NoRequest == Req("None", 0)
Zlp       == Req("Zlp", 0)

HasData(r) == r.name \in {"GetStatus", "GetDescriptor", "GetConfiguration", "Wcid"}

\* The device has one configuration besides "unconfigured", one interface
\* without alternate settings, and two WCID descriptors.
Supported(r) ==
  /\ r.name \notin {"SetInterface", "Unknown"}
  /\ r.name = "GetDescriptor" => r.val = 1
  /\ r.name = "Wcid" => r.val \in {4, 5}
  /\ r.name = "SetConfiguration" => r.val \in {0, 1}

\* Packets of 64 bytes in the data stage: the extended properties fill three.
Packets(r) == IF r = Req("Wcid", 5) THEN 3 ELSE 1

(***************************************************************************)
(* USB_TRNCOMPL_vect.                                                      *)
(***************************************************************************)

\* Only suspend, resume and reset raise the bus interrupt (BUSEVIE, main.c:34);
\* the other flags are seen when one of those does.
BusPending == "bus" \in flagsA

\* The next access of the running handler is s, and then come the steps rest.
Do(s, rest) ==
  /\ todo # <<>>
  /\ Head(todo) = s
  /\ todo' = rest \o Tail(todo)

\* USB_BUSEVENT_vect has the lower vector number and is served first.
EnterTrncompl ==
  /\ todo = <<>>
  /\ irq
  /\ ~BusPending
  /\ irq' = FALSE
  /\ todo' = <<"read">>
  /\ UNCHANGED <<swVars, addr, fifoen, ep0Vars, busVars, host>>

\* One read of out.STATUS decides; usb_handle_control_out_complete does nothing
\* for any request.
ReadStatus ==
  /\ Do("read", IF out.setup THEN <<"ack_setup", "copy", "handle", "check_in">>
                             ELSE <<"check_in">>)
  /\ UNCHANGED <<swVars, addr, fifoen, ep0Vars, irq, busVars, host>>

AckSetup ==
  /\ Do("ack_setup", <<>>)
  /\ out' = [out EXCEPT !.setup = FALSE, !.trn = FALSE]
  /\ UNCHANGED <<swVars, addr, fifoen, in, ep0_buf_out, reply, irq, busVars, host>>

CopySetup ==
  /\ Do("copy", <<>>)
  /\ usb_setup' = ep0_buf_out
  /\ UNCHANGED <<usb_configuration, addr, fifoen, ep0Vars, irq, busVars, host>>

CheckIn ==
  /\ Do("check_in", IF in.trn THEN <<"in_complete">> ELSE <<>>)
  /\ UNCHANGED <<swVars, addr, fifoen, ep0Vars, irq, busVars, host>>

(***************************************************************************)
(* usb_handle_setup and what it calls, as sequences of register accesses.  *)
(***************************************************************************)

Stall  == <<"stall_out", "stall_in">>
Answer == <<"arm_in", "arm_out">>

AcceptsAny(config) == TRUE
usb_cb_set_configuration(config) == config <= 1

\* The status stage is open before the value is stored.
ForgetsConfiguration == Answer
SetConfigurationSteps == <<"arm_in", "set_configuration", "arm_out">>

HandleStandard(r) ==
  CASE r.name \in {"GetStatus", "Feature", "SetAddress", "GetConfiguration"} -> Answer
    [] r.name = "GetDescriptor" -> IF r.val = 1 THEN <<"arm_in">> ELSE Stall
    [] r.name = "SetConfiguration" ->
         IF usb_cb_set_configuration(r.val) THEN SetConfigurationSteps ELSE Stall
    [] OTHER -> Stall

HandleVendor(r) == IF r.val \in {4, 5} THEN Answer ELSE Stall

Handler(r) == IF r.name = "Wcid" THEN HandleVendor(r) ELSE HandleStandard(r)

HandleSetup ==
  /\ Do("handle", Handler(usb_setup))
  /\ UNCHANGED <<swVars, addr, fifoen, ep0Vars, irq, busVars, host>>

\* What the request's handler puts before the IN side.
Content(r) ==
  CASE r.name = "GetConfiguration" -> Req("GetConfiguration", usb_configuration)
    [] r.name \in {"GetStatus", "GetDescriptor", "Wcid"} -> r
    [] OTHER -> Zlp

Arm(answer, packets) ==
  /\ reply' = [answer |-> answer, left |-> packets]
  /\ in' = [in EXCEPT !.nack = FALSE, !.trn = FALSE]

\* usb_ep_start_in: the registers are written while the endpoint refuses
\* tokens, and the final LACR16 arms it.
ArmIn ==
  /\ Do("arm_in", <<>>)
  /\ Arm(Content(usb_setup), Packets(usb_setup))
  /\ UNCHANGED <<swVars, addr, fifoen, out, ep0_buf_out, irq, busVars, host>>

SetConfiguration ==
  /\ Do("set_configuration", <<>>)
  /\ usb_configuration' = usb_setup.val
  /\ UNCHANGED <<usb_setup, addr, fifoen, ep0Vars, irq, busVars, host>>

Ep0OutKeepsNack == [out EXCEPT !.setup = FALSE, !.trn = FALSE]

\* usb_ep0_out clears all four flags at once, SETUP among them.
Ep0OutClears == [out EXCEPT !.setup = FALSE, !.nack = FALSE, !.trn = FALSE]

ArmOut ==
  /\ Do("arm_out", <<>>)
  /\ out' = Ep0OutClears
  /\ UNCHANGED <<swVars, addr, fifoen, in, ep0_buf_out, reply, irq, busVars, host>>

StallOut ==
  /\ Do("stall_out", <<>>)
  /\ out' = [out EXCEPT !.stall = TRUE]
  /\ UNCHANGED <<swVars, addr, fifoen, in, ep0_buf_out, reply, irq, busVars, host>>

StallIn ==
  /\ Do("stall_in", <<>>)
  /\ in' = [in EXCEPT !.stall = TRUE]
  /\ UNCHANGED <<swVars, addr, fifoen, out, ep0_buf_out, reply, irq, busVars, host>>

(***************************************************************************)
(* usb_handle_control_in_complete.                                         *)
(***************************************************************************)

InComplete ==
  /\ Do("in_complete",
        CASE usb_setup.name = "SetAddress" -> <<"set_address">>
          [] usb_setup.name = "GetDescriptor" -> <<"arm_zlp", "arm_out">>
          [] OTHER -> <<>>)
  /\ UNCHANGED <<swVars, addr, fifoen, ep0Vars, irq, busVars, host>>

SetAddress ==
  /\ Do("set_address", <<>>)
  /\ addr' = usb_setup.val
  /\ UNCHANGED <<swVars, fifoen, ep0Vars, irq, busVars, host>>

\* usb_ep0_in_multi with usb_ep0_in_size = 0, which is what GetDescriptor leaves.
ArmZlp ==
  /\ Do("arm_zlp", <<>>)
  /\ Arm(Zlp, 1)
  /\ UNCHANGED <<swVars, addr, fifoen, out, ep0_buf_out, irq, busVars, host>>

Trncompl ==
  \/ EnterTrncompl \/ ReadStatus \/ AckSetup \/ CopySetup \/ HandleSetup
  \/ ArmIn \/ SetConfiguration \/ ArmOut \/ StallOut \/ StallIn
  \/ CheckIn \/ InComplete \/ SetAddress \/ ArmZlp

(***************************************************************************)
(* USB_BUSEVENT_vect: each invocation serves one group of flags.  usb_reset *)
(* is one step: no token reaches the device while the bus is in reset.     *)
(***************************************************************************)

OutAfterReset == [setup |-> FALSE, nack |-> FALSE, trn |-> FALSE, stall |-> FALSE]
InDisarmed    == [nack |-> TRUE, trn |-> FALSE, stall |-> FALSE]
InKeepsStatus == [in EXCEPT !.nack = TRUE]
InAfterReset  == InDisarmed

\* The else-if chain of the handler.
Rank == [sof |-> 1, err |-> 2, stall |-> 3, bus |-> 4]

ServedGroup == CHOOSE g \in flagsA : \A h \in flagsA : Rank[g] <= Rank[h]

KeepsFifoen == fifoen
FifoenAfterReset == FALSE

usb_reset ==
  /\ addr' = 0
  /\ out' = OutAfterReset
  /\ in' = InAfterReset
  /\ fifoen' = FifoenAfterReset

ForgetsSof  == flagsA \ ({ServedGroup} \ {"sof"})
FlagsServed == flagsA \ {ServedGroup}

Busevent ==
  /\ todo = <<>>
  /\ BusPending
  /\ flagsA' = FlagsServed
  /\ IF ServedGroup = "bus" /\ busrst
     THEN busrst' = FALSE /\ usb_reset
     ELSE UNCHANGED <<busrst, addr, out, in, fifoen>>
  /\ UNCHANGED <<todo, swVars, ep0_buf_out, reply, irq, host>>

(***************************************************************************)
(* Endpoint 0 hardware and the host (external to the repository).          *)
(***************************************************************************)

InTransfer == host.stage \in {"data", "status_in", "status_out"}

Hears == ~busrst /\ host.stage # "detached" /\ host.addr = addr

\* A SETUP is never refused: it disarms both sides, clears their STALL and
\* replaces whatever ep0_buf_out held.  A completion the handlers left set on the
\* IN side may survive it, unless SetupClearsIn.
HostSetup(r) ==
  /\ Hears
  /\ ~InTransfer
  /\ SetupDuringIsr \/ todo = <<>>
  /\ out' = [setup |-> TRUE, nack |-> TRUE, trn |-> FALSE, stall |-> FALSE]
  /\ \E t \in {FALSE, in.trn /\ ~SetupClearsIn} :
       in' = [nack |-> TRUE, trn |-> t, stall |-> FALSE]
  /\ ep0_buf_out' = r
  /\ irq' = TRUE
  /\ host' = [host EXCEPT
       !.stage = IF HasData(r) THEN "data" ELSE "status_in",
       !.req = r, !.got = NoRequest, !.left = Packets(r),
       !.configs = IF r.name = "SetConfiguration" /\ Supported(r)
                   THEN @ \cup {r.val} ELSE @]
  /\ UNCHANGED <<todo, swVars, addr, fifoen, reply, busVars>>

\* An IN token that finds the endpoint armed.
HostIn ==
  /\ Hears
  /\ host.stage \in {"data", "status_in"}
  /\ ~in.stall /\ ~in.nack /\ ~in.trn
  /\ LET last  == reply.left = 1
         enough == host.left = 1 \/ reply.answer = Zlp
         done   == host.stage = "status_in"
     IN /\ reply' = [reply EXCEPT !.left = @ - 1]
        /\ in' = [in EXCEPT !.nack = last, !.trn = last]
        /\ irq' = (irq \/ last)
        /\ host' = [host EXCEPT
             !.got = reply.answer,
             !.left = @ - 1,
             !.stage = IF done THEN "done" ELSE IF enough THEN "status_out" ELSE @,
             !.addr = IF done /\ host.req.name = "SetAddress" THEN host.req.val ELSE @,
             !.configs = IF done /\ host.req.name = "SetConfiguration"
                         THEN {host.req.val} ELSE @]
  /\ UNCHANGED <<todo, swVars, addr, fifoen, out, ep0_buf_out, busVars>>

HostOut ==
  /\ Hears
  /\ host.stage = "status_out"
  /\ ~out.stall /\ ~out.nack /\ ~out.trn
  /\ out' = [out EXCEPT !.trn = TRUE]
  /\ irq' = TRUE
  /\ host' = [host EXCEPT !.stage = "done"]
  /\ UNCHANGED <<todo, swVars, addr, fifoen, in, ep0_buf_out, reply, busVars>>

\* A token that finds STALL set ends the transfer.
HostStalled ==
  /\ Hears
  /\ \/ host.stage \in {"data", "status_in"} /\ in.stall
     \/ host.stage = "status_out" /\ out.stall
  /\ host' = [host EXCEPT !.stage = "stalled"]
  /\ flagsA' = flagsA \cup {"stall"}
  /\ UNCHANGED <<todo, swVars, addr, fifoen, ep0Vars, irq, busrst>>

HostAbandon ==
  /\ MayAbandon
  /\ InTransfer
  /\ host' = [host EXCEPT !.stage = "idle"]
  /\ UNCHANGED <<todo, swVars, addr, fifoen, ep0Vars, irq, busVars>>

\* The host drives a bus reset, and waits for the device to recover from it.
HostReset ==
  /\ ~busrst
  /\ busrst' = TRUE
  /\ flagsA' = flagsA \cup {"bus"}
  /\ host' = [host EXCEPT !.stage = "idle", !.addr = 0]
  /\ UNCHANGED <<todo, swVars, addr, fifoen, ep0Vars, irq>>

\* Suspend and resume share the reset's flag group; start-of-frame and error
\* flags are set as packets arrive, more slowly than the handler clears them.
BusFlag ==
  /\ ~busrst /\ todo = <<>> /\ ~BusPending
  /\ \E g \in {"sof", "err", "bus"} : flagsA' = flagsA \cup {g}
  /\ UNCHANGED <<todo, swVars, addr, fifoen, ep0Vars, irq, busrst, host>>

\* The bulk endpoint completing a buffer raises the same TRNIF.
BulkComplete ==
  /\ Hears
  /\ addr # 0
  /\ irq' = TRUE
  /\ UNCHANGED <<todo, swVars, addr, fifoen, ep0Vars, busVars, host>>

Host ==
  \/ \E r \in Requests : HostSetup(r)
  \/ HostIn \/ HostOut \/ HostStalled \/ HostAbandon \/ HostReset
  \/ BusFlag \/ BulkComplete

(***************************************************************************)
(* The specification starts where main has enabled interrupts and attached *)
(* to the bus.                                                             *)
(***************************************************************************)

Init ==
  /\ todo = <<>>
  /\ usb_setup = NoRequest
  /\ usb_configuration = 0
  /\ addr = 0
  /\ fifoen = TRUE
  /\ out = OutAfterReset
  /\ in = InDisarmed
  /\ ep0_buf_out = NoRequest
  /\ reply = [answer |-> Zlp, left |-> 0]
  /\ irq = FALSE
  /\ flagsA = {}
  /\ busrst = FALSE
  /\ host = [stage |-> "detached", req |-> NoRequest, got |-> NoRequest,
              left |-> 0, addr |-> 0, configs |-> {0}]

Next == Trncompl \/ Busevent \/ Host

Spec == Init /\ [][Next]_vars

\* Handlers run to the end and pending interrupts are taken, between bus events
\* too; a host with a transfer in progress keeps sending tokens.
Fairness ==
  /\ WF_vars(Trncompl) /\ SF_vars(EnterTrncompl) /\ WF_vars(Busevent)
  /\ WF_vars(HostIn) /\ WF_vars(HostOut) /\ WF_vars(HostStalled)

FairSpec == Spec /\ Fairness

(***************************************************************************)
(* Properties.                                                             *)
(***************************************************************************)

Steps == {"read", "ack_setup", "copy", "handle", "check_in", "arm_in", "arm_out",
          "set_configuration", "stall_out", "stall_in", "in_complete",
          "set_address", "arm_zlp"}

TypeOK ==
  /\ todo \in Seq(Steps)
  /\ usb_setup \in Request \cup {NoRequest}
  /\ usb_configuration \in {0, 1}
  /\ addr \in Address \cup {0}
  /\ fifoen \in BOOLEAN
  /\ out \in [setup : BOOLEAN, nack : BOOLEAN, trn : BOOLEAN, stall : BOOLEAN]
  /\ in \in [nack : BOOLEAN, trn : BOOLEAN, stall : BOOLEAN]
  /\ ep0_buf_out \in Request \cup {NoRequest}
  /\ reply \in [answer : Request \cup {Zlp, Req("GetConfiguration", 1)}, left : 0..3]
  /\ irq \in BOOLEAN
  /\ flagsA \subseteq {"sof", "err", "stall", "bus"}
  /\ busrst \in BOOLEAN
  /\ host.addr \in Address \cup {0}
  /\ host.configs \subseteq {0, 1}

\* What the host may accept as the answer to r; a configuration it gave up
\* setting may or may not be in force.
Expected(r) ==
  IF r.name = "GetConfiguration"
  THEN {Req("GetConfiguration", c) : c \in host.configs}
  ELSE IF HasData(r) THEN {r} ELSE {Zlp}

\* A transfer that ends, ends with the answer to its own request, never to one
\* given up before it, and STALL answers exactly the requests the device does
\* not support (usb_requests.c:29-100, descriptors.c:241-274).
ReplyMatches ==
  /\ host.stage = "done" => Supported(host.req) /\ host.got \in Expected(host.req)
  /\ host.stage = "stalled" => ~Supported(host.req)

\* The device answers at a new address only once the host uses it: never before
\* the status stage of SET_ADDRESS, and never at the old address after a bus
\* reset, except until a pending reset is served (usb_requests.c:113-115,
\* usb_xmega.c:57-68).
AddressFollowsHost == [][addr' # addr => addr' = host.addr \/ busrst]_vars

\* Every SETUP packet reaches usb_handle_setup: its flag is cleared only where
\* the handler has seen it, or by a bus reset ("Callback when a setup packet is
\* received", usb.h:27).
EverySetupSeen ==
  [][out.setup /\ ~out'.setup => busrst \/ Head(todo) = "ack_setup"]_vars

\* The transaction FIFO main switches on (main.c:39) has no memory reserved in
\* front of the endpoint table; it is off before the first transaction.
FifoOff == host.stage # "detached" /\ ~busrst => ~fifoen

\* Every control transfer comes to an end, also across resets and transfers
\* given up earlier.
TransferEnds == InTransfer ~> ~InTransfer

\* A bus reset is served, however many other flags the handler's chain has to
\* work through first (usb_xmega.c:225-240).
ResetServed == busrst ~> ~busrst

(***************************************************************************)
(* The inductive invariant behind ReplyMatches, AddressFollowsHost and     *)
(* EverySetupSeen, for hosts that send no SETUP while a handler runs and   *)
(* for patient ones that do.                                               *)
(***************************************************************************)

\* The two kinds of host for which the invariant holds.
Orderly == ~SetupDuringIsr \/ (~MayAbandon /\ SetupClearsIn)

\* The access the running handler is about to make.
At == IF todo = <<>> THEN "idle" ELSE Head(todo)

\* The sequences a handler can have before it.
TodoShapes ==
  {<<>>, <<"read">>, <<"ack_setup", "copy", "handle", "check_in">>,
   <<"copy", "handle", "check_in">>, <<"handle", "check_in">>,
   <<"arm_in", "arm_out", "check_in">>, <<"arm_in", "check_in">>,
   <<"arm_in", "set_configuration", "arm_out", "check_in">>,
   <<"set_configuration", "arm_out", "check_in">>, <<"arm_out", "check_in">>,
   <<"stall_out", "stall_in", "check_in">>, <<"stall_in", "check_in">>,
   <<"check_in">>, <<"in_complete">>, <<"set_address">>,
   <<"arm_zlp", "arm_out">>, <<"arm_out">>}

\* A SETUP has been acknowledged and not yet answered.
Deciding == At \in {"copy", "handle", "arm_in", "stall_out", "stall_in"}

HostInv ==
  /\ host \in [stage : {"detached", "idle", "data", "status_in", "status_out", "done",
                        "stalled"},
               req : Request \cup {NoRequest},
               got : Request \cup {NoRequest, Zlp, Req("GetConfiguration", 1)},
               left : Int, addr : Address \cup {0}, configs : SUBSET {0, 1}]
  /\ busrst => host.stage = "idle"
  /\ host.stage \in {"data", "status_in", "status_out", "done", "stalled"} =>
       ep0_buf_out = host.req
  /\ host.stage \in {"data", "status_out"} => HasData(host.req)
  /\ host.stage = "status_in" => ~HasData(host.req)

\* What a handler has established before each access.
HandlerInv ==
  /\ todo \in TodoShapes
  /\ At = "ack_setup" => out.setup
  /\ At \in {"handle", "arm_in", "stall_out", "stall_in"} => usb_setup = ep0_buf_out
  /\ At = "arm_in" => Supported(usb_setup)
  /\ At \in {"stall_out", "stall_in"} => ~Supported(usb_setup)
  /\ At = "set_configuration" => usb_setup.name = "SetConfiguration" /\ usb_setup.val \in {0, 1}
  /\ At = "arm_in" =>
       /\ todo[2] = "set_configuration" <=> usb_setup.name = "SetConfiguration"
       /\ todo[2] = "arm_out" => usb_setup.name # "GetDescriptor"
  /\ At \in {"in_complete", "set_address"} =>
       /\ in.trn \/ (out.setup /\ usb_setup.name # "GetDescriptor")
       /\ usb_setup.name = "SetAddress" => busrst \/ host.addr = usb_setup.val
  /\ At = "set_address" => usb_setup.name = "SetAddress"
  /\ At = "arm_zlp" => in.trn /\ usb_setup.name = "GetDescriptor"

\* A SETUP that usb_ep0_out has erased: nothing answers it any more.
Lost ==
  /\ SetupDuringIsr /\ ~out.setup /\ At \in {"check_in", "idle", "read"}
  /\ host.stage \in {"data", "status_in"}
  /\ in.nack /\ ~in.trn /\ ~in.stall

\* Until a SETUP is answered both sides refuse tokens; after that, what is armed,
\* stalled or completed is the answer to the request the host is in.
SetupInv ==
  /\ out.setup =>
       /\ ~out.stall
       /\ \/ At \in {"idle", "read", "ack_setup"}
          \/ /\ SetupDuringIsr
             /\ At \in {"set_configuration", "arm_out", "check_in", "in_complete", "set_address"}
  /\ out.setup \/ Deciding =>
       /\ out.nack /\ in.nack /\ ~in.stall /\ ep0_buf_out # NoRequest
       /\ host.stage \in {"data", "status_in", "idle"}
       /\ host.stage = "data" => host.left = Packets(host.req)
  /\ ~out.setup /\ At # "copy"
       /\ host.stage \in {"data", "status_in", "status_out", "done", "stalled"} =>
       usb_setup = host.req \/ Lost
  /\ in.stall \/ out.stall =>
       ~Supported(usb_setup) /\ At \notin {"copy", "handle", "arm_in"}

AnswerInv ==
  /\ in.trn => in.nack
  /\ ~in.nack => reply.left >= 1
  /\ ~in.nack /\ ~in.stall /\ host.stage \in {"data", "status_in"} =>
       /\ Supported(host.req)
       /\ reply.answer \in Expected(host.req)
       /\ host.stage = "data" => reply.answer # Zlp /\ reply.left = host.left
       /\ host.req.name = "SetConfiguration" /\ At # "set_configuration" =>
            usb_configuration = host.req.val
  /\ in.trn /\ ~out.setup /\ ~Deciding =>
       /\ in.stall \/ host.stage \notin {"data", "status_in"}
       /\ usb_setup.name = "SetAddress" => busrst \/ host.addr = usb_setup.val
  /\ host.stage \in {"status_out", "done"} =>
       Supported(host.req) /\ host.got \in Expected(host.req)
  /\ host.stage = "stalled" => ~Supported(host.req)

ConfigInv ==
  /\ IF At = "set_configuration" THEN usb_setup.val \in host.configs
                                 ELSE usb_configuration \in host.configs
  /\ ep0_buf_out.name = "SetConfiguration" /\ ep0_buf_out.val \in {0, 1} =>
       ep0_buf_out.val \in host.configs

\* A host that finishes its transfers may send a SETUP while a handler runs: no
\* completion is left for it to meet, and none of GET_DESCRIPTOR's while the handler
\* still has to open its status stage.
PatientInv ==
  SetupDuringIsr =>
    /\ out.setup \/ Deciding \/ in.stall \/ out.stall => ~in.trn
    /\ host.stage = "idle" =>
         busrst \/ (~out.setup /\ ~in.trn /\ At \in {"idle", "read", "check_in"})
    /\ usb_setup.name = "GetDescriptor" =>
         /\ in.trn \/ At = "arm_out" =>
              busrst \/ (host.stage = "status_out" /\ out.nack /\ ~out.stall)
         /\ At = "arm_out" => ~in.trn
         /\ ~in.nack /\ host.stage = "data" => out.nack

IInv ==
  TypeOK /\ HostInv /\ HandlerInv /\ SetupInv /\ AnswerInv /\ ConfigInv /\ PatientInv

(***************************************************************************)
(* The endpoint as a ControlDevice.                                        *)
(***************************************************************************)

\* The IN side has nothing for a host that waits for it: no packet, no completion
\* and no STALL.
Unanswered ==
  host.stage \in {"data", "status_in"} /\ in.nack /\ ~in.trn /\ ~in.stall

\* The request that has not taken effect: it waits for the handler, or is being
\* handled, or has been erased and will never be.
Pending == IF out.setup \/ Deciding \/ Unanswered THEN ep0_buf_out ELSE NoRequest

\* SET_CONFIGURATION counts from when its status stage is open; the value is stored
\* at the next access of the handler, before any other request is.
Config == IF At = "set_configuration" THEN usb_setup.val ELSE usb_configuration

Transfer ==
  CASE InTransfer -> [stage |-> "open", req |-> host.req, got |-> NoRequest]
    [] host.stage = "done" -> [stage |-> "done", req |-> host.req, got |-> host.got]
    [] host.stage = "stalled" -> [stage |-> "stalled", req |-> host.req, got |-> NoRequest]
    [] OTHER -> [stage |-> "idle", req |-> NoRequest, got |-> NoRequest]

EffectOf(r, config, address) ==
  IF r.name = "SetConfiguration" /\ Supported(r) THEN r.val ELSE config

\* usb_configuration outlives a bus reset.
ConfigAfterReset(config) == config

AnswerTo(r, config) ==
  CASE r.name = "GetConfiguration" -> Req("GetConfiguration", config)
    [] HasData(r) /\ r.name # "GetConfiguration" -> r
    [] OTHER -> Zlp

Unsupported(r, config) == ~Supported(r)

Device == INSTANCE ControlDevice WITH
  Addresses <- Address, Nothing <- NoRequest, Unconfigured <- 0,
  Effect <- EffectOf, AfterReset <- ConfigAfterReset, Answer <- AnswerTo,
  MayAnswer <- Supported, MayRefuse <- Unsupported,
  transfer <- Transfer, pending <- Pending, conf <- Config, addr <- addr,
  used <- host.addr, unsure <- {}, resetting <- busrst

\* Each request takes effect once, between its SETUP and the end of its transfer, and
\* is answered as of then, also where the handler opens the status stage before it
\* stores the value (usb_requests.c:77-84) and with SETUPs and resets between any two
\* of its accesses.
IsDevice == Device!Spec

\* Why: the value GET_CONFIGURATION has armed or delivered is still in force.
FreshInv ==
  host.req.name = "GetConfiguration" =>
    /\ host.stage = "data" /\ ~in.nack /\ ~in.stall =>
         reply.answer = Req("GetConfiguration", Config)
    /\ host.stage = "status_out" => host.got = Req("GetConfiguration", Config)
=============================================================================
