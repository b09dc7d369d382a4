--------------------------- MODULE ControlDevice ---------------------------
(***************************************************************************)
(* What either firmware promises about its default control endpoint, as    *)
(* the host sees it.  A request takes effect at most once, at one moment   *)
(* between its SETUP and the end of its transfer, and a transfer that ends *)
(* has got the answer of the device as that moment left it.  A transfer    *)
(* the host gives up may or may not have taken effect.                     *)
(*                                                                         *)
(* pending is the request that has arrived and has not taken effect, conf  *)
(* what requests act on, addr the device's address and used the one the    *)
(* host uses.  unsure holds the address of a SET_ADDRESS that the host has *)
(* given up behind its effect: the device may take the next request for a  *)
(* sign that it was concluded.                                             *)
(***************************************************************************)
EXTENDS Naturals

CONSTANTS
  Addresses,        \* The addresses a host may assign.
  Requests,         \* Requests: records with a name and a val.
  Nothing,          \* Not a request.
  Unconfigured,     \* The value of conf at the start.
  Effect(_, _, _),  \* What a request makes of conf, at an address.
  AfterReset(_),    \* What a bus reset makes of conf.
  Answer(_, _),     \* The answer to a request, at conf.
  MayAnswer(_),     \* Whether a request may end with an answer.
  MayRefuse(_, _)   \* Whether it may end with STALL, at conf.

VARIABLES transfer, pending, conf, addr, used, unsure, resetting

vars == <<transfer, pending, conf, addr, used, unsure, resetting>>

Transfer(stage, r, got) == [stage |-> stage, req |-> r, got |-> got]
Idle == Transfer("idle", Nothing, Nothing)
Open == transfer.stage = "open"

Heard == ~resetting /\ addr = used

\* Until it is served a bus reset leaves open what address the device has.
AddressDue(known) == IF resetting THEN Addresses \cup {addr} ELSE known

Begin(r) ==
  /\ Heard /\ ~Open
  /\ transfer' = Transfer("open", r, Nothing)
  /\ pending' = r
  /\ UNCHANGED <<conf, addr, used, unsure, resetting>>

TakeEffect ==
  /\ pending # Nothing
  /\ pending' = Nothing
  /\ addr' \in AddressDue(unsure \cup {addr})
  /\ unsure' = {}
  /\ conf' = Effect(pending, conf, addr')
  /\ UNCHANGED <<transfer, used, resetting>>

Complete ==
  LET r == transfer.req
  IN  /\ Heard /\ Open /\ pending = Nothing
      /\ MayAnswer(r)
      /\ transfer' = Transfer("done", r, Answer(r, conf))
      /\ used' = IF r.name = "SetAddress" THEN r.val ELSE used
      /\ UNCHANGED <<pending, conf, addr, unsure, resetting>>

Refuse ==
  LET r == transfer.req
  IN  /\ Heard /\ Open /\ pending = Nothing
      /\ MayRefuse(r, conf)
      /\ transfer' = Transfer("stalled", r, Nothing)
      /\ UNCHANGED <<pending, conf, addr, used, unsure, resetting>>

\* The device moves to the address the host has begun to use.
Follow ==
  /\ addr' \in AddressDue({used})
  /\ UNCHANGED <<transfer, pending, conf, used, unsure, resetting>>

\* What the host no longer waits for need not take effect.
GiveUp ==
  /\ Open
  /\ transfer' = Idle
  /\ pending' \in {pending, Nothing}
  /\ unsure' \in {unsure,
       IF transfer.req.name = "SetAddress" THEN {transfer.req.val} ELSE unsure}
  /\ UNCHANGED <<conf, addr, used, resetting>>

Reset ==
  /\ ~resetting
  /\ resetting' = TRUE
  /\ transfer' = Idle
  /\ pending' \in {pending, Nothing}
  /\ used' = 0
  /\ unsure' = {}
  /\ UNCHANGED <<conf, addr>>

Forget ==
  /\ resetting
  /\ pending' = Nothing
  /\ UNCHANGED <<transfer, conf, addr, used, unsure, resetting>>

ServeReset ==
  /\ resetting
  /\ resetting' = FALSE
  /\ pending' = Nothing
  /\ addr' = 0
  /\ conf' = AfterReset(conf)
  /\ UNCHANGED <<transfer, used, unsure>>

Init ==
  /\ transfer = Idle
  /\ pending = Nothing
  /\ conf = Unconfigured
  /\ addr = 0 /\ used = 0 /\ unsure = {}
  /\ resetting = FALSE

Next ==
  \/ \E r \in Requests : Begin(r)
  \/ TakeEffect \/ Complete \/ Refuse \/ Follow \/ GiveUp
  \/ Reset \/ Forget \/ ServeReset

Spec == Init /\ [][Next]_vars
=============================================================================
