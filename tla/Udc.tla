-------------------------------- MODULE Udc --------------------------------
(***************************************************************************)
(* The device core of the first firmware: what udc_process_setup makes of  *)
(* a request.  A record u holds its state: conf (udc_num_configuration),   *)
(* alt (udi_vendor_alternate_setting) and eps, whether the two bulk        *)
(* endpoints of setting 1 are allocated.  There is one configuration, 1,   *)
(* with one interface that has settings 0 (no endpoints) and 1.            *)
(*                                                                         *)
(* A request r has a name, the val its handler distinguishes, and len, its *)
(* wLength.  Lengths count units of which a packet of endpoint 0 has       *)
(* CtrlSize; an answer shorter than a packet is one unit.                  *)
(***************************************************************************)
EXTENDS Naturals

CONSTANT CtrlSize   \* Units in a packet of endpoint 0 (64 bytes).

ASSUME UdcAssumption == CtrlSize \in Nat \ {0, 1}

Req(name, val, len) == [name |-> name, val |-> val, len |-> len]

\* Answered with exactly one length: GET_STATUS, GET_CONFIGURATION, GET_INTERFACE.
Fixed == {"GetStatus", "GetConfiguration", "GetInterface"}

IsIn(r) == r.name \in Fixed \cup {"GetDescriptor", "Wcid"}

\* The extended properties fill two packets and a part of a third; everything
\* else fits in one.
Size(r) == IF r.name = "Wcid" /\ r.val = 5 THEN 2 * CtrlSize + 1 ELSE 1

Cut(r) == IF r.len < Size(r) THEN r.len ELSE Size(r)

(***************************************************************************)
(* Interfaces.                                                             *)
(***************************************************************************)

\* udc_iface_disable frees the endpoints of the current setting.
IfaceDisable(u) == IF u.alt = 1 THEN [u EXCEPT !.eps = FALSE] ELSE u

\* udc_iface_enable: an unknown setting, or an endpoint that is still allocated,
\* ends it early.
CanEnable(u, setting) == setting = 0 \/ (setting = 1 /\ ~u.eps)

IfaceEnable(u, setting) ==
  IF CanEnable(u, setting)
  THEN [u EXCEPT !.alt = setting, !.eps = @ \/ setting = 1]
  ELSE u

ResetKeepsEndpoints(u) == [u EXCEPT !.conf = 0]
UdcReset(u) ==
  [(IF u.conf = 0 THEN u ELSE IfaceDisable(u)) EXCEPT !.conf = 0]

(***************************************************************************)
(* Standard requests.                                                      *)
(***************************************************************************)

SetConfigurationKeepsSetting(u, v) ==
  IF v = 0 THEN UdcReset(u) ELSE [UdcReset(u) EXCEPT !.conf = v]

\* udc_req_std_dev_set_configuration, once its checks are passed.
SetConfiguration(u, v) ==
  LET reset == UdcReset(u)
  IN  IF v = 0 THEN reset ELSE IfaceEnable([reset EXCEPT !.conf = v], 0)

\* udc_req_std_iface_set_setting: the current setting is gone before the new
\* one is looked for.
SetInterface(u, v) == IfaceEnable(IfaceDisable(u), v)

ConfigurationAllowed(r, addr) == r.len = 0 /\ addr # 0 /\ r.val <= 1
InterfaceAllowed(r, u)        == r.len = 0 /\ u.conf # 0

\* What udc_reqstd leaves behind, whether it accepts the request or not.
UdcAfter(r, u, addr) ==
  CASE r.name = "SetConfiguration" /\ ConfigurationAllowed(r, addr) ->
         SetConfiguration(u, r.val)
    [] r.name = "SetInterface" /\ InterfaceAllowed(r, u) -> SetInterface(u, r.val)
    [] OTHER -> u

\* udc_reqstd returns true.  SET_FEATURE of remote wakeup is compiled out, and
\* SET_DESCRIPTOR is "not supported".
Standard(r, u, addr) ==
  CASE r.name \in {"GetStatus", "GetConfiguration"} -> r.len = 1
    [] r.name = "GetInterface" -> r.len = 1 /\ u.conf # 0
    [] r.name = "GetDescriptor" -> r.val = 1
    [] r.name = "SetAddress" -> r.len = 0
    [] r.name = "Feature" -> r.len = 0 /\ r.val = 0
    [] r.name = "SetConfiguration" -> ConfigurationAllowed(r, addr)
    [] r.name = "SetInterface" ->
         InterfaceAllowed(r, u) /\ CanEnable(IfaceDisable(u), r.val)
    [] OTHER -> FALSE

(***************************************************************************)
(* udc_process_setup.  The vendor interface takes no request of its own    *)
(* (udi_vendor_setup), so whatever is not answered above goes to           *)
(* usb_other_requests.                                                     *)
(***************************************************************************)

\* Of the vendor requests two are known; every other kind of request is taken,
\* with nothing to send and no callback.  "Wcid" is the vendor request that reads, the
\* only one a host sends.  usb_other_requests does not look at the direction and would
\* give a vendor request that writes to the same two indices the descriptor for a
\* buffer: such requests are not modelled.
OtherRequests(r) == r.name = "Wcid" => r.val \in {4, 5}

ProcessSetup(r, u, addr) ==
  LET std == Standard(r, u, addr)
  IN  [ok   |-> ~(IsIn(r) /\ r.len = 0) /\ (std \/ OtherRequests(r)),
       size |-> IF IsIn(r) /\ (std \/ r.name = "Wcid") THEN Cut(r) ELSE 0,
       cb   |-> std /\ r.name = "SetAddress",
       udc  |-> UdcAfter(r, u, addr)]
=============================================================================
