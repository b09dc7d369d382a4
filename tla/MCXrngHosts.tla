---------------------------- MODULE MCXrngHosts ----------------------------
(***************************************************************************)
(* XrngControl under either of two hosts, one chosen for each behaviour.   *)
(* The one of the .cfg may give transfers up and finds no handler running; *)
(* the patient one finishes its transfers and may send the next SETUP      *)
(* between any two accesses of a handler.                                  *)
(***************************************************************************)
EXTENDS MCXrngControl

VARIABLE patient

P == INSTANCE XrngControl WITH
       MayAbandon <- FALSE, SetupDuringIsr <- TRUE, SetupClearsIn <- TRUE

HostsNext ==
  /\ IF patient THEN P!Next ELSE Next
  /\ UNCHANGED patient

HostsSpec == Init /\ patient \in BOOLEAN /\ [][HostsNext]_<<vars, patient>>

\* The inductive invariant of the proofs holds under either host: usb_xmega.c:225-263 and
\* usb_requests.c:27-119 keep endpoint 0 in step with the transfer at every access.
HostsInv == IF patient THEN P!IInv ELSE IInv
=============================================================================
