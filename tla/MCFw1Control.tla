---------------------------- MODULE MCFw1Control ----------------------------
(***************************************************************************)
(* Values for model-checking Fw1Control: packets of two units, one         *)
(* address, and a request of each shape the device tells apart.            *)
(***************************************************************************)
EXTENDS Fw1Control

MCAddress == {1}

\* Answers shorter than a packet, of exactly one, and of several; requests the core
\* refuses with and without data; a read of nothing; and every change of configuration
\* and setting, the ones to an unknown number included.
MCRequests ==
  {Req("GetDescriptor", 1, 6), Req("GetConfiguration", 0, 2),
   Req("GetConfiguration", 0, 1), Req("GetInterface", 0, 1),
   Req("Wcid", 5, 2), Req("Wcid", 5, 6), Req("Wcid", 0, 6),
   Req("SetAddress", 1, 0),
   Req("SetConfiguration", 0, 0), Req("SetConfiguration", 1, 0),
   Req("SetConfiguration", 2, 0),
   Req("SetInterface", 0, 0), Req("SetInterface", 1, 0), Req("SetInterface", 2, 0),
   Req("SetDescriptor", 0, 3), Req("GetDescriptor", 1, 0)}

\* For liveness: an answer of several packets that ends short, and one the host cuts
\* off; a refusal; a request without data, and one with more than the device takes.
MCFew ==
  {Req("Wcid", 5, 6), Req("Wcid", 5, 2), Req("Wcid", 0, 6), Req("SetAddress", 1, 0),
   Req("SetConfiguration", 1, 0), Req("SetDescriptor", 0, 3)}
=============================================================================
