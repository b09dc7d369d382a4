--------------------------- MODULE MCXrngControl ---------------------------
(***************************************************************************)
(* Values for model-checking XrngControl: one address besides 0, the two   *)
(* configurations the device accepts and one it refuses.                   *)
(***************************************************************************)
EXTENDS XrngControl

MCAddress == {1}
MCConfiguration == {0, 1, 2}

\* One request of each shape of handler, among them those that change the
\* configuration and read it, for the liveness run.
MCShapes == {Req("GetConfiguration", 0), Req("GetDescriptor", 1), Req("SetAddress", 1),
             Req("SetConfiguration", 0), Req("SetConfiguration", 1),
             Req("SetInterface", 0), Req("Wcid", 5)}
=============================================================================
