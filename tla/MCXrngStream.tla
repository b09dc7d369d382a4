---------------------------- MODULE MCXrngStream ----------------------------
(***************************************************************************)
(* Values for model-checking XrngStream: two block values are enough to    *)
(* tell a torn, lost, repeated or reordered block from the right one, since *)
(* every filling of both buffers is tried.                                 *)
(***************************************************************************)
EXTENDS XrngStream

CONSTANTS x, y

MCBlock == {x, y}
=============================================================================
