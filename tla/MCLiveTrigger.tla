---------------------------- MODULE MCLiveTrigger ----------------------------
(***************************************************************************)
(* Hops for milliseconds: the real spans keep their order, the chain of    *)
(* merged strikes reaches MaxClip, and the ring has no hop to spare.       *)
(***************************************************************************)
EXTENDS LiveTrigger
=============================================================================
