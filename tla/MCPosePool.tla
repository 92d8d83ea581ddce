----------------------------- MODULE MCPosePool -----------------------------
(* Two drivers and two jobs: one with a driver while the other waits, is handed *)
(* back, or is refused at the bound.                                            *)
EXTENDS PosePool
=============================================================================
