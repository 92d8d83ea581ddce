---------------------------- MODULE MCPoseWorker ----------------------------
(* PoseWorker for TLC: every list of up to two interpreters, two jobs. *)
EXTENDS PoseWorker
=============================================================================
