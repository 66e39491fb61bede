-------------------------- MODULE ParallelTasksMC --------------------------
(* Instances of ParallelTasks with two or three steps. *)
EXTENDS ParallelTasks
=============================================================================
