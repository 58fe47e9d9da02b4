------------------------- MODULE MCExecutorScheduler -------------------------
(* An instance of ExecutorScheduler for TLC. *)
EXTENDS ExecutorScheduler
=============================================================================
