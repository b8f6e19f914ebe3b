-------------------------- MODULE MCQueueRecovery --------------------------
(* A small instance of QueueRecovery for TLC: its constants are in the cfg. *)
EXTENDS QueueRecovery
=============================================================================
