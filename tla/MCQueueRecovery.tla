-------------------------- MODULE MCQueueRecovery --------------------------
(* The module TLC runs.  The instances tell no task from another, so states  *)
(* that differ in the names of the tasks only are checked once.             *)
EXTENDS QueueRecovery, TLC

TaskSymmetry == Permutations(Tasks)
=============================================================================
