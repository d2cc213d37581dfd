---------------------------- MODULE MCTaskQueue ----------------------------
(* The module TLC runs: TaskQueue with its constants given by the .cfg.     *)
EXTENDS TaskQueue
=============================================================================
