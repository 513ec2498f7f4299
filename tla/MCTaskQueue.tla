---------------------------- MODULE MCTaskQueue ----------------------------
(* TaskQueue on a small instance: MCTaskQueue.cfg binds the constants.      *)
EXTENDS TaskQueue
=============================================================================
