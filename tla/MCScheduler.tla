---------------------------- MODULE MCScheduler -----------------------------
(* Two callers, so that one can be caught before its notify_one while the   *)
(* other queues, stops or shuts down.                                       *)
EXTENDS Scheduler

CONSTANTS disp, net

MCCallers == {disp, net}
=============================================================================
