---------------------------- MODULE MCDispatcher ----------------------------
(* Two producers and three tasks: enough for a front and a back task to     *)
(* meet in the list, for a task to slip in between the shutdown task and    *)
(* stop(), and for a producer to be caught before its notify_one while the  *)
(* other adds a task.                                                       *)
EXTENDS Dispatcher, TLC

CONSTANTS net, sched

MCProducers == {net, sched}
=============================================================================
