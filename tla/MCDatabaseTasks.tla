-------------------------- MODULE MCDatabaseTasks ---------------------------
(* Two callers and five queries: one in flight, others queued behind it,    *)
(* one added while the other caller still owes its notify_one.              *)
EXTENDS DatabaseTasks, TLC

CONSTANTS disp, other

MCCallers == {disp, other}
=============================================================================
