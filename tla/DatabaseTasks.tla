--------------------------- MODULE DatabaseTasks ----------------------------
(* The asynchronous queries of databasetasks.cpp: a thread with a database  *)
(* connection of its own runs them one after the other.  Unlike the         *)
(* dispatcher it leaves the task it runs at the front of the list and pops  *)
(* it afterwards, with the lock released in between; shutdown() drains the  *)
(* same list under the lock from another thread.                            *)
EXTENDS Integers, Sequences, FiniteSets

CONSTANTS
  Callers,   \* threads that call addTask; one of them calls shutdown
  MaxTasks,  \* bound on the number of addTask calls
  WithCallback  \* the queries that were given a callback

ASSUME DatabaseTasksAssumption == MaxTasks \in Nat /\ WithCallback \subseteq 1..MaxTasks

VARIABLES
  tasks,        \* DatabaseTasks::tasks, the names of the queued queries
  threadState,  \* DatabaseTasks::threadState
  pc,           \* where run() stands; "Fault" once its behaviour is undefined
  task,         \* run()'s reference to the front of the list, or 0
  flusher,      \* where shutdown() stands
  owes,         \* callers between taskLock.unlock() and notify_one()
  nextId,       \* name of the next query; names follow the order of acceptance
  runs,         \* history: how often each query was sent to the database
  posted,       \* history: how often a callback was posted to the dispatcher
  caught,       \* history: the query in flight when shutdown() began, or 0
  slipped       \* history: shutdown() found run() between its loop test and lock()

vars == <<tasks, threadState, pc, task, flusher, owes, nextId, runs, posted, caught,
          slipped>>

Ids == 1..MaxTasks

\* Where run() holds a reference into the list without holding the lock.
InFlight == {"Run", "Post", "Pop"}

TypeOK ==
  /\ tasks \in Seq(Ids)
  /\ threadState \in {"RUNNING", "CLOSING", "TERMINATED"}
  /\ pc \in {"Test", "Lock", "Wait", "Woken", "Exited", "Fault"} \cup InFlight
  /\ task \in IF pc \in InFlight \cup {"Fault"} THEN Ids ELSE {0}
  /\ flusher \in {"idle", "run", "pop", "done"}
  /\ owes \in SUBSET Callers
  /\ nextId \in 1..(MaxTasks + 1)
  /\ runs \in [Ids -> Nat]
  /\ posted \in [Ids -> Nat]
  /\ caught \in 0..MaxTasks
  /\ slipped \in BOOLEAN

\* start(): the thread is RUNNING and about to test its loop condition.
Init ==
  /\ tasks = <<>>
  /\ threadState = "RUNNING"
  /\ pc = "Test"
  /\ task = 0
  /\ flusher = "idle"
  /\ owes = {}
  /\ nextId = 1
  /\ runs = [i \in Ids |-> 0]
  /\ posted = [i \in Ids |-> 0]
  /\ caught = 0
  /\ slipped = FALSE

\* flush() runs with the lock held.
TaskLockFree == flusher \in {"idle", "done"}

\* runTask posts the callback of a query that has one.
PostedBy(i) == IF i \in WithCallback THEN [posted EXCEPT ![i] = @ + 1] ELSE posted

Queued == {tasks[i] : i \in DOMAIN tasks}

-----------------------------------------------------------------------------
(* The callers.                                                             *)

\* addTask while RUNNING; otherwise it does nothing at all.
AddTask(c) ==
  /\ c \notin owes
  /\ TaskLockFree
  /\ threadState = "RUNNING"
  /\ nextId <= MaxTasks
  /\ nextId' = nextId + 1
  /\ tasks' = Append(tasks, nextId)
  /\ owes' = IF tasks = <<>> THEN owes \cup {c} ELSE owes
  /\ UNCHANGED <<threadState, pc, task, flusher, runs, posted, caught, slipped>>

\* Mutant: the notify_one is missing.
NotifyNobody(c) ==
  /\ c \in owes
  /\ owes' = owes \ {c}
  /\ UNCHANGED <<tasks, threadState, pc, task, flusher, nextId, runs, posted, caught, slipped>>

Notify(c) ==
  /\ c \in owes
  /\ owes' = owes \ {c}
  /\ pc' = IF pc = "Wait" THEN "Woken" ELSE pc
  /\ UNCHANGED <<tasks, threadState, task, flusher, nextId, runs, posted, caught, slipped>>

Stop ==
  /\ threadState = "RUNNING"
  /\ threadState' = "CLOSING"
  /\ UNCHANGED <<tasks, pc, task, flusher, owes, nextId, runs, posted, caught, slipped>>

-----------------------------------------------------------------------------
(* run().                                                                   *)

Test ==
  /\ pc = "Test"
  /\ pc' = IF threadState # "TERMINATED" THEN "Lock" ELSE "Exited"
  /\ UNCHANGED <<tasks, threadState, task, flusher, owes, nextId, runs, posted, caught, slipped>>

LockAndWait ==
  /\ pc = "Lock"
  /\ TaskLockFree
  /\ tasks = <<>>
  /\ pc' = "Wait"
  /\ UNCHANGED <<tasks, threadState, task, flusher, owes, nextId, runs, posted, caught, slipped>>

SpuriousWake ==
  /\ pc = "Wait"
  /\ pc' = "Woken"
  /\ UNCHANGED <<tasks, threadState, task, flusher, owes, nextId, runs, posted, caught, slipped>>

\* The second if of the loop, with the lock held: a reference to the front is
\* taken, and the lock released.
TakeFront ==
  /\ TaskLockFree
  /\ \/ pc = "Lock" /\ tasks # <<>>
     \/ pc = "Woken"
  /\ \/ /\ tasks # <<>>
        /\ threadState # "TERMINATED"
        /\ task' = Head(tasks)
        /\ pc' = "Run"
     \/ /\ tasks = <<>> \/ threadState = "TERMINATED"
        /\ pc' = "Test"
        /\ UNCHANGED task
  /\ UNCHANGED <<tasks, threadState, flusher, owes, nextId, runs, posted, caught, slipped>>

\* The node that task refers to has been destroyed by flush().
Dangling == task \notin Queued

Fault == /\ pc' = "Fault"
         /\ UNCHANGED <<tasks, threadState, task, flusher, owes, nextId, runs, posted,
                        caught, slipped>>

\* runTask, first half: the query is read and sent to the database.
RunQuery ==
  /\ pc = "Run"
  /\ \/ /\ ~Dangling
        /\ runs' = [runs EXCEPT ![task] = @ + 1]
        /\ pc' = "Post"
        /\ UNCHANGED <<tasks, threadState, task, flusher, owes, nextId, posted, caught, slipped>>
     \/ Dangling /\ Fault

\* runTask, second half: the callback is read and posted to the dispatcher.
PostCallback ==
  /\ pc = "Post"
  /\ \/ /\ ~Dangling
        /\ posted' = PostedBy(task)
        /\ pc' = "Pop"
        /\ UNCHANGED <<tasks, threadState, task, flusher, owes, nextId, runs, caught, slipped>>
     \/ Dangling /\ Fault

\* Mutant: the query that ran stays at the front.
PopFrontForgotten ==
  /\ pc = "Pop"
  /\ TaskLockFree
  /\ \/ /\ tasks # <<>>
        /\ task' = 0
        /\ pc' = "Test"
        /\ UNCHANGED <<tasks, threadState, flusher, owes, nextId, runs, posted, caught, slipped>>
     \/ tasks = <<>> /\ Fault

\* tasks.pop_front(), undefined on an empty list.
PopFront ==
  /\ pc = "Pop"
  /\ TaskLockFree
  /\ \/ /\ tasks # <<>>
        /\ tasks' = Tail(tasks)
        /\ task' = 0
        /\ pc' = "Test"
        /\ UNCHANGED <<threadState, flusher, owes, nextId, runs, posted, caught, slipped>>
     \/ tasks = <<>> /\ Fault

-----------------------------------------------------------------------------
(* shutdown() and flush(), on the thread of a caller.                       *)

Shutdown ==
  /\ threadState = "CLOSING"
  /\ threadState' = "TERMINATED"
  /\ flusher' = "run"
  /\ caught' = IF pc \in InFlight THEN task ELSE 0
  /\ slipped' = (pc = "Lock")
  /\ UNCHANGED <<tasks, pc, task, owes, nextId, runs, posted>>

FlushRun ==
  /\ flusher = "run"
  /\ tasks # <<>>
  /\ runs' = [runs EXCEPT ![Head(tasks)] = @ + 1]
  /\ posted' = PostedBy(Head(tasks))
  /\ flusher' = "pop"
  /\ UNCHANGED <<tasks, threadState, pc, task, owes, nextId, caught, slipped>>

FlushPop ==
  /\ flusher = "pop"
  /\ tasks' = Tail(tasks)
  /\ flusher' = "run"
  /\ UNCHANGED <<threadState, pc, task, owes, nextId, runs, posted, caught, slipped>>

\* Mutant: the drain is left out and shutdown() returns at once.
FlushEndEarly(c) ==
  /\ flusher = "run"
  /\ c \notin owes
  /\ flusher' = "done"
  /\ owes' = owes \cup {c}
  /\ UNCHANGED <<tasks, threadState, pc, task, nextId, runs, posted, caught, slipped>>

\* Mutant: shutdown() does not notify.
FlushEndSilent(c) ==
  /\ flusher = "run"
  /\ tasks = <<>>
  /\ c \notin owes
  /\ flusher' = "done"
  /\ UNCHANGED <<tasks, threadState, pc, task, owes, nextId, runs, posted, caught, slipped>>

\* The list is empty: unlock, and notify_one is still to come.
FlushEnd(c) ==
  /\ flusher = "run"
  /\ tasks = <<>>
  /\ c \notin owes
  /\ flusher' = "done"
  /\ owes' = owes \cup {c}
  /\ UNCHANGED <<tasks, threadState, pc, task, nextId, runs, posted, caught, slipped>>

-----------------------------------------------------------------------------
ThreadStep == \/ Test \/ LockAndWait \/ TakeFront \/ RunQuery \/ PostCallback \/ PopFront

FlushStep == FlushRun \/ FlushPop \/ (\E c \in Callers : FlushEnd(c))

Next ==
  \/ \E c \in Callers : AddTask(c) \/ Notify(c)
  \/ Stop
  \/ Shutdown
  \/ SpuriousWake
  \/ ThreadStep
  \/ FlushStep

Spec == Init /\ [][Next]_vars

(* The operating system schedules every thread and the database answers.    *)
Fairness == /\ WF_vars(ThreadStep)
            /\ WF_vars(FlushStep)
            /\ \A c \in Callers : WF_vars(Notify(c))

FairSpec == Spec /\ Fairness

-----------------------------------------------------------------------------
(* Properties.                                                              *)

(* While the thread sleeps with queries queued, a caller is on its way to   *)
(* notify_one (databasetasks.cpp 44-47, 64-72).                             *)
NoLostWakeup == pc = "Wait" /\ tasks # <<>> => owes # {} \/ flusher \in {"run", "pop"}

(* A query is sent to the database once and its callback posted once, but   *)
(* for the one that was in flight when shutdown() began: flush() finds it   *)
(* at the front and sends it again (databasetasks.cpp 50-54, 94-97), so     *)
(* that one may go out twice.                                               *)
AtMostOnce == \A i \in Ids : /\ runs[i] <= IF i = caught THEN 2 ELSE 1
                             /\ posted[i] <= runs[i]

(* pop_front() on an empty list and a read through a dangling reference are *)
(* reached only when a query was in flight at shutdown(); otherwise run()'s *)
(* reference outlives its use although the lock is released (50-54).        *)
FaultOnlyIfCaught == pc = "Fault" => caught # 0

(* Queries reach the database in the order in which they were queued.       *)
InOrder == \A i, j \in Ids : i < j /\ runs[j] > 0 => runs[i] > 0

(* When shutdown() has returned, every query that was accepted has been     *)
(* sent and its callback posted: saves queued before the end are not lost.  *)
NoneLost ==
  flusher = "done" => \A i \in 1..(nextId - 1) :
                         runs[i] > 0 /\ (i \in WithCallback => posted[i] > 0)

\* Every accepted query is sent in the end.
EveryQueryRuns == \A i \in Ids : i < nextId ~> runs[i] > 0

(* The thread leaves its loop after shutdown() unless it was caught with a  *)
(* query in flight, or between its loop test and lock() (44-46).            *)
ShutdownExits ==
  flusher = "done" /\ caught = 0 /\ ~slipped ~> pc = "Exited"
=============================================================================
