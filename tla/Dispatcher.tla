----------------------------- MODULE Dispatcher -----------------------------
(* The dispatcher of tasks.cpp: one thread that runs, one after the other,  *)
(* the tasks every other thread of the server hands it.  All game state is  *)
(* changed by this thread only, so the order in which tasks run and the     *)
(* promise that an accepted task does run are what the rest of the server   *)
(* is built on.                                                             *)
(*                                                                          *)
(* A critical section of taskLock that calls nothing blocking is one step.  *)
(* The one long critical section is flush(): while it lasts TaskLockFree    *)
(* is false and every other step that needs the lock is disabled.           *)
EXTENDS Integers, Sequences, FiniteSets, Functions

CONSTANTS
  Producers,  \* threads other than the dispatcher's that call addTask
  MaxTasks    \* bound on the number of addTask calls

ASSUME DispatcherAssumption == MaxTasks \in Nat \ {0}

VARIABLES
  taskList,     \* Dispatcher::taskList
  threadState,  \* Dispatcher::threadState
  pc,           \* where dispatcherThread stands
  current,      \* the task it took from the list, or NoTask
  owes,         \* producers between taskLock.unlock() and notify_one()
  nextId,       \* name of the next task; names follow the order of acceptance
  ran,          \* history: the tasks whose execution began
  dropped,      \* history: the tasks deleted because they had expired
  refused       \* history: the names addTask deleted unqueued

vars == <<taskList, threadState, pc, current, owes, nextId, ran, dropped, refused>>

ThreadStates == {"RUNNING", "CLOSING", "TERMINATED"}

(* "never" is SYSTEM_TIME_ZERO; a task with a deadline is "pending" until   *)
(* the clock passes it.                                                     *)
Expiry == {"never", "pending", "past"}

(* What the task does that matters here: "shutdown" is Game::shutdown or    *)
(* the lambda of otserv.cpp, which call Dispatcher::shutdown; "work" is any *)
(* other task, which may add tasks and may begin the shutdown.              *)
Ops == {"work", "shutdown"}

Task == [id : 1..MaxTasks, front : BOOLEAN, expiry : Expiry, op : Ops]

NoTask == [id |-> 0, front |-> FALSE, expiry |-> "never", op |-> "work"]

\* Where the thread holds a task it took from the list.
Busy == {"Taken", "Exec", "Stopping", "Flush", "Stuck"}

TypeOK ==
  /\ taskList \in Seq(Task)
  /\ threadState \in ThreadStates
  /\ pc \in {"Test", "Lock", "Wait", "Woken", "Exited"} \cup Busy
  /\ current \in IF pc \in Busy THEN Task ELSE {NoTask}
  /\ owes \in SUBSET Producers
  /\ nextId \in 1..(MaxTasks + 1)
  /\ ran \in SUBSET Task
  /\ dropped \in SUBSET Task
  /\ refused \in SUBSET (1..MaxTasks)

\* start(): the thread is RUNNING and about to test its loop condition.
Init ==
  /\ taskList = <<>>
  /\ threadState = "RUNNING"
  /\ pc = "Test"
  /\ current = NoTask
  /\ owes = {}
  /\ nextId = 1
  /\ ran = {}
  /\ dropped = {}
  /\ refused = {}

TaskLockFree == pc \notin {"Flush", "Stuck"}

-----------------------------------------------------------------------------
(* addTask.                                                                 *)

\* Mutant: push_front and push_back exchanged.
SubmitSwapped(front, expiry, op) ==
  /\ TaskLockFree
  /\ nextId <= MaxTasks
  /\ nextId' = nextId + 1
  /\ LET task == [id |-> nextId, front |-> front, expiry |-> expiry, op |-> op]
     IN  \/ /\ threadState = "RUNNING"
            /\ taskList' = IF front THEN Append(taskList, task)
                                    ELSE <<task>> \o taskList
            /\ UNCHANGED refused
         \/ /\ threadState # "RUNNING"
            /\ refused' = refused \cup {nextId}
            /\ UNCHANGED taskList

Submit(front, expiry, op) ==
  /\ TaskLockFree
  /\ nextId <= MaxTasks
  /\ nextId' = nextId + 1
  /\ LET task == [id |-> nextId, front |-> front, expiry |-> expiry, op |-> op]
     IN  \/ /\ threadState = "RUNNING"
            /\ taskList' = IF front THEN <<task>> \o taskList
                                    ELSE Append(taskList, task)
            /\ UNCHANGED refused
         \/ /\ threadState # "RUNNING"
            /\ refused' = refused \cup {nextId}
            /\ UNCHANGED taskList

\* A producer remembers do_signal and notifies after it released the lock.
AddTask(p, front, expiry) ==
  /\ p \notin owes
  /\ Submit(front, expiry, "work")
  /\ owes' = IF threadState = "RUNNING" /\ taskList = <<>>
             THEN owes \cup {p} ELSE owes
  /\ UNCHANGED <<threadState, pc, current, ran, dropped>>

\* Mutant: the notify_one is missing.
NotifyNobody(p) ==
  /\ p \in owes
  /\ owes' = owes \ {p}
  /\ UNCHANGED <<taskList, threadState, pc, current, nextId, ran, dropped, refused>>

Notify(p) ==
  /\ p \in owes
  /\ owes' = owes \ {p}
  /\ pc' = IF pc = "Wait" THEN "Woken" ELSE pc
  /\ UNCHANGED <<taskList, threadState, current, nextId, ran, dropped, refused>>

\* A running task calls addTask; the only thread that waits is this one, so
\* its notify_one wakes nobody.
AddFromTask(front, expiry) ==
  /\ pc = "Exec"
  /\ Submit(front, expiry, "work")
  /\ UNCHANGED <<threadState, pc, current, owes, ran, dropped>>

Late(t) == [t EXCEPT !.expiry = "past"]

\* The clock passes the deadline of a task that has not been looked at yet.
Expire ==
  /\ \/ \E i \in DOMAIN taskList :
          /\ taskList[i].expiry = "pending"
          /\ taskList' = [taskList EXCEPT ![i] = Late(taskList[i])]
          /\ UNCHANGED current
     \/ /\ pc = "Taken"
        /\ current.expiry = "pending"
        /\ current' = Late(current)
        /\ UNCHANGED taskList
  /\ UNCHANGED <<threadState, pc, owes, nextId, ran, dropped, refused>>

-----------------------------------------------------------------------------
(* dispatcherThread.                                                        *)

Test ==
  /\ pc = "Test"
  /\ pc' = IF threadState # "TERMINATED" THEN "Lock" ELSE "Exited"
  /\ UNCHANGED <<taskList, threadState, current, owes, nextId, ran, dropped, refused>>

\* The second if of the loop, with the lock held.
Take ==
  /\ \/ /\ taskList # <<>>
        /\ threadState # "TERMINATED"
        /\ current' = Head(taskList)
        /\ taskList' = Tail(taskList)
        /\ pc' = "Taken"
     \/ /\ taskList = <<>> \/ threadState = "TERMINATED"
        /\ pc' = "Test"
        /\ UNCHANGED <<taskList, current>>
  /\ UNCHANGED <<threadState, owes, nextId, ran, dropped, refused>>

LockAndTake == pc = "Lock" /\ taskList # <<>> /\ Take

LockAndWait ==
  /\ pc = "Lock"
  /\ taskList = <<>>
  /\ pc' = "Wait"
  /\ UNCHANGED <<taskList, threadState, current, owes, nextId, ran, dropped, refused>>

\* A condition variable may wake its waiter unnotified.
SpuriousWake ==
  /\ pc = "Wait"
  /\ pc' = "Woken"
  /\ UNCHANGED <<taskList, threadState, current, owes, nextId, ran, dropped, refused>>

WokenTake == pc = "Woken" /\ Take

\* Mutant: hasExpired() is not asked.
BeginTaskAlways ==
  /\ pc = "Taken"
  /\ ran' = ran \cup {current}
  /\ pc' = "Exec"
  /\ UNCHANGED <<taskList, threadState, current, owes, nextId, dropped, refused>>

\* hasExpired() is asked once, just before the task would run.
BeginTask ==
  /\ pc = "Taken"
  /\ \/ /\ current.expiry # "past"
        /\ ran' = ran \cup {current}
        /\ pc' = "Exec"
        /\ UNCHANGED <<current, dropped>>
     \/ /\ current.expiry = "past"
        /\ dropped' = dropped \cup {current}
        /\ current' = NoTask
        /\ pc' = "Test"
        /\ UNCHANGED ran
  /\ UNCHANGED <<taskList, threadState, owes, nextId, refused>>

EndTask ==
  /\ pc = "Exec"
  /\ current.op = "work"
  /\ current' = NoTask
  /\ pc' = "Test"
  /\ UNCHANGED <<taskList, threadState, owes, nextId, ran, dropped, refused>>

-----------------------------------------------------------------------------
(* The shutdown, all of it on the dispatcher's own thread.                  *)

\* setGameState(GAME_STATE_SHUTDOWN), or the lambda of main: first the task
\* that will shut down is queued ...
RequestShutdown ==
  /\ pc = "Exec"
  /\ current.op = "work"
  /\ threadState = "RUNNING"
  /\ Submit(FALSE, "never", "shutdown")
  /\ pc' = "Stopping"
  /\ UNCHANGED <<threadState, current, owes, ran, dropped>>

\* ... and then stop() is called: tasks accepted in between stand behind it.
Stop ==
  /\ pc = "Stopping"
  /\ threadState' = "CLOSING"
  /\ pc' = "Exec"
  /\ UNCHANGED <<taskList, current, owes, nextId, ran, dropped, refused>>

\* shutdown() takes the lock and keeps it through flush().
Shutdown ==
  /\ pc = "Exec"
  /\ current.op = "shutdown"
  /\ threadState' = "TERMINATED"
  /\ pc' = "Flush"
  /\ UNCHANGED <<taskList, current, owes, nextId, ran, dropped, refused>>

\* flush() runs a task without asking whether it expired.  A task, or the
\* sendAll() after it, that calls addTask locks taskLock a second time on the
\* same thread and never returns.
FlushTask ==
  /\ pc = "Flush"
  /\ taskList # <<>>
  /\ ran' = ran \cup {Head(taskList)}
  /\ taskList' = Tail(taskList)
  /\ pc' \in {"Flush", "Stuck"}
  /\ UNCHANGED <<threadState, current, owes, nextId, dropped, refused>>

FlushEnd ==
  /\ pc = "Flush"
  /\ taskList = <<>>
  /\ current' = NoTask
  /\ pc' = "Test"
  /\ UNCHANGED <<taskList, threadState, owes, nextId, ran, dropped, refused>>

-----------------------------------------------------------------------------
ThreadStep == \/ Test \/ LockAndTake \/ LockAndWait \/ WokenTake
              \/ BeginTask \/ EndTask \/ Stop \/ Shutdown
              \/ FlushTask \/ FlushEnd

Next ==
  \/ \E p \in Producers, front \in BOOLEAN, expiry \in {"never", "pending"} :
        AddTask(p, front, expiry)
  \/ \E p \in Producers : Notify(p)
  \/ \E front \in BOOLEAN, expiry \in {"never", "pending"} : AddFromTask(front, expiry)
  \/ Expire
  \/ RequestShutdown
  \/ SpuriousWake
  \/ ThreadStep

Spec == Init /\ [][Next]_vars

(* The operating system schedules every thread, and every task returns:     *)
(* the dispatcher keeps going and a producer gets to its notify_one.        *)
Fairness == /\ WF_vars(ThreadStep)
            /\ \A p \in Producers : WF_vars(Notify(p))

FairSpec == Spec /\ Fairness

-----------------------------------------------------------------------------
(* Properties.                                                              *)

(* addTask signals only when the list was empty and does so after it let go *)
(* of the lock.  That is enough: whenever the thread sleeps with work       *)
(* queued, some producer is still on its way to notify_one (tasks.cpp 64,   *)
(* 83, 97).                                                                 *)
NoLostWakeup == pc = "Wait" /\ taskList # <<>> => owes # {}

\* The list is the front tasks, newest first, then the back tasks, oldest first.
Before(t, u) == IF t.front THEN u.front => t.id > u.id
                           ELSE ~u.front /\ t.id < u.id

ListOrdered == \A i, j \in DOMAIN taskList :
                  i < j => Before(taskList[i], taskList[j])

\* The tasks that have left the list.
Gone == ran \cup dropped \cup (IF pc = "Taken" THEN {current} ELSE {})

BackAfterGone == \A t \in Gone, i \in DOMAIN taskList :
                    ~t.front /\ ~taskList[i].front => t.id < taskList[i].id

(* Tasks added at the back run in the order of their acceptance, however    *)
(* many are pushed to the front in between.  Protocol and connection code   *)
(* binds a raw this into tasks and relies on it: the task that deletes the  *)
(* object is queued last and must run last (protocol.cpp, connection.cpp).  *)
BackOrder == ListOrdered /\ BackAfterGone

\* No two places account for the same task.
ListNames ==
  /\ \A i \in DOMAIN taskList : taskList[i].id < nextId /\ taskList[i].id \notin refused
  /\ \A i, j \in DOMAIN taskList : i # j => taskList[i].id # taskList[j].id

GoneNames ==
  \A t \in Gone : /\ t.id < nextId
                  /\ t.id \notin refused
                  /\ \A i \in DOMAIN taskList : t.id # taskList[i].id

FateNames ==
  /\ \A r \in refused : r < nextId
  /\ \A t \in ran, u \in dropped : t.id # u.id
  /\ pc = "Taken" => \A t \in ran \cup dropped : t.id # current.id

(* A task object is queued once, taken once, and run or deleted once: the   *)
(* raw Task* of tasks.cpp is never run twice and never run after its delete.*)
OneFate == ListNames /\ GoneNames /\ FateNames

(* The thread leaves its loop only when every task it ever accepted was run *)
(* or had expired: tasks that slipped in between the shutdown task and      *)
(* stop() are not lost.                                                     *)
NothingLeftBehind ==
  pc = "Exited" => /\ taskList = <<>>
                   /\ \A i \in 1..(nextId - 1) :
                        i \in refused \cup {t.id : t \in ran \cup dropped}

\* What a request has come to, for the abstract service.
FateOf(i) ==
  IF i >= nextId THEN "unknown"
  ELSE IF i \in refused THEN "refused"
  ELSE IF \E t \in ran : t.id = i THEN "ran"
  ELSE IF \E t \in dropped : t.id = i THEN "discarded"
  ELSE IF \E t \in Range(taskList) \cup {current} : t.id = i /\ t.expiry = "past"
       THEN "late" ELSE "pending"

Service == INSTANCE TaskService WITH
  fate  <- [i \in 1..MaxTasks |-> FateOf(i)],
  phase <- CASE threadState = "RUNNING" -> "open"
             [] threadState = "CLOSING" -> "closed"
             [] threadState = "TERMINATED" -> "draining"

(* The dispatcher implements the abstract service: a task runs at most      *)
(* once, is refused only after stop(), is discarded only when late, and     *)
(* runs late only in the flush of shutdown().                               *)
ImplementsService == Service!Spec

(* Every accepted task is settled in the end, unless the flush deadlocked   *)
(* on its own lock.                                                         *)
EverySettled ==
  \A i \in 1..MaxTasks :
    (\E t \in Range(taskList) : t.id = i)
      ~> \/ pc = "Stuck"
         \/ \E t \in ran \cup dropped : t.id = i
=============================================================================
