----------------------------- MODULE Scheduler ------------------------------
(* The scheduler of scheduler.cpp: a thread that keeps a priority queue of  *)
(* delayed events and hands each one to the dispatcher when it is due.  It  *)
(* sleeps until the earliest deadline; addEvent wakes it when the new event *)
(* is earlier than everything queued.  An event is stopped by erasing its   *)
(* id from eventIds and stays queued until its deadline.                    *)
(*                                                                          *)
(* Every critical section of eventLock is one step: none of them blocks.    *)
EXTENDS Integers, FiniteSets

CONSTANTS
  Callers,    \* threads that call addEvent, stopEvent and shutdown
  MaxEvents,  \* bound on the number of addEvent calls
  MaxTime,    \* bound on the clock
  IdMod       \* event ids are counted modulo IdMod (2^32 in the code)

ASSUME SchedulerAssumption == /\ MaxEvents \in Nat
                              /\ MaxTime \in Nat
                              /\ IdMod \in Nat /\ IdMod > 1

VARIABLES
  now,          \* system_clock::now()
  eventList,    \* Scheduler::eventList, a set of events; the top is any earliest one
  eventIds,     \* Scheduler::eventIds
  lastEventId,  \* Scheduler::lastEventId
  threadState,  \* Scheduler::threadState
  pc,           \* where schedulerThread stands
  deadline,     \* what wait_until was given; Forever for wait
  current,      \* the event popped and not yet handed over, or NoEvent
  owes,         \* callers between eventLock.unlock() and notify_one()
  nextKey,      \* name of the next event object
  fired,        \* history: the events handed to the dispatcher
  stopped,      \* history: the events a stopEvent returned true for
  slipped       \* history: shutdown() found the thread between its loop test and lock()

vars == <<now, eventList, eventIds, lastEventId, threadState, pc, deadline, current,
          owes, nextKey, fired, stopped, slipped>>

Forever == MaxTime + 1

Ids == 1..(IdMod - 1)

\* key is the object's identity; the program itself only has the id.
Event == [key : 1..MaxEvents, id : Ids, cycle : 0..MaxTime]

NoEvent == [key |-> 0, id |-> 0, cycle |-> 0]

TypeOK ==
  /\ now \in 0..MaxTime
  /\ eventList \in SUBSET Event
  /\ eventIds \in SUBSET Ids
  /\ lastEventId \in 0..(IdMod - 1)
  /\ threadState \in {"RUNNING", "CLOSING", "TERMINATED"}
  /\ pc \in {"Test", "Lock", "Wait", "Woken", "Fire", "Exited"}
  /\ deadline \in 0..Forever
  /\ current \in IF pc = "Fire" THEN Event ELSE {NoEvent}
  /\ owes \in SUBSET Callers
  /\ nextKey \in 1..(MaxEvents + 1)
  /\ fired \in SUBSET Event
  /\ stopped \in SUBSET Event
  /\ slipped \in BOOLEAN

\* start(): the thread is RUNNING and about to test its loop condition.
Init ==
  /\ now = 0
  /\ eventList = {}
  /\ eventIds = {}
  /\ lastEventId = 0
  /\ threadState = "RUNNING"
  /\ pc = "Test"
  /\ deadline = Forever
  /\ current = NoEvent
  /\ owes = {}
  /\ nextKey = 1
  /\ fired = {}
  /\ stopped = {}
  /\ slipped = FALSE

Tick ==
  /\ now < MaxTime
  /\ now' = now + 1
  /\ UNCHANGED <<eventList, eventIds, lastEventId, threadState, pc, deadline, current,
                 owes, nextKey, fired, stopped, slipped>>

IsTop(e) == e \in eventList /\ \A f \in eventList : e.cycle <= f.cycle

-----------------------------------------------------------------------------
(* The callers.                                                             *)

\* The counter skips 0, which means "no event".
NextId == IF lastEventId + 1 = IdMod THEN 1 ELSE lastEventId + 1

\* Mutant: the caller signals only when the list was empty, as addTask does.
AddEventEmptySignal(c, cycle) ==
  /\ c \notin owes
  /\ nextKey <= MaxEvents
  /\ nextKey' = nextKey + 1
  /\ \/ /\ threadState = "RUNNING"
        /\ lastEventId' = NextId
        /\ eventIds' = eventIds \cup {NextId}
        /\ eventList' = eventList \cup {[key |-> nextKey, id |-> NextId, cycle |-> cycle]}
        /\ owes' = IF eventList = {} THEN owes \cup {c} ELSE owes
     \/ /\ threadState # "RUNNING"
        /\ UNCHANGED <<lastEventId, eventIds, eventList, owes>>
  /\ UNCHANGED <<now, threadState, pc, deadline, current, fired, stopped, slipped>>

(* addEvent of a task whose deadline is cycle.  The deadline was fixed when *)
(* the task was created, so it may have passed by the time the lock is got. *)
AddEvent(c, cycle) ==
  /\ c \notin owes
  /\ nextKey <= MaxEvents
  /\ nextKey' = nextKey + 1
  /\ \/ /\ threadState = "RUNNING"
        /\ lastEventId' = NextId
        /\ eventIds' = eventIds \cup {NextId}
        /\ eventList' = eventList \cup {[key |-> nextKey, id |-> NextId, cycle |-> cycle]}
        /\ owes' = IF \A e \in eventList : cycle < e.cycle THEN owes \cup {c} ELSE owes
     \/ /\ threadState # "RUNNING"
        /\ UNCHANGED <<lastEventId, eventIds, eventList, owes>>
  /\ UNCHANGED <<now, threadState, pc, deadline, current, fired, stopped, slipped>>

Notify(c) ==
  /\ c \in owes
  /\ owes' = owes \ {c}
  /\ pc' = IF pc = "Wait" THEN "Woken" ELSE pc
  /\ UNCHANGED <<now, eventList, eventIds, lastEventId, threadState, deadline, current,
                 nextKey, fired, stopped, slipped>>

(* stopEvent(id) that returns true.  The caller means the one event it got  *)
(* this id for; after the counter wrapped more than one may carry it.       *)
StopEvent(id) ==
  /\ id \in eventIds
  /\ eventIds' = eventIds \ {id}
  /\ stopped' = stopped \cup {e \in eventList : e.id = id}
  /\ UNCHANGED <<now, eventList, lastEventId, threadState, pc, deadline, current, owes,
                 nextKey, fired, slipped>>

Stop ==
  /\ threadState = "RUNNING"
  /\ threadState' = "CLOSING"
  /\ UNCHANGED <<now, eventList, eventIds, lastEventId, pc, deadline, current, owes,
                 nextKey, fired, stopped, slipped>>

\* Mutant: shutdown() does not notify.
ShutdownSilent(c) ==
  /\ threadState = "CLOSING"
  /\ c \notin owes
  /\ threadState' = "TERMINATED"
  /\ eventList' = {}
  /\ eventIds' = {}
  /\ slipped' = (pc = "Lock")
  /\ UNCHANGED <<now, lastEventId, pc, deadline, current, owes, nextKey, fired, stopped>>

Shutdown(c) ==
  /\ threadState = "CLOSING"
  /\ c \notin owes
  /\ threadState' = "TERMINATED"
  /\ eventList' = {}
  /\ eventIds' = {}
  /\ owes' = owes \cup {c}
  /\ slipped' = (pc = "Lock")
  /\ UNCHANGED <<now, lastEventId, pc, deadline, current, nextKey, fired, stopped>>

-----------------------------------------------------------------------------
(* schedulerThread.                                                         *)

\* Mutant: the loop ends when the scheduler is stopped.
TestRunning ==
  /\ pc = "Test"
  /\ pc' = IF threadState = "RUNNING" THEN "Lock" ELSE "Exited"
  /\ UNCHANGED <<now, eventList, eventIds, lastEventId, threadState, deadline, current,
                 owes, nextKey, fired, stopped, slipped>>

Test ==
  /\ pc = "Test"
  /\ pc' = IF threadState # "TERMINATED" THEN "Lock" ELSE "Exited"
  /\ UNCHANGED <<now, eventList, eventIds, lastEventId, threadState, deadline, current,
                 owes, nextKey, fired, stopped, slipped>>

\* wait, or wait_until(eventList.top()->getCycle()), which lets go of the lock.
BeginWait ==
  /\ pc = "Lock"
  /\ \/ eventList = {} /\ deadline' = Forever
     \/ \E e \in eventList : IsTop(e) /\ deadline' = e.cycle
  /\ pc' = "Wait"
  /\ UNCHANGED <<now, eventList, eventIds, lastEventId, threadState, current, owes,
                 nextKey, fired, stopped, slipped>>

TimeIsUp == deadline # Forever /\ now >= deadline

DeadlinePasses ==
  /\ pc = "Wait"
  /\ TimeIsUp
  /\ pc' = "Woken"
  /\ UNCHANGED <<now, eventList, eventIds, lastEventId, threadState, deadline, current,
                 owes, nextKey, fired, stopped, slipped>>

SpuriousWake ==
  /\ pc = "Wait"
  /\ pc' = "Woken"
  /\ UNCHANGED <<now, eventList, eventIds, lastEventId, threadState, deadline, current,
                 owes, nextKey, fired, stopped, slipped>>

\* Mutant: the id of the popped event is not looked up.
PopTopUnchecked ==
  /\ pc = "Woken"
  /\ TimeIsUp /\ threadState # "TERMINATED"
  /\ \E e \in eventList :
        /\ IsTop(e)
        /\ eventList' = eventList \ {e}
        /\ eventIds' = eventIds \ {e.id}
        /\ current' = e /\ pc' = "Fire"
  /\ UNCHANGED <<now, lastEventId, threadState, deadline, owes, nextKey, fired, stopped, slipped>>

(* The lock is held again.  wait_until reports a timeout when the deadline  *)
(* has passed by now, whatever woke the thread.                             *)
PopTop ==
  /\ pc = "Woken"
  /\ TimeIsUp /\ threadState # "TERMINATED"
  /\ \E e \in eventList :
        /\ IsTop(e)
        /\ eventList' = eventList \ {e}
        /\ eventIds' = eventIds \ {e.id}
        /\ \/ e.id \in eventIds /\ current' = e /\ pc' = "Fire"
           \/ e.id \notin eventIds /\ pc' = "Test" /\ UNCHANGED current
  /\ UNCHANGED <<now, lastEventId, threadState, deadline, owes, nextKey, fired, stopped, slipped>>

WakeForNothing ==
  /\ pc = "Woken"
  /\ ~TimeIsUp \/ threadState = "TERMINATED"
  /\ pc' = "Test"
  /\ UNCHANGED <<now, eventList, eventIds, lastEventId, threadState, deadline, current,
                 owes, nextKey, fired, stopped, slipped>>

\* g_dispatcher.addTask(task, true), with eventLock released.
Fire ==
  /\ pc = "Fire"
  /\ fired' = fired \cup {current}
  /\ current' = NoEvent
  /\ pc' = "Test"
  /\ UNCHANGED <<now, eventList, eventIds, lastEventId, threadState, deadline, owes,
                 nextKey, stopped, slipped>>

-----------------------------------------------------------------------------
ThreadStep == \/ Test \/ BeginWait \/ DeadlinePasses \/ PopTop
              \/ WakeForNothing \/ Fire

Next ==
  \/ Tick
  \/ \E c \in Callers, cycle \in 0..MaxTime : AddEvent(c, cycle)
  \/ \E c \in Callers : Notify(c)
  \/ \E id \in Ids : StopEvent(id)
  \/ Stop
  \/ \E c \in Callers : Shutdown(c)
  \/ SpuriousWake
  \/ ThreadStep

Spec == Init /\ [][Next]_vars

\* The clock advances and the operating system schedules every thread.
Fairness == /\ WF_vars(Tick)
            /\ WF_vars(ThreadStep)
            /\ \A c \in Callers : WF_vars(Notify(c))

FairSpec == Spec /\ Fairness

-----------------------------------------------------------------------------
(* Properties.                                                              *)

(* The thread never sleeps past the earliest deadline: when an event        *)
(* earlier than the one it sleeps for has been queued, the caller that      *)
(* queued it has still to notify (scheduler.cpp 95-108, and 43-46 for the   *)
(* thread that finds the list as the caller left it).                       *)
NoOversleep ==
  pc = "Wait" /\ (\E e \in eventList : e.cycle < deadline) => owes # {}

(* "ok we had a timeout, so there has to be an event we have to execute"    *)
(* (scheduler.cpp 51): top() and pop() on an empty queue would be undefined.*)
TimeoutHasEvent ==
  pc \in {"Wait", "Woken"} /\ deadline # Forever /\ threadState # "TERMINATED"
    => \E e \in eventList : e.cycle <= deadline

\* The events that left the queue to be run.
Due == fired \cup (IF pc = "Fire" THEN {current} ELSE {})

(* No event is handed over before its time, though the thread pops whatever *)
(* is on top when it wakes and not the event it went to sleep for.          *)
NeverEarly == \A e \in Due : e.cycle <= now

\* Fewer ids than 2^32 - 1 have been given out, so each names one event.
NoWrap == nextKey <= IdMod

(* While ids are unique, an event that stopEvent returned true for is never *)
(* run, and one that was not stopped can still be: its id is live exactly   *)
(* as long as it is queued (scheduler.cpp 56-62, 90, 122-128).              *)
StopIsFinal == NoWrap => /\ stopped \cap Due = {}
                         /\ threadState # "TERMINATED" =>
                              eventIds = {e.id : e \in eventList \ stopped}

\* The same event is not handed over twice, nor queued again once popped.
RunsOnce == /\ \A e \in Due : e \notin eventList
            /\ pc = "Fire" => current \notin fired

(* Every event is run unless it is stopped or the server shuts down, as     *)
(* long as ids are unique: after a wrap, stopping an event may take the id  *)
(* from another one that carries it, and that one is dropped when it is due *)
(* (scheduler.cpp 56-62, 82-90).                                            *)
EventFires ==
  \A k \in 1..MaxEvents :
    (\E e \in eventList : e.key = k)
      ~> \/ \E e \in fired \cup stopped : e.key = k
         \/ threadState = "TERMINATED"
         \/ ~NoWrap

(* After shutdown() the thread leaves its loop, wherever shutdown() found   *)
(* it, with one exception: a thread that has tested threadState and not yet *)
(* taken the lock finds the list empty, waits, and the notify_one may be    *)
(* over by then (scheduler.cpp 39-44, 151).  join() then hangs.             *)
ShutdownExits == threadState = "TERMINATED" /\ ~slipped ~> pc = "Exited"

=============================================================================
