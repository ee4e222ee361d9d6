------------------------ MODULE DatabaseTasksProofs -------------------------
(* Proofs about the asynchronous queries for any callers and any number of  *)
(* queries and, in the last section, about the market, whose expiry queries *)
(* are some of them, for any players, amounts and prices.                   *)
EXTENDS DatabaseTasks, Market, SequenceTheorems, FiniteSetTheorems, WellFoundedInduction,
        TLAPS

\* A query joins the list at its end.
LEMMA Appended ==
  ASSUME NEW s \in Seq(Ids), NEW e \in Ids
  PROVE  /\ Append(s, e) \in Seq(Ids)
         /\ Len(Append(s, e)) = Len(s) + 1
         /\ \A i \in 1..Len(s) : Append(s, e)[i] = s[i]
         /\ Append(s, e)[Len(s) + 1] = e
         /\ Append(s, e) # <<>>
  BY AppendProperties

\* The first query leaves the list.
LEMMA Popped ==
  ASSUME NEW s \in Seq(Ids), s # <<>>
  PROVE  /\ Head(s) \in Ids
         /\ Head(s) = s[1]
         /\ Tail(s) \in Seq(Ids)
         /\ Len(Tail(s)) = Len(s) - 1
         /\ Len(s) \in Nat /\ Len(s) > 0
         /\ \A i \in 1..(Len(s) - 1) : Tail(s)[i] = s[i + 1]
  BY HeadTailProperties

\* The flush pops only what it has just run.
FlushInv == flusher = "pop" => tasks # <<>>

\* How often something happened is a number, also after it happened once more.
LEMMA CountUp ==
  ASSUME NEW f \in [Ids -> Nat], NEW i \in Ids
  PROVE  [f EXCEPT ![i] = @ + 1] \in [Ids -> Nat]
  OBVIOUS

\* A query with a callback posts it, one without does not.
LEMMA PostedType ==
  ASSUME TypeOK, NEW i \in Ids
  PROVE  PostedBy(i) \in [Ids -> Nat]
  BY CountUp DEF PostedBy, TypeOK

\* Every step keeps the types, ...
LEMMA TypeStep == TypeOK /\ FlushInv /\ [Next]_vars => TypeOK' /\ FlushInv'
  <1> SUFFICES ASSUME TypeOK, FlushInv, [Next]_vars PROVE TypeOK' /\ FlushInv'
    OBVIOUS
  <1> USE DEF FlushInv, InFlight
  <1>1. ASSUME NEW c \in Callers, AddTask(c) PROVE TypeOK' /\ FlushInv'
    <2>1. nextId \in Ids /\ nextId' \in 1..(MaxTasks + 1)
      BY <1>1, DatabaseTasksAssumption DEF AddTask, TypeOK, Ids
    <2>2. tasks' \in Seq(Ids)
      BY <1>1, <2>1, Appended DEF AddTask, TypeOK
    <2> QED BY <1>1, <2>1, <2>2 DEF AddTask, TypeOK, TaskLockFree
  <1>2. ASSUME NEW c \in Callers, Notify(c) PROVE TypeOK' /\ FlushInv'
    BY <1>2 DEF Notify, TypeOK
  <1>3. ASSUME TakeFront PROVE TypeOK' /\ FlushInv'
    BY <1>3, Popped DEF TakeFront, TypeOK
  <1>0. ~Dangling => task \in Ids
    BY ElementOfSeq DEF Dangling, Queued, TypeOK
  <1>4. ASSUME RunQuery PROVE TypeOK' /\ FlushInv'
    <2>1. runs' \in [Ids -> Nat]
      BY <1>4, <1>0, CountUp DEF RunQuery, Fault, TypeOK
    <2> QED BY <1>4, <2>1 DEF RunQuery, Fault, TypeOK
  <1>5. ASSUME PostCallback PROVE TypeOK' /\ FlushInv'
    <2>1. posted' \in [Ids -> Nat]
      BY <1>5, <1>0, PostedType DEF PostCallback, Fault, TypeOK
    <2> QED BY <1>5, <2>1 DEF PostCallback, Fault, TypeOK
  <1>6. ASSUME PopFront PROVE TypeOK' /\ FlushInv'
    <2>1. flusher # "pop" /\ flusher' = flusher
      BY <1>6 DEF PopFront, Fault, TaskLockFree
    <2>2. CASE tasks # <<>>
      <3>1. tasks' \in Seq(Ids)
        BY <1>6, <2>2, Popped DEF PopFront, Fault, TypeOK
      <3>2. /\ pc' = "Test" /\ task' = 0 /\ 0 \in 0..MaxTasks
            /\ UNCHANGED <<threadState, flusher, owes, nextId, runs, posted, caught, slipped>>
        BY <1>6, <2>2, DatabaseTasksAssumption DEF PopFront, Fault
      <3> QED BY <2>1, <3>1, <3>2 DEF TypeOK
    <2>3. CASE tasks = <<>>
      <3>1. /\ pc = "Pop" /\ pc' = "Fault"
            /\ UNCHANGED <<tasks, threadState, task, flusher, owes, nextId, runs, posted,
                           caught, slipped>>
        BY <1>6, <2>3 DEF PopFront, Fault
      <3> QED BY <2>1, <3>1 DEF TypeOK
    <2> QED BY <2>2, <2>3
  <1>7. ASSUME Shutdown PROVE TypeOK' /\ FlushInv'
    <2>1. caught' \in 0..MaxTasks
      BY <1>7, DatabaseTasksAssumption DEF Shutdown, TypeOK, Ids
    <2> QED BY <1>7, <2>1 DEF Shutdown, TypeOK
  <1>8. ASSUME FlushRun PROVE TypeOK' /\ FlushInv'
    <2>1. Head(tasks) \in Ids
      BY <1>8, Popped DEF FlushRun, TypeOK
    <2>2. runs' \in [Ids -> Nat]
      BY <1>8, <2>1, CountUp DEF FlushRun, TypeOK
    <2>3. posted' \in [Ids -> Nat]
      BY <1>8, <2>1, PostedType DEF FlushRun
    <2> QED BY <1>8, <2>2, <2>3 DEF FlushRun, TypeOK
  <1>9. ASSUME FlushPop PROVE TypeOK' /\ FlushInv'
    BY <1>9, Popped DEF FlushPop, TypeOK
  <1>10. ASSUME NEW c \in Callers, FlushEnd(c) PROVE TypeOK' /\ FlushInv'
    BY <1>10 DEF FlushEnd, TypeOK
  <1>11. ASSUME Stop \/ Test \/ LockAndWait \/ SpuriousWake PROVE TypeOK' /\ FlushInv'
    BY <1>11 DEF Stop, Test, LockAndWait, SpuriousWake, TypeOK
  <1>12. CASE UNCHANGED vars
    BY <1>12 DEF vars, TypeOK
  <1> QED
    BY <1>1, <1>2, <1>3, <1>4, <1>5, <1>6, <1>7, <1>8, <1>9, <1>10, <1>11, <1>12
       DEF Next, ThreadStep, FlushStep

\* ... and they hold for good.
LEMMA TypeAlways == Spec => [](TypeOK /\ FlushInv)
  <1>1. Init => TypeOK /\ FlushInv
    <2> SUFFICES ASSUME Init PROVE TypeOK /\ FlushInv
      OBVIOUS
    <2>1. 1 \in 1..(MaxTasks + 1) /\ 0 \in 0..MaxTasks
      BY DatabaseTasksAssumption
    <2>2. runs \in [Ids -> Nat] /\ posted \in [Ids -> Nat]
      BY DEF Init
    <2>3. tasks \in Seq(Ids)
      BY DEF Init
    <2> QED BY <2>1, <2>2, <2>3 DEF Init, TypeOK, FlushInv, InFlight
  <1> QED BY <1>1, TypeStep, PTL DEF Spec

\* The list, the states and the counters of databasetasks.cpp keep their types.
THEOREM TypeCorrect == Spec => []TypeOK
  BY TypeAlways, PTL

(* While the thread sleeps, queries that are queued have a caller on its    *)
(* way to notify it, or are being drained.                                  *)
THEOREM WakeupNeverLost == Spec => []NoLostWakeup
  <1>1. Init => NoLostWakeup
    BY DEF Init, NoLostWakeup
  <1>2. TypeOK /\ NoLostWakeup /\ [Next]_vars => NoLostWakeup'
    <2> SUFFICES ASSUME TypeOK, NoLostWakeup, [Next]_vars PROVE NoLostWakeup'
      OBVIOUS
    <2> USE DEF NoLostWakeup
    <2>1. ASSUME NEW c \in Callers, AddTask(c) PROVE NoLostWakeup'
      BY <2>1 DEF AddTask, TaskLockFree
    <2>2. ASSUME NEW c \in Callers, Notify(c) PROVE NoLostWakeup'
      BY <2>2 DEF Notify
    <2>3. ASSUME TakeFront PROVE NoLostWakeup'
      BY <2>3 DEF TakeFront
    <2>4. ASSUME RunQuery \/ PostCallback PROVE NoLostWakeup'
      BY <2>4 DEF RunQuery, PostCallback, Fault
    <2>5. ASSUME PopFront PROVE NoLostWakeup'
      BY <2>5 DEF PopFront, Fault
    <2>6. ASSUME Stop \/ Test \/ LockAndWait \/ SpuriousWake \/ Shutdown PROVE NoLostWakeup'
      BY <2>6 DEF Stop, Test, LockAndWait, SpuriousWake, Shutdown
    <2>7. ASSUME FlushRun \/ FlushPop \/ (\E c \in Callers : FlushEnd(c)) PROVE NoLostWakeup'
      BY <2>7 DEF FlushRun, FlushPop, FlushEnd
    <2>8. CASE UNCHANGED vars
      BY <2>8 DEF vars
    <2> QED BY <2>1, <2>2, <2>3, <2>4, <2>5, <2>6, <2>7, <2>8 DEF Next, ThreadStep, FlushStep
  <1> QED BY <1>1, <1>2, TypeCorrect, PTL DEF Spec

-----------------------------------------------------------------------------
(* How often a query runs.  The list always holds the newest accepted names *)
(* without a gap, from First on, so a state is described by First: what is  *)
(* below it has been popped, what is above it has not been touched, and at  *)
(* First itself the thread and the flush may each have run the query.       *)

First == nextId - Len(tasks)

OneIf(b) == IF b THEN 1 ELSE 0

\* What has been done for the query at the front.
FrontRuns == OneIf(pc \in {"Post", "Pop"} /\ task = First) + OneIf(flusher = "pop")
FrontPosts == IF First \in WithCallback
              THEN OneIf(pc = "Pop" /\ task = First) + OneIf(flusher = "pop") ELSE 0

WindowInv == /\ First >= 1
             /\ \A k \in DOMAIN tasks : tasks[k] = First + k - 1

CountInv ==
  /\ \A i \in Ids : i < First => /\ 1 <= runs[i]
                                 /\ runs[i] <= IF i = caught THEN 2 ELSE 1
                                 /\ posted[i] <= runs[i]
                                 /\ i \in WithCallback => posted[i] > 0
  /\ \A i \in Ids : i > First => runs[i] = 0 /\ posted[i] = 0
  /\ First \in Ids => runs[First] = FrontRuns /\ posted[First] = FrontPosts

FlightInv ==
  /\ pc \in InFlight => /\ task \in Ids
                        /\ task <= First
                        /\ threadState = "TERMINATED" => caught = task
                        /\ threadState # "TERMINATED" => tasks # <<>> /\ task = First
  /\ tasks = <<>> /\ pc \in InFlight => task < First
  /\ pc = "Fault" => caught # 0
  /\ (flusher = "idle") <=> (threadState # "TERMINATED")
  /\ threadState # "TERMINATED" => caught = 0
  /\ flusher = "done" => tasks = <<>>

QueryInv == WindowInv /\ CountInv /\ FlightInv

\* The list in words of names: it is the window First..nextId-1.
LEMMA FrontFacts ==
  ASSUME TypeOK, WindowInv
  PROVE  /\ Len(tasks) \in Nat /\ nextId \in Nat /\ First \in Nat /\ First >= 1
         /\ tasks # <<>> => First \in Ids /\ Head(tasks) = First /\ First < nextId
         /\ tasks = <<>> => First = nextId
         /\ Queued = First..(nextId - 1)
  <1>1. Len(tasks) \in Nat /\ nextId \in Nat /\ First \in Nat /\ First >= 1
        /\ DOMAIN tasks = 1..Len(tasks) /\ nextId <= MaxTasks + 1
    BY DatabaseTasksAssumption DEF TypeOK, WindowInv, First
  <1>2. tasks # <<>> => First \in Ids /\ Head(tasks) = First /\ First < nextId
    <2> SUFFICES ASSUME tasks # <<>>
                 PROVE  First \in Ids /\ Head(tasks) = First /\ First < nextId
      OBVIOUS
    <2>1. Len(tasks) > 0 /\ Head(tasks) = tasks[1]
      BY Popped DEF TypeOK
    <2>2. Head(tasks) = First
      BY <1>1, <2>1 DEF WindowInv
    <2>3. First < nextId
      BY <1>1, <2>1 DEF First
    <2> QED BY <1>1, <2>2, <2>3, DatabaseTasksAssumption DEF Ids
  <1>3. tasks = <<>> => First = nextId
    BY <1>1 DEF First
  <1>4. Queued = First..(nextId - 1)
    <2>1. ASSUME NEW q \in Queued PROVE q \in First..(nextId - 1)
      <3>1. PICK k \in 1..Len(tasks) : q = First + k - 1
        BY <1>1 DEF Queued, WindowInv
      <3> QED BY <1>1, <3>1 DEF First
    <2>2. ASSUME NEW q \in First..(nextId - 1) PROVE q \in Queued
      <3>1. q - First + 1 \in 1..Len(tasks)
        BY <1>1 DEF First
      <3>2. tasks[q - First + 1] = q
        BY <1>1, <3>1 DEF WindowInv
      <3> QED BY <1>1, <3>1, <3>2 DEF Queued
    <2> QED BY <2>1, <2>2
  <1> QED BY <1>1, <1>2, <1>3, <1>4

\* addTask: the window grows by the next name, which never ran.
LEMMA AddKeeps ==
  ASSUME TypeOK, QueryInv, NEW c \in Callers, AddTask(c)
  PROVE  QueryInv'
  <1>1. /\ First \in Nat /\ Len(tasks) \in Nat /\ nextId \in Nat /\ First >= 1
        /\ tasks \in Seq(Ids) /\ DOMAIN tasks = 1..Len(tasks)
    BY FrontFacts DEF QueryInv, TypeOK
  <1>2. /\ nextId \in Ids /\ nextId' = nextId + 1 /\ tasks' = Append(tasks, nextId)
        /\ UNCHANGED <<threadState, pc, task, flusher, runs, posted, caught>>
        /\ threadState = "RUNNING"
    BY <1>1, DatabaseTasksAssumption DEF AddTask, Ids, TypeOK
  <1>3. /\ Len(tasks') = Len(tasks) + 1 /\ DOMAIN tasks' = 1..(Len(tasks) + 1)
        /\ \A k \in 1..Len(tasks) : tasks'[k] = tasks[k]
        /\ tasks'[Len(tasks) + 1] = nextId /\ tasks' # <<>>
    BY <1>1, <1>2, Appended
  <1>4. First' = First
    BY <1>1, <1>2, <1>3 DEF First
  <1>5. WindowInv'
    <2> SUFFICES ASSUME NEW k \in DOMAIN tasks' PROVE tasks'[k] = First + k - 1
      BY <1>1, <1>4 DEF WindowInv
    <2>1. CASE k \in 1..Len(tasks)
      BY <1>1, <1>3, <2>1 DEF QueryInv, WindowInv
    <2>2. CASE k = Len(tasks) + 1
      BY <1>1, <1>3, <2>2 DEF First
    <2> QED BY <1>1, <1>3, <2>1, <2>2
  <1>6. CountInv'
    BY <1>2, <1>4 DEF QueryInv, CountInv, FrontRuns, FrontPosts
  <1>7. FlightInv'
    BY <1>2, <1>3, <1>4 DEF QueryInv, FlightInv
  <1> QED BY <1>5, <1>6, <1>7 DEF QueryInv

\* A pop_front() moves the window by one.
LEMMA TailWindow ==
  ASSUME TypeOK, WindowInv, tasks # <<>>, tasks' = Tail(tasks), nextId' = nextId
  PROVE  WindowInv' /\ First' = First + 1
  <1>1. /\ First \in Nat /\ First >= 1 /\ nextId \in Nat /\ tasks \in Seq(Ids)
        /\ DOMAIN tasks = 1..Len(tasks) /\ Len(tasks) \in Nat
    BY FrontFacts DEF TypeOK
  <1>2. /\ Len(tasks') = Len(tasks) - 1 /\ Len(tasks) > 0
        /\ DOMAIN tasks' = 1..(Len(tasks) - 1)
        /\ \A k \in 1..(Len(tasks) - 1) : tasks'[k] = tasks[k + 1]
    BY <1>1, Popped
  <1>3. First' = First + 1
    BY <1>1, <1>2 DEF First
  <1>4. ASSUME NEW k \in DOMAIN tasks' PROVE tasks'[k] = First' + k - 1
    <2>1. k + 1 \in DOMAIN tasks /\ tasks'[k] = tasks[k + 1] /\ k \in Nat
      BY <1>1, <1>2
    <2>2. tasks[k + 1] = First + (k + 1) - 1
      BY <2>1 DEF WindowInv
    <2> QED BY <1>1, <1>3, <2>1, <2>2
  <1>5. First' >= 1
    BY <1>1, <1>3
  <1> QED BY <1>3, <1>4, <1>5 DEF WindowInv

\* The thread removes the query it ran.
LEMMA PopFrontKeeps ==
  ASSUME TypeOK, QueryInv, PopFront
  PROVE  QueryInv'
  <1>1. CASE tasks = <<>>
    <2>1. pc' = "Fault" /\ UNCHANGED <<tasks, threadState, task, flusher, nextId, runs, posted, caught>>
      BY <1>1 DEF PopFront, Fault
    <2>2. First' = First
      BY <2>1 DEF First
    <2>3. First = nextId /\ task < First /\ task \in Ids
      BY <1>1, FrontFacts DEF QueryInv, FlightInv, PopFront, InFlight
    <2>4. caught # 0 /\ First # task
      <3>1. threadState = "TERMINATED" /\ caught = task
        BY <1>1 DEF PopFront, QueryInv, FlightInv, InFlight
      <3> QED BY <2>3, <3>1 DEF Ids
    <2>5. CountInv'
      BY <2>1, <2>2, <2>4 DEF QueryInv, CountInv, FrontRuns, FrontPosts
    <2>6. WindowInv' /\ FlightInv'
      BY <2>1, <2>2, <2>4 DEF QueryInv, WindowInv, FlightInv, InFlight
    <2> QED BY <2>5, <2>6 DEF QueryInv
  <1>2. CASE tasks # <<>>
    <2>1. /\ tasks' = Tail(tasks) /\ task' = 0 /\ pc' = "Test"
          /\ UNCHANGED <<threadState, flusher, nextId, runs, posted, caught>>
      BY <1>2 DEF PopFront, Fault
    <2>2. WindowInv' /\ First' = First + 1 /\ First \in Nat /\ First \in Ids
      BY <1>2, <2>1, TailWindow, FrontFacts DEF QueryInv
    <2>3. flusher = "idle" /\ threadState # "TERMINATED" /\ task = First /\ pc = "Pop"
      BY <1>2 DEF PopFront, TaskLockFree, TypeOK, QueryInv, FlightInv, InFlight
    <2>4. runs[First] = 1 /\ (posted[First] = IF First \in WithCallback THEN 1 ELSE 0)
      BY <2>2, <2>3 DEF QueryInv, CountInv, FrontRuns, FrontPosts, OneIf
    <2>5. FrontRuns' = 0 /\ FrontPosts' = 0
      BY <2>1, <2>3 DEF FrontRuns, FrontPosts, OneIf
    <2>6. \A i \in Ids : (i < First' => i < First \/ i = First) /\ (i > First' => i > First)
      BY <2>2 DEF Ids
    <2>7. First' \in Ids => First' > First
      BY <2>2
    <2>8. CountInv'
      <3>1. \A i \in Ids : i < First' => /\ 1 <= runs'[i]
                                         /\ runs'[i] <= IF i = caught' THEN 2 ELSE 1
                                         /\ posted'[i] <= runs'[i]
                                         /\ i \in WithCallback => posted'[i] > 0
        BY <2>1, <2>4, <2>6 DEF QueryInv, CountInv
      <3>2. \A i \in Ids : i > First' => runs'[i] = 0 /\ posted'[i] = 0
        BY <2>1, <2>6 DEF QueryInv, CountInv
      <3>3. First' \in Ids => runs'[First'] = FrontRuns' /\ posted'[First'] = FrontPosts'
        BY <2>1, <2>5, <2>7 DEF QueryInv, CountInv
      <3> QED BY <3>1, <3>2, <3>3 DEF CountInv
    <2>9. FlightInv'
      BY <2>1, <2>3 DEF QueryInv, FlightInv, InFlight
    <2> QED BY <2>2, <2>8, <2>9 DEF QueryInv
  <1> QED BY <1>1, <1>2

\* So does the drain.
LEMMA FlushPopKeeps ==
  ASSUME TypeOK, QueryInv, FlushInv, FlushPop
  PROVE  QueryInv'
  <1>1. /\ tasks' = Tail(tasks) /\ tasks # <<>> /\ flusher = "pop" /\ flusher' = "run"
        /\ UNCHANGED <<threadState, pc, task, nextId, runs, posted, caught>>
    BY DEF FlushPop, FlushInv
  <1>2. WindowInv' /\ First' = First + 1 /\ First \in Nat /\ First \in Ids
    BY <1>1, TailWindow, FrontFacts DEF QueryInv
  <1>3. threadState = "TERMINATED"
    BY <1>1 DEF QueryInv, FlightInv
  <1>4. /\ runs[First] = OneIf(pc \in {"Post", "Pop"} /\ task = First) + 1
        /\ posted[First] = IF First \in WithCallback
                           THEN OneIf(pc = "Pop" /\ task = First) + 1 ELSE 0
    BY <1>1, <1>2 DEF QueryInv, CountInv, FrontRuns, FrontPosts, OneIf
  <1>5. /\ 1 <= runs[First] /\ posted[First] <= runs[First]
        /\ First \in WithCallback => posted[First] > 0
    BY <1>4 DEF OneIf
  <1>6. runs[First] <= IF First = caught THEN 2 ELSE 1
    <2>1. CASE pc \in {"Post", "Pop"} /\ task = First
      <3>1. caught = First
        BY <1>3, <2>1 DEF QueryInv, FlightInv, InFlight
      <3> QED BY <1>4, <2>1, <3>1 DEF OneIf
    <2>2. CASE ~(pc \in {"Post", "Pop"} /\ task = First)
      BY <1>4, <2>2 DEF OneIf
    <2> QED BY <2>1, <2>2
  <1>7. pc \in InFlight => task < First'
    BY <1>2 DEF QueryInv, FlightInv, Ids
  <1>8. FrontRuns' = 0 /\ FrontPosts' = 0
    <2>1. ~(pc \in {"Post", "Pop"} /\ task = First')
      BY <1>2, <1>7 DEF InFlight
    <2> QED BY <1>1, <2>1 DEF FrontRuns, FrontPosts, OneIf
  <1>9. \A i \in Ids : (i < First' => i < First \/ i = First) /\ (i > First' => i > First)
    BY <1>2 DEF Ids
  <1>10. First' \in Ids => First' > First
    BY <1>2
  <1>11. CountInv'
    <3>1. \A i \in Ids : i < First' => /\ 1 <= runs'[i]
                                       /\ runs'[i] <= IF i = caught' THEN 2 ELSE 1
                                       /\ posted'[i] <= runs'[i]
                                       /\ i \in WithCallback => posted'[i] > 0
      BY <1>1, <1>5, <1>6, <1>9 DEF QueryInv, CountInv
    <3>2. \A i \in Ids : i > First' => runs'[i] = 0 /\ posted'[i] = 0
      BY <1>1, <1>9 DEF QueryInv, CountInv
    <3>3. First' \in Ids => runs'[First'] = FrontRuns' /\ posted'[First'] = FrontPosts'
      BY <1>1, <1>8, <1>10 DEF QueryInv, CountInv
    <3> QED BY <3>1, <3>2, <3>3 DEF CountInv
  <1>12. FlightInv'
    <2>1. pc \in InFlight => task <= First'
      BY <1>2, <1>7 DEF TypeOK, Ids
    <2> QED BY <1>1, <1>3, <1>7, <2>1 DEF QueryInv, FlightInv
  <1> QED BY <1>2, <1>11, <1>12 DEF QueryInv

\* The use of a reference to what the drain removed: nothing is sent.
LEMMA FaultKeeps ==
  ASSUME TypeOK, QueryInv, pc \in {"Run", "Post"}, Dangling, Fault
  PROVE  QueryInv'
  <1>1. pc' = "Fault" /\ UNCHANGED <<tasks, threadState, task, flusher, nextId, runs, posted, caught>>
    BY DEF Fault
  <1>2. First' = First
    BY <1>1 DEF First
  <1>3. task \in Ids /\ task <= First
    BY DEF QueryInv, FlightInv, InFlight
  <1>4. task # First \/ tasks = <<>>
    BY FrontFacts DEF Dangling, QueryInv
  <1>5. task # First /\ caught # 0
    <2>1. threadState = "TERMINATED"
      BY <1>4 DEF QueryInv, FlightInv, InFlight
    <2>2. caught = task
      BY <2>1 DEF QueryInv, FlightInv, InFlight
    <2>3. tasks = <<>> => task < First
      BY DEF QueryInv, FlightInv, InFlight
    <2> QED BY <1>3, <1>4, <2>2, <2>3, FrontFacts DEF Ids, QueryInv
  <1>6. CountInv'
    BY <1>1, <1>2, <1>5 DEF QueryInv, CountInv, FrontRuns, FrontPosts
  <1>7. WindowInv' /\ FlightInv'
    BY <1>1, <1>2, <1>5 DEF QueryInv, WindowInv, FlightInv, InFlight
  <1> QED BY <1>6, <1>7 DEF QueryInv

\* The thread sends the first query.
LEMMA RunQueryKeeps ==
  ASSUME TypeOK, QueryInv, RunQuery
  PROVE  QueryInv'
  <1>1. CASE Dangling /\ Fault
    BY <1>1, FaultKeeps DEF RunQuery
  <1>2. CASE ~Dangling
    <2>1. /\ pc = "Run" /\ pc' = "Post" /\ runs' = [runs EXCEPT ![task] = @ + 1]
          /\ UNCHANGED <<tasks, threadState, task, flusher, nextId, posted, caught>>
      BY <1>2 DEF RunQuery
    <2>2. First' = First
      BY <2>1 DEF First
    <2>3. task = First /\ First \in Ids /\ First \in Nat
      BY <1>2, <2>1, FrontFacts DEF Dangling, QueryInv, FlightInv, InFlight, Ids
    <2>4. runs'[First] = runs[First] + 1 /\ \A i \in Ids : i # First => runs'[i] = runs[i]
      BY <2>1, <2>3 DEF TypeOK
    <2>5. runs[First] = OneIf(flusher = "pop") /\ FrontRuns' = 1 + OneIf(flusher = "pop")
      BY <2>1, <2>2, <2>3 DEF QueryInv, CountInv, FrontRuns, OneIf
    <2>6. FrontPosts' = FrontPosts
      BY <2>1, <2>2 DEF FrontPosts, OneIf
    <2>7. CountInv'
      <3>1. \A i \in Ids : i < First => i # First
        BY <2>3 DEF Ids
      <3>2. \A i \in Ids : i > First => i # First
        BY <2>3 DEF Ids
      <3>3. runs'[First] = FrontRuns'
        BY <2>4, <2>5 DEF OneIf
      <3> QED BY <2>1, <2>2, <2>3, <2>4, <2>6, <3>1, <3>2, <3>3 DEF QueryInv, CountInv
    <2>8. WindowInv' /\ FlightInv'
      BY <2>1, <2>2 DEF QueryInv, WindowInv, FlightInv, InFlight
    <2> QED BY <2>7, <2>8 DEF QueryInv
  <1> QED BY <1>1, <1>2 DEF RunQuery

\* The thread posts the callback of the query it sent.
LEMMA PostCallbackKeeps ==
  ASSUME TypeOK, QueryInv, PostCallback
  PROVE  QueryInv'
  <1>1. CASE Dangling /\ Fault
    BY <1>1, FaultKeeps DEF PostCallback
  <1>2. CASE ~Dangling
    <2>1. /\ pc = "Post" /\ pc' = "Pop" /\ posted' = PostedBy(task)
          /\ UNCHANGED <<tasks, threadState, task, flusher, nextId, runs, caught>>
      BY <1>2 DEF PostCallback
    <2>2. First' = First
      BY <2>1 DEF First
    <2>3. task = First /\ First \in Ids /\ First \in Nat
      BY <1>2, <2>1, FrontFacts DEF Dangling, QueryInv, FlightInv, InFlight, Ids
    <2>4. /\ posted'[First] = posted[First] + OneIf(First \in WithCallback)
          /\ \A i \in Ids : i # First => posted'[i] = posted[i]
      BY <2>1, <2>3 DEF TypeOK, PostedBy, OneIf
    <2>5. FrontRuns' = FrontRuns
      BY <2>1, <2>2 DEF FrontRuns, OneIf
    <2>6. FrontPosts' = FrontPosts + OneIf(First \in WithCallback)
      BY <2>1, <2>2, <2>3 DEF FrontPosts, OneIf
    <2>7. CountInv'
      <3>1. \A i \in Ids : i < First => i # First
        BY <2>3 DEF Ids
      <3>2. \A i \in Ids : i > First => i # First
        BY <2>3 DEF Ids
      <3>3. posted'[First] = FrontPosts'
        BY <2>3, <2>4, <2>6 DEF QueryInv, CountInv
      <3> QED BY <2>1, <2>2, <2>3, <2>4, <2>5, <3>1, <3>2, <3>3 DEF QueryInv, CountInv
    <2>8. WindowInv' /\ FlightInv'
      BY <2>1, <2>2 DEF QueryInv, WindowInv, FlightInv, InFlight
    <2> QED BY <2>7, <2>8 DEF QueryInv
  <1> QED BY <1>1, <1>2 DEF PostCallback

\* The drain sends the first query, perhaps the one the thread has sent.
LEMMA FlushRunKeeps ==
  ASSUME TypeOK, QueryInv, FlushRun
  PROVE  QueryInv'
  <1>1. /\ flusher = "run" /\ flusher' = "pop" /\ tasks # <<>>
        /\ runs' = [runs EXCEPT ![Head(tasks)] = @ + 1]
        /\ posted' = PostedBy(Head(tasks))
        /\ UNCHANGED <<tasks, threadState, pc, task, nextId, caught>>
    BY DEF FlushRun
  <1>2. First' = First /\ Head(tasks) = First /\ First \in Ids /\ First \in Nat
    BY <1>1, FrontFacts DEF First, QueryInv
  <1>3. /\ runs'[First] = runs[First] + 1
        /\ posted'[First] = posted[First] + OneIf(First \in WithCallback)
        /\ \A i \in Ids : i # First => runs'[i] = runs[i] /\ posted'[i] = posted[i]
    BY <1>1, <1>2 DEF TypeOK, PostedBy, OneIf
  <1>4. FrontRuns' = FrontRuns + 1
    BY <1>1, <1>2 DEF FrontRuns, OneIf
  <1>5. FrontPosts' = FrontPosts + OneIf(First \in WithCallback)
    BY <1>1, <1>2 DEF FrontPosts, OneIf
  <1>6. CountInv'
    <2>1. \A i \in Ids : (i < First => i # First) /\ (i > First => i # First)
      BY <1>2 DEF Ids
    <2>2. runs'[First] = FrontRuns' /\ posted'[First] = FrontPosts'
      BY <1>2, <1>3, <1>4, <1>5 DEF QueryInv, CountInv
    <2> QED BY <1>1, <1>2, <1>3, <2>1, <2>2 DEF QueryInv, CountInv
  <1>7. WindowInv' /\ FlightInv'
    BY <1>1, <1>2 DEF QueryInv, WindowInv, FlightInv, InFlight
  <1> QED BY <1>6, <1>7 DEF QueryInv

\* The thread takes a reference to the first query, which nobody ran.
LEMMA TakeFrontKeeps ==
  ASSUME TypeOK, QueryInv, TakeFront
  PROVE  QueryInv'
  <1>1. UNCHANGED <<tasks, threadState, flusher, nextId, runs, posted, caught>>
        /\ pc \in {"Lock", "Woken"} /\ pc' \in {"Run", "Test"}
    BY DEF TakeFront
  <1>2. First' = First
    BY <1>1 DEF First
  <1>3. FrontRuns' = FrontRuns /\ FrontPosts' = FrontPosts
    BY <1>1, <1>2 DEF FrontRuns, FrontPosts, OneIf
  <1>4. pc' = "Run" => /\ tasks # <<>> /\ threadState # "TERMINATED" /\ task' = First
                       /\ task' \in Ids /\ task' <= First
    BY FrontFacts DEF TakeFront, QueryInv
  <1>5. FlightInv'
    BY <1>1, <1>2, <1>4 DEF QueryInv, FlightInv, InFlight
  <1>6. WindowInv' /\ CountInv'
    BY <1>1, <1>2, <1>3 DEF QueryInv, WindowInv, CountInv
  <1> QED BY <1>5, <1>6 DEF QueryInv

\* shutdown() catches what is in flight.
LEMMA ShutdownKeeps ==
  ASSUME TypeOK, QueryInv, Shutdown
  PROVE  QueryInv'
  <1>1. /\ UNCHANGED <<tasks, pc, task, nextId, runs, posted>>
        /\ flusher = "idle" /\ flusher' = "run" /\ caught = 0
        /\ threadState # "TERMINATED" /\ threadState' = "TERMINATED"
        /\ caught' = IF pc \in InFlight THEN task ELSE 0
    BY DEF Shutdown, QueryInv, FlightInv
  <1>2. First' = First
    BY <1>1 DEF First
  <1>3. FrontRuns' = FrontRuns /\ FrontPosts' = FrontPosts
    BY <1>1, <1>2 DEF FrontRuns, FrontPosts, OneIf
  <1>4. CountInv'
    <2>1. \A i \in Ids : i < First => runs[i] <= 1
      <3>1. \A i \in Ids : i # caught
        BY <1>1 DEF Ids
      <3> QED BY <3>1 DEF QueryInv, CountInv
    <2>2. \A i \in Ids : runs[i] \in Nat
      BY DEF TypeOK
    <2>3. \A i \in Ids : i < First => runs[i] <= IF i = caught' THEN 2 ELSE 1
      BY <2>1, <2>2
    <2> QED BY <1>1, <1>2, <1>3, <2>3 DEF QueryInv, CountInv
  <1>5. WindowInv' /\ FlightInv'
    BY <1>1, <1>2 DEF QueryInv, WindowInv, FlightInv, InFlight
  <1> QED BY <1>4, <1>5 DEF QueryInv

\* Every step keeps the window and the counts, ...
LEMMA QueryStep == TypeOK /\ FlushInv /\ QueryInv /\ [Next]_vars => QueryInv'
  <1> SUFFICES ASSUME TypeOK, FlushInv, QueryInv, [Next]_vars PROVE QueryInv'
    OBVIOUS
  <1>1. ASSUME UNCHANGED <<tasks, task, nextId, runs, posted, caught>>,
               pc' = pc \/ (pc \notin InFlight /\ pc' \notin InFlight /\ pc' # "Fault"),
               \/ flusher' = flusher
               \/ flusher = "run" /\ flusher' = "done" /\ tasks = <<>>,
               (threadState = "TERMINATED") <=> (threadState' = "TERMINATED")
        PROVE  QueryInv'
    <2>1. First' = First
      BY <1>1 DEF First
    <2>2. FrontRuns' = FrontRuns /\ FrontPosts' = FrontPosts
      BY <1>1, <2>1 DEF FrontRuns, FrontPosts, OneIf, InFlight
    <2>3. WindowInv' /\ CountInv'
      BY <1>1, <2>1, <2>2 DEF QueryInv, WindowInv, CountInv
    <2>4. FlightInv'
      BY <1>1, <2>1 DEF QueryInv, FlightInv
    <2> QED BY <2>3, <2>4 DEF QueryInv
  <1>2. ASSUME NEW c \in Callers, Notify(c) PROVE QueryInv'
    BY <1>1, <1>2 DEF Notify, InFlight
  <1>3. ASSUME Stop PROVE QueryInv'
    BY <1>1, <1>3 DEF Stop
  <1>4. ASSUME Test \/ LockAndWait \/ SpuriousWake PROVE QueryInv'
    BY <1>1, <1>4 DEF Test, LockAndWait, SpuriousWake, InFlight
  <1>5. ASSUME NEW c \in Callers, FlushEnd(c) PROVE QueryInv'
    BY <1>1, <1>5 DEF FlushEnd
  <1>6. CASE UNCHANGED vars
    BY <1>1, <1>6 DEF vars
  <1> QED
    BY <1>2, <1>3, <1>4, <1>5, <1>6, AddKeeps, PopFrontKeeps, FlushPopKeeps, RunQueryKeeps,
       PostCallbackKeeps, FlushRunKeeps, TakeFrontKeeps, ShutdownKeeps
       DEF Next, ThreadStep, FlushStep

\* ... and they hold for good.
LEMMA QueryAlways == Spec => [](TypeOK /\ QueryInv)
  <1>1. Init => QueryInv
    BY DEF Init, QueryInv, WindowInv, CountInv, FlightInv, FrontRuns, FrontPosts, First,
           OneIf, InFlight
  <1> QED BY <1>1, QueryStep, TypeAlways, PTL DEF Spec

(* A query and its callback go out once, but for the query that shutdown()  *)
(* found in flight, which goes out at most twice.                           *)
THEOREM QueryRunsAtMostOnce == Spec => []AtMostOnce
  <1>1. TypeOK /\ QueryInv => AtMostOnce
    <2> SUFFICES ASSUME TypeOK, QueryInv, NEW i \in Ids
                 PROVE  /\ runs[i] <= IF i = caught THEN 2 ELSE 1
                        /\ posted[i] <= runs[i]
      BY DEF AtMostOnce
    <2>1. First \in Nat
      BY FrontFacts DEF QueryInv
    <2>2. CASE i < First
      BY <2>2 DEF QueryInv, CountInv
    <2>3. CASE i > First
      BY <2>3 DEF QueryInv, CountInv
    <2>4. CASE i = First
      <3>1. runs[i] = FrontRuns /\ posted[i] = FrontPosts
        BY <2>4 DEF QueryInv, CountInv
      <3>2. posted[i] <= runs[i]
        BY <3>1 DEF FrontRuns, FrontPosts, OneIf
      <3>3. CASE pc \in {"Post", "Pop"} /\ task = First /\ flusher = "pop"
        <4>1. caught = i
          BY <2>4, <3>3 DEF QueryInv, FlightInv, InFlight
        <4> QED BY <3>1, <3>2, <4>1 DEF FrontRuns, OneIf
      <3>4. CASE ~(pc \in {"Post", "Pop"} /\ task = First /\ flusher = "pop")
        BY <3>1, <3>2, <3>4 DEF FrontRuns, OneIf
      <3> QED BY <3>3, <3>4
    <2> QED BY <2>1, <2>2, <2>3, <2>4 DEF Ids
  <1> QED BY <1>1, QueryAlways, PTL

(* run() reads through its reference and pops the front safely, although it *)
(* holds no lock in between, unless shutdown() found a query in flight.     *)
THEOREM FaultNeedsShutdown == Spec => []FaultOnlyIfCaught
  <1>1. QueryInv => FaultOnlyIfCaught
    BY DEF QueryInv, FlightInv, FaultOnlyIfCaught
  <1> QED BY <1>1, QueryAlways, PTL

\* Queries are sent to the database in the order in which they were accepted.
THEOREM QueriesInOrder == Spec => []InOrder
  <1>1. TypeOK /\ QueryInv => InOrder
    <2> SUFFICES ASSUME TypeOK, QueryInv, NEW i \in Ids, NEW j \in Ids, i < j, runs[j] > 0
                 PROVE  runs[i] > 0
      BY DEF InOrder
    <2>1. First \in Nat
      BY FrontFacts DEF QueryInv
    <2>2. j <= First
      BY <2>1 DEF QueryInv, CountInv, Ids
    <2>3. i < First
      BY <2>1, <2>2 DEF Ids
    <2> QED BY <2>3 DEF QueryInv, CountInv, TypeOK
  <1> QED BY <1>1, QueryAlways, PTL

\* Once shutdown() has returned, every accepted query has been sent.
THEOREM NoQueryLost == Spec => []NoneLost
  <1>1. TypeOK /\ QueryInv => NoneLost
    <2> SUFFICES ASSUME TypeOK, QueryInv, flusher = "done", NEW i \in 1..(nextId - 1)
                 PROVE  runs[i] > 0 /\ (i \in WithCallback => posted[i] > 0)
      BY DEF NoneLost
    <2>1. First = nextId
      BY FrontFacts DEF QueryInv, FlightInv
    <2>2. i \in Ids /\ i < First
      BY <2>1, DatabaseTasksAssumption DEF Ids, TypeOK
    <2> QED BY <2>2 DEF QueryInv, CountInv, TypeOK
  <1> QED BY <1>1, QueryAlways, PTL

-----------------------------------------------------------------------------
(* The market.  First what is added up over a finite set: Total is a fold, and  *)
(* what is needed of it follows by induction over the size of the set.          *)

\* A set of numbers that is not empty has a least one.
LEMMA Smallest ==
  ASSUME NEW B \in SUBSET Nat, B # {}
  PROVE  \E m \in B : \A n \in B : m <= n
<1>1. PICK m \in B : \A n \in B : ~ (<<n, m>> \in OpToRel(<, Nat))
  BY NatLessThanWellFounded, WFMin
<1>2. \A n \in B : <<n, m>> \in OpToRel(<, Nat) <=> n < m
  BY DEF OpToRel
<1>3. \A n \in B : ~ (n < m)
  BY <1>1, <1>2, Zenon
<1> QED BY <1>3

\* What holds of 0 and of each number's successor holds of every number.
LEMMA UpFromZero ==
  ASSUME NEW G \in SUBSET Nat, 0 \in G, \A n \in Nat : n \in G => n + 1 \in G
  PROVE  \A n \in Nat : n \in G
<1>1. SUFFICES ASSUME Nat \ G # {} PROVE FALSE
  OBVIOUS
<1>2. PICK m \in Nat \ G : \A k \in Nat \ G : m <= k
  <2> DEFINE B == Nat \ G
  <2>1. B \in SUBSET Nat /\ B # {}
    BY <1>1
  <2>2. \E m \in B : \A k \in B : m <= k
    BY <2>1, Smallest
  <2> QED BY <2>2
<1>3. m # 0 /\ m - 1 \in Nat
  BY <1>2
<1>4. m - 1 \in G /\ (m - 1) + 1 = m
  BY <1>2, <1>3
<1> QED BY <1>2, <1>3, <1>4

\* One element less.
LEMMA OneLess ==
  ASSUME NEW T, IsFiniteSet(T), NEW n \in Nat, Cardinality(T) = n + 1
  PROVE  T # {} /\ \A x \in T : Cardinality(T \ {x}) = n
<1>1. T # {}
  BY FS_EmptySet
<1>2. \A x \in T : Cardinality(T \ {x}) = Cardinality(T) - 1
  BY FS_RemoveElement
<1> QED BY <1>1, <1>2

\* What holds of the empty set and, with a set, of the set with one element more
\* holds of every finite set: G holds the subsets of S it is shown of.
LEMMA OneByOne ==
  ASSUME NEW S, IsFiniteSet(S), NEW G, {} \in G,
         \A T \in SUBSET S, x \in S : T \in G /\ x \notin T => T \cup {x} \in G
  PROVE  \A T \in SUBSET S : T \in G
<1> DEFINE N == {n \in Nat : \A T \in SUBSET S : Cardinality(T) = n => T \in G}
<1>1. \A T \in SUBSET S : IsFiniteSet(T) /\ Cardinality(T) \in Nat
  BY FS_Subset, FS_CardinalityType
<1>2. 0 \in N
  BY <1>1, FS_EmptySet
<1>3. ASSUME NEW n \in Nat, n \in N PROVE n + 1 \in N
  <2> SUFFICES ASSUME NEW T \in SUBSET S, Cardinality(T) = n + 1 PROVE T \in G
    OBVIOUS
  <2> HIDE DEF N
  <2>5. T # {} /\ \A x \in T : Cardinality(T \ {x}) = n
    BY <1>1, OneLess
  <2>1. PICK x \in T : TRUE
    BY <2>5
  <2>2. T \ {x} \in SUBSET S /\ x \in S /\ x \notin T \ {x} /\ (T \ {x}) \cup {x} = T
    BY <2>1
  <2>3. Cardinality(T \ {x}) = n
    BY <2>1, <2>5
  <2>4. T \ {x} \in G
    BY <1>3, <2>2, <2>3 DEF N
  <2> QED BY <2>2, <2>4
<1>4. N \in SUBSET Nat
  OBVIOUS
<1> HIDE DEF N
<1>5. \A n \in Nat : n \in N
  BY <1>2, <1>3, <1>4, UpFromZero
<1> QED BY <1>1, <1>5 DEF N

-----------------------------------------------------------------------------
(* Sums.                                                                    *)

\* The element of T that is added first.
Some(T) == CHOOSE x \in T : TRUE
IsSum(k, f, S) ==
  k = [T \in SUBSET S |-> IF T = {} THEN 0 ELSE f[Some(T)] + k[T \ {Some(T)}]]

\* A function on some subsets of S that adds up f on them.
IsSumOn(k, f, D) ==
  k = [T \in D |-> IF T = {} THEN 0 ELSE f[Some(T)] + k[T \ {Some(T)}]]
UpTo(S, n) == {T \in SUBSET S : Cardinality(T) <= n}

\* Every finite set has a sum.
LEMMA SumExists ==
  ASSUME NEW f, NEW S, IsFiniteSet(S)
  PROVE  \E k : IsSum(k, f, S)
<1> DEFINE N == {n \in Nat : \E k : IsSumOn(k, f, UpTo(S, n))}
<1>1. \A T \in SUBSET S : /\ IsFiniteSet(T) /\ Cardinality(T) \in Nat
                          /\ (T = {} <=> Cardinality(T) = 0)
                          /\ Cardinality(T) <= Cardinality(S)
  BY FS_Subset, FS_CardinalityType, FS_EmptySet
<1>2. 0 \in N
  <2>1. \A T \in UpTo(S, 0) : T = {}
    BY <1>1 DEF UpTo
  <2>2. IsSumOn([T \in UpTo(S, 0) |-> 0], f, UpTo(S, 0))
    BY <2>1 DEF IsSumOn
  <2> QED BY <2>2
<1>3. ASSUME NEW n \in Nat, n \in N PROVE n + 1 \in N
  <2>1. PICK k : IsSumOn(k, f, UpTo(S, n))
    BY <1>3
  <2> DEFINE D == UpTo(S, n)
             E == UpTo(S, n + 1)
             h == [T \in E |-> IF T \in D THEN k[T] ELSE f[Some(T)] + k[T \ {Some(T)}]]
  <2>2. D \subseteq E
    BY <1>1 DEF UpTo
  <2>3. ASSUME NEW T \in E, T # {} PROVE T \ {Some(T)} \in D
    <3>1. Some(T) \in T
      BY <2>3 DEF Some
    <3>2. T \in SUBSET S /\ Cardinality(T) <= n + 1 /\ IsFiniteSet(T)
      BY <1>1 DEF UpTo
    <3>3. Cardinality(T \ {Some(T)}) = Cardinality(T) - 1
      BY <3>1, <3>2, FS_RemoveElement
    <3>4. Cardinality(T) \in Nat
      BY <1>1, <3>2
    <3> QED BY <3>2, <3>3, <3>4 DEF UpTo
  <2>4. \A T \in D : k[T] = IF T = {} THEN 0 ELSE f[Some(T)] + k[T \ {Some(T)}]
    BY <2>1 DEF IsSumOn
  <2>5. \A T \in D : T \in E /\ h[T] = k[T]
    BY <2>2
  <2>6. \A T \in E : T \notin D => T # {} /\ h[T] = f[Some(T)] + k[T \ {Some(T)}]
    BY <1>1 DEF UpTo
  <2>7. h = [T \in E |-> h[T]]
    OBVIOUS
  <2> HIDE DEF h, D, E
  <2>8. \A T \in E : h[T] = IF T = {} THEN 0 ELSE f[Some(T)] + h[T \ {Some(T)}]
    <3> TAKE T \in E
    <3>1. CASE T = {} /\ T \in D
      BY <2>4, <2>5, <3>1
    <3>2. CASE T # {} /\ T \in D
      <4>1. h[T \ {Some(T)}] = k[T \ {Some(T)}]
        BY <2>3, <2>5, <3>2
      <4> QED BY <2>4, <2>5, <3>2, <4>1
    <3>3. CASE T \notin D
      <4>1. T # {} /\ h[T] = f[Some(T)] + k[T \ {Some(T)}]
        BY <2>6, <3>3
      <4>2. h[T \ {Some(T)}] = k[T \ {Some(T)}]
        BY <2>3, <2>5, <4>1
      <4> QED BY <4>1, <4>2
    <3> QED BY <3>1, <3>2, <3>3
  <2>9. IsSumOn(h, f, E)
    BY <2>7, <2>8 DEF IsSumOn
  <2> QED BY <2>9 DEF E
<1>4. N \in SUBSET Nat
  OBVIOUS
<1> HIDE DEF N
<1>5. \A n \in Nat : n \in N
  BY <1>2, <1>3, <1>4, UpFromZero
<1>6. Cardinality(S) \in Nat /\ UpTo(S, Cardinality(S)) = SUBSET S
  BY <1>1, FS_CardinalityType DEF UpTo
<1>7. PICK k : IsSumOn(k, f, UpTo(S, Cardinality(S)))
  BY <1>5, <1>6 DEF N
<1>8. IsSum(k, f, S)
  BY <1>6, <1>7 DEF IsSum, IsSumOn
<1> QED BY <1>8

\* Total is such a sum.
LEMMA TotalIs ==
  ASSUME NEW f, NEW S, IsFiniteSet(S)
  PROVE  \E k : IsSum(k, f, S) /\ Total(f, S) = k[S]
<1> DEFINE K == CHOOSE k : IsSum(k, f, S)
<1>1. IsSum(K, f, S)
  BY SumExists
<1>2. Total(f, S) = K[S]
  BY Zenon DEF Total, MapThenSumSet, MapThenFoldSet, IsSum, Some
<1> QED BY <1>1, <1>2

\* What two sums make of a set they both know is the same.
LEMMA SumsAgree ==
  ASSUME NEW f, NEW S, IsFiniteSet(S), NEW k, IsSum(k, f, S), NEW R \in SUBSET S,
         NEW h, IsSum(h, f, R)
  PROVE  h[R] = k[R]
<1> DEFINE N == {n \in Nat : \A T \in SUBSET R : Cardinality(T) = n => h[T] = k[T]}
<1>1. \A T \in SUBSET R : /\ IsFiniteSet(T) /\ Cardinality(T) \in Nat /\ T \in SUBSET S
                          /\ (T = {} <=> Cardinality(T) = 0)
  BY FS_Subset, FS_CardinalityType, FS_EmptySet
<1>2. \A T \in SUBSET R :
        /\ k[T] = IF T = {} THEN 0 ELSE f[Some(T)] + k[T \ {Some(T)}]
        /\ h[T] = IF T = {} THEN 0 ELSE f[Some(T)] + h[T \ {Some(T)}]
  BY <1>1 DEF IsSum
<1>3. 0 \in N
  BY <1>1, <1>2
<1>4. ASSUME NEW n \in Nat, n \in N PROVE n + 1 \in N
  <2> SUFFICES ASSUME NEW T \in SUBSET R, Cardinality(T) = n + 1 PROVE h[T] = k[T]
    OBVIOUS
  <2> HIDE DEF N
  <2>4. T # {} /\ \A x \in T : Cardinality(T \ {x}) = n
    BY <1>1, OneLess
  <2>1. T # {} /\ Some(T) \in T
    BY <2>4 DEF Some
  <2>2. Cardinality(T \ {Some(T)}) = n /\ T \ {Some(T)} \in SUBSET R
    BY <2>1, <2>4
  <2>3. h[T \ {Some(T)}] = k[T \ {Some(T)}]
    BY <1>4, <2>2 DEF N
  <2> QED BY <1>2, <2>1, <2>3
<1>5. N \in SUBSET Nat
  OBVIOUS
<1> HIDE DEF N
<1>6. \A n \in Nat : n \in N
  BY <1>3, <1>4, <1>5, UpFromZero
<1> QED BY <1>1, <1>6 DEF N

\* Nothing adds up to nothing, and every set to its first element and the rest.
LEMMA TotalOfFirst ==
  ASSUME NEW f, NEW S, IsFiniteSet(S)
  PROVE  /\ S = {} => Total(f, S) = 0
         /\ S # {} => Total(f, S) = f[Some(S)] + Total(f, S \ {Some(S)})
<1>1. PICK k : IsSum(k, f, S) /\ Total(f, S) = k[S]
  BY TotalIs
<1>2. k[S] = IF S = {} THEN 0 ELSE f[Some(S)] + k[S \ {Some(S)}]
  BY <1>1 DEF IsSum
<1> DEFINE R == S \ {Some(S)}
<1>3. R \in SUBSET S /\ IsFiniteSet(R)
  BY FS_Subset
<1>4. PICK h : IsSum(h, f, R) /\ Total(f, R) = h[R]
  BY <1>3, TotalIs
<1>5. h[R] = k[R]
  BY <1>1, <1>3, <1>4, SumsAgree
<1> QED BY <1>1, <1>2, <1>4, <1>5

Summable(f, S) == IsFiniteSet(S) /\ \A x \in S : f[x] \in Int

\* The sum of integers is one.
LEMMA TotalInt ==
  ASSUME NEW f, NEW S, Summable(f, S)
  PROVE  Total(f, S) \in Int
<1> DEFINE N == {n \in Nat : \A T \in SUBSET S : Cardinality(T) = n => Total(f, T) \in Int}
<1>1. \A T \in SUBSET S : /\ IsFiniteSet(T) /\ Cardinality(T) \in Nat
                          /\ (T = {} <=> Cardinality(T) = 0)
                          /\ \A x \in T : f[x] \in Int
  BY FS_Subset, FS_CardinalityType, FS_EmptySet DEF Summable
<1>2. 0 \in N
  <2>1. \A T \in SUBSET S : Cardinality(T) = 0 => T = {} /\ Total(f, T) = 0
    BY <1>1, TotalOfFirst
  <2> QED BY <2>1
<1>3. ASSUME NEW n \in Nat, n \in N PROVE n + 1 \in N
  <2> SUFFICES ASSUME NEW T \in SUBSET S, Cardinality(T) = n + 1 PROVE Total(f, T) \in Int
    OBVIOUS
  <2> HIDE DEF N
  <2>1. T # {} /\ \A x \in T : Cardinality(T \ {x}) = n
    BY <1>1, OneLess
  <2>2. Some(T) \in T
    BY <2>1 DEF Some
  <2>3. Total(f, T) = f[Some(T)] + Total(f, T \ {Some(T)})
    BY <1>1, <2>1, TotalOfFirst
  <2>4. T \ {Some(T)} \in SUBSET S /\ Cardinality(T \ {Some(T)}) = n
    BY <2>1, <2>2
  <2>5. Total(f, T \ {Some(T)}) \in Int
    BY <1>3, <2>4 DEF N
  <2> QED BY <1>1, <2>2, <2>3, <2>5
<1>4. N \in SUBSET Nat
  OBVIOUS
<1> HIDE DEF N
<1>5. \A n \in Nat : n \in N
  BY <1>2, <1>3, <1>4, UpFromZero
<1> QED BY <1>1, <1>5 DEF N

\* In whatever order they are added: any element and the rest.
LEMMA TotalSplit ==
  ASSUME NEW f, NEW S, Summable(f, S)
  PROVE  \A x \in S : Total(f, S) = f[x] + Total(f, S \ {x})
<1> DEFINE N == {n \in Nat : \A T \in SUBSET S : Cardinality(T) = n =>
                               \A x \in T : Total(f, T) = f[x] + Total(f, T \ {x})}
<1>1. \A T \in SUBSET S : /\ IsFiniteSet(T) /\ Cardinality(T) \in Nat /\ Summable(f, T)
                          /\ (T = {} <=> Cardinality(T) = 0)
  BY FS_Subset, FS_CardinalityType, FS_EmptySet DEF Summable
<1>2. 0 \in N
  BY <1>1
<1>3. ASSUME NEW n \in Nat, n \in N PROVE n + 1 \in N
  <2> SUFFICES ASSUME NEW T \in SUBSET S, Cardinality(T) = n + 1, NEW x \in T
               PROVE  Total(f, T) = f[x] + Total(f, T \ {x})
    OBVIOUS
  <2> DEFINE y == Some(T)
  <2> HIDE DEF N
  <2>1. T # {} /\ \A z \in T : Cardinality(T \ {z}) = n
    BY <1>1, OneLess
  <2>2. y \in T
    BY <2>1 DEF Some
  <2>3. Total(f, T) = f[y] + Total(f, T \ {y})
    BY <1>1, <2>1, TotalOfFirst
  <2> HIDE DEF y
  <2>4. CASE x = y
    BY <2>3, <2>4
  <2>5. CASE x # y
    <3>1. ASSUME NEW z \in T, NEW u \in T \ {z}
          PROVE  Total(f, T \ {z}) = f[u] + Total(f, (T \ {z}) \ {u})
      <4>1. T \ {z} \in SUBSET S /\ Cardinality(T \ {z}) = n
        BY <2>1
      <4> QED BY <1>3, <4>1 DEF N
    <3>2. Total(f, T \ {y}) = f[x] + Total(f, (T \ {y}) \ {x})
      BY <2>2, <2>5, <3>1
    <3>3. Total(f, T \ {x}) = f[y] + Total(f, (T \ {x}) \ {y})
      BY <2>2, <2>5, <3>1
    <3>4. (T \ {y}) \ {x} = (T \ {x}) \ {y} /\ (T \ {x}) \ {y} \in SUBSET S
      OBVIOUS
    <3>5. Total(f, (T \ {x}) \ {y}) \in Int
      BY <1>1, <3>4, TotalInt
    <3>6. f[x] \in Int /\ f[y] \in Int
      BY <2>2 DEF Summable
    <3>7. Total(f, (T \ {y}) \ {x}) = Total(f, (T \ {x}) \ {y})
      BY <3>4
    <3> DEFINE a == Total(f, (T \ {x}) \ {y})
    <3>8. Total(f, T) = f[y] + (f[x] + a) /\ Total(f, T \ {x}) = f[y] + a /\ a \in Int
      BY <2>3, <3>2, <3>3, <3>5, <3>7
    <3> HIDE DEF a
    <3> QED BY <3>6, <3>8
  <2> QED BY <2>4, <2>5
<1>4. N \in SUBSET Nat
  OBVIOUS
<1> HIDE DEF N
<1>5. \A n \in Nat : n \in N
  BY <1>2, <1>3, <1>4, UpFromZero
<1>6. S \in SUBSET S /\ Cardinality(S) \in Nat
  BY <1>1
<1> QED BY <1>5, <1>6 DEF N

\* One element more.
LEMMA TotalMore ==
  ASSUME NEW f, NEW S, Summable(f, S)
  PROVE  \A T \in SUBSET S, x \in S : x \notin T =>
           /\ Total(f, T \cup {x}) = f[x] + Total(f, T)
           /\ Total(f, T) \in Int /\ f[x] \in Int /\ T \cup {x} \in SUBSET S
<1> SUFFICES ASSUME NEW T \in SUBSET S, NEW x \in S, x \notin T
             PROVE  /\ Total(f, T \cup {x}) = f[x] + Total(f, T)
                    /\ Total(f, T) \in Int /\ f[x] \in Int /\ T \cup {x} \in SUBSET S
  OBVIOUS
<1>1. /\ T \cup {x} \in SUBSET S /\ (T \cup {x}) \ {x} = T
      /\ IsFiniteSet(T \cup {x}) /\ IsFiniteSet(T)
  BY FS_Subset DEF Summable
<1>2. Summable(f, T \cup {x}) /\ Summable(f, T)
  BY <1>1 DEF Summable
<1>3. Total(f, T \cup {x}) = f[x] + Total(f, (T \cup {x}) \ {x})
  BY <1>2, TotalSplit
<1> QED BY <1>1, <1>2, <1>3, TotalInt DEF Summable

\* Nothing.
LEMMA TotalEmpty == ASSUME NEW f PROVE Total(f, {}) = 0
BY TotalOfFirst, FS_EmptySet

\* Two functions added up by element.
LEMMA TotalSum ==
  ASSUME NEW f, NEW g, NEW h, NEW S, Summable(f, S), Summable(g, S),
         \A x \in S : h[x] = f[x] + g[x]
  PROVE  Total(h, S) = Total(f, S) + Total(g, S)
<1> DEFINE G == {T \in SUBSET S : Total(h, T) = Total(f, T) + Total(g, T)}
<1>1. {} \in G
  BY TotalEmpty
<1>2. Summable(h, S)
  BY DEF Summable
<1>6. \A T \in SUBSET S, x \in S : x \notin T =>
        /\ Total(f, T \cup {x}) = f[x] + Total(f, T)
        /\ Total(f, T) \in Int /\ f[x] \in Int /\ T \cup {x} \in SUBSET S
  BY TotalMore
<1>7. \A T \in SUBSET S, x \in S : x \notin T =>
        /\ Total(g, T \cup {x}) = g[x] + Total(g, T)
        /\ Total(g, T) \in Int /\ g[x] \in Int /\ T \cup {x} \in SUBSET S
  BY TotalMore
<1>3. ASSUME NEW T \in SUBSET S, NEW x \in S, T \in G, x \notin T PROVE T \cup {x} \in G
  <2>4. Total(h, T) = Total(f, T) + Total(g, T) /\ h[x] = f[x] + g[x]
    BY <1>3
  <2> HIDE DEF G
  <2>1. Total(f, T \cup {x}) = f[x] + Total(f, T) /\ Total(f, T) \in Int /\ f[x] \in Int
    BY <1>3, <1>6
  <2>2. Total(g, T \cup {x}) = g[x] + Total(g, T) /\ Total(g, T) \in Int /\ g[x] \in Int
    BY <1>3, <1>7
  <2>3. Total(h, T \cup {x}) = h[x] + Total(h, T) /\ T \cup {x} \in SUBSET S
    BY <1>2, <1>3, TotalMore
  <2> QED BY <2>1, <2>2, <2>3, <2>4 DEF G
<1> HIDE DEF G
<1>4. \A T \in SUBSET S : T \in G
  <2>1. \A T \in SUBSET S, x \in S : T \in G /\ x \notin T => T \cup {x} \in G
    BY <1>3
  <2> QED BY <1>1, <2>1, OneByOne DEF Summable
<1>5. S \in G
  BY <1>4
<1> QED BY <1>5 DEF G

\* What is 0 of each adds up to 0.
LEMMA TotalNull ==
  ASSUME NEW f, NEW S, IsFiniteSet(S), \A x \in S : f[x] = 0
  PROVE  Total(f, S) = 0
<1> DEFINE G == {T \in SUBSET S : Total(f, T) = 0}
<1>1. {} \in G
  BY TotalEmpty
<1>2. Summable(f, S)
  BY DEF Summable
<1>3. \A T \in SUBSET S, x \in S : T \in G /\ x \notin T => T \cup {x} \in G
  <2> SUFFICES ASSUME NEW T \in SUBSET S, NEW x \in S, T \in G, x \notin T
               PROVE  T \cup {x} \in G
    OBVIOUS
  <2>1. Total(f, T \cup {x}) = f[x] + Total(f, T) /\ T \cup {x} \in SUBSET S
    BY <1>2, TotalMore
  <2>2. Total(f, T) = 0 /\ f[x] = 0
    OBVIOUS
  <2> QED BY <2>1, <2>2
<1> HIDE DEF G
<1>4. \A T \in SUBSET S : T \in G
  BY <1>1, <1>3, OneByOne
<1>5. S \in G
  BY <1>4
<1> QED BY <1>5 DEF G

\* Functions that agree on S have the same sum.
LEMMA TotalSame ==
  ASSUME NEW f, NEW g, NEW S, Summable(f, S), \A x \in S : g[x] = f[x]
  PROVE  Total(g, S) = Total(f, S)
<1> DEFINE zero == [x \in S |-> 0]
<1>1. Summable(zero, S)
  BY DEF Summable
<1>2. \A x \in S : g[x] = f[x] + zero[x]
  BY DEF Summable
<1>3. \A x \in S : zero[x] = 0
  OBVIOUS
<1> HIDE DEF zero
<1>4. Total(g, S) = Total(f, S) + Total(zero, S)
  BY <1>1, <1>2, TotalSum
<1>5. Total(zero, S) = 0 /\ Total(f, S) \in Int
  BY <1>3, TotalNull, TotalInt DEF Summable
<1> QED BY <1>4, <1>5

\* What is 0 but of one element adds up to what it is of that.
LEMMA TotalOnly ==
  ASSUME NEW f, NEW S, IsFiniteSet(S), NEW p \in S, f[p] \in Int,
         \A x \in S : x # p => f[x] = 0
  PROVE  Total(f, S) = f[p]
<1>1. Summable(f, S)
  BY DEF Summable
<1>2. Total(f, S) = f[p] + Total(f, S \ {p})
  BY <1>1, TotalSplit
<1>3. Total(f, S \ {p}) = 0
  <2>1. IsFiniteSet(S \ {p}) /\ \A x \in S \ {p} : f[x] = 0
    BY FS_Subset
  <2> QED BY <2>1, TotalNull
<1> QED BY <1>2, <1>3

\* Two sets that have nothing in common.
LEMMA TotalBoth ==
  ASSUME NEW f, NEW S, Summable(f, S), NEW A \in SUBSET S, NEW B \in SUBSET S, A \cap B = {}
  PROVE  Total(f, A \cup B) = Total(f, A) + Total(f, B)
<1> DEFINE G == {T \in SUBSET B : Total(f, A \cup T) = Total(f, A) + Total(f, T)}
<1>1. IsFiniteSet(B) /\ Summable(f, A)
  BY FS_Subset DEF Summable
<1>6. \A T \in SUBSET S, x \in S : x \notin T =>
        /\ Total(f, T \cup {x}) = f[x] + Total(f, T)
        /\ Total(f, T) \in Int /\ f[x] \in Int /\ T \cup {x} \in SUBSET S
  BY TotalMore
<1>2. {} \in G
  <2>1. Total(f, {}) = 0 /\ Total(f, A) \in Int /\ A \cup {} = A
    BY <1>1, TotalEmpty, TotalInt
  <2> QED BY <2>1
<1>3. \A T \in SUBSET B, x \in B : T \in G /\ x \notin T => T \cup {x} \in G
  <2> SUFFICES ASSUME NEW T \in SUBSET B, NEW x \in B, T \in G, x \notin T
               PROVE  T \cup {x} \in G
    OBVIOUS
  <2>1. /\ x \in S /\ T \in SUBSET S /\ A \cup T \in SUBSET S /\ x \notin A \cup T
        /\ x \notin T /\ Summable(f, S)
    OBVIOUS
  <2>2. Total(f, A \cup T) = Total(f, A) + Total(f, T)
    OBVIOUS
  <2> HIDE DEF G
  <2>3. Total(f, T \cup {x}) = f[x] + Total(f, T) /\ Total(f, T) \in Int /\ f[x] \in Int
    BY <1>6, <2>1
  <2>4. Total(f, (A \cup T) \cup {x}) = f[x] + Total(f, A \cup T)
    BY <1>6, <2>1
  <2>5. Total(f, A) \in Int /\ (A \cup T) \cup {x} = A \cup (T \cup {x})
    BY <1>1, TotalInt
  <2>6. Total(f, A \cup (T \cup {x})) = f[x] + Total(f, A \cup T)
    BY <2>4, <2>5
  <2>7. Total(f, A \cup (T \cup {x})) = Total(f, A) + Total(f, T \cup {x})
    BY <2>2, <2>3, <2>5, <2>6
  <2> QED BY <2>7 DEF G
<1> HIDE DEF G
<1>4. \A T \in SUBSET B : T \in G
  BY <1>1, <1>2, <1>3, OneByOne
<1>5. B \in G
  BY <1>4
<1> QED BY <1>5 DEF G

\* The sum of natural numbers is one.
LEMMA TotalNat ==
  ASSUME NEW f, NEW S, IsFiniteSet(S), \A x \in S : f[x] \in Nat
  PROVE  Total(f, S) \in Nat
<1> DEFINE G == {T \in SUBSET S : Total(f, T) \in Nat}
<1>1. {} \in G
  BY TotalEmpty
<1>2. Summable(f, S)
  BY DEF Summable
<1>3. \A T \in SUBSET S, x \in S : T \in G /\ x \notin T => T \cup {x} \in G
  <2> SUFFICES ASSUME NEW T \in SUBSET S, NEW x \in S, T \in G, x \notin T
               PROVE  T \cup {x} \in G
    OBVIOUS
  <2>1. Total(f, T \cup {x}) = f[x] + Total(f, T) /\ T \cup {x} \in SUBSET S
    BY <1>2, TotalMore
  <2>2. Total(f, T) \in Nat /\ f[x] \in Nat
    OBVIOUS
  <2> QED BY <2>1, <2>2
<1> HIDE DEF G
<1>4. \A T \in SUBSET S : T \in G
  BY <1>1, <1>3, OneByOne
<1>5. S \in G
  BY <1>4
<1> QED BY <1>5 DEF G

\* Products.
LEMMA Products ==
  /\ \A a, b \in Nat : a * b \in Nat
  /\ \A a, b, c \in Int : a * (b + c) = a * b + a * c
  /\ \A a, b \in Int : (a + 1) * b = a * b + b
  /\ \A a, b, c \in Nat : b <= c => a * b <= a * c
OBVIOUS

\* What is the same of each is added once for each.
LEMMA TotalConst ==
  ASSUME NEW f, NEW S, IsFiniteSet(S), NEW c \in Nat, \A x \in S : f[x] = c
  PROVE  Total(f, S) = Cardinality(S) * c
<1> DEFINE G == {T \in SUBSET S : Total(f, T) = Cardinality(T) * c}
<1>1. {} \in G
  BY TotalEmpty, FS_EmptySet
<1>2. Summable(f, S)
  BY DEF Summable
<1>3. \A T \in SUBSET S, x \in S : T \in G /\ x \notin T => T \cup {x} \in G
  <2> SUFFICES ASSUME NEW T \in SUBSET S, NEW x \in S, T \in G, x \notin T
               PROVE  T \cup {x} \in G
    OBVIOUS
  <2>1. Total(f, T \cup {x}) = f[x] + Total(f, T) /\ T \cup {x} \in SUBSET S
    BY <1>2, TotalMore
  <2>2. Total(f, T) = Cardinality(T) * c /\ f[x] = c
    OBVIOUS
  <2> HIDE DEF G
  <2>3. IsFiniteSet(T)
    BY FS_Subset
  <2>4. Cardinality(T \cup {x}) = Cardinality(T) + 1 /\ Cardinality(T) \in Nat
    BY <2>3, FS_AddElement, FS_CardinalityType
  <2>5. (Cardinality(T) + 1) * c = Cardinality(T) * c + c /\ Cardinality(T) * c \in Nat
    BY <2>4, Products
  <2> QED BY <2>1, <2>2, <2>4, <2>5 DEF G
<1> HIDE DEF G
<1>4. \A T \in SUBSET S : T \in G
  BY <1>1, <1>3, OneByOne
<1>5. S \in G
  BY <1>4
<1> QED BY <1>5 DEF G

\* U falls into the parts D, one for each p of P, and g says what h adds up to in each.
Parts(D, P, U) ==
  /\ D \in [P -> SUBSET U] /\ U = UNION {D[p] : p \in P}
  /\ \A p, q \in P : p # q => D[p] \cap D[q] = {}
SumsOf(g, h, D, P) == \A p \in P : g[p] = Total(h, D[p])

\* The sums of the parts, added up, are the sum of it all.
LEMMA TotalParts ==
  ASSUME NEW h, NEW R, Summable(h, R), NEW P, IsFiniteSet(P), NEW D, Parts(D, P, R),
         NEW g, SumsOf(g, h, D, P)
  PROVE  Total(g, P) = Total(h, R)
<1>0. /\ D \in [P -> SUBSET R] /\ R = UNION {D[p] : p \in P}
      /\ \A p, q \in P : p # q => D[p] \cap D[q] = {}
      /\ \A p \in P : g[p] = Total(h, D[p])
  BY DEF Parts, SumsOf
<1> DEFINE All(Q) == UNION {D[p] : p \in Q}
           G == {Q \in SUBSET P : Total(g, Q) = Total(h, All(Q))}
<1>1. \A T \in SUBSET R : Summable(h, T)
  BY FS_Subset DEF Summable
<1>2. \A p \in P : D[p] \in SUBSET R /\ g[p] \in Int
  BY <1>0, <1>1, TotalInt
<1>3. Summable(g, P)
  BY <1>2 DEF Summable
<1>4. {} \in G
  <2>1. All({}) = {}
    OBVIOUS
  <2> QED BY <2>1, TotalEmpty
<1>5. \A Q \in SUBSET P, p \in P : Q \in G /\ p \notin Q => Q \cup {p} \in G
  <2> SUFFICES ASSUME NEW Q \in SUBSET P, NEW p \in P, Q \in G, p \notin Q
               PROVE  Q \cup {p} \in G
    OBVIOUS
  <2>1. All(Q \cup {p}) = All(Q) \cup D[p] /\ All(Q) \cap D[p] = {}
    BY <1>0
  <2>2. All(Q) \cup D[p] \in SUBSET R /\ All(Q) \in SUBSET R
    BY <1>2
  <2>3. Total(g, Q) = Total(h, All(Q))
    OBVIOUS
  <2> HIDE DEF G, All
  <2>4. Total(g, Q \cup {p}) = g[p] + Total(g, Q)
    BY <1>3, TotalMore
  <2>5. Total(h, All(Q) \cup D[p]) = Total(h, All(Q)) + Total(h, D[p])
    <3>1. All(Q) \in SUBSET R /\ D[p] \in SUBSET R
      BY <1>2, <2>2
    <3> QED BY <2>1, <3>1, TotalBoth
  <2>6. Total(h, All(Q)) \in Int /\ Total(h, D[p]) \in Int
    BY <1>1, <1>2, <2>2, TotalInt
  <2>8. Total(g, Q \cup {p}) = Total(h, All(Q) \cup D[p])
    BY <1>0, <1>2, <2>3, <2>4, <2>5, <2>6
  <2>7. Total(g, Q \cup {p}) = Total(h, All(Q \cup {p}))
    BY <2>1, <2>8
  <2> QED BY <2>7 DEF G
<1> HIDE DEF G, All
<1>6. \A Q \in SUBSET P : Q \in G
  BY <1>4, <1>5, OneByOne
<1>7. P \in G
  BY <1>6
<1>8. All(P) = R
  BY <1>0 DEF All
<1> QED BY <1>7, <1>8 DEF G

\* Where each element of R stands for one of its own that is worth no more.
LEMMA TotalMatch ==
  ASSUME NEW f, NEW R, Summable(f, R), NEW g, NEW O, Summable(g, O),
         NEW F \in [R -> O], \A x, y \in R : F[x] = F[y] => x = y,
         \A x \in R : f[x] >= g[F[x]]
  PROVE  Total(f, R) >= Total(g, {F[x] : x \in R})
<1> DEFINE Im(T) == {F[x] : x \in T}
           G == {T \in SUBSET R : Total(f, T) >= Total(g, Im(T))}
<1>1. {} \in G
  <2>1. Im({}) = {}
    OBVIOUS
  <2> QED BY <2>1, TotalEmpty
<1>2. \A T \in SUBSET R, x \in R : T \in G /\ x \notin T => T \cup {x} \in G
  <2> SUFFICES ASSUME NEW T \in SUBSET R, NEW x \in R, T \in G, x \notin T
               PROVE  T \cup {x} \in G
    OBVIOUS
  <2>1. Im(T \cup {x}) = Im(T) \cup {F[x]} /\ F[x] \notin Im(T) /\ F[x] \in O
        /\ Im(T) \in SUBSET O
    OBVIOUS
  <2>2. Total(f, T) >= Total(g, Im(T)) /\ f[x] >= g[F[x]]
    OBVIOUS
  <2> HIDE DEF G, Im
  <2>3. Total(f, T \cup {x}) = f[x] + Total(f, T) /\ Total(f, T) \in Int /\ f[x] \in Int
    BY TotalMore
  <2>4. /\ Total(g, Im(T) \cup {F[x]}) = g[F[x]] + Total(g, Im(T))
        /\ Total(g, Im(T)) \in Int /\ g[F[x]] \in Int
    BY <2>1, TotalMore
  <2>6. Total(f, T \cup {x}) >= Total(g, Im(T) \cup {F[x]})
    BY <2>2, <2>3, <2>4
  <2>5. Total(f, T \cup {x}) >= Total(g, Im(T \cup {x}))
    BY <2>1, <2>6
  <2> QED BY <2>5 DEF G
<1> HIDE DEF G, Im
<1>3. \A T \in SUBSET R : T \in G
  BY <1>1, <1>2, OneByOne DEF Summable
<1>4. R \in G
  BY <1>3
<1> QED BY <1>4 DEF G, Im

-----------------------------------------------------------------------------
(* What the steps of the market do to the sums.                             *)

GoldOf == [o \in Offer |-> HeldGold(o)]
ItemsOf == [o \in Offer |-> HeldItems(o)]
OwnedGold == [p \in Player |-> Owned(p).gold]
OwnedItems == [p \in Player |-> Owned(p).items]

\* No two have the same id.
IdsDiffer(S) == \A r, o \in S : r.id = o.id => r = o

\* The offer o in the table is the one row r was read of: only its amount may have
\* shrunk.
ReadFrom(r, o) ==
  /\ o.due /\ r.owner = o.owner /\ r.sale = o.sale /\ r.price = o.price
  /\ o.amount <= r.amount
  /\ ~shrunk => r = o

\* What the rows of the expiry queries have to do with the table.
RowsInv ==
  /\ IsFiniteSet(offers) /\ IdsDiffer(offers)
  /\ \A o \in offers : o.id <= created
  /\ \A i \in DOMAIN results :
       /\ IsFiniteSet(results[i]) /\ IdsDiffer(results[i])
       /\ \A r \in results[i] :
            r.id <= created /\ \A o \in offers : r.id = o.id => ReadFrom(r, o)

MarketInv == MarketTypeOK /\ RowsInv /\ NothingLost /\ NothingMade

\* What an offer holds is a natural number, more for more pieces.
LEMMA Holds ==
  /\ GoldOf \in [Offer -> Nat] /\ ItemsOf \in [Offer -> Nat]
  /\ \A r \in Offer : r.price \in Nat /\ r.amount \in Nat /\ r.price * r.amount \in Nat
  /\ \A r \in Offer, o \in Offer :
       r.sale = o.sale /\ r.price = o.price /\ o.amount <= r.amount
         => GoldOf[r] >= GoldOf[o] /\ ItemsOf[r] >= ItemsOf[o]
<1>1. \A r \in Offer : r.price \in Nat /\ r.amount \in Nat /\ r.sale \in BOOLEAN
  BY MarketAssumption DEF Offer
<1>2. \A r \in Offer : r.price * r.amount \in Nat
  BY <1>1, Products
<1>3. \A r \in Offer : /\ GoldOf[r] = IF r.sale THEN 0 ELSE r.price * r.amount
                       /\ ItemsOf[r] = IF r.sale THEN r.amount ELSE 0
  BY DEF GoldOf, ItemsOf, HeldGold, HeldItems
<1>4. \A r \in Offer : GoldOf[r] \in Nat /\ ItemsOf[r] \in Nat
  BY <1>1, <1>2, <1>3
<1>5. GoldOf \in [Offer -> Nat] /\ ItemsOf \in [Offer -> Nat]
  BY <1>4 DEF GoldOf, ItemsOf
<1>6. ASSUME NEW r \in Offer, NEW o \in Offer, r.sale = o.sale, r.price = o.price,
             o.amount <= r.amount
      PROVE  GoldOf[r] >= GoldOf[o] /\ ItemsOf[r] >= ItemsOf[o]
  <2>1. r.price * r.amount >= o.price * o.amount
    BY <1>1, <1>6, Products
  <2> QED BY <1>1, <1>3, <1>6, <2>1
<1> QED BY <1>1, <1>2, <1>5, <1>6

\* A function on the offers can be summed over those of the table.
LEMMA OffersSummable ==
  ASSUME MarketTypeOK, RowsInv, NEW F \in [Offer -> Nat]
  PROVE  /\ Summable(F, offers) /\ Total(F, offers) \in Nat
         /\ \A x \in offers : /\ Total(F, offers \ {x}) = Total(F, offers) - F[x]
                              /\ Summable(F, offers \ {x})
         /\ \A S, y : Summable(F, S) /\ y \in Offer /\ y \notin S
              => Total(F, S \cup {y}) = Total(F, S) + F[y]
<1>1. IsFiniteSet(offers) /\ \A x \in offers : x \in Offer /\ F[x] \in Nat
  BY DEF MarketTypeOK, RowsInv
<1>2. Summable(F, offers)
  BY <1>1 DEF Summable
<1>3. Total(F, offers) \in Nat
  BY <1>1, TotalNat
<1>4. ASSUME NEW x \in offers
      PROVE  Total(F, offers \ {x}) = Total(F, offers) - F[x] /\ Summable(F, offers \ {x})
  <2>1. Total(F, offers) = F[x] + Total(F, offers \ {x})
    BY <1>2, TotalSplit
  <2>2. Summable(F, offers \ {x})
    BY <1>2, FS_Subset DEF Summable
  <2>3. Total(F, offers \ {x}) \in Int
    BY <2>2, TotalInt
  <2> QED BY <1>1, <2>1, <2>2, <2>3
<1>5. ASSUME NEW S, NEW y, Summable(F, S), y \in Offer, y \notin S
      PROVE  Total(F, S \cup {y}) = Total(F, S) + F[y]
  <2> DEFINE R == S \cup {y}
  <2>1. IsFiniteSet(S) /\ \A x \in S : F[x] \in Int
    BY <1>5 DEF Summable
  <2>2. IsFiniteSet(R)
    BY <2>1, FS_AddElement
  <2>3. \A x \in R : F[x] \in Int
    BY <1>5, <2>1
  <2>4. Summable(F, R) /\ S \in SUBSET R /\ y \in R
    BY <2>2, <2>3 DEF Summable
  <2> HIDE DEF R
  <2>5. Total(F, S \cup {y}) = F[y] + Total(F, S) /\ Total(F, S) \in Int /\ F[y] \in Int
    BY <1>5, <2>4, TotalMore
  <2> QED BY <2>5
<1> QED BY <1>2, <1>3, <1>4, <1>5

\* The sums of what players own.
LEMMA OwnedSummable ==
  ASSUME MarketTypeOK
  PROVE  /\ Summable(OwnedGold, Player) /\ Summable(OwnedItems, Player)
         /\ Total(OwnedGold, Player) \in Nat /\ Total(OwnedItems, Player) \in Nat
         /\ \A p \in Player : /\ OwnedGold[p] = Owned(p).gold /\ Owned(p).gold \in Nat
                              /\ OwnedItems[p] = Owned(p).items /\ Owned(p).items \in Nat
<1>1. \A p \in Player : Owned(p) \in Account
  BY DEF MarketTypeOK, Owned
<1>2. \A p \in Player : /\ OwnedGold[p] = Owned(p).gold /\ Owned(p).gold \in Nat
                        /\ OwnedItems[p] = Owned(p).items /\ Owned(p).items \in Nat
  BY <1>1 DEF Account, OwnedGold, OwnedItems
<1>3. IsFiniteSet(Player)
  BY MarketAssumption
<1>4. Summable(OwnedGold, Player) /\ Summable(OwnedItems, Player)
  BY <1>2, <1>3 DEF Summable
<1>5. Total(OwnedGold, Player) \in Nat
  BY <1>2, <1>3, TotalNat
<1>6. Total(OwnedItems, Player) \in Nat
  BY <1>2, <1>3, TotalNat
<1> QED BY <1>2, <1>4, <1>5, <1>6

\* Gold and Items, over functions that do not depend on the table.
SumsInv ==
  /\ Gold = Total(OwnedGold, Player) + Total(GoldOf, offers) + fees
  /\ Items = Total(OwnedItems, Player) + Total(ItemsOf, offers)
  /\ Gold \in Nat /\ Items \in Nat
\* So they are while table and rows are in order, ...
LEMMA SumsAre == MarketTypeOK /\ RowsInv => SumsInv
<1> SUFFICES ASSUME MarketTypeOK, RowsInv PROVE SumsInv
  OBVIOUS
<1>1. Summable(GoldOf, offers) /\ Total(GoldOf, offers) \in Nat
  BY Holds, OffersSummable
<1>2. Summable(ItemsOf, offers) /\ Total(ItemsOf, offers) \in Nat
  BY Holds, OffersSummable
<1> DEFINE g == [o \in offers |-> HeldGold(o)]
           h == [o \in offers |-> HeldItems(o)]
<1>3. \A o \in offers : g[o] = GoldOf[o] /\ h[o] = ItemsOf[o]
  BY DEF MarketTypeOK, GoldOf, ItemsOf
<1>4. /\ Gold = Total(OwnedGold, Player) + Total(g, offers) + fees
      /\ Items = Total(OwnedItems, Player) + Total(h, offers)
  BY DEF Gold, Items, OwnedGold, OwnedItems
<1> HIDE DEF g, h
<1>5. Total(g, offers) = Total(GoldOf, offers)
  BY <1>1, <1>3, TotalSame
<1>6. Total(h, offers) = Total(ItemsOf, offers)
  BY <1>2, <1>3, TotalSame
<1>7. fees \in Nat
  BY DEF MarketTypeOK
<1> QED BY <1>1, <1>2, <1>4, <1>5, <1>6, <1>7, OwnedSummable DEF SumsInv

\* ... and so they are after a step.
LEMMA SumsAfter == MarketTypeOK' /\ RowsInv' => SumsInv'
BY SumsAre, PTL

\* Settle() changes the sums by what it adds to each account.
LEMMA Settled ==
  ASSUME MarketTypeOK, online' = online,
         NEW gold \in [Player -> Int], NEW items \in [Player -> Int], Settle(gold, items),
         \A p \in Player : /\ Owned(p).gold + gold[p] >= 0
                           /\ Owned(p).items + items[p] >= 0
  PROVE  /\ memory' \in [Player -> Account] /\ stored' \in [Player -> Account]
         /\ Total(OwnedGold', Player) = Total(OwnedGold, Player) + Total(gold, Player)
         /\ Total(OwnedItems', Player) = Total(OwnedItems, Player) + Total(items, Player)
         /\ Total(gold, Player) \in Int /\ Total(items, Player) \in Int
<1>1. /\ memory \in [Player -> Account] /\ stored \in [Player -> Account]
      /\ memory' = [p \in Player |-> IF p \in online
                      THEN [gold |-> memory[p].gold + gold[p],
                            items |-> memory[p].items + items[p]] ELSE memory[p]]
      /\ stored' = [p \in Player |-> IF p \in online THEN stored[p]
                      ELSE [gold |-> stored[p].gold + gold[p],
                            items |-> stored[p].items + items[p]]]
  BY DEF MarketTypeOK, Settle
<1>2. \A p \in Player :
        /\ OwnedGold'[p] = OwnedGold[p] + gold[p]
        /\ OwnedItems'[p] = OwnedItems[p] + items[p]
  BY <1>1 DEF OwnedGold, OwnedItems, Owned
<1>3. memory' \in [Player -> Account] /\ stored' \in [Player -> Account]
  <2>1. ASSUME NEW p \in Player PROVE memory'[p] \in Account /\ stored'[p] \in Account
    <3>1. memory[p] \in Account /\ stored[p] \in Account /\ gold[p] \in Int /\ items[p] \in Int
      BY <1>1
    <3>2. CASE p \in online
      <4>1. memory[p].gold + gold[p] \in Nat /\ memory[p].items + items[p] \in Nat
        BY <3>1, <3>2 DEF Owned, Account
      <4> QED BY <1>1, <3>1, <3>2, <4>1 DEF Account
    <3>3. CASE p \notin online
      <4>1. stored[p].gold + gold[p] \in Nat /\ stored[p].items + items[p] \in Nat
        BY <3>1, <3>3 DEF Owned, Account
      <4> QED BY <1>1, <3>1, <3>3, <4>1 DEF Account
    <3> QED BY <3>2, <3>3
  <2>2. memory' = [p \in Player |-> memory'[p]] /\ stored' = [p \in Player |-> stored'[p]]
    BY <1>1
  <2> QED BY <2>1, <2>2
<1>4. Summable(gold, Player) /\ Summable(items, Player)
  BY MarketAssumption DEF Summable
<1>5. Total(gold, Player) \in Int /\ Total(items, Player) \in Int
  BY <1>4, TotalInt
<1>6. Summable(OwnedGold, Player) /\ Summable(OwnedItems, Player)
  BY OwnedSummable
<1>7. Total(OwnedGold', Player) = Total(OwnedGold, Player) + Total(gold, Player)
  BY <1>2, <1>4, <1>6, TotalSum
<1>8. Total(OwnedItems', Player) = Total(OwnedItems, Player) + Total(items, Player)
  BY <1>2, <1>4, <1>6, TotalSum
<1> QED BY <1>3, <1>5, <1>7, <1>8

\* One player is given or pays.
LEMMA OnlyOne ==
  ASSUME NEW p \in Player, NEW n \in Int
  PROVE  /\ Only(p, n) \in [Player -> Int]
         /\ \A q \in Player : Only(p, n)[q] = IF q = p THEN n ELSE 0
         /\ Total(Only(p, n), Player) = n
<1> DEFINE f == Only(p, n)
<1>1. f \in [Player -> Int] /\ \A q \in Player : f[q] = IF q = p THEN n ELSE 0
  BY DEF Only
<1>2. f[p] = n /\ (\A q \in Player : q # p => f[q] = 0) /\ IsFiniteSet(Player)
  BY <1>1, MarketAssumption
<1> HIDE DEF f
<1>3. Total(f, Player) = f[p]
  BY <1>2, TotalOnly
<1> QED BY <1>1, <1>2, <1>3 DEF f

\* One pays another.
LEMMA OneToOther ==
  ASSUME NEW a \in Player, NEW b \in Player, NEW n \in Nat, NEW d,
         d = [q \in Player |-> Only(a, n)[q] - Only(b, n)[q]]
  PROVE  /\ d \in [Player -> Int] /\ Total(d, Player) = 0
         /\ \A q \in Player : d[q] >= IF q = b THEN -n ELSE 0
<1>1. n \in Int /\ -n \in Int
  OBVIOUS
<1>2. /\ Only(a, n) \in [Player -> Int] /\ Total(Only(a, n), Player) = n
      /\ \A q \in Player : Only(a, n)[q] = IF q = a THEN n ELSE 0
  BY <1>1, OnlyOne
<1>3. /\ Only(b, -n) \in [Player -> Int] /\ Total(Only(b, -n), Player) = -n
      /\ \A q \in Player : Only(b, -n)[q] = IF q = b THEN -n ELSE 0
  BY <1>1, OnlyOne
<1>4. \A q \in Player : Only(b, n)[q] = IF q = b THEN n ELSE 0
  BY <1>1, OnlyOne
<1>5. \A q \in Player : /\ d[q] = Only(a, n)[q] + Only(b, -n)[q]
                        /\ d[q] >= IF q = b THEN -n ELSE 0
                        /\ d[q] \in Int
  BY <1>2, <1>3, <1>4
<1>6. Summable(Only(a, n), Player) /\ Summable(Only(b, -n), Player)
  BY <1>2, <1>3, MarketAssumption DEF Summable
<1>7. Total(d, Player) = Total(Only(a, n), Player) + Total(Only(b, -n), Player)
  BY <1>5, <1>6, TotalSum
<1>8. d \in [Player -> Int]
  BY <1>5
<1> QED BY <1>2, <1>3, <1>5, <1>7, <1>8

\* The fee is a natural number.
LEMMA FeeNat == ASSUME NEW price \in Nat, NEW amount \in Nat PROVE Fee(price, amount) \in Nat
<1>1. \A a, b \in Nat : Max({a, b}) \in Nat
  <2> SUFFICES ASSUME NEW a \in Nat, NEW b \in Nat PROVE Max({a, b}) \in {a, b}
    OBVIOUS
  <2>1. \E x \in {a, b} : \A y \in {a, b} : x >= y
    <3>1. CASE a >= b
      BY <3>1
    <3>2. CASE b >= a
      BY <3>2
    <3> QED BY <3>1, <3>2
  <2> QED BY <2>1 DEF Max
<1>2. \A a, b \in Nat : Min({a, b}) \in Nat
  <2> SUFFICES ASSUME NEW a \in Nat, NEW b \in Nat PROVE Min({a, b}) \in {a, b}
    OBVIOUS
  <2>1. \E x \in {a, b} : \A y \in {a, b} : x =< y
    <3>1. CASE a >= b
      BY <3>1
    <3>2. CASE b >= a
      BY <3>2
    <3> QED BY <3>1, <3>2
  <2> QED BY <2>1 DEF Min
<1>3. price * amount \in Nat
  BY Products
<1>4. \A n \in Nat : n \div 100 \in Nat
  OBVIOUS
<1>5. (price * amount) \div 100 \in Nat
  BY <1>3, <1>4
<1>6. MinFee \in Nat /\ MaxFee \in Nat
  BY MarketAssumption
<1>7. Min({MaxFee, (price * amount) \div 100}) \in Nat
  BY <1>2, <1>5, <1>6
<1>8. Max({MinFee, Min({MaxFee, (price * amount) \div 100})}) \in Nat
  BY <1>1, <1>6, <1>7
<1> QED BY <1>8 DEF Fee

-----------------------------------------------------------------------------
(* The table and the rows, step by step.                                    *)

\* What is left of the table and of the results is as it was.
LEMMA FewerRows ==
  ASSUME RowsInv, offers' \subseteq offers, created' = created, shrunk' = shrunk,
         \A i \in DOMAIN results' : \E j \in DOMAIN results : results'[i] = results[j]
  PROVE  RowsInv'
<1>1. IsFiniteSet(offers') /\ IdsDiffer(offers') /\ \A o \in offers' : o.id <= created'
  BY FS_Subset DEF RowsInv, IdsDiffer
<1>2. ASSUME NEW i \in DOMAIN results'
      PROVE  /\ IsFiniteSet(results'[i]) /\ IdsDiffer(results'[i])
             /\ \A r \in results'[i] :
                  r.id <= created' /\ \A o \in offers' : r.id = o.id => ReadFrom(r, o)'
  <2>1. PICK j \in DOMAIN results : results'[i] = results[j]
    BY <1>2
  <2>2. /\ IsFiniteSet(results[j]) /\ IdsDiffer(results[j])
        /\ \A r \in results[j] :
             r.id <= created /\ \A o \in offers : r.id = o.id => ReadFrom(r, o)
    BY DEF RowsInv
  <2> QED BY <2>1, <2>2 DEF ReadFrom, IdsDiffer
<1>3. IdsDiffer(offers)' /\ \A i \in DOMAIN results' : IdsDiffer(results[i])'
  BY <1>1, <1>2 DEF IdsDiffer
<1> QED BY <1>1, <1>2, <1>3 DEF RowsInv

\* One offer is replaced by what remains of it, or by itself when it is due.
LEMMA OneReplaced ==
  ASSUME MarketTypeOK, RowsInv, NEW o \in offers, NEW n \in Offer,
         n.id = o.id, n.owner = o.owner, n.sale = o.sale, n.price = o.price,
         n.amount <= o.amount, o.due => n.due,
         offers' = (offers \ {o}) \cup {n}, created' = created, results' = results,
         shrunk \in BOOLEAN, shrunk => shrunk',
         ~shrunk' => \A i \in DOMAIN results : \A r \in results[i] : r.id # o.id
  PROVE  RowsInv' /\ offers' \subseteq Offer /\ n \notin offers \ {o}
<1>1. /\ IsFiniteSet(offers) /\ IdsDiffer(offers) /\ \A x \in offers : x.id <= created
      /\ \A i \in DOMAIN results :
           /\ IsFiniteSet(results[i]) /\ IdsDiffer(results[i])
           /\ \A r \in results[i] :
                r.id <= created /\ \A x \in offers : r.id = x.id => ReadFrom(r, x)
  BY DEF RowsInv
<1>2. offers' \subseteq Offer
  BY DEF MarketTypeOK
<1>3. \A x \in offers \ {o} : x.id # n.id
  BY <1>1 DEF IdsDiffer
<1>4. IsFiniteSet(offers')
  <2>1. IsFiniteSet(offers \ {o})
    BY <1>1, FS_Subset
  <2> QED BY <2>1, FS_AddElement
<1>5. IdsDiffer(offers')
  BY <1>1, <1>3 DEF IdsDiffer
<1>6. \A x \in offers' : x.id <= created'
  BY <1>1
<1>7. ASSUME NEW i \in DOMAIN results, NEW r \in results[i], NEW x \in offers', r.id = x.id
      PROVE  ReadFrom(r, x)'
  <2>1. CASE x \in offers \ {o}
    BY <1>1, <1>7, <2>1 DEF ReadFrom
  <2>2. CASE x = n
    <3>1. ReadFrom(r, o) /\ shrunk'
      BY <1>1, <1>7, <2>2
    <3>2. o.amount \in Nat /\ n.amount \in Nat /\ \A y \in results[i] : y.amount \in Nat
      BY DEF MarketTypeOK, Offer
    <3> QED BY <2>2, <3>1, <3>2 DEF ReadFrom
  <2> QED BY <2>1, <2>2
<1>8. \A i \in DOMAIN results' :
        /\ IsFiniteSet(results'[i]) /\ IdsDiffer(results'[i])
        /\ \A r \in results'[i] :
             r.id <= created' /\ \A x \in offers' : r.id = x.id => ReadFrom(r, x)'
  BY <1>1, <1>7
<1>9. IdsDiffer(offers)' /\ \A i \in DOMAIN results' : IdsDiffer(results[i])'
  BY <1>5, <1>8 DEF IdsDiffer
<1>10. RowsInv'
  BY <1>4, <1>6, <1>8, <1>9 DEF RowsInv
<1> QED BY <1>2, <1>3, <1>10

\* An id that no offer had before.
LEMMA OneCreated ==
  ASSUME MarketTypeOK, RowsInv, NEW n \in Offer, n.id = created + 1,
         offers' = offers \cup {n}, created' = created + 1, results' = results,
         shrunk' = shrunk
  PROVE  RowsInv' /\ offers' \subseteq Offer /\ n \notin offers
<1>1. /\ IsFiniteSet(offers) /\ IdsDiffer(offers) /\ \A x \in offers : x.id <= created
      /\ \A i \in DOMAIN results :
           /\ IsFiniteSet(results[i]) /\ IdsDiffer(results[i])
           /\ \A r \in results[i] :
                r.id <= created /\ \A x \in offers : r.id = x.id => ReadFrom(r, x)
  BY DEF RowsInv
<1>2. /\ offers \subseteq Offer /\ created \in Int
      /\ \A i \in DOMAIN results : results[i] \subseteq Offer
  BY MarketAssumption DEF MarketTypeOK
<1>3. \A x \in Offer : x.id \in Int
  BY MarketAssumption DEF Offer
<1>4. /\ \A x \in offers : x.id # n.id /\ x.id <= created'
      /\ \A i \in DOMAIN results : \A r \in results[i] : r.id # n.id /\ r.id <= created'
  BY <1>1, <1>2, <1>3
<1>5. IsFiniteSet(offers')
  BY <1>1, FS_AddElement
<1>6. IdsDiffer(offers') /\ \A x \in offers' : x.id <= created'
  BY <1>1, <1>2, <1>4 DEF IdsDiffer
<1>7. \A i \in DOMAIN results' :
        /\ IsFiniteSet(results'[i]) /\ IdsDiffer(results'[i])
        /\ \A r \in results'[i] :
             r.id <= created' /\ \A x \in offers' : r.id = x.id => ReadFrom(r, x)'
  BY <1>1, <1>4 DEF ReadFrom
<1>8. IdsDiffer(offers)' /\ \A i \in DOMAIN results' : IdsDiffer(results[i])'
  BY <1>6, <1>7 DEF IdsDiffer
<1>9. RowsInv'
  BY <1>5, <1>6, <1>7, <1>8 DEF RowsInv
<1> QED BY <1>2, <1>4, <1>9

-----------------------------------------------------------------------------
(* The balance, step by step.                                               *)

\* A step that loses and makes nothing.
Even ==
  /\ MarketTypeOK' /\ RowsInv' /\ shrunk' \in BOOLEAN /\ (shrunk => shrunk')
  /\ Gold' = Gold /\ Items' = Items

\* Nothing moves.
LEMMA NothingMoves ==
  ASSUME MarketTypeOK, RowsInv, MarketTypeOK', RowsInv', fees' = fees, offers' = offers,
         shrunk' = shrunk, \A p \in Player : Owned(p)' = Owned(p)
  PROVE  Even
<1>1. /\ Gold = Total(OwnedGold, Player) + Total(GoldOf, offers) + fees
      /\ Items = Total(OwnedItems, Player) + Total(ItemsOf, offers)
  BY SumsAre DEF SumsInv
<1>2. /\ Gold' = Total(OwnedGold', Player) + Total(GoldOf, offers') + fees'
      /\ Items' = Total(OwnedItems', Player) + Total(ItemsOf, offers')
  BY SumsAfter DEF SumsInv, GoldOf, ItemsOf, Offer, HeldGold, HeldItems
<1>3. OwnedGold' = OwnedGold /\ OwnedItems' = OwnedItems
  BY DEF OwnedGold, OwnedItems
<1> QED BY <1>1, <1>2, <1>3 DEF Even, MarketTypeOK

\* Players come and go.
LEMMA LoginEven ==
  ASSUME MarketTypeOK, RowsInv, NEW p \in Player, Login(p) \/ Logout(p)
  PROVE  Even
<1>1. /\ offers' = offers /\ created' = created /\ asked' = asked /\ results' = results
      /\ fees' = fees /\ shrunk' = shrunk
  BY DEF Login, Logout
<1>2. memory \in [Player -> Account] /\ stored \in [Player -> Account] /\ Empty \in Account
  BY DEF MarketTypeOK, Account, Empty
<1>3. RowsInv'
  BY <1>1, FewerRows
<1>4. MarketTypeOK'
  <2>1. online' \subseteq Player
    BY DEF MarketTypeOK, Login, Logout
  <2>2. memory' \in [Player -> Account] /\ stored' \in [Player -> Account]
    BY <1>2 DEF Login, Logout
  <2> QED BY <1>1, <2>1, <2>2 DEF MarketTypeOK
<1>5. \A q \in Player : Owned(q)' = Owned(q)
  BY <1>2 DEF Login, Logout, Owned
<1> QED BY <1>1, <1>3, <1>4, <1>5, NothingMoves

\* Time passes, and queries are asked for and run.
LEMMA FallDueEven ==
  ASSUME MarketTypeOK, RowsInv, NEW o \in offers, FallDue(o)
  PROVE  Even
<1> DEFINE n == [o EXCEPT !.due = TRUE]
<1>1. /\ online' = online /\ memory' = memory /\ stored' = stored /\ created' = created
      /\ asked' = asked /\ results' = results /\ fees' = fees /\ shrunk' = shrunk
      /\ offers' = (offers \ {o}) \cup {n} /\ ~ o.due
  BY DEF FallDue
<1>2. o \in Offer /\ shrunk \in BOOLEAN
  BY DEF MarketTypeOK
<1>3. /\ n \in Offer /\ n.id = o.id /\ n.owner = o.owner /\ n.sale = o.sale
      /\ n.price = o.price /\ n.amount = o.amount /\ n.due /\ o.amount \in Nat
  BY <1>2 DEF Offer
<1>4. \A i \in DOMAIN results : \A r \in results[i] : r.id # o.id
  BY <1>1 DEF RowsInv, ReadFrom
<1> HIDE DEF n
<1>5. RowsInv' /\ offers' \subseteq Offer /\ n \notin offers \ {o}
  <2>1. n.amount <= o.amount
    BY <1>3
  <2> QED BY <1>1, <1>2, <1>3, <1>4, <2>1, OneReplaced
<1>6. MarketTypeOK'
  BY <1>1, <1>5 DEF MarketTypeOK
<1>7. GoldOf[n] = GoldOf[o] /\ ItemsOf[n] = ItemsOf[o]
  BY <1>2, <1>3 DEF GoldOf, ItemsOf, HeldGold, HeldItems
<1>8. ASSUME NEW F \in [Offer -> Nat], F[n] = F[o]
      PROVE  Total(F, offers') = Total(F, offers)
  <2>1. Total(F, offers \ {o}) = Total(F, offers) - F[o] /\ Summable(F, offers \ {o})
        /\ Total(F, offers) \in Nat
    BY OffersSummable
  <2>2. Total(F, (offers \ {o}) \cup {n}) = Total(F, offers \ {o}) + F[n]
    BY <1>3, <1>5, <2>1, OffersSummable
  <2>3. F[o] \in Nat
    BY <1>2
  <2> QED BY <1>1, <1>8, <2>1, <2>2, <2>3
<1>9. Total(GoldOf, offers') = Total(GoldOf, offers) /\ Total(ItemsOf, offers') = Total(ItemsOf, offers)
  BY <1>7, <1>8, Holds
<1>10. /\ Gold = Total(OwnedGold, Player) + Total(GoldOf, offers) + fees
       /\ Items = Total(OwnedItems, Player) + Total(ItemsOf, offers)
  BY SumsAre DEF SumsInv
<1>11. /\ Gold' = Total(OwnedGold', Player) + Total(GoldOf, offers') + fees'
       /\ Items' = Total(OwnedItems', Player) + Total(ItemsOf, offers')
  BY <1>5, <1>6, SumsAfter DEF SumsInv, GoldOf, ItemsOf, Offer, HeldGold, HeldItems
<1>12. OwnedGold' = OwnedGold /\ OwnedItems' = OwnedItems
  BY <1>1 DEF OwnedGold, OwnedItems, Owned
<1> QED BY <1>1, <1>2, <1>5, <1>6, <1>9, <1>10, <1>11, <1>12 DEF Even

\* The expiry queries are asked and run: only the rows are new, and read from the table.
LEMMA QueryEven ==
  ASSUME MarketTypeOK, RowsInv, CheckExpiredOffers \/ SelectExpired
  PROVE  Even
<1>1. /\ online' = online /\ memory' = memory /\ stored' = stored /\ created' = created
      /\ offers' = offers /\ fees' = fees /\ shrunk' = shrunk
  BY DEF CheckExpiredOffers, SelectExpired
<1>2. \A q \in Player : Owned(q)' = Owned(q)
  BY <1>1 DEF Owned
<1>3. CASE CheckExpiredOffers
  <2>1. RowsInv'
    BY <1>1, <1>3, FewerRows DEF CheckExpiredOffers
  <2>2. asked' \in 0..MaxQueries
    <3>1. Len(results) \in Nat /\ asked \in 0..MaxQueries
      BY DEF MarketTypeOK
    <3> QED BY <1>3, <3>1, MarketAssumption DEF CheckExpiredOffers
  <2>3. MarketTypeOK'
    BY <1>1, <1>3, <2>2 DEF MarketTypeOK, CheckExpiredOffers
  <2> QED BY <1>1, <1>2, <2>1, <2>3, NothingMoves
<1>4. CASE SelectExpired
  <2>1. results' = Append(results, Overdue) /\ asked' = asked - 1 /\ asked > 0
    BY <1>4 DEF SelectExpired
  <2>2. results \in Seq(SUBSET Offer) /\ Overdue \in SUBSET Offer /\ Overdue \subseteq offers
    BY DEF MarketTypeOK, Overdue
  <2>3. MarketTypeOK'
    <3>1. results' \in Seq(SUBSET Offer)
      BY <2>1, <2>2
    <3>2. asked' \in 0..MaxQueries
      BY <2>1, MarketAssumption DEF MarketTypeOK
    <3> QED BY <1>1, <3>1, <3>2 DEF MarketTypeOK
  <2>4. /\ DOMAIN results' = 1..(Len(results) + 1) /\ DOMAIN results = 1..Len(results)
        /\ Len(results) \in Nat /\ results'[Len(results) + 1] = Overdue
        /\ \A i \in 1..Len(results) : results'[i] = results[i]
    BY <2>1, <2>2
  <2>5. IsFiniteSet(Overdue) /\ IdsDiffer(Overdue)
    BY <2>2, FS_Subset DEF RowsInv, IdsDiffer
  <2>6. ASSUME NEW r \in Overdue
        PROVE  r.id <= created /\ \A o \in offers : r.id = o.id => ReadFrom(r, o)
    <3>1. r \in offers /\ r.due
      BY DEF Overdue
    <3>2. ASSUME NEW o \in offers, r.id = o.id PROVE ReadFrom(r, o)
      <4>1. r = o
        BY <3>1, <3>2 DEF RowsInv, IdsDiffer
      <4>2. r.amount <= r.amount
        BY <3>1 DEF MarketTypeOK, Offer
      <4> QED BY <3>1, <4>1, <4>2 DEF ReadFrom
    <3> QED BY <3>1, <3>2 DEF RowsInv
  <2>7. ASSUME NEW i \in DOMAIN results'
        PROVE  /\ IsFiniteSet(results'[i]) /\ IdsDiffer(results'[i])
               /\ \A r \in results'[i] :
                    r.id <= created' /\ \A o \in offers' : r.id = o.id => ReadFrom(r, o)'
    <3>1. CASE i \in 1..Len(results)
      BY <1>1, <2>4, <3>1 DEF RowsInv, ReadFrom
    <3>2. CASE i = Len(results) + 1
      BY <1>1, <2>4, <2>5, <2>6, <3>2 DEF ReadFrom
    <3>3. i \in 1..Len(results) \/ i = Len(results) + 1
      BY <2>4
    <3> QED BY <3>1, <3>2, <3>3
  <2>8. IdsDiffer(offers)' /\ \A i \in DOMAIN results' : IdsDiffer(results[i])'
    BY <1>1, <2>7 DEF RowsInv, IdsDiffer
  <2>9. RowsInv'
    BY <1>1, <2>7, <2>8 DEF RowsInv
  <2> QED BY <1>1, <1>2, <2>3, <2>9, NothingMoves
<1> QED BY <1>3, <1>4

\* An offer takes what it holds from its owner.
LEMMA CreateEven ==
  ASSUME MarketTypeOK, RowsInv, NEW p \in Player, NEW sale \in BOOLEAN,
         NEW amount \in Offered, NEW price \in Prices, CreateOffer(p, sale, amount, price)
  PROVE  Even
<1> DEFINE fee == Fee(price, amount)
           cost == IF sale THEN fee ELSE price * amount + fee
           given == IF sale THEN amount ELSE 0
           n == [id |-> created + 1, owner |-> p, sale |-> sale, amount |-> amount,
                 price |-> price, due |-> FALSE]
           gold == Only(p, -cost)
           items == Only(p, IF sale THEN -amount ELSE 0)
<1>1. /\ online' = online /\ asked' = asked /\ results' = results /\ shrunk' = shrunk
      /\ created' = created + 1 /\ offers' = offers \cup {n} /\ fees' = fees + fee
      /\ Settle(gold, items) /\ created < MaxCreated /\ p \in online
      /\ cost <= memory[p].gold /\ given <= memory[p].items
  BY DEF CreateOffer, Has
<1>2. amount \in Nat \ {0} /\ price \in Nat /\ price * amount \in Nat /\ fee \in Nat
  <2>1. amount \in Nat \ {0} /\ price \in Nat
    BY MarketAssumption
  <2> QED BY <2>1, FeeNat, Products
<1>3. /\ n \in Offer /\ n.id = created + 1
      /\ GoldOf[n] = (IF sale THEN 0 ELSE price * amount) /\ ItemsOf[n] = given
  <2>1. created + 1 \in 1..MaxCreated
    BY <1>1, MarketAssumption DEF MarketTypeOK
  <2>2. n \in Offer
    BY <1>2, <2>1 DEF Offer
  <2> QED BY <2>2 DEF GoldOf, ItemsOf, HeldGold, HeldItems
<1>4. cost \in Nat /\ given \in Nat /\ cost = GoldOf[n] + fee /\ fee \in Nat
  BY <1>2, <1>3
<1> HIDE DEF fee, n, cost, gold
<1>5. /\ gold \in [Player -> Int] /\ Total(gold, Player) = -cost
      /\ \A q \in Player : gold[q] = IF q = p THEN -cost ELSE 0
  <2>1. -cost \in Int
    BY <1>4
  <2> QED BY <2>1, OnlyOne DEF gold
<1>6. /\ items \in [Player -> Int] /\ Total(items, Player) = -given
      /\ \A q \in Player : items[q] = IF q = p THEN -given ELSE 0
  <2>1. (IF sale THEN -amount ELSE 0) = -given /\ -given \in Int
    BY <1>2
  <2> HIDE DEF given
  <2> QED BY <2>1, OnlyOne
<1> HIDE DEF given, items
<1>7. \A q \in Player : Owned(q).gold + gold[q] >= 0 /\ Owned(q).items + items[q] >= 0
  <2>1. Owned(p) = memory[p]
    BY <1>1 DEF Owned
  <2> QED BY <1>1, <1>4, <1>5, <1>6, <2>1, OwnedSummable
<1>8. /\ memory' \in [Player -> Account] /\ stored' \in [Player -> Account]
      /\ Total(OwnedGold', Player) = Total(OwnedGold, Player) - cost
      /\ Total(OwnedItems', Player) = Total(OwnedItems, Player) - given
  <2>1. /\ memory' \in [Player -> Account] /\ stored' \in [Player -> Account]
        /\ Total(OwnedGold', Player) = Total(OwnedGold, Player) + Total(gold, Player)
        /\ Total(OwnedItems', Player) = Total(OwnedItems, Player) + Total(items, Player)
    BY <1>1, <1>5, <1>6, <1>7, Settled
  <2>2. Total(OwnedGold, Player) \in Nat /\ Total(OwnedItems, Player) \in Nat
    BY OwnedSummable
  <2> QED BY <1>4, <1>5, <1>6, <2>1, <2>2
<1>9. RowsInv' /\ offers' \subseteq Offer /\ n \notin offers
  BY <1>1, <1>3, OneCreated
<1>10. MarketTypeOK'
  <2>1. created' \in 0..MaxCreated /\ fees' \in Nat
    BY <1>1, <1>2, MarketAssumption DEF MarketTypeOK
  <2> QED BY <1>1, <1>8, <1>9, <2>1 DEF MarketTypeOK
<1>11. ASSUME NEW F \in [Offer -> Nat]
       PROVE  Total(F, offers') = Total(F, offers) + F[n] /\ Total(F, offers) \in Nat
  BY <1>1, <1>3, <1>9, OffersSummable
<1>12. /\ Total(GoldOf, offers') = Total(GoldOf, offers) + GoldOf[n]
       /\ Total(ItemsOf, offers') = Total(ItemsOf, offers) + ItemsOf[n]
       /\ Total(GoldOf, offers) \in Nat /\ Total(ItemsOf, offers) \in Nat
       /\ GoldOf[n] \in Nat
  BY <1>3, <1>11, Holds
<1>13. /\ Gold = Total(OwnedGold, Player) + Total(GoldOf, offers) + fees
       /\ Items = Total(OwnedItems, Player) + Total(ItemsOf, offers)
  BY SumsAre DEF SumsInv
<1>14. /\ Gold' = Total(OwnedGold', Player) + Total(GoldOf, offers') + fees'
       /\ Items' = Total(OwnedItems', Player) + Total(ItemsOf, offers')
  BY <1>9, <1>10, SumsAfter DEF SumsInv, GoldOf, ItemsOf, Offer, HeldGold, HeldItems
<1>15. /\ Total(OwnedGold, Player) \in Nat /\ Total(OwnedItems, Player) \in Nat
       /\ fees \in Nat /\ shrunk \in BOOLEAN
  BY OwnedSummable DEF MarketTypeOK
<1>16. Gold' = Gold /\ Items' = Items
  BY <1>1, <1>3, <1>4, <1>8, <1>12, <1>13, <1>14, <1>15
<1> QED BY <1>1, <1>9, <1>10, <1>15, <1>16 DEF Even

\* A cancelled offer gives it back.
LEMMA CancelEven ==
  ASSUME MarketTypeOK, RowsInv, NEW p \in Player, NEW o \in offers, CancelOffer(p, o)
  PROVE  Even
<1> DEFINE g == IF o.sale THEN 0 ELSE o.price * o.amount
           h == IF o.sale THEN o.amount ELSE 0
           gold == Only(p, g)
           items == Only(p, h)
<1>1. /\ online' = online /\ asked' = asked /\ results' = results /\ shrunk' = shrunk
      /\ created' = created /\ offers' = offers \ {o} /\ fees' = fees
      /\ Settle(gold, items)
  BY DEF CancelOffer
<1>2. o \in Offer
  BY DEF MarketTypeOK
<1>3. GoldOf[o] = g /\ ItemsOf[o] = h /\ g \in Nat /\ h \in Nat
  <2>1. GoldOf[o] = g /\ ItemsOf[o] = h
    BY <1>2 DEF GoldOf, ItemsOf, HeldGold, HeldItems
  <2> HIDE DEF g, h
  <2> QED BY <1>2, <2>1, Holds
<1> HIDE DEF g, h
<1>4. /\ gold \in [Player -> Int] /\ Total(gold, Player) = g
      /\ \A q \in Player : gold[q] >= 0
  <2>1. g \in Int
    BY <1>3
  <2>2. /\ gold \in [Player -> Int] /\ Total(gold, Player) = g
        /\ \A q \in Player : gold[q] = IF q = p THEN g ELSE 0
    BY <2>1, OnlyOne
  <2> HIDE DEF gold
  <2> QED BY <1>3, <2>2
<1>5. /\ items \in [Player -> Int] /\ Total(items, Player) = h
      /\ \A q \in Player : items[q] >= 0
  <2>1. h \in Int
    BY <1>3
  <2>2. /\ items \in [Player -> Int] /\ Total(items, Player) = h
        /\ \A q \in Player : items[q] = IF q = p THEN h ELSE 0
    BY <2>1, OnlyOne
  <2> HIDE DEF items
  <2> QED BY <1>3, <2>2
<1> HIDE DEF gold, items
<1>6. \A q \in Player : Owned(q).gold + gold[q] >= 0 /\ Owned(q).items + items[q] >= 0
  BY <1>4, <1>5, OwnedSummable
<1>7. /\ memory' \in [Player -> Account] /\ stored' \in [Player -> Account]
      /\ Total(OwnedGold', Player) = Total(OwnedGold, Player) + g
      /\ Total(OwnedItems', Player) = Total(OwnedItems, Player) + h
  <2>1. /\ memory' \in [Player -> Account] /\ stored' \in [Player -> Account]
        /\ Total(OwnedGold', Player) = Total(OwnedGold, Player) + Total(gold, Player)
        /\ Total(OwnedItems', Player) = Total(OwnedItems, Player) + Total(items, Player)
    BY <1>1, <1>4, <1>5, <1>6, Settled
  <2> QED BY <1>4, <1>5, <2>1
<1>8. RowsInv' /\ offers' \subseteq Offer
  <2>1. RowsInv'
    BY <1>1, FewerRows
  <2> QED BY <1>1, <2>1 DEF MarketTypeOK
<1>9. MarketTypeOK'
  BY <1>1, <1>7, <1>8 DEF MarketTypeOK
<1>10. ASSUME NEW F \in [Offer -> Nat]
       PROVE  Total(F, offers') = Total(F, offers) - F[o] /\ Total(F, offers) \in Nat
  BY <1>1, OffersSummable
<1>11. /\ Total(GoldOf, offers') = Total(GoldOf, offers) - g
       /\ Total(ItemsOf, offers') = Total(ItemsOf, offers) - h
       /\ Total(GoldOf, offers) \in Nat /\ Total(ItemsOf, offers) \in Nat
  BY <1>3, <1>10, Holds
<1>12. /\ Gold = Total(OwnedGold, Player) + Total(GoldOf, offers) + fees
       /\ Items = Total(OwnedItems, Player) + Total(ItemsOf, offers)
  BY SumsAre DEF SumsInv
<1>13. /\ Gold' = Total(OwnedGold', Player) + Total(GoldOf, offers') + fees'
       /\ Items' = Total(OwnedItems', Player) + Total(ItemsOf, offers')
  BY <1>8, <1>9, SumsAfter DEF SumsInv, GoldOf, ItemsOf, Offer, HeldGold, HeldItems
<1>14. /\ Total(OwnedGold, Player) \in Nat /\ Total(OwnedItems, Player) \in Nat
       /\ fees \in Nat /\ shrunk \in BOOLEAN
  BY OwnedSummable DEF MarketTypeOK
<1>15. Gold' = Gold /\ Items' = Items
  BY <1>1, <1>3, <1>7, <1>11, <1>12, <1>13, <1>14
<1> QED BY <1>1, <1>8, <1>9, <1>14, <1>15 DEF Even

\* Who accepts an offer swaps what it holds, or a part of it, for its price.
LEMMA AcceptEven ==
  ASSUME MarketTypeOK, RowsInv, NEW p \in Player, NEW o \in offers, NEW amount \in Accepted,
         AcceptOffer(p, o, amount)
  PROVE  Even
<1> DEFINE total == o.price * amount
           left == o.amount - amount
           n == [o EXCEPT !.amount = left]
           paid == IF o.sale THEN 0 ELSE total
           given == IF o.sale THEN amount ELSE 0
           goldLeft == IF o.sale THEN 0 ELSE o.price * left
           itemsLeft == IF o.sale THEN left ELSE 0
<1>1. /\ online' = online /\ asked' = asked /\ results' = results
      /\ created' = created /\ fees' = fees /\ p \in online
      /\ offers' = (offers \ {o}) \cup IF left = 0 THEN {} ELSE {n}
      /\ shrunk' = (shrunk \/ /\ left > 0
                              /\ \E i \in DOMAIN results :
                                   \E row \in results[i] : row.id = o.id)
      /\ amount <= o.amount
  BY DEF AcceptOffer
<1>2. /\ o \in Offer /\ shrunk \in BOOLEAN /\ o.owner \in Player /\ o.sale \in BOOLEAN
      /\ o.price \in Nat /\ o.amount \in Nat /\ amount \in Nat
  BY Holds, MarketAssumption DEF MarketTypeOK, Offer
<1>3. left \in Nat /\ total \in Nat /\ o.price * left \in Nat
      /\ o.price * o.amount = o.price * left + total
  <2>1. left \in Nat
    BY <1>1, <1>2
  <2>2. o.amount = left + amount
    BY <1>2
  <2> HIDE DEF left
  <2>3. o.price * (left + amount) = o.price * left + o.price * amount
    BY <1>2, <2>1, Products
  <2> QED BY <1>2, <2>1, <2>2, <2>3, Products
<1>4. /\ GoldOf[o] = goldLeft + paid /\ ItemsOf[o] = itemsLeft + given
      /\ goldLeft \in Nat /\ itemsLeft \in Nat /\ paid \in Nat /\ given \in Nat
  <2>1. /\ GoldOf[o] = (IF o.sale THEN 0 ELSE o.price * o.amount)
        /\ ItemsOf[o] = (IF o.sale THEN o.amount ELSE 0)
    BY <1>2 DEF GoldOf, ItemsOf, HeldGold, HeldItems
  <2>2. o.amount = left + amount
    BY <1>2
  <2> HIDE DEF left, total
  <2> QED BY <1>2, <1>3, <2>1, <2>2
<1>5. ASSUME left = 0 PROVE RowsInv' /\ offers' \subseteq Offer
  <2>1. offers' = offers \ {o} /\ shrunk' = shrunk
    BY <1>1, <1>2, <1>5
  <2>2. RowsInv'
    BY <1>1, <2>1, FewerRows
  <2>3. offers' \subseteq Offer
    BY <2>1 DEF MarketTypeOK
  <2> QED BY <2>2, <2>3
<1>6. ASSUME left # 0 PROVE RowsInv' /\ offers' \subseteq Offer
  <2>1. /\ n \in Offer /\ n.id = o.id /\ n.owner = o.owner /\ n.sale = o.sale
        /\ n.price = o.price /\ n.due = o.due /\ n.amount = left
    <3>1. left \in Nat \ {0}
      BY <1>3, <1>6
    <3> HIDE DEF left
    <3> QED BY <1>2, <3>1 DEF Offer
  <2>2. offers' = (offers \ {o}) \cup {n} /\ left <= o.amount /\ left > 0
    BY <1>1, <1>2, <1>3, <1>6
  <2> HIDE DEF n, left
  <2>4. shrunk => shrunk'
    BY <1>1
  <2>5. ~shrunk' => \A i \in DOMAIN results : \A r \in results[i] : r.id # o.id
    BY <1>1, <2>2
  <2>6. RowsInv' /\ offers' \subseteq Offer /\ n \notin offers \ {o}
    BY <1>1, <1>2, <2>1, <2>2, <2>4, <2>5, OneReplaced
  <2> QED BY <2>6
<1>7. RowsInv' /\ offers' \subseteq Offer
  BY <1>5, <1>6
<1>8. \A F \in [Offer -> Nat] :
        /\ Total(F, offers \ {o}) = Total(F, offers) - F[o] /\ Total(F, offers) \in Nat
        /\ \A y : y \in Offer /\ y \notin offers \ {o} =>
             Total(F, (offers \ {o}) \cup {y}) = Total(F, offers) - F[o] + F[y]
  <2> TAKE F \in [Offer -> Nat]
  <2>1. /\ Total(F, offers \ {o}) = Total(F, offers) - F[o] /\ Total(F, offers) \in Nat
        /\ Summable(F, offers \ {o})
    BY OffersSummable
  <2>2. ASSUME NEW y \in Offer, y \notin offers \ {o}
        PROVE  Total(F, (offers \ {o}) \cup {y}) = Total(F, offers \ {o}) + F[y]
    BY <2>1, <2>2, OffersSummable
  <2> QED BY <2>1, <2>2
<1>9. /\ Total(GoldOf, offers') = Total(GoldOf, offers) - GoldOf[o] + goldLeft
      /\ Total(ItemsOf, offers') = Total(ItemsOf, offers) - ItemsOf[o] + itemsLeft
      /\ Total(GoldOf, offers) \in Nat /\ Total(ItemsOf, offers) \in Nat
  <2> HIDE DEF goldLeft, itemsLeft, n, left
  <2>1. GoldOf \in [Offer -> Nat] /\ ItemsOf \in [Offer -> Nat]
    BY Holds
  <2>2. GoldOf[o] \in Nat /\ ItemsOf[o] \in Nat
    BY <1>2, <2>1
  <2>3. /\ Total(GoldOf, offers \ {o}) = Total(GoldOf, offers) - GoldOf[o]
        /\ Total(ItemsOf, offers \ {o}) = Total(ItemsOf, offers) - ItemsOf[o]
        /\ Total(GoldOf, offers) \in Nat /\ Total(ItemsOf, offers) \in Nat
    BY <1>8, <2>1
  <2>4. CASE left = 0
    <3>1. offers' = offers \ {o} /\ goldLeft = 0 /\ itemsLeft = 0
      BY <1>1, <1>2, <2>4 DEF goldLeft, itemsLeft
    <3> QED BY <2>2, <2>3, <3>1
  <2>5. CASE left # 0
    <3>1. left \in Nat \ {0}
      BY <1>3, <2>5
    <3>2. /\ n \in Offer /\ GoldOf[n] = goldLeft /\ ItemsOf[n] = itemsLeft
          /\ n.id = o.id
      BY <1>2, <3>1 DEF n, Offer, GoldOf, ItemsOf, HeldGold, HeldItems, goldLeft, itemsLeft
    <3>3. offers' = (offers \ {o}) \cup {n}
      BY <1>1, <2>5
    <3>4. n \notin offers \ {o}
      BY <3>2 DEF RowsInv, IdsDiffer
    <3>5. /\ Total(GoldOf, (offers \ {o}) \cup {n}) = Total(GoldOf, offers) - GoldOf[o] + GoldOf[n]
          /\ Total(ItemsOf, (offers \ {o}) \cup {n}) = Total(ItemsOf, offers) - ItemsOf[o] + ItemsOf[n]
      BY <1>8, <2>1, <3>2, <3>4
    <3> QED BY <2>3, <3>2, <3>3, <3>5
  <2> QED BY <2>4, <2>5
<1> HIDE DEF n, left, goldLeft, itemsLeft, total
<1>10. PICK gold \in [Player -> Int], items \in [Player -> Int] :
         /\ Settle(gold, items) /\ Total(gold, Player) = paid /\ Total(items, Player) = given
         /\ \A q \in Player : /\ Owned(q).gold + gold[q] >= 0
                              /\ Owned(q).items + items[q] >= 0
  <2>1. Owned(p) = memory[p] /\ total \in Int /\ amount \in Int
    BY <1>1, <1>2, <1>3 DEF Owned
  <2>2. \A q \in Player : Owned(q).gold \in Nat /\ Owned(q).items \in Nat
    BY OwnedSummable
  <2>3. CASE o.sale
    <3> DEFINE g == [q \in Player |-> Only(o.owner, total)[q] - Only(p, total)[q]]
               h == Only(p, amount)
    <3>1. Settle(g, h) /\ total <= memory[p].gold
      BY <2>3 DEF AcceptOffer, Has, total
    <3>2. /\ g \in [Player -> Int] /\ Total(g, Player) = 0
          /\ \A q \in Player : g[q] >= IF q = p THEN -total ELSE 0
      BY <1>2, <1>3, OneToOther
    <3>3. /\ h \in [Player -> Int] /\ Total(h, Player) = amount
          /\ \A q \in Player : h[q] = IF q = p THEN amount ELSE 0
      BY <2>1, OnlyOne
    <3> HIDE DEF g, h
    <3>4. ASSUME NEW q \in Player
          PROVE  Owned(q).gold + g[q] >= 0 /\ Owned(q).items + h[q] >= 0
      <4>1. g[q] \in Int /\ h[q] \in Int
        BY <3>2, <3>3
      <4>2. CASE q = p
        BY <1>3, <1>2, <2>1, <2>2, <3>1, <3>2, <3>3, <4>1, <4>2
      <4>3. CASE q # p
        BY <2>2, <3>2, <3>3, <4>1, <4>3
      <4> QED BY <4>2, <4>3
    <3>5. paid = 0 /\ given = amount
      BY <2>3
    <3> QED BY <3>1, <3>2, <3>3, <3>4, <3>5
  <2>4. CASE ~ o.sale
    <3> DEFINE g == Only(p, total)
               h == [q \in Player |-> Only(o.owner, amount)[q] - Only(p, amount)[q]]
    <3>1. Settle(g, h) /\ amount <= memory[p].items
      BY <2>4 DEF AcceptOffer, Has, total
    <3>2. /\ h \in [Player -> Int] /\ Total(h, Player) = 0
          /\ \A q \in Player : h[q] >= IF q = p THEN -amount ELSE 0
      BY <1>2, OneToOther
    <3>3. /\ g \in [Player -> Int] /\ Total(g, Player) = total
          /\ \A q \in Player : g[q] = IF q = p THEN total ELSE 0
      BY <2>1, OnlyOne
    <3> HIDE DEF g, h
    <3>4. ASSUME NEW q \in Player
          PROVE  Owned(q).gold + g[q] >= 0 /\ Owned(q).items + h[q] >= 0
      <4>1. g[q] \in Int /\ h[q] \in Int
        BY <3>2, <3>3
      <4>2. CASE q = p
        BY <1>3, <1>2, <2>1, <2>2, <3>1, <3>2, <3>3, <4>1, <4>2
      <4>3. CASE q # p
        BY <2>2, <3>2, <3>3, <4>1, <4>3
      <4> QED BY <4>2, <4>3
    <3>5. paid = total /\ given = 0
      BY <2>4
    <3> QED BY <3>1, <3>2, <3>3, <3>4, <3>5
  <2> QED BY <1>2, <2>3, <2>4
<1> HIDE DEF paid, given
<1>11. /\ memory' \in [Player -> Account] /\ stored' \in [Player -> Account]
       /\ Total(OwnedGold', Player) = Total(OwnedGold, Player) + paid
       /\ Total(OwnedItems', Player) = Total(OwnedItems, Player) + given
  BY <1>1, <1>10, Settled
<1>12. MarketTypeOK'
  BY <1>1, <1>2, <1>7, <1>11 DEF MarketTypeOK
<1>13. /\ Gold = Total(OwnedGold, Player) + Total(GoldOf, offers) + fees
       /\ Items = Total(OwnedItems, Player) + Total(ItemsOf, offers)
  BY SumsAre DEF SumsInv
<1>14. /\ Gold' = Total(OwnedGold', Player) + Total(GoldOf, offers') + fees'
       /\ Items' = Total(OwnedItems', Player) + Total(ItemsOf, offers')
  BY <1>7, <1>12, SumsAfter DEF SumsInv, GoldOf, ItemsOf, Offer, HeldGold, HeldItems
<1>15. /\ Total(OwnedGold, Player) \in Nat /\ Total(OwnedItems, Player) \in Nat
       /\ fees \in Nat
  BY OwnedSummable DEF MarketTypeOK
<1>16. Gold' = Gold /\ Items' = Items
  BY <1>1, <1>4, <1>9, <1>11, <1>13, <1>14, <1>15
<1>17. shrunk' \in BOOLEAN /\ (shrunk => shrunk')
  BY <1>1, <1>2
<1> QED BY <1>7, <1>12, <1>16, <1>17 DEF Even

\* What processExpiredOffers() gives back to each player for the rows of sales, or
\* for the others.
BackTo(h, rows, s) == [p \in Player |-> Total(h, {r \in rows : r.owner = p /\ r.sale = s})]

\* F says of the rows of s what h does, and nothing of the others.
WorthOf(F, h, rows, s) == \A r \in rows : F[r] = IF r.sale = s THEN h[r] ELSE 0

\* Together it is what the rows hold.
LEMMA GivenBack ==
  ASSUME NEW rows \in SUBSET Offer, IsFiniteSet(rows), NEW h \in [rows -> Nat],
         NEW s \in BOOLEAN, NEW F \in [Offer -> Nat], WorthOf(F, h, rows, s)
  PROVE  /\ BackTo(h, rows, s) \in [Player -> Nat]
         /\ Total(BackTo(h, rows, s), Player) = Total(F, rows)
<1> DEFINE D == [p \in Player |-> {r \in rows : r.owner = p /\ r.sale = s}]
           A == {r \in rows : r.sale = s}
           B == {r \in rows : r.sale # s}
           back == BackTo(h, rows, s)
<1>1. IsFiniteSet(Player) /\ Summable(h, rows) /\ \A r \in rows : r.owner \in Player
  BY MarketAssumption DEF Summable, Offer
<1>2. /\ \A p \in Player : back[p] = Total(h, D[p]) /\ D[p] \in SUBSET rows
      /\ back = [p \in Player |-> back[p]]
  BY DEF BackTo
<1>14. Parts(D, Player, A)
  <2>1. D \in [Player -> SUBSET A] /\ \A p, q \in Player : p # q => D[p] \cap D[q] = {}
    OBVIOUS
  <2>2. A = UNION {D[p] : p \in Player}
    BY <1>1
  <2> QED BY <2>1, <2>2 DEF Parts
<1>3. A \in SUBSET rows /\ B \in SUBSET rows /\ A \cap B = {} /\ A \cup B = rows
  OBVIOUS
<1>4. (\A r \in A : F[r] = h[r]) /\ \A r \in B : F[r] = 0
  BY DEF WorthOf
<1>5. \A r \in rows : F[r] \in Nat
  OBVIOUS
<1> HIDE DEF D, A, B, back
<1>7. /\ Summable(F, rows) /\ IsFiniteSet(A) /\ IsFiniteSet(B) /\ Summable(h, A)
      /\ Summable(F, A)
  BY <1>1, <1>3, <1>5, FS_Subset DEF Summable
<1>6. Total(back, Player) = Total(h, A)
  <2>1. SumsOf(back, h, D, Player)
    BY <1>2 DEF SumsOf
  <2> QED BY <1>1, <1>7, <1>14, <2>1, TotalParts
<1>8. Total(F, A \cup B) = Total(F, A) + Total(F, B)
  BY <1>3, <1>7, TotalBoth
<1>9. Total(F, B) = 0
  BY <1>4, <1>7, TotalNull
<1>10. Total(F, A) = Total(h, A) /\ Total(h, A) \in Int
  BY <1>4, <1>7, TotalSame, TotalInt
<1>11. Total(back, Player) = Total(F, rows)
  <2>1. Total(F, A \cup B) = Total(F, rows)
    BY <1>3
  <2> QED BY <1>6, <1>8, <1>9, <1>10, <2>1
<1>12. \A p \in Player : back[p] \in Nat
  <2> TAKE p \in Player
  <2>1. D[p] \in SUBSET rows /\ back[p] = Total(h, D[p])
    BY <1>2
  <2>2. IsFiniteSet(D[p]) /\ \A r \in D[p] : h[r] \in Nat
    BY <2>1, FS_Subset
  <2> QED BY <2>1, <2>2, TotalNat
<1>13. back \in [Player -> Nat]
  BY <1>2, <1>12
<1> QED BY <1>11, <1>13 DEF back

\* Rows that are still offered hold no less than their offers, and the same unless one
\* of them shrank since.
LEMMA RowsHoldEnough ==
  ASSUME MarketTypeOK, RowsInv, NEW i \in DOMAIN results, NEW rows,
         rows = StillOffered(results[i]), NEW F \in [Offer -> Nat],
         \A r, o \in Offer : r.sale = o.sale /\ r.price = o.price /\ o.amount <= r.amount
           => F[r] >= F[o],
         NEW rest, rest = {o \in offers : \A r \in rows : r.id # o.id}
  PROVE  /\ rows \in SUBSET Offer /\ IsFiniteSet(rows)
         /\ Total(F, rest) + Total(F, rows) >= Total(F, offers)
         /\ ~shrunk => Total(F, rest) + Total(F, rows) = Total(F, offers)
         /\ Total(F, rest) \in Nat /\ Total(F, rows) \in Nat
<1>1. /\ results[i] \subseteq Offer /\ offers \subseteq Offer
      /\ IsFiniteSet(results[i]) /\ IdsDiffer(results[i]) /\ IsFiniteSet(offers)
      /\ IdsDiffer(offers)
      /\ \A r \in results[i], o \in offers : r.id = o.id => ReadFrom(r, o)
  BY DEF MarketTypeOK, RowsInv
<1>2. /\ rows \subseteq results[i] /\ IdsDiffer(rows)
      /\ \A r \in rows : \E o \in offers : o.id = r.id
  BY <1>1 DEF StillOffered, IdsDiffer
<1>3. rows \in SUBSET Offer /\ IsFiniteSet(rows)
  BY <1>1, <1>2, FS_Subset
<1> DEFINE gone == {o \in offers : \E r \in rows : r.id = o.id}
           M == [r \in rows |-> CHOOSE o \in offers : o.id = r.id]
<1>4. rest \cup gone = offers /\ rest \cap gone = {} /\ rest \in SUBSET offers
      /\ gone \in SUBSET offers
  OBVIOUS
<1>5. \A r \in rows : M[r] \in offers /\ M[r].id = r.id
  BY <1>2
<1>6. M \in [rows -> offers]
  BY <1>5
<1>7. {M[r] : r \in rows} = gone
  <2>1. ASSUME NEW r \in rows PROVE M[r] \in gone
    BY <1>5
  <2>2. ASSUME NEW o \in gone PROVE \E r \in rows : M[r] = o
    <3>1. PICK r \in rows : r.id = o.id
      OBVIOUS
    <3>2. M[r] = o
      BY <1>1, <1>5, <3>1 DEF IdsDiffer
    <3> QED BY <3>2
  <2> HIDE DEF M, gone
  <2> QED BY <2>1, <2>2
<1>8. \A x, y \in rows : M[x] = M[y] => x = y
  <2> SUFFICES ASSUME NEW x \in rows, NEW y \in rows, M[x] = M[y] PROVE x = y
    OBVIOUS
  <2>1. x.id = y.id
    BY <1>5
  <2> QED BY <1>2, <2>1 DEF IdsDiffer
<1> HIDE DEF M
<1>9. \A r \in rows : F[r] >= F[M[r]]
  <2> TAKE r \in rows
  <2>1. ReadFrom(r, M[r]) /\ r \in Offer /\ M[r] \in Offer
    BY <1>1, <1>2, <1>5
  <2> QED BY <2>1 DEF ReadFrom
<1>10. ~shrunk => gone = rows
  <2> SUFFICES ASSUME ~shrunk PROVE gone = rows
    OBVIOUS
  <2>1. \A r \in rows : M[r] = r
    BY <1>1, <1>2, <1>5 DEF ReadFrom
  <2> HIDE DEF gone
  <2> QED BY <1>7, <2>1
<1> HIDE DEF gone
<1>11. Summable(F, rows) /\ Summable(F, offers)
  BY <1>1, <1>3 DEF Summable
<1>12. Total(F, rows) >= Total(F, {M[r] : r \in rows})
  BY <1>6, <1>8, <1>9, <1>11, TotalMatch
<1>13. Total(F, rest \cup gone) = Total(F, rest) + Total(F, gone)
  BY <1>4, <1>11, TotalBoth
<1>14. Total(F, rows) \in Nat /\ Total(F, rest) \in Nat /\ Total(F, gone) \in Nat
  <2>1. IsFiniteSet(rest) /\ IsFiniteSet(gone)
    BY <1>1, <1>4, FS_Subset
  <2>2. (\A x \in rows : F[x] \in Nat) /\ (\A x \in rest : F[x] \in Nat)
        /\ \A x \in gone : F[x] \in Nat
    BY <1>1, <1>3, <1>4
  <2> QED BY <1>3, <2>1, <2>2, TotalNat
<1>15. Total(F, offers) = Total(F, rest) + Total(F, gone) /\ Total(F, rows) >= Total(F, gone)
  BY <1>4, <1>7, <1>12, <1>13
<1>16. ~shrunk => Total(F, gone) = Total(F, rows)
  BY <1>10
<1> QED BY <1>3, <1>14, <1>15, <1>16

\* An expiry gives back what the table held, and more if an offer shrank since the query.
LEMMA ProcessBalance ==
  ASSUME MarketTypeOK, RowsInv, ProcessExpiredOffers
  PROVE  /\ MarketTypeOK' /\ RowsInv' /\ shrunk' = shrunk
         /\ Gold' >= Gold /\ Items' >= Items
         /\ ~shrunk => Gold' = Gold /\ Items' = Items
<1> DEFINE rows == StillOffered(Head(results))
           g == [r \in rows |-> r.price * r.amount]
           h == [r \in rows |-> r.amount]
           gold == [p \in Player |-> Total(g, {r \in rows : r.owner = p /\ r.sale = FALSE})]
           items == [p \in Player |-> Total(h, {r \in rows : r.owner = p /\ r.sale = TRUE})]
           rest == {o \in offers : \A r \in rows : r.id # o.id}
<1>1. /\ online' = online /\ asked' = asked /\ created' = created /\ fees' = fees
      /\ shrunk' = shrunk /\ results # <<>> /\ results' = Tail(results) /\ offers' = rest
      /\ Settle(gold, items)
  BY DEF ProcessExpiredOffers
<1>2. /\ results \in Seq(SUBSET Offer) /\ 1 \in DOMAIN results /\ Head(results) = results[1]
      /\ Tail(results) \in Seq(SUBSET Offer)
      /\ \A i \in DOMAIN Tail(results) :
           i + 1 \in DOMAIN results /\ Tail(results)[i] = results[i + 1]
  BY <1>1 DEF MarketTypeOK
<1>3. rows = StillOffered(results[1])
  BY <1>2
<1> HIDE DEF rows
<1>20. rows \in SUBSET Offer /\ IsFiniteSet(rows)
  <2>1. results[1] \subseteq Offer /\ IsFiniteSet(results[1])
    BY <1>2 DEF MarketTypeOK, RowsInv
  <2>2. rows \subseteq results[1]
    BY <1>3 DEF StillOffered
  <2> QED BY <2>1, <2>2, FS_Subset
<1>4. /\ Total(GoldOf, rest) + Total(GoldOf, rows) >= Total(GoldOf, offers)
      /\ ~shrunk => Total(GoldOf, rest) + Total(GoldOf, rows) = Total(GoldOf, offers)
      /\ Total(GoldOf, rest) \in Nat /\ Total(GoldOf, rows) \in Nat
  <2>1. GoldOf \in [Offer -> Nat]
        /\ \A r, o \in Offer : r.sale = o.sale /\ r.price = o.price /\ o.amount <= r.amount
             => GoldOf[r] >= GoldOf[o]
    BY Holds
  <2> HIDE DEF rest
  <2>2. rest = {o \in offers : \A r \in rows : r.id # o.id}
    BY DEF rest
  <2> QED BY <1>2, <1>3, <2>1, <2>2, RowsHoldEnough
<1>5. /\ Total(ItemsOf, rest) + Total(ItemsOf, rows) >= Total(ItemsOf, offers)
      /\ ~shrunk => Total(ItemsOf, rest) + Total(ItemsOf, rows) = Total(ItemsOf, offers)
      /\ Total(ItemsOf, rest) \in Nat /\ Total(ItemsOf, rows) \in Nat
  <2>1. ItemsOf \in [Offer -> Nat]
        /\ \A r, o \in Offer : r.sale = o.sale /\ r.price = o.price /\ o.amount <= r.amount
             => ItemsOf[r] >= ItemsOf[o]
    BY Holds
  <2> HIDE DEF rest
  <2>2. rest = {o \in offers : \A r \in rows : r.id # o.id}
    BY DEF rest
  <2> QED BY <1>2, <1>3, <2>1, <2>2, RowsHoldEnough
<1>6. g \in [rows -> Nat] /\ h \in [rows -> Nat]
      /\ \A r \in rows : /\ GoldOf[r] = IF r.sale = FALSE THEN g[r] ELSE 0
                         /\ ItemsOf[r] = IF r.sale = TRUE THEN h[r] ELSE 0
  <2>1. \A r \in rows : r \in Offer /\ r.amount \in Nat /\ r.price * r.amount \in Nat
    BY <1>20, Holds
  <2>2. \A r \in rows : r.sale \in BOOLEAN
    BY <2>1 DEF Offer
  <2>3. \A r \in rows : /\ GoldOf[r] = IF r.sale THEN 0 ELSE r.price * r.amount
                        /\ ItemsOf[r] = IF r.sale THEN r.amount ELSE 0
    BY <2>1 DEF GoldOf, ItemsOf, HeldGold, HeldItems
  <2> QED BY <2>1, <2>2, <2>3
<1> HIDE DEF g, h
<1>7. gold \in [Player -> Nat] /\ Total(gold, Player) = Total(GoldOf, rows)
  <2>1. GoldOf \in [Offer -> Nat] /\ FALSE \in BOOLEAN
    BY Holds
  <2>2. WorthOf(GoldOf, g, rows, FALSE)
    BY <1>6 DEF WorthOf
  <2>3. gold = BackTo(g, rows, FALSE)
    BY DEF BackTo
  <2>4. g \in [rows -> Nat]
    BY <1>6
  <2> HIDE DEF gold
  <2>5. /\ BackTo(g, rows, FALSE) \in [Player -> Nat]
        /\ Total(BackTo(g, rows, FALSE), Player) = Total(GoldOf, rows)
    BY <1>20, <2>1, <2>2, <2>4, GivenBack
  <2> QED BY <2>3, <2>5
<1>8. items \in [Player -> Nat] /\ Total(items, Player) = Total(ItemsOf, rows)
  <2>1. ItemsOf \in [Offer -> Nat] /\ TRUE \in BOOLEAN
    BY Holds
  <2>2. WorthOf(ItemsOf, h, rows, TRUE)
    BY <1>6 DEF WorthOf
  <2>3. items = BackTo(h, rows, TRUE)
    BY DEF BackTo
  <2>4. h \in [rows -> Nat]
    BY <1>6
  <2> HIDE DEF items
  <2>5. /\ BackTo(h, rows, TRUE) \in [Player -> Nat]
        /\ Total(BackTo(h, rows, TRUE), Player) = Total(ItemsOf, rows)
    BY <1>20, <2>1, <2>2, <2>4, GivenBack
  <2> QED BY <2>3, <2>5
<1> HIDE DEF gold, items
<1>9. \A q \in Player : Owned(q).gold + gold[q] >= 0 /\ Owned(q).items + items[q] >= 0
  <2> TAKE q \in Player
  <2>1. Owned(q).gold \in Nat /\ Owned(q).items \in Nat /\ gold[q] \in Nat /\ items[q] \in Nat
    BY <1>7, <1>8, OwnedSummable
  <2> QED BY <2>1
<1>10. /\ memory' \in [Player -> Account] /\ stored' \in [Player -> Account]
       /\ Total(OwnedGold', Player) = Total(OwnedGold, Player) + Total(gold, Player)
       /\ Total(OwnedItems', Player) = Total(OwnedItems, Player) + Total(items, Player)
  <2>1. gold \in [Player -> Int] /\ items \in [Player -> Int]
    BY <1>7, <1>8
  <2> QED BY <1>1, <1>9, <2>1, Settled
<1>11. RowsInv' /\ offers' \subseteq Offer
  <2>1. offers' \subseteq offers
    BY <1>1
  <2>2. \A i \in DOMAIN results' : \E j \in DOMAIN results : results'[i] = results[j]
    BY <1>1, <1>2
  <2> QED BY <1>1, <2>1, <2>2, FewerRows DEF MarketTypeOK
<1>12. MarketTypeOK'
  BY <1>1, <1>2, <1>10, <1>11 DEF MarketTypeOK
<1>13. /\ Gold = Total(OwnedGold, Player) + Total(GoldOf, offers) + fees
       /\ Items = Total(OwnedItems, Player) + Total(ItemsOf, offers)
  BY SumsAre DEF SumsInv
<1>14. /\ Gold' = Total(OwnedGold', Player) + Total(GoldOf, offers') + fees'
       /\ Items' = Total(OwnedItems', Player) + Total(ItemsOf, offers')
  BY <1>11, <1>12, SumsAfter DEF SumsInv, GoldOf, ItemsOf, Offer, HeldGold, HeldItems
<1>15. /\ Total(OwnedGold, Player) \in Nat /\ Total(OwnedItems, Player) \in Nat
       /\ fees \in Nat
  BY OwnedSummable DEF MarketTypeOK
<1>16. Total(GoldOf, offers) \in Nat /\ Total(ItemsOf, offers) \in Nat
  BY Holds, OffersSummable
<1> HIDE DEF rest
<1>17. /\ Gold' = Total(OwnedGold, Player) + Total(GoldOf, rows) + Total(GoldOf, rest) + fees
       /\ Items' = Total(OwnedItems, Player) + Total(ItemsOf, rows) + Total(ItemsOf, rest)
  BY <1>1, <1>7, <1>8, <1>10, <1>14
<1>18. Gold' >= Gold /\ (~shrunk => Gold' = Gold)
  BY <1>4, <1>13, <1>15, <1>16, <1>17
<1>19. Items' >= Items /\ (~shrunk => Items' = Items)
  BY <1>5, <1>13, <1>15, <1>16, <1>17
<1> QED BY <1>1, <1>11, <1>12, <1>18, <1>19

-----------------------------------------------------------------------------
(* The theorems.                                                            *)

\* A step of the market keeps the table and the rows in order, and the balance.
LEMMA MarketStep ==
  ASSUME MarketTypeOK, RowsInv, [MarketNext]_marketVars
  PROVE  /\ MarketTypeOK' /\ RowsInv' /\ (shrunk => shrunk')
         /\ Gold' >= Gold /\ Items' >= Items
         /\ ~shrunk' => Gold' = Gold /\ Items' = Items
<1>1. Gold \in Nat /\ Items \in Nat /\ shrunk \in BOOLEAN
  BY SumsAre DEF SumsInv, MarketTypeOK
<1>2. SUFFICES Even \/ ProcessExpiredOffers
  BY <1>1, <1>2, ProcessBalance DEF Even
<1>3. CASE UNCHANGED marketVars
  <2>1. /\ online' = online /\ memory' = memory /\ stored' = stored /\ offers' = offers
        /\ created' = created /\ asked' = asked /\ results' = results /\ fees' = fees
        /\ shrunk' = shrunk
    BY <1>3 DEF marketVars
  <2>2. RowsInv'
    BY <2>1, FewerRows
  <2>3. MarketTypeOK'
    BY <2>1 DEF MarketTypeOK
  <2>4. \A q \in Player : Owned(q)' = Owned(q)
    BY <2>1 DEF Owned
  <2> QED BY <2>1, <2>2, <2>3, <2>4, NothingMoves
<1>4. CASE MarketNext
  <2>1. ASSUME NEW p \in Player, Login(p) \/ Logout(p) PROVE Even
    BY <2>1, LoginEven
  <2>2. ASSUME NEW p \in Player, NEW sale \in BOOLEAN, NEW amount \in Offered,
               NEW price \in Prices, CreateOffer(p, sale, amount, price)
        PROVE  Even
    BY <2>2, CreateEven
  <2>3. ASSUME NEW p \in Player, NEW o \in offers, CancelOffer(p, o) PROVE Even
    BY <2>3, CancelEven
  <2>4. ASSUME NEW p \in Player, NEW o \in offers, NEW amount \in Accepted,
               AcceptOffer(p, o, amount)
        PROVE  Even
    BY <2>4, AcceptEven
  <2>5. ASSUME NEW o \in offers, FallDue(o) PROVE Even
    BY <2>5, FallDueEven
  <2>6. ASSUME CheckExpiredOffers \/ SelectExpired PROVE Even
    BY <2>6, QueryEven
  <2> QED BY <1>4, <2>1, <2>2, <2>3, <2>4, <2>5, <2>6 DEF MarketNext
<1> QED BY <1>3, <1>4

\* At first everybody has what he starts with.
LEMMA MarketAtFirst == MarketInit => MarketInv
<1> SUFFICES ASSUME MarketInit PROVE MarketInv
  OBVIOUS
<1>1. /\ online = {} /\ memory = [p \in Player |-> Empty]
      /\ stored = [p \in Player |-> [gold |-> StartGold, items |-> StartItems]]
      /\ offers = {} /\ created = 0 /\ asked = 0 /\ results = <<>> /\ fees = 0
      /\ shrunk = FALSE
  BY DEF MarketInit
<1>2. MarketTypeOK
  <2>1. Empty \in Account /\ [gold |-> StartGold, items |-> StartItems] \in Account
    BY MarketAssumption DEF Account, Empty
  <2>2. memory \in [Player -> Account] /\ stored \in [Player -> Account]
    BY <1>1, <2>1
  <2>3. created \in 0..MaxCreated /\ asked \in 0..MaxQueries
    BY <1>1, MarketAssumption
  <2>4. results \in Seq(SUBSET Offer)
    BY <1>1
  <2> QED BY <1>1, <2>2, <2>3, <2>4 DEF MarketTypeOK
<1>3. RowsInv
  BY <1>1, FS_EmptySet DEF RowsInv, IdsDiffer
<1>4. \A p \in Player : OwnedGold[p] = StartGold /\ OwnedItems[p] = StartItems
  BY <1>1 DEF OwnedGold, OwnedItems, Owned
<1>5. IsFiniteSet(Player) /\ StartGold \in Nat /\ StartItems \in Nat
  BY MarketAssumption
<1>6. Total(OwnedGold, Player) = Cardinality(Player) * StartGold
  BY <1>4, <1>5, TotalConst
<1>7. Total(OwnedItems, Player) = Cardinality(Player) * StartItems
  BY <1>4, <1>5, TotalConst
<1>8. Total(GoldOf, offers) = 0 /\ Total(ItemsOf, offers) = 0
  BY <1>1, TotalEmpty
<1>9. /\ Gold = Total(OwnedGold, Player) + 0 + 0 /\ Items = Total(OwnedItems, Player) + 0
      /\ Gold \in Nat /\ Items \in Nat
  BY <1>1, <1>2, <1>3, <1>8, SumsAre DEF SumsInv
<1>10. Total(OwnedGold, Player) \in Nat /\ Total(OwnedItems, Player) \in Nat
  BY <1>2, OwnedSummable
<1>11. Gold = Cardinality(Player) * StartGold /\ Items = Cardinality(Player) * StartItems
  BY <1>6, <1>7, <1>9, <1>10
<1> QED BY <1>2, <1>3, <1>9, <1>11 DEF MarketInv, NothingLost, NothingMade

\* The invariant holds for good.
LEMMA MarketAlways == MarketSpec => []MarketInv
<1>1. ASSUME MarketInv, [MarketNext]_marketVars PROVE MarketInv'
  <2> DEFINE a == Cardinality(Player) * StartGold
             b == Cardinality(Player) * StartItems
  <2>1. /\ MarketTypeOK' /\ RowsInv' /\ (shrunk => shrunk')
        /\ Gold' >= Gold /\ Items' >= Items
        /\ ~shrunk' => Gold' = Gold /\ Items' = Items
    BY <1>1, MarketStep DEF MarketInv
  <2>2. Gold >= a /\ Items >= b /\ (~shrunk => Gold = a /\ Items = b)
    BY <1>1 DEF MarketInv, NothingLost, NothingMade
  <2>3. Gold \in Nat /\ Items \in Nat
    BY <1>1, SumsAre DEF MarketInv, SumsInv
  <2>4. Gold' \in Nat /\ Items' \in Nat
    BY <2>1, SumsAfter DEF SumsInv
  <2>5. a \in Nat /\ b \in Nat
    <3>1. Cardinality(Player) \in Nat /\ StartGold \in Nat /\ StartItems \in Nat
      BY MarketAssumption, FS_CardinalityType
    <3> QED BY <3>1, Products
  <2> HIDE DEF a, b
  <2>6. Gold' >= a /\ Items' >= b /\ (~shrunk' => Gold' = a /\ Items' = b)
    BY <2>1, <2>2, <2>3, <2>4, <2>5
  <2> QED BY <2>1, <2>6 DEF MarketInv, NothingLost, NothingMade, a, b
<1> QED BY <1>1, MarketAtFirst, PTL DEF MarketSpec

\* Accounts, table, queries and rows keep their types, for any number of players and
\* offers: nobody's balance or depot is ever overdrawn.
THEOREM MarketTypeCorrect == MarketSpec => []MarketTypeOK
<1>1. MarketInv => MarketTypeOK
  BY DEF MarketInv
<1> QED BY <1>1, MarketAlways, PTL

\* No trade, cancellation or expiry loses gold or items, for any number of players,
\* offers and prices and whatever order logins, the database thread and the callbacks
\* come in (playerAcceptMarketOffer, playerCancelMarketOffer, processExpiredOffers).
THEOREM NothingIsLost == MarketSpec => []NothingLost
<1>1. MarketInv => NothingLost
  BY DEF MarketInv
<1> QED BY <1>1, MarketAlways, PTL

\* Nothing is made either, unless an offer shrank between the expiry query and its
\* callback, which pays the amount that was read.
THEOREM NothingIsMade == MarketSpec => []NothingMade
<1>1. MarketInv => NothingMade
  BY DEF MarketInv
<1> QED BY <1>1, MarketAlways, PTL
=============================================================================
