-------------------------- MODULE DispatcherProofs --------------------------
(* Proofs about the dispatcher for any set of producers and any number of   *)
(* tasks.                                                                   *)
EXTENDS Dispatcher, SequenceTheorems, TLAPS

(* What the three list operations of the dispatcher do to the positions of  *)
(* the list.                                                                *)
LEMMA PushBack ==
  ASSUME NEW S, NEW s \in Seq(S), NEW e \in S
  PROVE  /\ Append(s, e) \in Seq(S)
         /\ Len(Append(s, e)) = Len(s) + 1
         /\ \A i \in 1..Len(s) : Append(s, e)[i] = s[i]
         /\ Append(s, e)[Len(s) + 1] = e
  BY AppendProperties

\* A task joins the list at its front.
LEMMA PushFront ==
  ASSUME NEW S, NEW s \in Seq(S), NEW e \in S
  PROVE  /\ <<e>> \o s \in Seq(S)
         /\ Len(<<e>> \o s) = Len(s) + 1
         /\ (<<e>> \o s)[1] = e
         /\ \A i \in 2..(Len(s) + 1) : (<<e>> \o s)[i] = s[i - 1]
  <1>1. <<e>> \in Seq(S) /\ Len(<<e>>) = 1 /\ <<e>>[1] = e
    OBVIOUS
  <1>2. /\ <<e>> \o s \in Seq(S)
        /\ Len(<<e>> \o s) = Len(<<e>>) + Len(s)
        /\ \A i \in 1..(Len(<<e>>) + Len(s)) :
              (<<e>> \o s)[i] = IF i <= Len(<<e>>) THEN <<e>>[i]
                                                   ELSE s[i - Len(<<e>>)]
    BY <1>1, ConcatProperties
  <1>3. Len(s) \in Nat
    OBVIOUS
  <1> QED BY <1>1, <1>2, <1>3

\* The first task leaves the list.
LEMMA DropHead ==
  ASSUME NEW S, NEW s \in Seq(S), s # <<>>
  PROVE  /\ Head(s) \in S
         /\ Head(s) = s[1]
         /\ Tail(s) \in Seq(S)
         /\ Len(Tail(s)) = Len(s) - 1
         /\ Len(s) > 0
         /\ \A i \in 1..(Len(s) - 1) : Tail(s)[i] = s[i + 1]
  BY HeadTailProperties

-----------------------------------------------------------------------------
(* Types.                                                                   *)

\* addTask keeps the types of what it writes.
LEMMA SubmitType ==
  ASSUME TypeOK, NEW front \in BOOLEAN, NEW expiry \in Expiry, NEW op \in Ops,
         Submit(front, expiry, op)
  PROVE  /\ taskList' \in Seq(Task)
         /\ nextId' \in 1..(MaxTasks + 1)
         /\ refused' \in SUBSET (1..MaxTasks)
  <1> DEFINE task == [id |-> nextId, front |-> front, expiry |-> expiry, op |-> op]
  <1>1. nextId \in 1..MaxTasks
    BY DispatcherAssumption DEF TypeOK, Submit
  <1>2. task \in Task
    BY <1>1 DEF Task
  <1>3. taskList \in Seq(Task)
    BY DEF TypeOK
  <1> HIDE DEF task
  <1>4. Append(taskList, task) \in Seq(Task) /\ <<task>> \o taskList \in Seq(Task)
    BY <1>2, <1>3, PushBack, PushFront
  <1>5. taskList' \in {taskList, Append(taskList, task), <<task>> \o taskList}
    BY DEF Submit, task
  <1>6. nextId' = nextId + 1 /\ refused' \in {refused, refused \cup {nextId}}
    BY DEF Submit
  <1>7. nextId' \in 1..(MaxTasks + 1)
    BY <1>1, <1>6, DispatcherAssumption
  <1>8. refused' \in SUBSET (1..MaxTasks)
    BY <1>1, <1>6 DEF TypeOK
  <1> QED BY <1>3, <1>4, <1>5, <1>7, <1>8

\* A task's name is a number.
LEMMA TaskIdNat == \A t \in Task : t.id \in Nat
  BY DEF Task

\* A task whose deadline passes is otherwise the same task.
LEMMA LateTask ==
  ASSUME NEW t \in Task
  PROVE  /\ Late(t) \in Task
         /\ Late(t).id = t.id /\ Late(t).front = t.front
         /\ Late(t).expiry = "past"
  BY DEF Late, Task, Expiry

\* Every step keeps the types.
LEMMA TypeStep == TypeOK /\ [Next]_vars => TypeOK'
  <1> SUFFICES ASSUME TypeOK, [Next]_vars PROVE TypeOK'
    OBVIOUS
  <1> USE DEF Expiry, Ops, ThreadStates, Busy
  <1>1. ASSUME NEW p \in Producers, NEW front \in BOOLEAN,
               NEW expiry \in {"never", "pending"}, AddTask(p, front, expiry)
        PROVE  TypeOK'
    <2>1. expiry \in Expiry /\ "work" \in Ops
      OBVIOUS
    <2> QED BY <1>1, <2>1, SubmitType DEF AddTask, TypeOK
  <1>2. ASSUME NEW p \in Producers, Notify(p) PROVE TypeOK'
    BY <1>2 DEF Notify, TypeOK
  <1>3. ASSUME NEW front \in BOOLEAN, NEW expiry \in {"never", "pending"},
               AddFromTask(front, expiry)
        PROVE  TypeOK'
    <2>1. expiry \in Expiry /\ "work" \in Ops
      OBVIOUS
    <2> QED BY <1>3, <2>1, SubmitType DEF AddFromTask, TypeOK
  <1>4. ASSUME Expire PROVE TypeOK'
    <2>1. ASSUME NEW i \in DOMAIN taskList,
                 taskList' = [taskList EXCEPT ![i] = Late(taskList[i])]
          PROVE  taskList' \in Seq(Task)
      BY <2>1, LateTask DEF TypeOK
    <2>2. CASE current' = Late(current) /\ pc = "Taken"
      BY <2>2, <1>4, LateTask DEF Expire, TypeOK
    <2> QED BY <1>4, <2>1, <2>2 DEF Expire, TypeOK
  <1>5. ASSUME RequestShutdown PROVE TypeOK'
    <2>1. "never" \in Expiry /\ "shutdown" \in Ops /\ FALSE \in BOOLEAN
      OBVIOUS
    <2> QED BY <1>5, <2>1, SubmitType DEF RequestShutdown, TypeOK
  <1>6. ASSUME SpuriousWake PROVE TypeOK'
    BY <1>6 DEF SpuriousWake, TypeOK
  <1>7. ASSUME Take, pc \in {"Lock", "Woken"} PROVE TypeOK'
    BY <1>7, DropHead DEF Take, TypeOK
  <1>8. ASSUME FlushTask PROVE TypeOK'
    <2>1. Head(taskList) \in Task /\ Tail(taskList) \in Seq(Task)
      BY <1>8, DropHead DEF FlushTask, TypeOK
    <2> QED BY <1>8, <2>1 DEF FlushTask, TypeOK
  <1>9. ASSUME BeginTask PROVE TypeOK'
    <2>1. current \in Task
      BY <1>9 DEF BeginTask, TypeOK
    <2> QED BY <1>9, <2>1 DEF BeginTask, TypeOK
  <1>10. ASSUME Test \/ LockAndWait \/ EndTask \/ Stop \/ Shutdown \/ FlushEnd
         PROVE  TypeOK'
    BY <1>10 DEF Test, LockAndWait, EndTask, Stop, Shutdown, FlushEnd, TypeOK
  <1>11. CASE UNCHANGED vars
    BY <1>11 DEF vars, TypeOK
  <1> QED
    BY <1>1, <1>2, <1>3, <1>4, <1>5, <1>6, <1>7, <1>8, <1>9, <1>10, <1>11
       DEF Next, ThreadStep, LockAndTake, WokenTake

\* The list, the states and the bookkeeping of tasks.cpp keep their types.
THEOREM TypeCorrect == Spec => []TypeOK
  <1>1. Init => TypeOK
    BY DispatcherAssumption DEF Init, TypeOK, ThreadStates, Busy
  <1> QED BY <1>1, TypeStep, PTL DEF Spec

-----------------------------------------------------------------------------
(* No lost wakeup.                                                          *)

(* While the thread sleeps, a list that is no longer empty was filled by a  *)
(* producer that still owes its notify_one: the signal of addTask reaches   *)
(* the thread however the producers interleave.                             *)
THEOREM WakeupNeverLost == Spec => []NoLostWakeup
  <1>1. Init => NoLostWakeup
    BY DEF Init, NoLostWakeup
  <1>2. TypeOK /\ NoLostWakeup /\ [Next]_vars => NoLostWakeup'
    <2> SUFFICES ASSUME TypeOK, NoLostWakeup, [Next]_vars,
                        pc' = "Wait", taskList' # <<>>
                 PROVE  owes' # {}
      BY DEF NoLostWakeup
    <2>1. ASSUME NEW p \in Producers, NEW front \in BOOLEAN,
                 NEW expiry \in {"never", "pending"}, AddTask(p, front, expiry)
          PROVE  owes' # {}
      <3>1. CASE threadState = "RUNNING" /\ taskList = <<>>
        BY <2>1, <3>1 DEF AddTask
      <3>2. CASE ~(threadState = "RUNNING" /\ taskList = <<>>)
        <4>1. taskList # <<>>
          BY <2>1, <3>2 DEF AddTask, Submit
        <4> QED BY <2>1, <3>2, <4>1 DEF AddTask, NoLostWakeup
      <3> QED BY <3>1, <3>2
    <2>2. ASSUME NEW p \in Producers, Notify(p) PROVE owes' # {}
      BY <2>2 DEF Notify
    <2>3. ASSUME NEW front \in BOOLEAN, NEW expiry \in {"never", "pending"},
                 AddFromTask(front, expiry)
          PROVE  owes' # {}
      BY <2>3 DEF AddFromTask
    <2>4. ASSUME Expire PROVE owes' # {}
      <3>1. taskList # <<>>
        BY <2>4 DEF Expire
      <3> QED BY <2>4, <3>1 DEF Expire, NoLostWakeup
    <2>5. ASSUME Take PROVE owes' # {}
      BY <2>5 DEF Take
    <2>6. ASSUME RequestShutdown \/ SpuriousWake \/ Test \/ LockAndWait \/ BeginTask
                 \/ EndTask \/ Stop \/ Shutdown \/ FlushTask \/ FlushEnd
          PROVE  owes' # {}
      BY <2>6 DEF RequestShutdown, SpuriousWake, Test, LockAndWait, BeginTask, EndTask,
                  Stop, Shutdown, FlushTask, FlushEnd
    <2>7. CASE UNCHANGED vars
      BY <2>7 DEF vars, NoLostWakeup
    <2> QED BY <2>1, <2>2, <2>3, <2>4, <2>5, <2>6, <2>7
            DEF Next, ThreadStep, LockAndTake, WokenTake
  <1> QED BY <1>1, <1>2, TypeCorrect, PTL DEF Spec

-----------------------------------------------------------------------------
(* Order and fates.  A step does one of four things to the list and to the  *)
(* set of tasks that left it: nothing, add a task, take the head, or let a  *)
(* deadline pass.                                                           *)

ListInv == ListOrdered /\ ListNames /\ BackAfterGone /\ GoneNames /\ FateNames

GoneSame == Gone' = Gone /\ ran' = ran /\ dropped' = dropped
            /\ (pc' = "Taken" => pc = "Taken") /\ current' = current

\* addTask while running: the new name is greater than all in the list.
LEMMA AcceptKeeps ==
  ASSUME TypeOK, ListInv, NEW front \in BOOLEAN, NEW expiry \in Expiry, NEW op \in Ops,
         Submit(front, expiry, op), threadState = "RUNNING", GoneSame
  PROVE  ListInv'
  <1> DEFINE task == [id |-> nextId, front |-> front, expiry |-> expiry, op |-> op]
  <1>1. nextId \in 1..MaxTasks /\ nextId' = nextId + 1 /\ nextId \in Nat /\ refused' = refused
    BY DispatcherAssumption DEF TypeOK, Submit
  <1>2. task \in Task /\ task.id = nextId /\ task.front = front
    BY <1>1 DEF Task
  <1>3. taskList \in Seq(Task) /\ Len(taskList) \in Nat
        /\ DOMAIN taskList = 1..Len(taskList)
    BY DEF TypeOK
  <1>4. taskList' = IF front THEN <<task>> \o taskList ELSE Append(taskList, task)
    BY DEF Submit
  <1> HIDE DEF task
  <1>5. \A i \in DOMAIN taskList : taskList[i] \in Task /\ taskList[i].id \in Nat
                                   /\ taskList[i].id < nextId
    <2>1. \A i \in DOMAIN taskList : taskList[i] \in Task
      BY <1>3, ElementOfSeq
    <2> QED BY <2>1, TaskIdNat DEF ListInv, ListNames
  <1>6. \A t \in Gone' : t \in Gone /\ t.id < nextId /\ t.id \in Nat
    <2>1. Gone \subseteq Task
      BY DEF Gone, TypeOK, Busy
    <2> QED BY <2>1, TaskIdNat DEF GoneSame, ListInv, GoneNames
  <1>7. nextId \notin refused
    BY <1>1 DEF ListInv, FateNames
  <1>8. FateNames'
    BY <1>1 DEF ListInv, FateNames, GoneSame, TypeOK
  <1>9. CASE front
    <2>1. /\ taskList' \in Seq(Task)
          /\ Len(taskList') = Len(taskList) + 1
          /\ taskList'[1] = task
          /\ \A i \in 2..(Len(taskList) + 1) : taskList'[i] = taskList[i - 1]
      BY <1>2, <1>3, <1>4, <1>9, PushFront
    <2>2. DOMAIN taskList' = 1..(Len(taskList) + 1)
      BY <2>1
    <2>3. \A i \in DOMAIN taskList' :
             \/ i = 1 /\ taskList'[i] = task
             \/ i - 1 \in DOMAIN taskList /\ taskList'[i] = taskList[i - 1]
      BY <2>1, <2>2, <1>3
    <2>4. ListOrdered'
      <3> SUFFICES ASSUME NEW i \in DOMAIN taskList', NEW j \in DOMAIN taskList', i < j
                   PROVE  Before(taskList'[i], taskList'[j])
        BY DEF ListOrdered, Before
      <3>1. j - 1 \in DOMAIN taskList /\ taskList'[j] = taskList[j - 1]
        BY <2>2, <2>3, <1>3
      <3>2. CASE i = 1
        BY <3>1, <3>2, <2>1, <1>2, <1>5, <1>9, <1>1 DEF Before
      <3>3. CASE i # 1
        <4>1. i - 1 \in DOMAIN taskList /\ taskList'[i] = taskList[i - 1] /\ i - 1 < j - 1
          BY <3>3, <2>3, <2>2, <1>3
        <4> QED BY <3>1, <4>1 DEF ListInv, ListOrdered
      <3> QED BY <3>2, <3>3
    <2>5. ListNames'
      <3>1. \A i \in DOMAIN taskList' : taskList'[i].id < nextId' /\ taskList'[i].id \notin refused'
        BY <2>3, <1>1, <1>2, <1>5, <1>7 DEF ListInv, ListNames
      <3>2. ASSUME NEW i \in DOMAIN taskList', NEW j \in DOMAIN taskList', i < j
            PROVE  taskList'[i].id # taskList'[j].id
        <4>1. j - 1 \in DOMAIN taskList /\ taskList'[j] = taskList[j - 1]
          BY <3>2, <2>2, <2>3, <1>3
        <4>2. CASE i = 1
          BY <4>1, <4>2, <2>1, <1>2, <1>5, <1>1
        <4>3. CASE i # 1
          BY <4>1, <4>3, <2>3, <2>2, <1>3, <3>2 DEF ListInv, ListNames
        <4> QED BY <4>2, <4>3
      <3>3. \A i, j \in DOMAIN taskList' : i # j => i < j \/ j < i
        BY <2>2, <1>3
      <3> QED BY <3>1, <3>2, <3>3 DEF ListNames
    <2>6. BackAfterGone' /\ GoneNames'
      BY <2>3, <1>1, <1>2, <1>6, <1>9 DEF ListInv, BackAfterGone, GoneNames
    <2> QED BY <2>4, <2>5, <2>6, <1>8 DEF ListInv
  <1>10. CASE ~front
    <2>1. /\ taskList' \in Seq(Task)
          /\ Len(taskList') = Len(taskList) + 1
          /\ taskList'[Len(taskList) + 1] = task
          /\ \A i \in 1..Len(taskList) : taskList'[i] = taskList[i]
      BY <1>2, <1>3, <1>4, <1>10, PushBack
    <2>2. DOMAIN taskList' = 1..(Len(taskList) + 1)
      BY <2>1
    <2>3. \A i \in DOMAIN taskList' :
             \/ i = Len(taskList) + 1 /\ taskList'[i] = task
             \/ i \in DOMAIN taskList /\ taskList'[i] = taskList[i]
      BY <2>1, <2>2, <1>3
    <2>4. ASSUME NEW i \in DOMAIN taskList', NEW j \in DOMAIN taskList', i < j
          PROVE  /\ Before(taskList'[i], taskList'[j])
                 /\ taskList'[i].id # taskList'[j].id
      <3>1. i \in DOMAIN taskList /\ taskList'[i] = taskList[i]
        BY <2>2, <2>3, <2>4, <1>3
      <3>2. CASE j = Len(taskList) + 1
        <4>1. taskList'[j] = task
          BY <3>2, <2>1
        <4> QED BY <3>1, <4>1, <1>2, <1>5, <1>10 DEF Before
      <3>3. CASE j # Len(taskList) + 1
        <4>1. j \in DOMAIN taskList /\ taskList'[j] = taskList[j]
          BY <3>3, <2>3
        <4>2. i # j
          BY <2>4, <2>2, <1>3
        <4> QED BY <3>1, <4>1, <4>2, <2>4 DEF ListInv, ListOrdered, ListNames
      <3> QED BY <3>2, <3>3
    <2>5. ListOrdered'
      BY <2>4 DEF ListOrdered, Before
    <2>6. ListNames'
      <3>1. \A i \in DOMAIN taskList' : taskList'[i].id < nextId' /\ taskList'[i].id \notin refused'
        BY <2>3, <1>1, <1>2, <1>5, <1>7 DEF ListInv, ListNames
      <3>2. \A i, j \in DOMAIN taskList' : i # j => i < j \/ j < i
        BY <2>2, <1>3
      <3> QED BY <3>1, <3>2, <2>4 DEF ListNames
    <2>7. BackAfterGone' /\ GoneNames'
      BY <2>3, <1>1, <1>2, <1>6, <1>10 DEF ListInv, BackAfterGone, GoneNames
    <2> QED BY <2>5, <2>6, <2>7, <1>8 DEF ListInv
  <1> QED BY <1>9, <1>10

\* addTask afterwards: the name is used up, the list stays.
LEMMA RefuseKeeps ==
  ASSUME TypeOK, ListInv, NEW front \in BOOLEAN, NEW expiry \in Expiry, NEW op \in Ops,
         Submit(front, expiry, op), threadState # "RUNNING", GoneSame
  PROVE  ListInv'
  <1>1. /\ nextId' = nextId + 1 /\ nextId \in Nat
        /\ refused' = refused \cup {nextId} /\ taskList' = taskList
    BY DEF TypeOK, Submit
  <1>2. \A i \in DOMAIN taskList : taskList[i].id \in Nat /\ taskList[i].id < nextId
    <2>1. \A i \in DOMAIN taskList : taskList[i] \in Task
      BY ElementOfSeq DEF TypeOK
    <2> QED BY <2>1, TaskIdNat DEF ListInv, ListNames
  <1>3. \A t \in Gone : t.id \in Nat /\ t.id < nextId
    <2>1. Gone \subseteq Task
      BY DEF Gone, TypeOK, Busy
    <2> QED BY <2>1, TaskIdNat DEF ListInv, GoneNames
  <1>4. ListOrdered' /\ BackAfterGone'
    BY <1>1 DEF ListInv, ListOrdered, Before, BackAfterGone, GoneSame
  <1>5. ListNames' /\ GoneNames'
    BY <1>1, <1>2, <1>3 DEF ListInv, ListNames, GoneNames, GoneSame
  <1>6. FateNames'
    <2>1. \A r \in refused' : r < nextId'
      BY <1>1 DEF ListInv, FateNames, TypeOK
    <2> QED BY <2>1 DEF ListInv, FateNames, GoneSame
  <1> QED BY <1>4, <1>5, <1>6 DEF ListInv

(* The thread takes the head of the list, to look at it or, in flush(), to  *)
(* run it.                                                                  *)
LEMMA PopKeeps ==
  ASSUME TypeOK, ListInv, taskList # <<>>, taskList' = Tail(taskList),
         Gone' = Gone \cup {Head(taskList)}, UNCHANGED <<nextId, refused>>
  PROVE  ListOrdered' /\ ListNames' /\ BackAfterGone' /\ GoneNames'
  <1>1. /\ taskList \in Seq(Task) /\ Len(taskList) \in Nat
        /\ DOMAIN taskList = 1..Len(taskList)
    BY DEF TypeOK
  <1>2. /\ Head(taskList) = taskList[1]
        /\ Tail(taskList) \in Seq(Task)
        /\ Len(Tail(taskList)) = Len(taskList) - 1
        /\ Len(taskList) > 0
        /\ \A i \in 1..(Len(taskList) - 1) : Tail(taskList)[i] = taskList[i + 1]
    BY <1>1, DropHead
  <1>3. DOMAIN taskList' = 1..(Len(taskList) - 1)
    BY <1>2
  <1>4. \A i \in DOMAIN taskList' : i + 1 \in DOMAIN taskList /\ i + 1 > 1
                                    /\ taskList'[i] = taskList[i + 1]
    BY <1>1, <1>2, <1>3
  <1>5. 1 \in DOMAIN taskList
    BY <1>1, <1>2
  <1>6. \A i, j \in DOMAIN taskList' : (i < j => i + 1 < j + 1) /\ (i # j => i + 1 # j + 1)
    BY <1>3, <1>1
  <1>7. ListOrdered'
    BY <1>4, <1>6 DEF ListInv, ListOrdered, Before
  <1>8. ListNames'
    BY <1>4, <1>6 DEF ListInv, ListNames
  <1>9. BackAfterGone'
    <2> SUFFICES ASSUME NEW t \in Gone', NEW i \in DOMAIN taskList',
                        ~t.front, ~taskList'[i].front
                 PROVE  t.id < taskList'[i].id
      BY DEF BackAfterGone
    <2>1. CASE t \in Gone
      BY <2>1, <1>4 DEF ListInv, BackAfterGone
    <2>2. CASE t = taskList[1]
      <3>1. Before(taskList[1], taskList[i + 1])
        BY <1>4, <1>5 DEF ListInv, ListOrdered
      <3> QED BY <3>1, <2>2, <1>4 DEF Before
    <2> QED BY <2>1, <2>2, <1>2
  <1>10. GoneNames'
    <2> SUFFICES ASSUME NEW t \in Gone'
                 PROVE  /\ t.id < nextId
                        /\ t.id \notin refused
                        /\ \A i \in DOMAIN taskList' : t.id # taskList'[i].id
      BY DEF GoneNames
    <2>1. CASE t \in Gone
      BY <2>1, <1>4 DEF ListInv, GoneNames
    <2>2. CASE t = taskList[1]
      <3>1. \A i \in DOMAIN taskList' : i + 1 # 1
        BY <1>4
      <3> QED BY <3>1, <2>2, <1>4, <1>5 DEF ListInv, ListNames
    <2> QED BY <2>1, <2>2, <1>2
  <1> QED BY <1>7, <1>8, <1>9, <1>10

\* A deadline passes, in the list or on the task just taken.
LEMMA ExpireKeeps ==
  ASSUME TypeOK, ListInv, Expire
  PROVE  ListInv'
  <1>1. UNCHANGED <<pc, nextId, ran, dropped, refused>>
    BY DEF Expire
  <1>2. \A i \in DOMAIN taskList : taskList[i] \in Task
    BY ElementOfSeq DEF TypeOK
  <1>3. /\ DOMAIN taskList' = DOMAIN taskList
        /\ \A i \in DOMAIN taskList : /\ taskList'[i].id = taskList[i].id
                                      /\ taskList'[i].front = taskList[i].front
    <2>1. ASSUME NEW i \in DOMAIN taskList,
                 taskList' = [taskList EXCEPT ![i] = Late(taskList[i])]
          PROVE  <1>3!:
      BY <2>1, <1>2, LateTask
    <2> QED BY <2>1 DEF Expire
  <1>4. pc = "Taken" => current'.id = current.id /\ current'.front = current.front
    BY LateTask DEF Expire, TypeOK, Busy
  <1>5. \A t \in Gone' : \E u \in Gone : t.id = u.id /\ t.front = u.front
    BY <1>1, <1>4 DEF Gone
  <1>6. ListOrdered' /\ ListNames'
    BY <1>1, <1>3 DEF ListInv, ListOrdered, Before, ListNames
  <1>7. BackAfterGone' /\ GoneNames'
    BY <1>1, <1>3, <1>5 DEF ListInv, BackAfterGone, GoneNames
  <1>8. FateNames'
    BY <1>1, <1>4 DEF ListInv, FateNames
  <1> QED BY <1>6, <1>7, <1>8 DEF ListInv

\* Every step keeps the list in order, ...
LEMMA ListStep == TypeOK /\ ListInv /\ [Next]_vars => ListInv'
  <1> SUFFICES ASSUME TypeOK, ListInv, [Next]_vars PROVE ListInv'
    OBVIOUS
  <1>1. ASSUME NEW front \in BOOLEAN, NEW expiry \in Expiry, NEW op \in Ops,
               Submit(front, expiry, op), GoneSame
        PROVE  ListInv'
    BY <1>1, AcceptKeeps, RefuseKeeps
  <1>2. ASSUME UNCHANGED <<taskList, nextId, refused>>, GoneSame
        PROVE  ListInv'
    BY <1>2 DEF ListInv, ListOrdered, Before, BackAfterGone, ListNames, GoneNames,
                FateNames, GoneSame
  <1>3. "work" \in Ops /\ "shutdown" \in Ops /\ "never" \in Expiry
        /\ {"never", "pending"} \subseteq Expiry
    BY DEF Ops, Expiry
  <1>4. ASSUME NEW p \in Producers, NEW front \in BOOLEAN,
               NEW expiry \in {"never", "pending"}, AddTask(p, front, expiry)
        PROVE  ListInv'
    <2>1. GoneSame
      BY <1>4 DEF AddTask, GoneSame, Gone
    <2> QED BY <1>1, <1>3, <1>4, <2>1 DEF AddTask
  <1>5. ASSUME NEW p \in Producers, Notify(p) PROVE ListInv'
    BY <1>2, <1>5 DEF Notify, GoneSame, Gone
  <1>6. ASSUME NEW front \in BOOLEAN, NEW expiry \in {"never", "pending"},
               AddFromTask(front, expiry)
        PROVE  ListInv'
    <2>1. GoneSame
      BY <1>6 DEF AddFromTask, GoneSame, Gone
    <2> QED BY <1>1, <1>3, <1>6, <2>1 DEF AddFromTask
  <1>7. ASSUME RequestShutdown PROVE ListInv'
    <2>1. GoneSame
      BY <1>7 DEF RequestShutdown, GoneSame, Gone
    <2> QED BY <1>1, <1>3, <1>7, <2>1 DEF RequestShutdown
  <1>8. ASSUME Take, pc \in {"Lock", "Woken"} PROVE ListInv'
    <2>1. CASE taskList' = taskList
      <3>1. taskList = <<>> \/ threadState = "TERMINATED"
        <4>1. ASSUME taskList # <<>>, taskList' = Tail(taskList) PROVE FALSE
          <5>1. Len(Tail(taskList)) = Len(taskList) - 1 /\ Len(taskList) \in Nat
            BY <4>1, DropHead DEF TypeOK
          <5> QED BY <2>1, <4>1, <5>1
        <4> QED BY <1>8, <4>1 DEF Take
      <3>2. pc' = "Test" /\ current' = current
        BY <1>8, <3>1 DEF Take
      <3> QED BY <1>2, <1>8, <2>1, <3>2 DEF Take, GoneSame, Gone
    <2>2. CASE taskList' # taskList
      <3>1. /\ taskList # <<>> /\ taskList' = Tail(taskList)
            /\ current' = Head(taskList) /\ pc' = "Taken"
            /\ UNCHANGED <<ran, dropped, nextId, refused>>
        BY <1>8, <2>2 DEF Take
      <3>2. Gone' = Gone \cup {Head(taskList)}
        BY <1>8, <3>1 DEF Gone
      <3>3. ListOrdered' /\ ListNames' /\ BackAfterGone' /\ GoneNames'
        BY <3>1, <3>2, PopKeeps
      <3>4. Head(taskList) = taskList[1] /\ 1 \in DOMAIN taskList
        BY <3>1, DropHead DEF TypeOK
      <3>5. \A t \in ran \cup dropped : t.id # taskList[1].id
        BY <3>4 DEF ListInv, GoneNames, Gone
      <3>6. FateNames'
        BY <3>1, <3>4, <3>5 DEF ListInv, FateNames
      <3> QED BY <3>3, <3>6 DEF ListInv
    <2> QED BY <2>1, <2>2
  <1>9. ASSUME FlushTask PROVE ListInv'
    <2>1. /\ taskList # <<>> /\ taskList' = Tail(taskList)
          /\ ran' = ran \cup {Head(taskList)} /\ pc' # "Taken" /\ pc # "Taken"
          /\ UNCHANGED <<dropped, nextId, refused>>
      BY <1>9 DEF FlushTask
    <2>2. Gone' = Gone \cup {Head(taskList)}
      BY <2>1 DEF Gone
    <2>3. ListOrdered' /\ ListNames' /\ BackAfterGone' /\ GoneNames'
      BY <2>1, <2>2, PopKeeps
    <2>4. Head(taskList) = taskList[1] /\ 1 \in DOMAIN taskList
      BY <2>1, DropHead DEF TypeOK
    <2>5. \A t \in ran \cup dropped : t.id # taskList[1].id
      BY <2>4 DEF ListInv, GoneNames, Gone
    <2>6. FateNames'
      BY <2>1, <2>4, <2>5 DEF ListInv, FateNames
    <2> QED BY <2>3, <2>6 DEF ListInv
  <1>10. ASSUME BeginTask PROVE ListInv'
    <2>1. Gone' = Gone
      BY <1>10 DEF BeginTask, Gone
    <2>2. FateNames'
      BY <1>10 DEF BeginTask, ListInv, FateNames
    <2> QED BY <1>10, <2>1, <2>2
            DEF BeginTask, ListInv, ListOrdered, Before, BackAfterGone, ListNames, GoneNames
  <1>11. ASSUME Test \/ LockAndWait \/ SpuriousWake \/ EndTask \/ Stop \/ Shutdown \/ FlushEnd
         PROVE  ListInv'
    <2>1. /\ UNCHANGED <<taskList, nextId, refused, ran, dropped>>
          /\ pc # "Taken" /\ pc' # "Taken"
      BY <1>11 DEF Test, LockAndWait, SpuriousWake, EndTask, Stop, Shutdown, FlushEnd
    <2> QED BY <2>1 DEF ListInv, ListOrdered, Before, BackAfterGone, ListNames, GoneNames,
                        FateNames, Gone
  <1>12. CASE UNCHANGED vars
    BY <1>12, <1>2 DEF vars, GoneSame, Gone
  <1> QED
    BY <1>4, <1>5, <1>6, <1>7, <1>8, <1>9, <1>10, <1>11, <1>12, ExpireKeeps
       DEF Next, ThreadStep, LockAndTake, WokenTake

\* ... and it is so for good.
LEMMA ListAlways == Spec => []ListInv
  <1>1. Init => ListInv
    BY DEF Init, ListInv, ListOrdered, ListNames, BackAfterGone, GoneNames, FateNames, Gone
  <1> QED BY <1>1, ListStep, TypeCorrect, PTL DEF Spec

(* Tasks added at the back run in the order in which they were accepted,    *)
(* whatever is pushed to the front: the deletion of an object, queued after *)
(* the tasks that use it, runs after them.                                  *)
THEOREM BackTasksInOrder == Spec => []BackOrder
  <1>1. ListInv => BackOrder
    BY DEF ListInv, BackOrder
  <1> QED BY <1>1, ListAlways, PTL

(* A task has one fate: it waits at one place of the list, or is being run, *)
(* or was run, or was deleted late, or was refused.                         *)
THEOREM TaskHasOneFate == Spec => []OneFate
  <1>1. ListInv => OneFate
    BY DEF ListInv, OneFate
  <1> QED BY <1>1, ListAlways, PTL

-----------------------------------------------------------------------------
(* Nothing is left behind.                                                  *)

ListIds == {taskList[i].id : i \in DOMAIN taskList}
GoneIds == {t.id : t \in Gone}

Accounted == \A i \in 1..(nextId - 1) : i \in refused \cup GoneIds \cup ListIds

\* After shutdown() returned the list is empty and stays so.
EndInv ==
  /\ threadState = "TERMINATED" => \/ pc \in {"Flush", "Stuck"}
                                   \/ pc \in {"Test", "Exited"} /\ taskList = <<>>
  /\ pc \in {"Flush", "Stuck", "Exited"} => threadState = "TERMINATED"

\* What is known of the end of the thread is kept by every step.
LEMMA EndStep == EndInv /\ [Next]_vars => EndInv'
  <1> SUFFICES ASSUME EndInv, [Next]_vars PROVE EndInv'
    OBVIOUS
  <1> USE DEF EndInv
  <1>1. ASSUME NEW front, NEW expiry, NEW op, Submit(front, expiry, op),
               UNCHANGED threadState, pc' = pc \/ (pc = "Exec" /\ pc' = "Stopping")
        PROVE  EndInv'
    BY <1>1 DEF Submit, TaskLockFree
  <1>2. ASSUME NEW p \in Producers, NEW front, NEW expiry, AddTask(p, front, expiry)
        PROVE  EndInv'
    BY <1>2, <1>1 DEF AddTask
  <1>3. ASSUME NEW p \in Producers, Notify(p) PROVE EndInv'
    BY <1>3 DEF Notify
  <1>4. ASSUME NEW front, NEW expiry, AddFromTask(front, expiry) PROVE EndInv'
    BY <1>4, <1>1 DEF AddFromTask
  <1>5. ASSUME Expire PROVE EndInv'
    BY <1>5 DEF Expire
  <1>6. ASSUME RequestShutdown PROVE EndInv'
    BY <1>6, <1>1 DEF RequestShutdown
  <1>7. ASSUME Take, pc \in {"Lock", "Woken"} PROVE EndInv'
    BY <1>7 DEF Take
  <1>8. ASSUME Test \/ LockAndWait \/ SpuriousWake \/ BeginTask \/ EndTask \/ Stop
               \/ Shutdown \/ FlushTask \/ FlushEnd
        PROVE  EndInv'
    BY <1>8 DEF Test, LockAndWait, SpuriousWake, BeginTask, EndTask, Stop, Shutdown,
                FlushTask, FlushEnd
  <1>9. CASE UNCHANGED vars
    BY <1>9 DEF vars
  <1> QED BY <1>2, <1>3, <1>4, <1>5, <1>6, <1>7, <1>8, <1>9
          DEF Next, ThreadStep, LockAndTake, WokenTake

\* addTask: the name given out is queued or refused.
LEMMA SubmitAccounts ==
  ASSUME TypeOK, Accounted, NEW front \in BOOLEAN, NEW expiry \in Expiry, NEW op \in Ops,
         Submit(front, expiry, op), GoneSame
  PROVE  Accounted'
  <1> DEFINE task == [id |-> nextId, front |-> front, expiry |-> expiry, op |-> op]
  <1>1. nextId \in 1..MaxTasks /\ nextId' = nextId + 1
    BY DispatcherAssumption DEF TypeOK, Submit
  <1>2. task \in Task /\ task.id = nextId
    BY <1>1 DEF Task
  <1>3. taskList \in Seq(Task) /\ Len(taskList) \in Nat
        /\ DOMAIN taskList = 1..Len(taskList)
    BY DEF TypeOK
  <1>4. \/ taskList' = <<task>> \o taskList /\ refused' = refused
        \/ taskList' = Append(taskList, task) /\ refused' = refused
        \/ taskList' = taskList /\ refused' = refused \cup {nextId}
    BY DEF Submit
  <1> HIDE DEF task
  <1>5. GoneIds' = GoneIds
    BY DEF GoneIds, GoneSame
  <1>6. CASE taskList' = <<task>> \o taskList /\ refused' = refused
    <2>1. /\ taskList' \in Seq(Task) /\ Len(taskList') = Len(taskList) + 1
          /\ taskList'[1] = task
          /\ \A i \in 2..(Len(taskList) + 1) : taskList'[i] = taskList[i - 1]
      BY <1>2, <1>3, <1>6, PushFront
    <2>2. DOMAIN taskList' = 1..(Len(taskList) + 1)
      BY <2>1
    <2>3. ASSUME NEW i \in DOMAIN taskList PROVE taskList[i].id \in ListIds'
      <3>1. i + 1 \in DOMAIN taskList' /\ taskList'[i + 1] = taskList[i]
        BY <1>3, <2>1, <2>2
      <3> QED BY <3>1 DEF ListIds
    <2>4. nextId \in ListIds'
      <3>1. 1 \in DOMAIN taskList'
        BY <2>2, <1>3
      <3> QED BY <3>1, <2>1, <1>2 DEF ListIds
    <2>5. ListIds \cup {nextId} \subseteq ListIds'
      BY <2>3, <2>4 DEF ListIds
    <2> QED BY <1>1, <1>5, <1>6, <2>5 DEF Accounted
  <1>7. CASE taskList' = Append(taskList, task) /\ refused' = refused
    <2>1. /\ taskList' \in Seq(Task) /\ Len(taskList') = Len(taskList) + 1
          /\ taskList'[Len(taskList) + 1] = task
          /\ \A i \in 1..Len(taskList) : taskList'[i] = taskList[i]
      BY <1>2, <1>3, <1>7, PushBack
    <2>2. DOMAIN taskList' = 1..(Len(taskList) + 1)
      BY <2>1
    <2>3. ASSUME NEW i \in DOMAIN taskList PROVE taskList[i].id \in ListIds'
      <3>1. i \in DOMAIN taskList' /\ taskList'[i] = taskList[i]
        BY <1>3, <2>1, <2>2
      <3> QED BY <3>1 DEF ListIds
    <2>4. nextId \in ListIds'
      <3>1. Len(taskList) + 1 \in DOMAIN taskList'
        BY <2>2, <1>3
      <3> QED BY <3>1, <2>1, <1>2 DEF ListIds
    <2>5. ListIds \cup {nextId} \subseteq ListIds'
      BY <2>3, <2>4 DEF ListIds
    <2> QED BY <1>1, <1>5, <1>7, <2>5 DEF Accounted
  <1>8. CASE taskList' = taskList /\ refused' = refused \cup {nextId}
    <2>1. ListIds' = ListIds
      BY <1>8 DEF ListIds
    <2> QED BY <1>1, <1>5, <1>8, <2>1 DEF Accounted
  <1> QED BY <1>4, <1>6, <1>7, <1>8

\* The first task leaves the list for where it is accounted for.
LEMMA PopAccounts ==
  ASSUME TypeOK, Accounted, taskList # <<>>, taskList' = Tail(taskList),
         Gone' = Gone \cup {Head(taskList)}, UNCHANGED <<nextId, refused>>
  PROVE  Accounted'
  <1>1. /\ DOMAIN taskList = 1..Len(taskList) /\ Len(taskList) \in Nat
        /\ Head(taskList) = taskList[1]
        /\ Len(Tail(taskList)) = Len(taskList) - 1
        /\ \A i \in 1..(Len(taskList) - 1) : Tail(taskList)[i] = taskList[i + 1]
        /\ Tail(taskList) \in Seq(Task)
    BY DropHead DEF TypeOK
  <1>2. DOMAIN taskList' = 1..(Len(taskList) - 1)
    BY <1>1
  <1>3. ASSUME NEW i \in DOMAIN taskList PROVE taskList[i].id \in ListIds' \cup GoneIds'
    <2>1. CASE i = 1
      <3>1. taskList[1] \in Gone'
        BY <1>1
      <3> QED BY <2>1, <3>1 DEF GoneIds
    <2>2. CASE i # 1
      <3>1. i - 1 \in DOMAIN taskList' /\ taskList'[i - 1] = taskList[i]
        <4>1. i - 1 \in 1..(Len(taskList) - 1) /\ (i - 1) + 1 = i
          BY <1>1, <2>2
        <4> QED BY <4>1, <1>1, <1>2
      <3> QED BY <3>1 DEF ListIds
    <2> QED BY <2>1, <2>2
  <1>4. GoneIds \subseteq GoneIds'
    BY DEF GoneIds
  <1> QED BY <1>3, <1>4 DEF Accounted, ListIds

\* A deadline that passes takes no task away.
LEMMA ExpireAccounts ==
  ASSUME TypeOK, Accounted, Expire
  PROVE  Accounted'
  <1>1. UNCHANGED <<pc, nextId, ran, dropped, refused>>
    BY DEF Expire
  <1>2. \A i \in DOMAIN taskList : taskList[i] \in Task
    BY ElementOfSeq DEF TypeOK
  <1>3. ListIds' = ListIds
    <2>1. ASSUME NEW i \in DOMAIN taskList,
                 taskList' = [taskList EXCEPT ![i] = Late(taskList[i])]
          PROVE  /\ DOMAIN taskList' = DOMAIN taskList
                 /\ \A j \in DOMAIN taskList : taskList'[j].id = taskList[j].id
      BY <2>1, <1>2, LateTask
    <2> QED BY <2>1 DEF Expire, ListIds
  <1>4. GoneIds' = GoneIds
    <2>1. CASE pc = "Taken" /\ current' = Late(current)
      <3>1. current'.id = current.id
        BY <2>1, LateTask DEF TypeOK, Busy
      <3> QED BY <1>1, <2>1, <3>1 DEF GoneIds, Gone
    <2>2. CASE current' = current
      BY <1>1, <2>2 DEF GoneIds, Gone
    <2> QED BY <2>1, <2>2 DEF Expire
  <1> QED BY <1>1, <1>3, <1>4 DEF Accounted

\* No step loses sight of a name.
LEMMA AccountedStep == TypeOK /\ Accounted /\ [Next]_vars => Accounted'
  <1> SUFFICES ASSUME TypeOK, Accounted, [Next]_vars PROVE Accounted'
    OBVIOUS
  <1>1. "work" \in Ops /\ "shutdown" \in Ops /\ "never" \in Expiry
        /\ {"never", "pending"} \subseteq Expiry
    BY DEF Ops, Expiry
  <1>2. ASSUME UNCHANGED <<taskList, nextId, refused>>, Gone' = Gone
        PROVE  Accounted'
    BY <1>2 DEF Accounted, ListIds, GoneIds
  <1>3. ASSUME NEW p \in Producers, NEW front \in BOOLEAN,
               NEW expiry \in {"never", "pending"}, AddTask(p, front, expiry)
        PROVE  Accounted'
    <2>1. GoneSame
      BY <1>3 DEF AddTask, GoneSame, Gone
    <2> QED BY <1>1, <1>3, <2>1, SubmitAccounts DEF AddTask
  <1>4. ASSUME NEW front \in BOOLEAN, NEW expiry \in {"never", "pending"},
               AddFromTask(front, expiry)
        PROVE  Accounted'
    <2>1. GoneSame
      BY <1>4 DEF AddFromTask, GoneSame, Gone
    <2> QED BY <1>1, <1>4, <2>1, SubmitAccounts DEF AddFromTask
  <1>5. ASSUME RequestShutdown PROVE Accounted'
    <2>1. GoneSame
      BY <1>5 DEF RequestShutdown, GoneSame, Gone
    <2> QED BY <1>1, <1>5, <2>1, SubmitAccounts DEF RequestShutdown
  <1>6. ASSUME Take, pc \in {"Lock", "Woken"} PROVE Accounted'
    <2>1. CASE pc' = "Taken"
      <3>1. /\ taskList # <<>> /\ taskList' = Tail(taskList)
            /\ current' = Head(taskList)
            /\ UNCHANGED <<ran, dropped, nextId, refused>>
        BY <1>6, <2>1 DEF Take
      <3>2. Gone' = Gone \cup {Head(taskList)}
        BY <1>6, <2>1, <3>1 DEF Gone
      <3> QED BY <3>1, <3>2, PopAccounts
    <2>2. CASE pc' # "Taken"
      <3>1. UNCHANGED <<taskList, nextId, refused, ran, dropped>>
        BY <1>6, <2>2 DEF Take
      <3> QED BY <1>2, <1>6, <2>2, <3>1 DEF Gone
    <2> QED BY <2>1, <2>2
  <1>7. ASSUME FlushTask PROVE Accounted'
    <2>1. /\ taskList # <<>> /\ taskList' = Tail(taskList)
          /\ ran' = ran \cup {Head(taskList)} /\ pc' # "Taken" /\ pc # "Taken"
          /\ UNCHANGED <<dropped, nextId, refused>>
      BY <1>7 DEF FlushTask
    <2>2. Gone' = Gone \cup {Head(taskList)}
      BY <2>1 DEF Gone
    <2> QED BY <2>1, <2>2, PopAccounts
  <1>8. ASSUME BeginTask PROVE Accounted'
    <2>1. Gone' = Gone
      BY <1>8 DEF BeginTask, Gone
    <2> QED BY <1>2, <1>8, <2>1 DEF BeginTask
  <1>9. ASSUME Test \/ LockAndWait \/ SpuriousWake \/ EndTask \/ Stop \/ Shutdown \/ FlushEnd
        PROVE  Accounted'
    <2>1. /\ UNCHANGED <<taskList, nextId, refused, ran, dropped>>
          /\ pc # "Taken" /\ pc' # "Taken"
      BY <1>9 DEF Test, LockAndWait, SpuriousWake, EndTask, Stop, Shutdown, FlushEnd
    <2>2. Gone' = Gone
      BY <2>1 DEF Gone
    <2> QED BY <1>2, <2>1, <2>2
  <1>11. ASSUME NEW p \in Producers, Notify(p) PROVE Accounted'
    <2>1. Gone' = Gone
      BY <1>11 DEF Notify, Gone
    <2> QED BY <1>2, <1>11, <2>1 DEF Notify
  <1>10. CASE UNCHANGED vars
    BY <1>10, <1>2 DEF vars, Gone
  <1> QED
    BY <1>3, <1>4, <1>5, <1>6, <1>7, <1>8, <1>9, <1>10, <1>11, ExpireAccounts
       DEF Next, ThreadStep, LockAndTake, WokenTake

(* When the thread has left its loop the list is empty, and every task      *)
(* accepted between start() and stop() was run or deleted as late.          *)
THEOREM NothingIsLeftBehind == Spec => []NothingLeftBehind
  <1>1. Init => EndInv /\ Accounted
    BY DEF Init, EndInv, Accounted
  <1>2. EndInv /\ Accounted => NothingLeftBehind
    <2> SUFFICES ASSUME EndInv, Accounted, pc = "Exited" PROVE NothingLeftBehind
      BY DEF NothingLeftBehind
    <2>1. taskList = <<>>
      BY DEF EndInv
    <2>2. ListIds = {}
      BY <2>1 DEF ListIds
    <2>3. Gone = ran \cup dropped
      BY DEF Gone
    <2> QED BY <2>1, <2>2, <2>3 DEF NothingLeftBehind, Accounted, GoneIds
  <1> QED BY <1>1, <1>2, EndStep, AccountedStep, TypeCorrect, PTL DEF Spec
-----------------------------------------------------------------------------
(* The refinement of TaskService.                                           *)

(* Where the shutdown stands: the task that calls shutdown() is somewhere   *)
(* only once its requester has gone on to stop(), and what the thread       *)
(* executes is among the tasks that began.                                  *)
ShutdownQueued == \/ \E i \in DOMAIN taskList : taskList[i].op = "shutdown"
                  \/ current.op = "shutdown"

StopInv ==
  /\ threadState = "RUNNING" /\ ShutdownQueued => pc = "Stopping"
  /\ pc = "Stopping" => threadState = "RUNNING"
  /\ pc \in Busy \ {"Taken"} => current \in ran

\* Adding work makes no shutdown task.
LEMMA SubmitKeepsOps ==
  ASSUME TypeOK, NEW front \in BOOLEAN, NEW expiry \in Expiry, NEW op \in Ops,
         Submit(front, expiry, op), current' = current, ShutdownQueued', op = "work"
  PROVE  ShutdownQueued
  <1> DEFINE task == [id |-> nextId, front |-> front, expiry |-> expiry, op |-> op]
  <1>1. nextId \in 1..MaxTasks
    BY DispatcherAssumption DEF TypeOK, Submit
  <1>2. task \in Task /\ task.op = "work"
    BY <1>1 DEF Task
  <1>3. taskList \in Seq(Task) /\ Len(taskList) \in Nat
        /\ DOMAIN taskList = 1..Len(taskList)
    BY DEF TypeOK
  <1>4. taskList' \in {taskList, Append(taskList, task), <<task>> \o taskList}
    BY DEF Submit
  <1> HIDE DEF task
  <1>5. ASSUME NEW i \in DOMAIN taskList', taskList'[i].op = "shutdown"
        PROVE  \E j \in DOMAIN taskList : taskList[j].op = "shutdown"
    <2>1. CASE taskList' = taskList
      BY <1>5, <2>1
    <2>2. CASE taskList' = Append(taskList, task)
      <3>1. /\ taskList' \in Seq(Task) /\ Len(taskList') = Len(taskList) + 1
            /\ taskList'[Len(taskList) + 1] = task
            /\ \A k \in 1..Len(taskList) : taskList'[k] = taskList[k]
        BY <1>2, <1>3, <2>2, PushBack
      <3>2. i \in 1..(Len(taskList) + 1) /\ i # Len(taskList) + 1
        BY <1>2, <1>5, <3>1
      <3> QED BY <1>3, <1>5, <3>1, <3>2
    <2>3. CASE taskList' = <<task>> \o taskList
      <3>1. /\ taskList' \in Seq(Task) /\ Len(taskList') = Len(taskList) + 1
            /\ taskList'[1] = task
            /\ \A k \in 2..(Len(taskList) + 1) : taskList'[k] = taskList[k - 1]
        BY <1>2, <1>3, <2>3, PushFront
      <3>2. i \in 2..(Len(taskList) + 1)
        BY <1>2, <1>3, <1>5, <3>1
      <3> QED BY <1>3, <1>5, <3>1, <3>2
    <2> QED BY <1>4, <2>1, <2>2, <2>3
  <1> QED BY <1>5 DEF ShutdownQueued

\* Who called stop() and shutdown(), and what that says of the list, is kept by every step.
LEMMA StopStep == TypeOK /\ StopInv /\ EndInv /\ [Next]_vars => StopInv'
  <1> SUFFICES ASSUME TypeOK, StopInv, EndInv, [Next]_vars PROVE StopInv'
    OBVIOUS
  <1>1. "work" \in Ops /\ "shutdown" \in Ops /\ "never" \in Expiry
        /\ {"never", "pending"} \subseteq Expiry
    BY DEF Ops, Expiry
  <1>2. ASSUME UNCHANGED <<threadState, current, ran>>, ShutdownQueued' => ShutdownQueued,
               \/ pc' = pc
               \/ pc' \notin Busy /\ pc # "Stopping"
        PROVE  StopInv'
    BY <1>2 DEF StopInv, Busy
  <1>3. ASSUME NEW p \in Producers, NEW front \in BOOLEAN,
               NEW expiry \in {"never", "pending"}, AddTask(p, front, expiry)
        PROVE  StopInv'
    <2>1. ShutdownQueued' => ShutdownQueued
      BY <1>1, <1>3, SubmitKeepsOps DEF AddTask
    <2> QED BY <1>2, <1>3, <2>1 DEF AddTask
  <1>4. ASSUME NEW front \in BOOLEAN, NEW expiry \in {"never", "pending"},
               AddFromTask(front, expiry)
        PROVE  StopInv'
    <2>1. ShutdownQueued' => ShutdownQueued
      BY <1>1, <1>4, SubmitKeepsOps DEF AddFromTask
    <2> QED BY <1>2, <1>4, <2>1 DEF AddFromTask
  <1>5. ASSUME NEW p \in Producers, Notify(p) PROVE StopInv'
    BY <1>5 DEF Notify, StopInv, ShutdownQueued, Busy
  <1>6. ASSUME Expire PROVE StopInv'
    <2>1. ShutdownQueued' => ShutdownQueued
      <3>1. \A i \in DOMAIN taskList : taskList[i] \in Task
        BY ElementOfSeq DEF TypeOK
      <3>2. \A t \in Task : Late(t).op = t.op
        BY DEF Late, Task
      <3>3. ASSUME NEW i \in DOMAIN taskList,
                   taskList' = [taskList EXCEPT ![i] = Late(taskList[i])]
            PROVE  /\ DOMAIN taskList' = DOMAIN taskList
                   /\ \A j \in DOMAIN taskList : taskList'[j].op = taskList[j].op
        BY <3>1, <3>2, <3>3
      <3>4. CASE pc = "Taken" /\ current' = Late(current) /\ taskList' = taskList
        <4>1. current \in Task
          BY <3>4 DEF TypeOK, Busy
        <4> QED BY <3>2, <3>4, <4>1 DEF ShutdownQueued
      <3> QED BY <1>6, <3>3, <3>4 DEF Expire, ShutdownQueued
    <2> QED BY <1>6, <2>1 DEF Expire, StopInv
  <1>7. ASSUME RequestShutdown PROVE StopInv'
    BY <1>7 DEF RequestShutdown, StopInv, Busy
  <1>8. ASSUME Take, pc \in {"Lock", "Woken"} PROVE StopInv'
    <2>1. CASE taskList # <<>> /\ taskList' = Tail(taskList) /\ current' = Head(taskList)
               /\ pc' = "Taken" 
      <3>1. ShutdownQueued' => ShutdownQueued
        <4>1. /\ Head(taskList) = taskList[1]
              /\ Tail(taskList) \in Seq(Task)
              /\ Len(Tail(taskList)) = Len(taskList) - 1
              /\ Len(taskList) > 0 /\ Len(taskList) \in Nat
              /\ DOMAIN taskList = 1..Len(taskList)
              /\ \A i \in 1..(Len(taskList) - 1) : Tail(taskList)[i] = taskList[i + 1]
          BY <2>1, DropHead DEF TypeOK
        <4>2. 1 \in DOMAIN taskList
          BY <4>1
        <4>3. \A i \in DOMAIN taskList' : i + 1 \in DOMAIN taskList /\ taskList'[i] = taskList[i + 1]
          BY <2>1, <4>1
        <4> QED BY <2>1, <4>1, <4>2, <4>3 DEF ShutdownQueued
      <3> QED BY <1>8, <2>1, <3>1 DEF Take, StopInv, Busy
    <2>2. CASE UNCHANGED <<taskList, current>> /\ pc' = "Test"
      BY <1>8, <2>2 DEF Take, StopInv, ShutdownQueued, Busy
    <2> QED BY <1>8, <2>1, <2>2 DEF Take
  <1>9. ASSUME BeginTask PROVE StopInv'
    BY <1>9 DEF BeginTask, StopInv, ShutdownQueued, NoTask, Busy
  <1>10. ASSUME FlushTask PROVE StopInv'
    BY <1>10 DEF FlushTask, StopInv, EndInv, Busy
  <1>11. ASSUME EndTask \/ FlushEnd PROVE StopInv'
    BY <1>11 DEF EndTask, FlushEnd, StopInv, ShutdownQueued, NoTask, Busy
  <1>12. ASSUME Stop \/ Shutdown PROVE StopInv'
    BY <1>12 DEF Stop, Shutdown, StopInv, Busy
  <1>13. ASSUME Test \/ LockAndWait \/ SpuriousWake PROVE StopInv'
    BY <1>13 DEF Test, LockAndWait, SpuriousWake, StopInv, ShutdownQueued, Busy
  <1>14. CASE UNCHANGED vars
    BY <1>14 DEF vars, StopInv, ShutdownQueued
  <1> QED
    BY <1>3, <1>4, <1>5, <1>6, <1>7, <1>8, <1>9, <1>10, <1>11, <1>12, <1>13, <1>14
       DEF Next, ThreadStep, LockAndTake, WokenTake
-----------------------------------------------------------------------------
(* The refinement mapping: a request's fate in terms of the names held by   *)
(* the list, by the thread and by the histories.                            *)

RanIds == {t.id : t \in ran}
DroppedIds == {t.id : t \in dropped}

LateIds == {t.id : t \in {u \in Range(taskList) \cup {current} : u.expiry = "past"}}

FateMap == [i \in 1..MaxTasks |-> FateOf(i)]

Phase == CASE threadState = "RUNNING" -> "open"
           [] threadState = "CLOSING" -> "closed"
           [] threadState = "TERMINATED" -> "draining"

FateFrom(i, next, no, began, gone, late) ==
  IF i >= next THEN "unknown"
  ELSE IF i \in no THEN "refused"
  ELSE IF i \in began THEN "ran"
  ELSE IF i \in gone THEN "discarded"
  ELSE IF i \in late THEN "late" ELSE "pending"

\* The fate of a request depends on the sets of names alone, now and after a step.
LEMMA FateByNames ==
  ASSUME NEW i
  PROVE  /\ FateOf(i) = FateFrom(i, nextId, refused, RanIds, DroppedIds, LateIds)
         /\ FateOf(i)' = FateFrom(i, nextId', refused', RanIds', DroppedIds', LateIds')
  <1>1. /\ (\E t \in ran : t.id = i) <=> i \in RanIds
        /\ (\E t \in ran' : t.id = i) <=> i \in RanIds'
    BY DEF RanIds
  <1>2. /\ (\E t \in dropped : t.id = i) <=> i \in DroppedIds
        /\ (\E t \in dropped' : t.id = i) <=> i \in DroppedIds'
    BY DEF DroppedIds
  <1>3. /\ (\E t \in Range(taskList) \cup {current} : t.id = i /\ t.expiry = "past")
             <=> i \in LateIds
        /\ (\E t \in Range(taskList') \cup {current'} : t.id = i /\ t.expiry = "past")
             <=> i \in LateIds'
    BY DEF LateIds
  <1> QED BY <1>1, <1>2, <1>3 DEF FateOf, FateFrom

\* One request changes its fate: a step of the abstract service.
LEMMA OneFateChanges ==
  ASSUME NEW r \in 1..MaxTasks, NEW from, NEW to,
         FateOf(r) = from, FateOf(r)' = to, UNCHANGED threadState,
         \A i \in 1..MaxTasks : i # r => FateOf(i)' = FateOf(i)
  PROVE  Service!Become(r, from, to)
  <1>1. FateMap[r] = from
    BY DEF FateMap
  <1>2. FateMap' = [FateMap EXCEPT ![r] = to]
    BY DEF FateMap
  <1>3. Phase' = Phase
    BY DEF Phase
  <1> QED BY <1>1, <1>2, <1>3 DEF Service!Become, FateMap, Phase

\* No request changes its fate: a stutter of the abstract service.
LEMMA NoFateChanges ==
  ASSUME \A i \in 1..MaxTasks : FateOf(i)' = FateOf(i), UNCHANGED threadState
  PROVE  UNCHANGED Service!vars
  BY DEF Service!vars

\* Whatever is late, ran or was discarded was accepted before.
LEMMA NamesAreAccepted ==
  ASSUME TypeOK, ListInv, StopInv, NEW i \in RanIds \cup DroppedIds \cup LateIds
  PROVE  i \in Nat /\ i < nextId /\ i \notin refused
  <1>1. ASSUME NEW t \in Gone
        PROVE  t.id \in Nat /\ t.id < nextId /\ t.id \notin refused
    <2>1. Gone \subseteq Task
      BY DEF Gone, TypeOK, Busy
    <2> QED BY <2>1, TaskIdNat DEF ListInv, GoneNames
  <1>2. ASSUME NEW k \in DOMAIN taskList
        PROVE  taskList[k].id \in Nat /\ taskList[k].id < nextId /\ taskList[k].id \notin refused
    <2>1. taskList[k] \in Task
      BY ElementOfSeq DEF TypeOK
    <2> QED BY <2>1, TaskIdNat DEF ListInv, ListNames
  <1>3. current.expiry = "past" => current \in Gone
    BY DEF TypeOK, NoTask, StopInv, Gone, Busy
  <1>4. RanIds \cup DroppedIds = {t.id : t \in ran \cup dropped} /\ ran \cup dropped \subseteq Gone
    BY DEF RanIds, DroppedIds, Gone
  <1>5. CASE i \in RanIds \cup DroppedIds
    BY <1>1, <1>4, <1>5
  <1>6. CASE i \in LateIds
    BY <1>1, <1>2, <1>3, <1>6 DEF LateIds, Range
  <1> QED BY <1>5, <1>6

\* Where the names are after the list took in a task.
LEMMA AcceptedRange ==
  ASSUME TypeOK, NEW task \in Task,
         taskList' \in {Append(taskList, task), <<task>> \o taskList}
  PROVE  Range(taskList') = Range(taskList) \cup {task}
  <1>1. taskList \in Seq(Task) /\ Len(taskList) \in Nat
        /\ DOMAIN taskList = 1..Len(taskList)
    BY DEF TypeOK
  <1>2. CASE taskList' = Append(taskList, task)
    <2>1. /\ taskList' \in Seq(Task) /\ Len(taskList') = Len(taskList) + 1
          /\ taskList'[Len(taskList) + 1] = task
          /\ \A k \in 1..Len(taskList) : taskList'[k] = taskList[k]
      BY <1>1, <1>2, PushBack
    <2>2. DOMAIN taskList' = 1..(Len(taskList) + 1)
      BY <2>1
    <2>3. \A k \in DOMAIN taskList : k \in DOMAIN taskList' /\ taskList'[k] = taskList[k]
      BY <1>1, <2>1, <2>2
    <2>4. Len(taskList) + 1 \in DOMAIN taskList'
      BY <1>1, <2>2
    <2>5. \A k \in DOMAIN taskList' : k = Len(taskList) + 1 \/ k \in DOMAIN taskList
      BY <1>1, <2>2
    <2>6. \A t : (\E k \in DOMAIN taskList' : t = taskList'[k])
                   <=> (t = task \/ \E k \in DOMAIN taskList : t = taskList[k])
      BY <2>1, <2>3, <2>4, <2>5
    <2> QED BY <2>6 DEF Range
  <1>3. CASE taskList' = <<task>> \o taskList
    <2>1. /\ taskList' \in Seq(Task) /\ Len(taskList') = Len(taskList) + 1
          /\ taskList'[1] = task
          /\ \A k \in 2..(Len(taskList) + 1) : taskList'[k] = taskList[k - 1]
      BY <1>1, <1>3, PushFront
    <2>2. DOMAIN taskList' = 1..(Len(taskList) + 1)
      BY <2>1
    <2>3. \A k \in DOMAIN taskList : k + 1 \in DOMAIN taskList' /\ taskList'[k + 1] = taskList[k]
      BY <1>1, <2>1, <2>2
    <2>4. 1 \in DOMAIN taskList'
      BY <1>1, <2>2
    <2>5. \A k \in DOMAIN taskList' :
             k = 1 \/ (k - 1 \in DOMAIN taskList /\ taskList'[k] = taskList[k - 1])
      BY <1>1, <2>1, <2>2
    <2>6. \A t : (\E k \in DOMAIN taskList' : t = taskList'[k])
                   <=> (t = task \/ \E k \in DOMAIN taskList : t = taskList[k])
      BY <2>1, <2>3, <2>4, <2>5
    <2> QED BY <2>6 DEF Range
  <1> QED BY <1>2, <1>3

\* ... and after the thread took the head.
LEMMA TakenRange ==
  ASSUME TypeOK, taskList # <<>>
  PROVE  /\ Range(taskList) = Range(Tail(taskList)) \cup {Head(taskList)}
         /\ 1 \in DOMAIN taskList /\ Head(taskList) = taskList[1]
         /\ \A t \in Range(Tail(taskList)) :
              \E k \in DOMAIN taskList : k # 1 /\ taskList[k] = t
  <1>1. /\ Head(taskList) = taskList[1]
        /\ Tail(taskList) \in Seq(Task)
        /\ Len(Tail(taskList)) = Len(taskList) - 1
        /\ Len(taskList) > 0 /\ Len(taskList) \in Nat
        /\ DOMAIN taskList = 1..Len(taskList)
        /\ \A i \in 1..(Len(taskList) - 1) : Tail(taskList)[i] = taskList[i + 1]
    BY DropHead DEF TypeOK
  <1>2. DOMAIN Tail(taskList) = 1..(Len(taskList) - 1)
    BY <1>1
  <1>3. 1 \in DOMAIN taskList
    BY <1>1
  <1>4. \A k \in DOMAIN taskList :
           k = 1 \/ (k - 1 \in DOMAIN Tail(taskList) /\ Tail(taskList)[k - 1] = taskList[k])
    BY <1>1, <1>2
  <1>5. \A k \in DOMAIN Tail(taskList) :
           k + 1 \in DOMAIN taskList /\ k + 1 # 1 /\ Tail(taskList)[k] = taskList[k + 1]
    BY <1>1, <1>2
  <1>6. \A t : (\E k \in DOMAIN taskList : t = taskList[k])
                 <=> (t = Head(taskList) \/ \E k \in DOMAIN Tail(taskList) : t = Tail(taskList)[k])
    BY <1>1, <1>3, <1>4, <1>5
  <1>7. Range(taskList) = Range(Tail(taskList)) \cup {Head(taskList)}
    BY <1>6 DEF Range
  <1>8. ASSUME NEW t \in Range(Tail(taskList))
        PROVE  \E k \in DOMAIN taskList : k # 1 /\ taskList[k] = t
    <2>1. PICK k \in DOMAIN Tail(taskList) : t = Tail(taskList)[k]
      BY DEF Range
    <2> QED BY <1>5, <2>1
  <1> QED BY <1>1, <1>3, <1>7, <1>8

\* addTask: the new request is pending, or refused.
LEMMA SubmitRefines ==
  ASSUME TypeOK, ListInv, StopInv, NEW front \in BOOLEAN,
         NEW expiry \in {"never", "pending"}, NEW op \in Ops,
         Submit(front, expiry, op), UNCHANGED <<threadState, current, ran, dropped>>
  PROVE  Service!Next
  <1> DEFINE task == [id |-> nextId, front |-> front, expiry |-> expiry, op |-> op]
  <1>1. nextId \in 1..MaxTasks /\ nextId' = nextId + 1 /\ nextId \in Nat
    BY DispatcherAssumption DEF TypeOK, Submit
  <1>2. task \in Task /\ task.expiry # "past"
    BY <1>1 DEF Task, Expiry
  <1>3. \/ /\ threadState = "RUNNING" /\ refused' = refused
           /\ taskList' \in {Append(taskList, task), <<task>> \o taskList}
        \/ /\ threadState # "RUNNING" /\ taskList' = taskList
           /\ refused' = refused \cup {nextId}
    BY DEF Submit
  <1> HIDE DEF task
  <1>4. RanIds' = RanIds /\ DroppedIds' = DroppedIds
    BY DEF RanIds, DroppedIds
  <1>5. LateIds' = LateIds
    <2>1. CASE taskList' = taskList
      BY <2>1 DEF LateIds
    <2>2. CASE taskList' \in {Append(taskList, task), <<task>> \o taskList}
      <3>1. Range(taskList') = Range(taskList) \cup {task}
        BY <1>2, <2>2, AcceptedRange
      <3> QED BY <1>2, <3>1 DEF LateIds
    <2> QED BY <1>3, <2>1, <2>2
  <1>6. nextId \notin RanIds \cup DroppedIds \cup LateIds /\ nextId \notin refused
    BY <1>1, NamesAreAccepted DEF ListInv, FateNames
  <1>7. PICK r \in 1..MaxTasks : r = nextId
    BY <1>1
  <1>8. FateOf(r) = "unknown"
    BY <1>1, <1>7, FateByNames DEF FateFrom
  <1>9. ASSUME NEW i \in 1..MaxTasks, i # r PROVE FateOf(i)' = FateOf(i)
    <2>1. (i >= nextId' <=> i >= nextId) /\ (i \in refused' <=> i \in refused)
      BY <1>1, <1>3, <1>7, <1>9
    <2> QED BY <1>4, <1>5, <2>1, FateByNames DEF FateFrom
  <1>10. FateOf(r)' = IF threadState = "RUNNING" THEN "pending" ELSE "refused"
    <2>1. ~(r >= nextId') /\ r \notin RanIds' \cup DroppedIds' \cup LateIds'
          /\ (r \in refused' <=> threadState # "RUNNING")
      BY <1>1, <1>3, <1>4, <1>5, <1>6, <1>7
    <2> QED BY <2>1, FateByNames DEF FateFrom
  <1>11. CASE threadState = "RUNNING"
    <2>1. Service!Become(r, "unknown", "pending")
      BY <1>8, <1>9, <1>10, <1>11, OneFateChanges
    <2> QED BY <1>11, <2>1 DEF Service!Next, Service!Submit, Service!Requests
  <1>12. CASE threadState # "RUNNING"
    <2>1. Service!Become(r, "unknown", "refused")
      BY <1>8, <1>9, <1>10, <1>12, OneFateChanges
    <2>2. threadState \in {"CLOSING", "TERMINATED"}
      BY <1>12 DEF TypeOK, ThreadStates
    <2> QED BY <2>1, <2>2 DEF Service!Next, Service!Refuse, Service!Requests
  <1> QED BY <1>11, <1>12

\* No name but n changes what is known of it: the other fates stay.
LEMMA OtherFates ==
  ASSUME UNCHANGED <<nextId, refused>>, NEW n,
         RanIds' \ {n} = RanIds \ {n}, DroppedIds' \ {n} = DroppedIds \ {n},
         LateIds' \ {n} = LateIds \ {n}
  PROVE  \A i \in 1..MaxTasks : i # n => FateOf(i)' = FateOf(i)
  <1> SUFFICES ASSUME NEW i \in 1..MaxTasks, i # n PROVE FateOf(i)' = FateOf(i)
    OBVIOUS
  <1>1. /\ i \in RanIds' <=> i \in RanIds
        /\ i \in DroppedIds' <=> i \in DroppedIds
        /\ i \in LateIds' <=> i \in LateIds
    OBVIOUS
  <1> QED BY <1>1, FateByNames DEF FateFrom

\* A task that waits, in the list or in the hands of the thread.
Waits(t) == t \in Range(taskList) \/ (pc = "Taken" /\ t = current)

\* A task that waits has not been settled: it is pending, or late.
LEMMA WaitingFate ==
  ASSUME TypeOK, ListInv, StopInv, NEW t, Waits(t)
  PROVE  /\ t \in Task /\ t.id \in 1..MaxTasks
         /\ t.id < nextId /\ t.id \notin refused \cup RanIds \cup DroppedIds
         /\ \A u \in Range(taskList) \cup {current} : u.expiry = "past" /\ u.id = t.id => u = t
         /\ FateOf(t.id) = IF t.expiry = "past" THEN "late" ELSE "pending"
  <1>1. CASE t \in Range(taskList)
    <2>1. PICK k \in DOMAIN taskList : t = taskList[k]
      BY <1>1 DEF Range
    <2>2. t \in Task
      BY <2>1, ElementOfSeq DEF TypeOK
    <2>3. t.id < nextId /\ t.id \notin refused
      BY <2>1 DEF ListInv, ListNames
    <2>4. \A u \in Gone : u.id # t.id
      BY <2>1 DEF ListInv, GoneNames
    <2>5. t.id \notin RanIds \cup DroppedIds
      BY <2>4 DEF RanIds, DroppedIds, Gone
    <2>6. ASSUME NEW u \in Range(taskList) \cup {current}, u.expiry = "past", u.id = t.id
          PROVE  u = t
      <3>1. CASE u \in Range(taskList)
        BY <2>1, <2>6, <3>1 DEF Range, ListInv, ListNames
      <3>2. CASE u = current
        <4>1. current \in Gone
          BY <2>6, <3>2 DEF TypeOK, NoTask, StopInv, Gone, Busy
        <4> QED BY <2>4, <2>6, <3>2, <4>1
      <3> QED BY <3>1, <3>2
    <2>7. t.id \in LateIds <=> t.expiry = "past"
      BY <1>1, <2>6 DEF LateIds
    <2>8. t.id \in Nat /\ t.id \in 1..MaxTasks
      BY <2>2 DEF Task
    <2>9. FateOf(t.id) = IF t.expiry = "past" THEN "late" ELSE "pending"
      <3>1. PICK i \in 1..MaxTasks : i = t.id
        BY <2>8
      <3> QED BY <2>3, <2>5, <2>7, <2>8, <3>1, FateByNames DEF FateFrom, TypeOK
    <2> QED BY <2>2, <2>3, <2>5, <2>6, <2>8, <2>9
  <1>2. CASE pc = "Taken" /\ t = current
    <2>1. t \in Task /\ t \in Gone
      BY <1>2 DEF TypeOK, Busy, Gone
    <2>2. /\ t.id < nextId /\ t.id \notin refused
          /\ \A k \in DOMAIN taskList : t.id # taskList[k].id
      BY <2>1 DEF ListInv, GoneNames
    <2>3. t.id \notin RanIds \cup DroppedIds
      BY <1>2 DEF ListInv, FateNames, RanIds, DroppedIds
    <2>4. ASSUME NEW u \in Range(taskList) \cup {current}, u.expiry = "past", u.id = t.id
          PROVE  u = t
      BY <1>2, <2>2, <2>4 DEF Range
    <2>5. t.id \in LateIds <=> t.expiry = "past"
      BY <1>2, <2>4 DEF LateIds
    <2>6. t.id \in Nat /\ t.id \in 1..MaxTasks
      BY <2>1 DEF Task
    <2>7. FateOf(t.id) = IF t.expiry = "past" THEN "late" ELSE "pending"
      <3>1. PICK i \in 1..MaxTasks : i = t.id
        BY <2>6
      <3> QED BY <2>2, <2>3, <2>5, <2>6, <3>1, FateByNames DEF FateFrom, TypeOK
    <2> QED BY <2>1, <2>2, <2>3, <2>4, <2>6, <2>7
  <1> QED BY <1>1, <1>2 DEF Waits

\* The thread, or flush(), runs a task that waits: Run, or RunLate when draining.
LEMMA RunRefines ==
  ASSUME TypeOK, ListInv, StopInv, NEW t, Waits(t),
         UNCHANGED <<threadState, nextId, refused, dropped>>,
         ran' = ran \cup {t},
         LateIds' \in {LateIds, LateIds \ {t.id}},
         t.expiry = "past" => threadState = "TERMINATED"
  PROVE  Service!Next
  <1>1. PICK r \in 1..MaxTasks : r = t.id
    BY WaitingFate
  <1>2. FateOf(r) = IF t.expiry = "past" THEN "late" ELSE "pending"
    BY <1>1, WaitingFate
  <1>3. RanIds' = RanIds \cup {r} /\ DroppedIds' = DroppedIds
    BY <1>1 DEF RanIds, DroppedIds
  <1>4. FateOf(r)' = "ran"
    <2>1. r < nextId' /\ r \notin refused' /\ r \in RanIds'
      BY <1>1, <1>3, WaitingFate
    <2>2. nextId' \in Nat
      BY DEF TypeOK
    <2> QED BY <2>1, <2>2, FateByNames DEF FateFrom
  <1>5. \A i \in 1..MaxTasks : i # r => FateOf(i)' = FateOf(i)
    BY <1>1, <1>3, OtherFates
  <1>6. CASE t.expiry = "past"
    <2>1. Service!Become(r, "late", "ran")
      BY <1>2, <1>4, <1>5, <1>6, OneFateChanges
    <2> QED BY <1>6, <2>1 DEF Service!Next, Service!RunLate, Service!Requests
  <1>7. CASE t.expiry # "past"
    <2>1. Service!Become(r, "pending", "ran")
      BY <1>2, <1>4, <1>5, <1>7, OneFateChanges
    <2> QED BY <2>1 DEF Service!Next, Service!Run, Service!Requests
  <1> QED BY <1>6, <1>7

\* A deadline passes: the fate of one waiting task turns from pending to late.
LEMMA ExpireRefines ==
  ASSUME TypeOK, ListInv, StopInv, Expire
  PROVE  Service!Next
  <1>1. PICK t : /\ Waits(t) /\ t.expiry = "pending"
                 /\ LateIds' = LateIds \cup {t.id}
    <2>1. ASSUME NEW k \in DOMAIN taskList, taskList[k].expiry = "pending",
                 taskList' = [taskList EXCEPT ![k] = Late(taskList[k])],
                 current' = current
          PROVE  /\ Waits(taskList[k])
                 /\ LateIds' = LateIds \cup {taskList[k].id}
      <3>1. taskList[k] \in Task
        BY ElementOfSeq DEF TypeOK
      <3>2. Late(taskList[k]).id = taskList[k].id /\ Late(taskList[k]).expiry = "past"
        BY <3>1, LateTask
      <3>3. /\ DOMAIN taskList' = DOMAIN taskList
            /\ taskList'[k] = Late(taskList[k])
            /\ \A j \in DOMAIN taskList : j # k => taskList'[j] = taskList[j]
        BY <2>1
      <3>4. \A n : (\E u \in Range(taskList') : u.expiry = "past" /\ u.id = n)
                    <=> \/ n = taskList[k].id
                        \/ \E u \in Range(taskList) : u.expiry = "past" /\ u.id = n
        BY <2>1, <3>2, <3>3 DEF Range
      <3>5. LateIds' = LateIds \cup {taskList[k].id}
        <4>1. \A n : n \in LateIds <=> \/ \E u \in Range(taskList) : u.expiry = "past" /\ u.id = n
                                       \/ current.expiry = "past" /\ current.id = n
          BY DEF LateIds
        <4>2. \A n : n \in LateIds' <=> \/ \E u \in Range(taskList') : u.expiry = "past" /\ u.id = n
                                        \/ current'.expiry = "past" /\ current'.id = n
          BY DEF LateIds
        <4>3. \A n : n \in LateIds' <=> n \in LateIds \/ n = taskList[k].id
          BY <2>1, <3>4, <4>1, <4>2
        <4> QED BY <4>3
      <3> QED BY <3>5 DEF Waits, Range
    <2>2. CASE /\ pc = "Taken" /\ current.expiry = "pending"
               /\ current' = Late(current) /\ taskList' = taskList
      <3>1. current \in Task
        BY <2>2 DEF TypeOK, Busy
      <3>2. Late(current).id = current.id /\ Late(current).expiry = "past"
        BY <3>1, LateTask
      <3>3. LateIds' = LateIds \cup {current.id}
        BY <2>2, <3>2 DEF LateIds
      <3> QED BY <2>2, <3>3 DEF Waits
    <2> QED BY <2>1, <2>2 DEF Expire
  <1>2. PICK r \in 1..MaxTasks : r = t.id
    BY <1>1, WaitingFate
  <1>3. UNCHANGED <<threadState, nextId, refused, ran, dropped>>
    BY DEF Expire
  <1>4. RanIds' = RanIds /\ DroppedIds' = DroppedIds
    BY <1>3 DEF RanIds, DroppedIds
  <1>5. FateOf(r) = "pending"
    BY <1>1, <1>2, WaitingFate
  <1>6. FateOf(r)' = "late"
    <2>1. r < nextId' /\ r \notin refused' \cup RanIds' \cup DroppedIds' /\ r \in LateIds'
      BY <1>1, <1>2, <1>3, <1>4, WaitingFate
    <2>2. nextId' \in Nat
      BY <1>3 DEF TypeOK
    <2> QED BY <2>1, <2>2, FateByNames DEF FateFrom
  <1>7. \A i \in 1..MaxTasks : i # r => FateOf(i)' = FateOf(i)
    BY <1>1, <1>2, <1>3, <1>4, OtherFates
  <1>8. Service!Become(r, "pending", "late")
    BY <1>3, <1>5, <1>6, <1>7, OneFateChanges
  <1> QED BY <1>8 DEF Service!Next, Service!Expire, Service!Requests

\* A task that came too late is deleted unrun; shutdown() has not been called.
LEMMA DiscardRefines ==
  ASSUME TypeOK, ListInv, StopInv, EndInv, BeginTask, current.expiry = "past"
  PROVE  Service!Next
  <1>1. /\ pc = "Taken" /\ Waits(current) /\ current \in Task
        /\ dropped' = dropped \cup {current} /\ current' = NoTask
        /\ UNCHANGED <<threadState, taskList, nextId, refused, ran>>
    BY DEF BeginTask, Waits, TypeOK, Busy
  <1>2. PICK r \in 1..MaxTasks : r = current.id
    BY <1>1, WaitingFate
  <1>3. FateOf(r) = "late"
    BY <1>1, <1>2, WaitingFate
  <1>4. RanIds' = RanIds /\ DroppedIds' = DroppedIds \cup {r}
    BY <1>1, <1>2 DEF RanIds, DroppedIds
  <1>5. LateIds' \ {r} = LateIds \ {r}
    BY <1>1, <1>2 DEF LateIds, NoTask
  <1>6. FateOf(r)' = "discarded"
    <2>1. r < nextId' /\ r \notin refused' \cup RanIds' /\ r \in DroppedIds'
      BY <1>1, <1>2, <1>4, WaitingFate
    <2>2. nextId' \in Nat
      BY <1>1 DEF TypeOK
    <2> QED BY <2>1, <2>2, FateByNames DEF FateFrom
  <1>7. \A i \in 1..MaxTasks : i # r => FateOf(i)' = FateOf(i)
    BY <1>1, <1>4, <1>5, OtherFates
  <1>8. Service!Become(r, "late", "discarded")
    BY <1>1, <1>3, <1>6, <1>7, OneFateChanges
  <1>9. threadState \in {"RUNNING", "CLOSING"}
    BY <1>1 DEF EndInv, TypeOK, ThreadStates
  <1> QED BY <1>8, <1>9 DEF Service!Next, Service!Discard, Service!Requests

\* The thread puts down a task that it ran: nothing the service knows of.
LEMMA PutDownRefines ==
  ASSUME TypeOK, ListInv, StopInv, pc \in Busy \ {"Taken"}, current' = NoTask,
         UNCHANGED <<threadState, taskList, nextId, refused, ran, dropped>>
  PROVE  UNCHANGED Service!vars
  <1>1. current.id \in RanIds
    BY DEF StopInv, RanIds
  <1>2. RanIds' = RanIds /\ DroppedIds' = DroppedIds
    BY DEF RanIds, DroppedIds
  <1>3. \A i : i # current.id => (i \in LateIds' <=> i \in LateIds)
    BY DEF LateIds, NoTask
  <1>4. ASSUME NEW i \in 1..MaxTasks PROVE FateOf(i)' = FateOf(i)
    <2>1. i \in RanIds \/ (i \in LateIds' <=> i \in LateIds)
      BY <1>1, <1>3
    <2> QED BY <1>2, <2>1, FateByNames DEF FateFrom
  <1> QED BY <1>4, NoFateChanges

\* A step that leaves the list, the current task and the histories alone.
LEMMA IdleRefines ==
  ASSUME UNCHANGED <<taskList, current, nextId, refused, ran, dropped>>
  PROVE  \A i \in 1..MaxTasks : FateOf(i)' = FateOf(i)
  <1>1. RanIds' = RanIds /\ DroppedIds' = DroppedIds /\ LateIds' = LateIds
    BY DEF RanIds, DroppedIds, LateIds
  <1> QED BY <1>1, FateByNames DEF FateFrom

\* The thread takes the head of the list: a stutter.
LEMMA TakeRefines ==
  ASSUME TypeOK, Take, pc \in {"Lock", "Woken"}
  PROVE  UNCHANGED Service!vars
  <1>1. UNCHANGED <<threadState, nextId, refused, ran, dropped>>
    BY DEF Take
  <1>2. CASE UNCHANGED <<taskList, current>>
    BY <1>1, <1>2, IdleRefines, NoFateChanges
  <1>3. CASE taskList # <<>> /\ taskList' = Tail(taskList) /\ current' = Head(taskList)
    <2>1. current = NoTask
      BY DEF TypeOK, Busy
    <2>2. Range(taskList) = Range(taskList') \cup {current'}
      BY <1>3, TakenRange
    <2>3. LateIds' = LateIds
      BY <2>1, <2>2 DEF LateIds, NoTask
    <2>4. RanIds' = RanIds /\ DroppedIds' = DroppedIds
      BY <1>1 DEF RanIds, DroppedIds
    <2>5. \A i \in 1..MaxTasks : FateOf(i)' = FateOf(i)
      BY <1>1, <2>3, <2>4, FateByNames DEF FateFrom
    <2> QED BY <1>1, <2>5, NoFateChanges
  <1> QED BY <1>2, <1>3 DEF Take

\* flush() runs a task, whatever its deadline.
LEMMA FlushRefines ==
  ASSUME TypeOK, ListInv, StopInv, EndInv, FlushTask
  PROVE  Service!Next
  <1>1. /\ taskList # <<>> /\ taskList' = Tail(taskList) /\ current' = current
        /\ ran' = ran \cup {Head(taskList)}
        /\ threadState = "TERMINATED"
        /\ UNCHANGED <<threadState, nextId, refused, dropped>>
    BY DEF FlushTask, EndInv
  <1>2. Range(taskList) = Range(taskList') \cup {Head(taskList)}
    BY <1>1, TakenRange
  <1>3. Waits(Head(taskList))
    BY <1>2 DEF Waits
  <1>4. LateIds' \in {LateIds, LateIds \ {Head(taskList).id}}
    <2>1. ASSUME NEW t \in Range(taskList') \cup {current}, t.expiry = "past"
          PROVE  t.id # Head(taskList).id
      <3>1. CASE t \in Range(taskList')
        <4>1. PICK k \in DOMAIN taskList : k # 1 /\ taskList[k] = t
          BY <1>1, <3>1, TakenRange
        <4>2. 1 \in DOMAIN taskList /\ Head(taskList) = taskList[1]
          BY <1>1, TakenRange
        <4> QED BY <4>1, <4>2 DEF ListInv, ListNames
      <3>2. CASE t = current
        <4>1. current \in Gone
          BY <2>1, <3>2 DEF TypeOK, NoTask, StopInv, Gone, Busy
        <4>2. 1 \in DOMAIN taskList /\ Head(taskList) = taskList[1]
          BY <1>1, TakenRange
        <4> QED BY <3>2, <4>1, <4>2 DEF ListInv, GoneNames
      <3> QED BY <3>1, <3>2
    <2>2. \A n : n \in LateIds' <=> \E t \in Range(taskList') \cup {current} : t.expiry = "past" /\ t.id = n
      BY <1>1 DEF LateIds
    <2>3. \A n : n \in LateIds <=> \E t \in Range(taskList') \cup {Head(taskList), current} :
                                      t.expiry = "past" /\ t.id = n
      BY <1>2 DEF LateIds
    <2>4. LateIds' = LateIds \ {Head(taskList).id}
      BY <2>1, <2>2, <2>3
    <2> QED BY <2>4
  <1> QED BY <1>1, <1>3, <1>4, RunRefines

\* Every step of the dispatcher is a step of the service or a stutter.
LEMMA StepRefines ==
  TypeOK /\ ListInv /\ StopInv /\ EndInv /\ [Next]_vars => [Service!Next]_(Service!vars)
  <1> SUFFICES ASSUME TypeOK, ListInv, StopInv, EndInv, [Next]_vars
               PROVE  Service!Next \/ UNCHANGED Service!vars
    OBVIOUS
  <1>1. "work" \in Ops /\ "shutdown" \in Ops
    BY DEF Ops
  <1>2. ASSUME NEW p \in Producers, NEW front \in BOOLEAN,
               NEW expiry \in {"never", "pending"}, AddTask(p, front, expiry)
        PROVE  Service!Next
    BY <1>1, <1>2, SubmitRefines DEF AddTask
  <1>3. ASSUME NEW front \in BOOLEAN, NEW expiry \in {"never", "pending"},
               AddFromTask(front, expiry)
        PROVE  Service!Next
    BY <1>1, <1>3, SubmitRefines DEF AddFromTask
  <1>4. ASSUME RequestShutdown PROVE Service!Next
    <2>1. /\ Submit(FALSE, "never", "shutdown")
          /\ UNCHANGED <<threadState, current, ran, dropped>>
      BY <1>4 DEF RequestShutdown
    <2> QED BY <1>1, <2>1, SubmitRefines
  <1>5. ASSUME Take, pc \in {"Lock", "Woken"} PROVE UNCHANGED Service!vars
    BY <1>5, TakeRefines
  <1>6. ASSUME BeginTask PROVE Service!Next
    <2>1. CASE current.expiry = "past"
      BY <1>6, <2>1, DiscardRefines
    <2>2. CASE current.expiry # "past"
      <3>1. /\ Waits(current) /\ ran' = ran \cup {current}
            /\ UNCHANGED <<threadState, taskList, current, nextId, refused, dropped>>
        BY <1>6, <2>2 DEF BeginTask, Waits
      <3>2. LateIds' = LateIds
        BY <3>1 DEF LateIds
      <3> QED BY <2>2, <3>1, <3>2, RunRefines
    <2> QED BY <2>1, <2>2
  <1>7. ASSUME EndTask \/ FlushEnd PROVE UNCHANGED Service!vars
    <2>1. /\ pc \in Busy \ {"Taken"} /\ current' = NoTask
          /\ UNCHANGED <<threadState, taskList, nextId, refused, ran, dropped>>
      BY <1>7 DEF EndTask, FlushEnd, Busy
    <2> QED BY <2>1, PutDownRefines
  <1>8. ASSUME Stop PROVE Service!Next
    <2>1. /\ threadState = "RUNNING" /\ threadState' = "CLOSING"
          /\ UNCHANGED <<taskList, current, nextId, refused, ran, dropped>>
      BY <1>8 DEF Stop, StopInv
    <2>2. FateMap' = FateMap
      BY <2>1, IdleRefines DEF FateMap
    <2> QED BY <2>1, <2>2 DEF Service!Next, Service!Close, FateMap
  <1>9. ASSUME Shutdown PROVE Service!Next
    <2>1. /\ threadState' = "TERMINATED"
          /\ UNCHANGED <<taskList, current, nextId, refused, ran, dropped>>
      BY <1>9 DEF Shutdown
    <2>2. threadState = "CLOSING"
      BY <1>9 DEF Shutdown, StopInv, ShutdownQueued, EndInv, TypeOK, ThreadStates
    <2>3. FateMap' = FateMap
      BY <2>1, IdleRefines DEF FateMap
    <2> QED BY <2>1, <2>2, <2>3 DEF Service!Next, Service!Drain, FateMap
  <1>10. ASSUME \/ \E p \in Producers : Notify(p)
                \/ SpuriousWake \/ Test \/ LockAndWait \/ UNCHANGED vars
         PROVE  UNCHANGED Service!vars
    <2>1. UNCHANGED <<threadState, taskList, current, nextId, refused, ran, dropped>>
      BY <1>10 DEF Notify, SpuriousWake, Test, LockAndWait, vars
    <2> QED BY <2>1, IdleRefines, NoFateChanges
  <1> QED
    BY <1>2, <1>3, <1>4, <1>5, <1>6, <1>7, <1>8, <1>9, <1>10, ExpireRefines, FlushRefines
       DEF Next, ThreadStep, LockAndTake, WokenTake

(* The dispatcher implements the task service: seen from the threads that   *)
(* hand it work, every task of tasks.cpp is refused, run or discarded, once *)
(* and for good; it is refused only after stop(), discarded only when late  *)
(* and before shutdown(), and run late only by flush().                     *)
THEOREM DispatcherImplementsService == Spec => ImplementsService
  <1>1. Init => Service!Init
    <2> SUFFICES ASSUME Init PROVE Service!Init
      OBVIOUS
    <2>1. \A i \in 1..MaxTasks : FateOf(i) = "unknown"
      BY DEF Init, FateOf
    <2>2. threadState = "RUNNING"
      BY DEF Init
    <2> QED BY <2>1, <2>2 DEF Service!Init, Service!Requests
  <1>2. Init => StopInv /\ EndInv
    BY DEF Init, StopInv, EndInv, ShutdownQueued, NoTask, Busy
  <1>3. Spec => [](StopInv /\ EndInv)
    BY <1>2, StopStep, EndStep, TypeCorrect, PTL DEF Spec
  <1> QED BY <1>1, <1>3, StepRefines, ListAlways, TypeCorrect, PTL
          DEF Spec, ImplementsService, Service!Spec
=============================================================================
