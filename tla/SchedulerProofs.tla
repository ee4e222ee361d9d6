-------------------------- MODULE SchedulerProofs ---------------------------
(* Proofs about the scheduler for any callers, any number of events and any *)
(* clock.                                                                   *)
EXTENDS Scheduler, TLAPS

\* The next id is an id, also when the counter wraps.
LEMMA NextIdType == TypeOK => NextId \in Ids
  BY SchedulerAssumption DEF TypeOK, NextId, Ids

\* What is queued is an event.
LEMMA EventType ==
  ASSUME NEW k \in 1..MaxEvents, NEW i \in Ids, NEW t \in 0..MaxTime
  PROVE  [key |-> k, id |-> i, cycle |-> t] \in Event
  BY DEF Event

\* Every step keeps the types.
LEMMA TypeStep == TypeOK /\ [Next]_vars => TypeOK'
  <1> SUFFICES ASSUME TypeOK, [Next]_vars PROVE TypeOK'
    OBVIOUS
  <1>1. ASSUME Tick PROVE TypeOK'
    BY <1>1, SchedulerAssumption DEF Tick, TypeOK
  <1>2. ASSUME NEW c \in Callers, NEW cycle \in 0..MaxTime, AddEvent(c, cycle)
        PROVE  TypeOK'
    <2>1. nextKey \in 1..MaxEvents /\ nextKey' \in 1..(MaxEvents + 1)
      BY <1>2, SchedulerAssumption DEF AddEvent, TypeOK
    <2>2. [key |-> nextKey, id |-> NextId, cycle |-> cycle] \in Event
      BY <2>1, NextIdType, EventType
    <2>3. NextId \in Ids /\ NextId \in 0..(IdMod - 1)
      BY NextIdType, SchedulerAssumption DEF Ids
    <2> QED BY <1>2, <2>1, <2>2, <2>3 DEF AddEvent, TypeOK
  <1>3. ASSUME NEW c \in Callers, Notify(c) PROVE TypeOK'
    BY <1>3 DEF Notify, TypeOK
  <1>4. ASSUME NEW id \in Ids, StopEvent(id) PROVE TypeOK'
    BY <1>4 DEF StopEvent, TypeOK
  <1>5. ASSUME NEW c \in Callers, Shutdown(c) PROVE TypeOK'
    BY <1>5 DEF Shutdown, TypeOK
  <1>6. ASSUME BeginWait PROVE TypeOK'
    <2>1. deadline' \in 0..Forever
      BY <1>6, SchedulerAssumption DEF BeginWait, TypeOK, Event, Forever
    <2> QED BY <1>6, <2>1 DEF BeginWait, TypeOK
  <1>7. ASSUME PopTop PROVE TypeOK'
    BY <1>7 DEF PopTop, TypeOK
  <1>8. ASSUME Fire PROVE TypeOK'
    BY <1>8 DEF Fire, TypeOK
  <1>9. ASSUME Stop \/ SpuriousWake \/ Test \/ DeadlinePasses \/ WakeForNothing
        PROVE  TypeOK'
    BY <1>9 DEF Stop, SpuriousWake, Test, DeadlinePasses, WakeForNothing, TypeOK
  <1>10. CASE UNCHANGED vars
    BY <1>10 DEF vars, TypeOK
  <1> QED
    BY <1>1, <1>2, <1>3, <1>4, <1>5, <1>6, <1>7, <1>8, <1>9, <1>10 DEF Next, ThreadStep

\* The queue, the ids and the states of scheduler.cpp keep their types.
THEOREM TypeCorrect == Spec => []TypeOK
  <1>1. Init => TypeOK
    <2> SUFFICES ASSUME Init PROVE TypeOK
      OBVIOUS
    <2>1. 0 \in 0..MaxTime /\ Forever \in 0..Forever /\ 0 \in 0..(IdMod - 1)
          /\ 1 \in 1..(MaxEvents + 1)
      BY SchedulerAssumption DEF Forever
    <2> QED BY <2>1 DEF Init, TypeOK
  <1> QED BY <1>1, TypeStep, PTL DEF Spec

-----------------------------------------------------------------------------
(* Sleep.                                                                   *)

(* The thread never sleeps past the earliest deadline with nobody on the    *)
(* way to wake it.                                                          *)
THEOREM NeverOversleeps == Spec => []NoOversleep
  <1>1. Init => NoOversleep
    BY DEF Init, NoOversleep
  <1>2. TypeOK /\ NoOversleep /\ [Next]_vars => NoOversleep'
    <2> SUFFICES ASSUME TypeOK, NoOversleep, [Next]_vars, pc' = "Wait",
                        NEW e \in eventList', e.cycle < deadline'
                 PROVE  owes' # {}
      BY DEF NoOversleep
    <2>1. ASSUME NEW c \in Callers, NEW cycle \in 0..MaxTime, AddEvent(c, cycle)
          PROVE  owes' # {}
      <3>1. pc = "Wait" /\ deadline' = deadline
        BY <2>1 DEF AddEvent
      <3>2. CASE e \in eventList
        BY <2>1, <3>1, <3>2 DEF AddEvent, NoOversleep
      <3>3. CASE e \notin eventList
        <4>1. e.cycle = cycle /\ threadState = "RUNNING"
          BY <2>1, <3>3 DEF AddEvent
        <4>2. CASE \A f \in eventList : cycle < f.cycle
          BY <2>1, <4>1, <4>2 DEF AddEvent
        <4>3. CASE \E f \in eventList : ~(cycle < f.cycle)
          <5>1. PICK f \in eventList : ~(cycle < f.cycle)
            BY <4>3
          <5>2. f.cycle < deadline
            <6>1. f.cycle \in Int /\ deadline \in Int /\ cycle \in Int
              BY SchedulerAssumption DEF TypeOK, Event, Forever
            <6> QED BY <6>1, <5>1, <4>1, <3>1
          <5> QED BY <2>1, <3>1, <5>2, <4>1, <4>3 DEF AddEvent, NoOversleep
        <4> QED BY <4>2, <4>3
      <3> QED BY <3>2, <3>3
    <2>2. ASSUME NEW c \in Callers, Notify(c) PROVE owes' # {}
      BY <2>2 DEF Notify
    <2>3. ASSUME NEW id \in Ids, StopEvent(id) PROVE owes' # {}
      BY <2>3 DEF StopEvent, NoOversleep
    <2>4. ASSUME NEW c \in Callers, Shutdown(c) PROVE owes' # {}
      BY <2>4 DEF Shutdown
    <2>5. ASSUME BeginWait PROVE owes' # {}
      <3>1. PICK f \in eventList : IsTop(f) /\ deadline' = f.cycle
        BY <2>5 DEF BeginWait
      <3>2. e \in eventList /\ f.cycle <= e.cycle
        BY <2>5, <3>1 DEF BeginWait, IsTop
      <3>3. f.cycle \in Int /\ e.cycle \in Int
        BY <3>2 DEF TypeOK, Event
      <3> QED BY <3>1, <3>2, <3>3
    <2>6. ASSUME PopTop \/ Test \/ DeadlinePasses \/ SpuriousWake \/ WakeForNothing \/ Fire
          PROVE  owes' # {}
      BY <2>6 DEF PopTop, Test, DeadlinePasses, SpuriousWake, WakeForNothing, Fire
    <2>7. ASSUME Tick \/ Stop PROVE owes' # {}
      BY <2>7 DEF Tick, Stop, NoOversleep
    <2>8. CASE UNCHANGED vars
      BY <2>8 DEF vars, NoOversleep
    <2> QED BY <2>1, <2>2, <2>3, <2>4, <2>5, <2>6, <2>7, <2>8 DEF Next, ThreadStep
  <1> QED BY <1>1, <1>2, TypeCorrect, PTL DEF Spec

-----------------------------------------------------------------------------
(* Timeouts.                                                                *)

(* What the thread sleeps for stays queued, or something earlier does: only *)
(* the thread itself pops, and shutdown() clears the list only together     *)
(* with ending the loop.                                                    *)
THEOREM TimeoutFindsEvent == Spec => []TimeoutHasEvent
  <1>1. Init => TimeoutHasEvent
    BY DEF Init, TimeoutHasEvent
  <1>2. TypeOK /\ TimeoutHasEvent /\ [Next]_vars => TimeoutHasEvent'
    <2> SUFFICES ASSUME TypeOK, TimeoutHasEvent, [Next]_vars,
                        pc' \in {"Wait", "Woken"}, deadline' # Forever,
                        threadState' # "TERMINATED"
                 PROVE  \E e \in eventList' : e.cycle <= deadline'
      BY DEF TimeoutHasEvent, Forever
    <2>1. ASSUME NEW c \in Callers, NEW cycle \in 0..MaxTime, AddEvent(c, cycle)
          PROVE  \E e \in eventList' : e.cycle <= deadline'
      BY <2>1 DEF AddEvent, TimeoutHasEvent
    <2>2. ASSUME NEW c \in Callers, Notify(c)
          PROVE  \E e \in eventList' : e.cycle <= deadline'
      BY <2>2 DEF Notify, TimeoutHasEvent
    <2>3. ASSUME NEW id \in Ids, StopEvent(id)
          PROVE  \E e \in eventList' : e.cycle <= deadline'
      BY <2>3 DEF StopEvent, TimeoutHasEvent
    <2>4. ASSUME BeginWait PROVE \E e \in eventList' : e.cycle <= deadline'
      <3>1. PICK e \in eventList : deadline' = e.cycle
        BY <2>4 DEF BeginWait
      <3>2. e.cycle \in Int
        BY <3>1 DEF TypeOK, Event
      <3> QED BY <2>4, <3>1, <3>2 DEF BeginWait
    <2>5. ASSUME Tick \/ Stop \/ DeadlinePasses \/ SpuriousWake
          PROVE  \E e \in eventList' : e.cycle <= deadline'
      BY <2>5 DEF Tick, Stop, DeadlinePasses, SpuriousWake, TimeoutHasEvent
    <2>6. ASSUME (\E c \in Callers : Shutdown(c)) \/ Test \/ PopTop \/ WakeForNothing \/ Fire
          PROVE  FALSE
      BY <2>6 DEF Shutdown, Test, PopTop, WakeForNothing, Fire
    <2>7. CASE UNCHANGED vars
      BY <2>7 DEF vars, TimeoutHasEvent
    <2> QED BY <2>1, <2>2, <2>3, <2>4, <2>5, <2>6, <2>7 DEF Next, ThreadStep
  <1> QED BY <1>1, <1>2, TypeCorrect, PTL DEF Spec

(* The popped event is due, although it need not be the one the thread went *)
(* to sleep for: what is on top is never later than that one.               *)
THEOREM NothingFiresEarly == Spec => []NeverEarly
  <1>1. Init => NeverEarly
    BY DEF Init, NeverEarly, Due
  <1>2. TypeOK /\ TimeoutHasEvent /\ NeverEarly /\ [Next]_vars => NeverEarly'
    <2> SUFFICES ASSUME TypeOK, TimeoutHasEvent, NeverEarly, [Next]_vars,
                        NEW e \in Due'
                 PROVE  e.cycle <= now'
      BY DEF NeverEarly
    <2>1. CASE e \in Due
      <3>1. now' = now \/ now' = now + 1
        BY DEF Next, vars, Tick, AddEvent, Notify, StopEvent, Stop, Shutdown, SpuriousWake,
               ThreadStep, Test, BeginWait, DeadlinePasses, PopTop, WakeForNothing, Fire
      <3>2. e.cycle \in Int /\ now \in Int /\ e.cycle <= now
        BY <2>1 DEF TypeOK, Event, Due, NeverEarly
      <3> QED BY <3>1, <3>2
    <2>2. CASE e \notin Due
      <3>1. PopTop
        BY <2>2 DEF Next, vars, Tick, AddEvent, Notify, StopEvent, Stop, Shutdown, SpuriousWake,
               ThreadStep, Test, BeginWait, DeadlinePasses, WakeForNothing, Fire, Due
      <3>2. IsTop(e) /\ e \in eventList
        BY <2>2, <3>1 DEF PopTop, Due
      <3>3. PICK f \in eventList : f.cycle <= deadline
        BY <3>1 DEF PopTop, TimeIsUp, TimeoutHasEvent
      <3>4. deadline <= now /\ e.cycle <= f.cycle /\ now' = now
        BY <3>1, <3>2, <3>3 DEF PopTop, TimeIsUp, IsTop
      <3>5. now \in Int /\ deadline \in Int /\ e.cycle \in Int /\ f.cycle \in Int
        BY <3>2, <3>3, SchedulerAssumption DEF TypeOK, Event, Forever
      <3> QED BY <3>3, <3>4, <3>5
    <2> QED BY <2>1, <2>2
  <1> QED BY <1>1, <1>2, TypeCorrect, TimeoutFindsEvent, PTL DEF Spec

-----------------------------------------------------------------------------
(* Stopping.                                                                *)

Known == eventList \cup Due \cup stopped

\* While ids have not wrapped the id of an event is its key.
KeyInv ==
  /\ \A e \in Known : e.key < nextKey
  /\ \A e, f \in Known : e.key = f.key => e = f
  /\ NoWrap => \A e \in Known : e.id = e.key
  /\ NoWrap /\ threadState = "RUNNING" => lastEventId = nextKey - 1

StopInv == KeyInv /\ RunsOnce /\ StopIsFinal

\* Keys and ids are numbers.
LEMMA KnownType == TypeOK => Known \subseteq Event /\ \A e \in Known : e.key \in Nat /\ e.id \in Nat
  BY DEF TypeOK, Known, Due, Event, Ids

\* addEvent: the new key is greater than all known ones.
LEMMA AddKeeps ==
  ASSUME TypeOK, StopInv, NEW c \in Callers, NEW cycle \in 0..MaxTime, AddEvent(c, cycle)
  PROVE  StopInv'
  <1> DEFINE new == [key |-> nextKey, id |-> NextId, cycle |-> cycle]
  <1>1. /\ nextKey \in Nat /\ nextKey' = nextKey + 1 /\ Due' = Due /\ stopped' = stopped
        /\ threadState' = threadState /\ pc' = pc /\ fired' = fired /\ current' = current
    BY DEF AddEvent, TypeOK, Due
  <1>2. \A e \in Known : e \in Event /\ e.key \in Nat /\ e.id \in Nat
    BY KnownType
  <1>3. CASE threadState # "RUNNING"
    <2>1. UNCHANGED <<eventList, eventIds>>
      BY <1>3 DEF AddEvent
    <2>2. NoWrap' => NoWrap
      BY <1>1, SchedulerAssumption DEF NoWrap
    <2>3. Known' = Known
      BY <1>1, <2>1 DEF Known
    <2>4. KeyInv'
      BY <1>1, <1>2, <1>3, <2>2, <2>3 DEF StopInv, KeyInv
    <2> QED BY <1>1, <2>1, <2>2, <2>4 DEF StopInv, RunsOnce, StopIsFinal
  <1>4. CASE threadState = "RUNNING"
    <2>1. /\ eventList' = eventList \cup {new}
          /\ eventIds' = eventIds \cup {NextId} /\ lastEventId' = NextId
      BY <1>4 DEF AddEvent
    <2>2. new.key = nextKey /\ new.id = NextId
      OBVIOUS
    <2> HIDE DEF new
    <2>3. Known' = Known \cup {new}
      BY <1>1, <2>1 DEF Known
    <2>4. NoWrap' => NoWrap /\ NextId = nextKey /\ nextKey < IdMod
      BY <1>1, <1>4, SchedulerAssumption DEF NoWrap, NextId, StopInv, KeyInv
    <2>5. \A e \in Known : e # new /\ e.key # new.key
      BY <1>1, <1>2, <2>2 DEF StopInv, KeyInv
    <2>6. KeyInv'
      <3>1. \A e \in Known' : e.key < nextKey'
        BY <1>1, <1>2, <2>2, <2>3 DEF StopInv, KeyInv
      <3>2. \A e, f \in Known' : e.key = f.key => e = f
        BY <2>3, <2>5 DEF StopInv, KeyInv
      <3>3. NoWrap' => \A e \in Known' : e.id = e.key
        BY <2>2, <2>3, <2>4 DEF StopInv, KeyInv
      <3>4. NoWrap' => lastEventId' = nextKey' - 1
        BY <1>1, <2>1, <2>4
      <3> QED BY <3>1, <3>2, <3>3, <3>4 DEF KeyInv
    <2>7. RunsOnce'
      BY <1>1, <2>1, <2>5 DEF StopInv, RunsOnce, Known
    <2>8. StopIsFinal'
      <3> SUFFICES ASSUME NoWrap'
                   PROVE  /\ stopped \cap Due = {}
                          /\ threadState # "TERMINATED" =>
                               eventIds' = {e.id : e \in eventList' \ stopped}
        BY <1>1 DEF StopIsFinal
      <3>1. new \notin stopped
        BY <2>5 DEF Known
      <3>2. eventIds = {e.id : e \in eventList \ stopped}
        BY <1>4, <2>4 DEF StopInv, StopIsFinal
      <3>3. stopped \cap Due = {}
        BY <2>4 DEF StopInv, StopIsFinal
      <3> QED BY <2>1, <2>2, <3>1, <3>2, <3>3
    <2> QED BY <2>6, <2>7, <2>8 DEF StopInv
  <1> QED BY <1>3, <1>4

\* The thread pops an event, and hands it over or drops it.
LEMMA PopKeeps ==
  ASSUME TypeOK, StopInv, PopTop
  PROVE  StopInv'
  <1>1. PICK e \in eventList :
           /\ eventList' = eventList \ {e}
           /\ eventIds' = eventIds \ {e.id}
           /\ \/ e.id \in eventIds /\ current' = e /\ pc' = "Fire"
              \/ e.id \notin eventIds /\ pc' = "Test" /\ UNCHANGED current
    BY DEF PopTop
  <1>2. /\ pc = "Woken" /\ UNCHANGED <<nextKey, lastEventId, threadState, fired, stopped>>
        /\ threadState # "TERMINATED"
    BY DEF PopTop
  <1>3. Due = fired /\ Due' \subseteq Due \cup {e}
    BY <1>1, <1>2 DEF Due
  <1>4. Known' \subseteq Known
    BY <1>1, <1>2, <1>3 DEF Known
  <1>5. KeyInv'
    BY <1>2, <1>4 DEF StopInv, KeyInv, NoWrap
  <1>6. RunsOnce'
    BY <1>1, <1>2, <1>3 DEF StopInv, RunsOnce
  <1>7. StopIsFinal'
    <2> SUFFICES ASSUME NoWrap
                 PROVE  /\ stopped \cap Due' = {}
                        /\ eventIds' = {f.id : f \in eventList' \ stopped}
      BY <1>2 DEF StopIsFinal, NoWrap
    <2>1. eventIds = {f.id : f \in eventList \ stopped} /\ stopped \cap Due = {}
      BY <1>2 DEF StopInv, StopIsFinal
    <2>2. \A f \in eventList : f.id = e.id => f = e
      BY DEF StopInv, KeyInv, Known
    <2>3. eventIds' = {f.id : f \in eventList' \ stopped}
      BY <1>1, <2>1, <2>2
    <2>4. stopped \cap Due' = {}
      <3>1. CASE e.id \in eventIds
        <4>1. e \notin stopped
          BY <2>1, <2>2, <3>1
        <4> QED BY <1>3, <2>1, <4>1
      <3>2. CASE e.id \notin eventIds
        <4>1. Due' = Due
          BY <1>1, <1>2, <3>2 DEF Due
        <4> QED BY <2>1, <4>1
      <3> QED BY <3>1, <3>2
    <2> QED BY <2>3, <2>4
  <1> QED BY <1>5, <1>6, <1>7 DEF StopInv

\* stopEvent: the id is live no more, the event stays queued.
LEMMA StopKeeps ==
  ASSUME TypeOK, StopInv, NEW id \in Ids, StopEvent(id)
  PROVE  StopInv'
  <1> DEFINE S == {e \in eventList : e.id = id}
  <1>1. /\ eventIds' = eventIds \ {id} /\ stopped' = stopped \cup S
        /\ UNCHANGED <<eventList, lastEventId, threadState, pc, current, nextKey, fired>>
    BY DEF StopEvent
  <1>2. Due' = Due /\ Known' = Known
    BY <1>1 DEF Known, Due
  <1>3. KeyInv' /\ RunsOnce'
    BY <1>1, <1>2 DEF StopInv, KeyInv, RunsOnce, NoWrap
  <1>4. StopIsFinal'
    <2>1. S \cap Due = {}
      BY DEF StopInv, RunsOnce
    <2>2. ASSUME NoWrap, threadState # "TERMINATED"
          PROVE  eventIds' = {e.id : e \in eventList \ stopped'}
      <3>1. eventIds = {e.id : e \in eventList \ stopped}
        BY <2>2 DEF StopInv, StopIsFinal
      <3> QED BY <1>1, <3>1
    <2> QED BY <1>1, <1>2, <2>1, <2>2 DEF StopInv, StopIsFinal, NoWrap
  <1> QED BY <1>3, <1>4 DEF StopInv

\* Every step keeps the invariant, ...
LEMMA StopStep == TypeOK /\ StopInv /\ [Next]_vars => StopInv'
  <1> SUFFICES ASSUME TypeOK, StopInv, [Next]_vars PROVE StopInv'
    OBVIOUS
  <1>1. ASSUME UNCHANGED <<eventList, eventIds, lastEventId, nextKey, stopped>>, Due' = Due,
               pc' = "Fire" => pc = "Fire" /\ UNCHANGED <<current, fired>>,
               threadState' = threadState \/ (threadState = "RUNNING" /\ threadState' = "CLOSING")
        PROVE  StopInv'
    <2>1. Known' = Known
      BY <1>1 DEF Known
    <2> QED BY <1>1, <2>1 DEF StopInv, KeyInv, RunsOnce, StopIsFinal, NoWrap
  <1>2. ASSUME NEW c \in Callers, Shutdown(c) PROVE StopInv'
    <2>1. /\ eventList' = {} /\ threadState' = "TERMINATED" /\ Due' = Due
          /\ UNCHANGED <<nextKey, stopped, pc, current, fired, lastEventId>>
      BY <1>2 DEF Shutdown, Due
    <2>2. Known' \subseteq Known
      BY <2>1 DEF Known
    <2> QED BY <2>1, <2>2 DEF StopInv, KeyInv, RunsOnce, StopIsFinal, NoWrap
  <1>3. ASSUME Fire PROVE StopInv'
    <2>1. Due' = Due /\ pc' # "Fire"
      BY <1>3 DEF Fire, Due
    <2> QED BY <1>1, <1>3, <2>1 DEF Fire
  <1>4. ASSUME Tick PROVE StopInv'
    BY <1>1, <1>4 DEF Tick, Due
  <1>5. ASSUME NEW c \in Callers, Notify(c) PROVE StopInv'
    BY <1>1, <1>5 DEF Notify, Due
  <1>6. ASSUME Stop PROVE StopInv'
    BY <1>1, <1>6 DEF Stop, Due
  <1>7. ASSUME SpuriousWake \/ Test \/ BeginWait \/ DeadlinePasses \/ WakeForNothing
        PROVE  StopInv'
    <2>1. /\ UNCHANGED <<eventList, eventIds, lastEventId, nextKey, stopped, fired, current,
                         threadState>>
          /\ pc # "Fire" /\ pc' # "Fire"
      BY <1>7 DEF SpuriousWake, Test, BeginWait, DeadlinePasses, WakeForNothing
    <2> QED BY <1>1, <2>1 DEF Due
  <1>8. CASE UNCHANGED vars
    BY <1>1, <1>8 DEF vars, Due
  <1> QED BY <1>2, <1>3, <1>4, <1>5, <1>6, <1>7, <1>8, AddKeeps, PopKeeps, StopKeeps
          DEF Next, ThreadStep

\* ... and it holds for good.
LEMMA StopAlways == Spec => []StopInv
  <1>1. Init => StopInv
    BY DEF Init, StopInv, KeyInv, RunsOnce, StopIsFinal, Known, Due
  <1> QED BY <1>1, StopStep, TypeCorrect, PTL DEF Spec

(* While ids are unique a stopped event never runs, and an event that was   *)
(* not stopped keeps its id until it is popped.                             *)
THEOREM StoppedNeverRuns == Spec => []StopIsFinal
  <1>1. StopInv => StopIsFinal
    BY DEF StopInv
  <1> QED BY <1>1, StopAlways, PTL

\* No event object is handed to the dispatcher twice.
THEOREM EventRunsOnce == Spec => []RunsOnce
  <1>1. StopInv => RunsOnce
    BY DEF StopInv
  <1> QED BY <1>1, StopAlways, PTL
=============================================================================
