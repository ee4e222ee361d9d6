---------------------------- MODULE ServerProofs ----------------------------
(* Proofs about the ports, the loader and the shutdown, for any finite set  *)
(* of ports.                                                                *)
EXTENDS Server, SequenceTheorems, FiniteSetTheorems, TLAPS

-----------------------------------------------------------------------------
(* What is queued.                                                          *)

Reopens(t, p) == t = [run |-> "reopen", port |-> p]
Completed(h, p) == h.port = p /\ h.what \in {"accepted", "failed"}

\* The tasks that are queued.
LEMMA TaskTypes ==
  /\ [run |-> "load"] \in Task /\ [run |-> "quit"] \in Task
  /\ [run |-> "quitNow"] \in Task /\ [run |-> "shutdown"] \in Task
  /\ [run |-> "other"] \in Task
  /\ \A p \in Port : [run |-> "reopen", port |-> p] \in Task
  BY DEF Task

\* The handlers that are queued.
LEMMA HandlerTypes ==
  ASSUME NEW p \in Port, NEW what \in {"accepted", "failed", "aborted", "stop"}
  PROVE  On(p, what) \in Handler /\ On(p, what).port = p /\ On(p, what).what = what
  BY DEF On, Handler

\* What ServiceManager::stop() posts.
LEMMA StopsType ==
  ASSUME added \subseteq Port
  PROVE  /\ SetToSeq({On(p, "stop") : p \in added}) \in Seq(Handler)
         /\ \A i \in DOMAIN SetToSeq({On(p, "stop") : p \in added}) :
              SetToSeq({On(p, "stop") : p \in added})[i].what = "stop"
  <1> DEFINE S == {On(p, "stop") : p \in added}
  <1>1. IsFiniteSet(S)
    <2>1. IsFiniteSet(added)
      BY PortAssumption, FS_Subset
    <2> DEFINE f == [p \in added |-> On(p, "stop")]
    <2>2. f \in Surjection(added, S)
      BY DEF Surjection
    <2> QED BY <2>1, <2>2, FS_Surjection
  <1>2. PICK g : ExistsBijection(1..Cardinality(S), S) /\ Cardinality(S) \in Nat
    BY <1>1, FS_CardinalityType
  <1>3. PICK b \in [1..Cardinality(S) -> S] : IsInjective(b)
    BY <1>2 DEF ExistsBijection, Bijection, Injection, IsInjective
  <1>4. SetToSeq(S) \in [1..Cardinality(S) -> S]
    BY <1>3 DEF SetToSeq
  <1>5. \A h \in S : h \in Handler /\ h.what = "stop"
    BY HandlerTypes
  <1> HIDE DEF S
  <1>6. SetToSeq(S) \in Seq(S) /\ DOMAIN SetToSeq(S) = 1..Cardinality(S)
    BY <1>2, <1>4, SeqDef
  <1>7. SetToSeq(S) \in Seq(Handler)
    BY <1>5, <1>6, SeqDef
  <1>8. \A i \in DOMAIN SetToSeq(S) : SetToSeq(S)[i].what = "stop"
    BY <1>4, <1>5, <1>6
  <1> QED BY <1>7, <1>8 DEF S

\* An accept that is cut off completes as aborted.
LEMMA AbortedType ==
  ASSUME NEW p \in Port
  PROVE  Aborted(p) \in Seq(Handler)
  BY HandlerTypes DEF Aborted

\* Opening a port, with or without success, keeps the types of what it writes.
LEMMA OpenType ==
  ASSUME TypeOK, NEW p \in Port, OpenSucceeds(p) \/ OpenFails(p)
  PROVE  /\ reopening' \subseteq Port /\ acceptor' \subseteq Port
         /\ accepting' \subseteq acceptor' /\ pendingStart' \subseteq Port
         /\ handlers' \in Seq(Handler)
  <1>1. handlers \o Aborted(p) \in Seq(Handler)
    BY AbortedType, ConcatProperties DEF TypeOK
  <1> QED BY <1>1 DEF TypeOK, OpenSucceeds, OpenFails, Schedule

\* A task is queued.
LEMMA TaskAdded ==
  ASSUME TypeOK, NEW t \in Task
  PROVE  Append(tasks, t) \in Seq(Task)
  BY AppendProperties DEF TypeOK

\* A task is put first.
LEMMA TaskPutFirst ==
  ASSUME TypeOK, NEW t \in Task
  PROVE  <<t>> \o tasks \in Seq(Task)
  <1>1. <<t>> \in Seq(Task)
    OBVIOUS
  <1> QED BY <1>1, ConcatProperties DEF TypeOK

\* A task is taken.
LEMMA TaskTaken ==
  ASSUME TypeOK, tasks /= <<>>
  PROVE  Tail(tasks) \in Seq(Task)
  BY HeadTailProperties DEF TypeOK

\* Every step keeps the types, ...
LEMMA TypeStep == TypeOK /\ [Next]_vars => TypeOK'
  <1> SUFFICES ASSUME TypeOK, [Next]_vars PROVE TypeOK'
    OBVIOUS
  <1> USE DEF threadVars, taskVars, portVars, stopVars
  <1>1. ASSUME MainNext \/ SpuriousWake \/ Die \/ OutOfWork \/ \E p \in Port : Crash(p)
        PROVE  TypeOK'
    <2>1. CASE Woken
      <3>1. tasks' \in Seq(Task)
        BY <2>1, TaskAdded, TaskTypes DEF Woken, TypeOK
      <3> QED BY <2>1, <3>1 DEF Woken, TypeOK
    <2>2. CASE ~Woken
      <3>1. /\ main' \in {"waiting", "woken", "running", "joining", "joinDatabase",
                          "joinDispatcher", "ended", "crashed"}
            /\ running' \in {running, TRUE} /\ dying' \in {dying, FALSE}
            /\ early' \in {early, TRUE, early \/ loader = "loading"}
            /\ UNCHANGED <<loader, added, taskVars, stopVars, reopening, portVars, services>>
        BY <1>1, <2>2
        DEF MainNext, Wait, Run, JoinScheduler, JoinDatabase, JoinDispatcher, Joins,
            SpuriousWake, Die, OutOfWork, Crash
      <3>2. running' \in BOOLEAN /\ dying' \in BOOLEAN /\ early' \in BOOLEAN
        BY <3>1 DEF TypeOK
      <3> QED BY <3>1, <3>2 DEF TypeOK
    <2> QED BY <2>1, <2>2
  <1>2. ASSUME NEW p \in Port, OnAccept(p) \/ OnError(p) \/ OnAborted(p) \/ OnStopServer(p)
        PROVE  TypeOK'
    <2>1. Tail(handlers) \in Seq(Handler)
      BY <1>2, HeadTailProperties DEF OnAccept, OnError, OnAborted, OnStopServer, Handles, TypeOK
    <2>2. Tail(handlers) \o Aborted(p) \in Seq(Handler)
      BY <2>1, AbortedType, ConcatProperties
    <2>3. CASE OnAccept(p)
      BY <2>1, <2>3 DEF OnAccept, Handles, TypeOK
    <2>4. CASE OnError(p)
      BY <2>1, <2>2, <2>4 DEF OnError, Handles, Schedule, TypeOK
    <2>5. CASE OnAborted(p)
      BY <2>1, <2>5 DEF OnAborted, Handles, TypeOK
    <2>6. CASE OnStopServer(p)
      BY <2>2, <2>6 DEF OnStopServer, Handles, TypeOK
    <2> QED BY <1>2, <2>3, <2>4, <2>5, <2>6
  <1>3. ASSUME NEW p \in Port, AcceptCompletes(p) PROVE TypeOK'
    <2>1. handlers' \in Seq(Handler)
      BY <1>3, HandlerTypes, AppendProperties DEF AcceptCompletes, TypeOK
    <2> QED BY <1>3, <2>1 DEF AcceptCompletes, TypeOK
  <1>4. ASSUME NEW p \in Port, FireReopen(p) PROVE TypeOK'
    <2>1. tasks' \in Seq(Task)
      BY <1>4, TaskPutFirst, TaskTypes DEF FireReopen, TypeOK
    <2> QED BY <1>4, <2>1 DEF FireReopen, TypeOK
  <1>5. ASSUME NEW p \in Port, AddPort(p) PROVE TypeOK'
    BY <1>5, OpenType DEF AddPort, TypeOK
  <1>6. ASSUME NEW p \in Port, AddService(p) PROVE TypeOK'
    BY <1>6 DEF AddService, TypeOK
  <1>7. ASSUME NEW p \in Port, Reopen(p) PROVE TypeOK'
    <2>1. tasks' \in Seq(Task)
      BY <1>7, TaskTaken DEF Reopen, Runs
    <2> QED BY <1>7, <2>1, OpenType DEF Reopen, TypeOK
  <1>8. ASSUME BeginLoad \/ LoadFails \/ LoadDone PROVE TypeOK'
    <2>1. tasks' \in Seq(Task)
      BY <1>8, TaskTaken DEF BeginLoad, LoadFails, LoadDone, Runs, TypeOK
    <2> QED BY <1>8, <2>1 DEF BeginLoad, LoadFails, LoadDone, NotifyLoader, TypeOK
  <1>9. ASSUME RequestShutdown \/ AddOther \/ RunOther \/ StopScheduler \/ StopDispatcher
        PROVE  TypeOK'
    <2>1. tasks' \in Seq(Task)
      BY <1>9, TaskAdded, TaskTaken, TaskTypes
      DEF RequestShutdown, AddOther, RunOther, StopScheduler, StopDispatcher, Runs, TypeOK
    <2>2. doing' \in {"stopping", "closing", "loop", "stuck", doing}
      BY <1>9 DEF RequestShutdown, AddOther, RunOther, StopScheduler, StopDispatcher
    <2>3. /\ scheduler' \in {scheduler, "CLOSING"} /\ dispatcher' \in {dispatcher, "CLOSING"}
          /\ UNCHANGED <<threadVars, added, hung, reopening, portVars, services>>
      BY <1>9 DEF RequestShutdown, AddOther, RunOther, StopScheduler, StopDispatcher
    <2> QED BY <2>1, <2>2, <2>3 DEF TypeOK
  <1>10. ASSUME Quit PROVE TypeOK'
    <2>1. tasks' \in Seq(Task)
      <3>1. Tail(tasks) \in Seq(Task) /\ <<>> \in Seq(Task) /\ <<[run |-> "quitNow"]>> \in Seq(Task)
        BY <1>10, TaskTaken, TaskTypes DEF Quit, Runs
      <3> QED BY <1>10, <3>1, ConcatProperties DEF Quit
    <2> QED BY <1>10, <2>1 DEF Quit, TypeOK
  <1>11. ASSUME NEW what, NEW then \in {"flushToStop", "flushToQuit"}, BeginShutdown(what, then)
         PROVE  TypeOK'
    <2>1. tasks' \in Seq(Task)
      BY <1>11, TaskTaken DEF BeginShutdown, Runs
    <2>2. hung' \subseteq {"scheduler", "database"}
      BY <1>11 DEF BeginShutdown
    <2> QED BY <1>11, <2>1, <2>2 DEF BeginShutdown, TypeOK
  <1>12. ASSUME EndShutdown PROVE TypeOK'
    <2>1. handlers \o SetToSeq({On(p, "stop") : p \in added}) \in Seq(Handler)
      BY StopsType, ConcatProperties DEF TypeOK
    <2> QED BY <1>12, <2>1 DEF EndShutdown, Stop, TypeOK
  <1>13. CASE UNCHANGED vars
    BY <1>13 DEF vars, TypeOK
  <1> QED
    BY <1>1, <1>2, <1>3, <1>4, <1>5, <1>6, <1>7, <1>8, <1>9, <1>10, <1>11, <1>12, <1>13
    DEF Next, NetworkNext, DispatcherNext

\* ... which hold at first.
LEMMA InitTypeOK == Init => TypeOK
  <1>1. <<[run |-> "load"]>> \in Seq(Task) /\ <<>> \in Seq(Handler)
    BY TaskTypes
  <1> QED BY <1>1 DEF Init, TypeOK

\* The ports, the threads and the two queues keep their types, and a port that
\* accepts has an acceptor (ServicePort, ServiceManager, main()).
THEOREM TypeCorrect == Spec => []TypeOK
  BY InitTypeOK, TypeStep, PTL DEF Spec

-----------------------------------------------------------------------------
(* The invariant.                                                           *)

\* In the handlers hs an accept of p is completed nowhere, or once; and the
\* tasks ts open it again nowhere, or once.
NoneDone(hs, p) == \A i \in DOMAIN hs : ~Completed(hs[i], p)
OnceDone(hs, p) == \A i, j \in DOMAIN hs : Completed(hs[i], p) /\ Completed(hs[j], p) => i = j
NoneOpens(ts, p) == \A i \in DOMAIN ts : ~Reopens(ts[i], p)
OnceOpens(ts, p) == \A i, j \in DOMAIN ts : Reopens(ts[i], p) /\ Reopens(ts[j], p) => i = j
NoStop(hs) == \A i \in DOMAIN hs : hs[i].what /= "stop"

\* At most one accept of a port is under way or completed.
HandlerInv ==
  \A p \in Port : OnceDone(handlers, p) /\ (p \in accepting => NoneDone(handlers, p))

\* A port that waits to be opened again is not in use, and waits once.
ReopenInv ==
  \A p \in Port :
    /\ p \in reopening \/ ~NoneOpens(tasks, p) => p \notin accepting /\ NoneDone(handlers, p)
    /\ p \in reopening => NoneOpens(tasks, p)
    /\ OnceOpens(tasks, p)

\* Nothing is under way for a port that is not added.
AddedInv ==
  doing /= "ended" => \A p \in Port \ added :
    p \notin accepting \union reopening /\ NoneDone(handlers, p) /\ NoneOpens(tasks, p)

\* Stops are posted when nothing can be opened any more.
EndInv ==
  /\ doing \in {"flushToQuit", "flushToStop", "stuck", "ended"} =>
       scheduler = "TERMINATED" /\ dispatcher = "TERMINATED" /\ reopening = {}
  /\ doing = "ended" => tasks = <<>>
  /\ ~NoStop(handlers) => doing = "ended"

IInv == HandlerInv /\ ReopenInv /\ AddedInv /\ EndInv

\* Taking the first handler, and queueing one behind the others.
LEMMA HandlerTaken ==
  ASSUME NEW hs \in Seq(Handler), hs /= <<>>, NEW p \in Port
  PROVE  /\ NoneDone(hs, p) => NoneDone(Tail(hs), p)
         /\ OnceDone(hs, p) => OnceDone(Tail(hs), p)
         /\ OnceDone(hs, p) /\ Completed(Head(hs), p) => NoneDone(Tail(hs), p)
         /\ NoStop(hs) => NoStop(Tail(hs))
  <1>1. /\ Len(Tail(hs)) = Len(hs) - 1 /\ Head(hs) = hs[1] /\ Tail(hs) \in Seq(Handler)
        /\ \A i \in 1..(Len(hs) - 1) : Tail(hs)[i] = hs[i + 1]
    BY HeadTailProperties
  <1>2. DOMAIN hs = 1..Len(hs) /\ DOMAIN Tail(hs) = 1..(Len(hs) - 1) /\ Len(hs) \in Nat \ {0}
    BY <1>1, LenProperties, EmptySeq
  <1> QED BY <1>1, <1>2 DEF NoneDone, OnceDone, NoStop

\* Queueing a handler adds one completion at most, and none but to its own port.
LEMMA HandlerAdded ==
  ASSUME NEW hs \in Seq(Handler), NEW h \in Handler, NEW p \in Port
  PROVE  /\ NoneDone(hs, p) => OnceDone(Append(hs, h), p)
         /\ NoneDone(hs, p) /\ ~Completed(h, p) => NoneDone(Append(hs, h), p)
         /\ OnceDone(hs, p) /\ ~Completed(h, p) => OnceDone(Append(hs, h), p)
         /\ NoStop(hs) /\ h.what /= "stop" => NoStop(Append(hs, h))
  <1>1. /\ Len(Append(hs, h)) = Len(hs) + 1 /\ Append(hs, h) \in Seq(Handler)
        /\ \A i \in 1..Len(hs) : Append(hs, h)[i] = hs[i]
        /\ Append(hs, h)[Len(hs) + 1] = h
    BY AppendProperties
  <1>2. DOMAIN hs = 1..Len(hs) /\ DOMAIN Append(hs, h) = 1..(Len(hs) + 1) /\ Len(hs) \in Nat
    BY <1>1, LenProperties
  <1> QED BY <1>1, <1>2 DEF NoneDone, OnceDone, NoStop

\* Cutting off an accept adds no completion that counts.
LEMMA AbortAdded ==
  ASSUME NEW hs \in Seq(Handler), NEW q \in Port, NEW p \in Port
  PROVE  /\ NoneDone(hs, p) => NoneDone(hs \o Aborted(q), p)
         /\ OnceDone(hs, p) => OnceDone(hs \o Aborted(q), p)
         /\ NoStop(hs) => NoStop(hs \o Aborted(q))
  <1> DEFINE h == On(q, "aborted")
  <1>1. h \in Handler /\ h.what = "aborted" /\ ~Completed(h, p)
    BY HandlerTypes DEF Completed
  <1>2. CASE q \in accepting
    <2>1. hs \o Aborted(q) = Append(hs, h)
      BY <1>1, <1>2, AppendIsConcat DEF Aborted
    <2> HIDE DEF h
    <2> QED BY <1>1, <2>1, HandlerAdded
  <1>3. CASE q \notin accepting
    BY <1>3, ConcatEmptySeq DEF Aborted
  <1> QED BY <1>2, <1>3

\* Taking a task takes one reopening at most.
LEMMA TaskTakenOnce ==
  ASSUME NEW ts \in Seq(Task), ts /= <<>>, NEW p \in Port
  PROVE  /\ NoneOpens(ts, p) => NoneOpens(Tail(ts), p)
         /\ OnceOpens(ts, p) => OnceOpens(Tail(ts), p)
         /\ OnceOpens(ts, p) /\ Reopens(Head(ts), p) => NoneOpens(Tail(ts), p)
  <1>1. /\ Len(Tail(ts)) = Len(ts) - 1 /\ Head(ts) = ts[1] /\ Tail(ts) \in Seq(Task)
        /\ \A i \in 1..(Len(ts) - 1) : Tail(ts)[i] = ts[i + 1]
    BY HeadTailProperties
  <1>2. DOMAIN ts = 1..Len(ts) /\ DOMAIN Tail(ts) = 1..(Len(ts) - 1) /\ Len(ts) \in Nat \ {0}
    BY <1>1, LenProperties, EmptySeq
  <1> QED BY <1>1, <1>2 DEF NoneOpens, OnceOpens

\* Queueing a task adds one reopening at most, and none but to its own port.
LEMMA TaskAddedOnce ==
  ASSUME NEW ts \in Seq(Task), NEW t \in Task, NEW p \in Port
  PROVE  /\ NoneOpens(ts, p) => OnceOpens(Append(ts, t), p)
         /\ NoneOpens(ts, p) /\ ~Reopens(t, p) => NoneOpens(Append(ts, t), p)
         /\ OnceOpens(ts, p) /\ ~Reopens(t, p) => OnceOpens(Append(ts, t), p)
         /\ Reopens(t, p) => ~NoneOpens(Append(ts, t), p)
  <1>1. /\ Len(Append(ts, t)) = Len(ts) + 1 /\ Append(ts, t) \in Seq(Task)
        /\ \A i \in 1..Len(ts) : Append(ts, t)[i] = ts[i]
        /\ Append(ts, t)[Len(ts) + 1] = t
    BY AppendProperties
  <1>2. DOMAIN ts = 1..Len(ts) /\ DOMAIN Append(ts, t) = 1..(Len(ts) + 1) /\ Len(ts) \in Nat
    BY <1>1, LenProperties
  <1> QED BY <1>1, <1>2 DEF NoneOpens, OnceOpens

\* Putting one first does the same.
LEMMA TaskFirstOnce ==
  ASSUME NEW ts \in Seq(Task), NEW t \in Task, NEW p \in Port
  PROVE  /\ NoneOpens(ts, p) => OnceOpens(<<t>> \o ts, p)
         /\ NoneOpens(ts, p) /\ ~Reopens(t, p) => NoneOpens(<<t>> \o ts, p)
         /\ OnceOpens(ts, p) /\ ~Reopens(t, p) => OnceOpens(<<t>> \o ts, p)
  <1>1. /\ DOMAIN (<<t>> \o ts) = 1..(Len(ts) + 1) /\ DOMAIN ts = 1..Len(ts)
        /\ Len(ts) \in Nat
        /\ (<<t>> \o ts)[1] = t
        /\ \A i \in 2..(Len(ts) + 1) : (<<t>> \o ts)[i] = ts[i - 1]
    OBVIOUS
  <1> QED BY <1>1 DEF NoneOpens, OnceOpens

\* No other task reopens a port.
LEMMA OtherTasks ==
  \A p \in Port : /\ ~Reopens([run |-> "load"], p) /\ ~Reopens([run |-> "quit"], p)
                  /\ ~Reopens([run |-> "quitNow"], p) /\ ~Reopens([run |-> "shutdown"], p)
                  /\ ~Reopens([run |-> "other"], p)
  BY DEF Reopens


\* open(), for a port that is in no use.
LEMMA OpenStep ==
  ASSUME TypeOK, NEW p \in Port, OpenSucceeds(p) \/ OpenFails(p),
         p \notin accepting, NoneDone(handlers, p)
  PROVE  /\ handlers' = handlers
         /\ accepting' \in {accepting \union {p}, accepting \ {p}}
         /\ reopening' \in {reopening, reopening \union {p}}
         /\ p \in accepting' => reopening' = reopening
         /\ scheduler /= "RUNNING" => reopening' = reopening
         /\ acceptor' \in {acceptor \union {p}, acceptor \ {p}}
         /\ p \in accepting' \/ p \in pendingStart'
         /\ pendingStart' \in {pendingStart \union {p}, pendingStart \ {p}}
  <1>1. handlers \o Aborted(p) = handlers
    BY ConcatEmptySeq DEF Aborted, TypeOK
  <1> QED BY <1>1 DEF OpenSucceeds, OpenFails, Schedule

\* Every step keeps the invariant.
LEMMA InvStep == TypeOK /\ IInv /\ [Next]_vars => IInv'
  <1> SUFFICES ASSUME TypeOK, IInv, [Next]_vars PROVE IInv'
    OBVIOUS
  <1> USE DEF threadVars, taskVars, portVars, stopVars
  <1>0. handlers \in Seq(Handler) /\ tasks \in Seq(Task)
    BY DEF TypeOK
  <1>1. ASSUME \/ Wait \/ Run \/ JoinScheduler \/ JoinDatabase \/ JoinDispatcher
               \/ SpuriousWake \/ Die \/ OutOfWork \/ LoadFails \/ LoadDone
               \/ (\E p \in Port : AddService(p) \/ Crash(p)) \/ UNCHANGED vars
        PROVE  IInv'
    BY <1>1 DEF Wait, Run, JoinScheduler, JoinDatabase, JoinDispatcher, Joins, SpuriousWake,
                Die, OutOfWork, LoadFails, LoadDone,
                AddService, Crash, NotifyLoader, vars, IInv, HandlerInv, ReopenInv, AddedInv, EndInv,
                NoneDone, OnceDone, NoneOpens, OnceOpens, NoStop
  <1>2. ASSUME Woken \/ RequestShutdown \/ AddOther PROVE IInv'
    <2>1. PICK t \in {[run |-> "quit"], [run |-> "shutdown"], [run |-> "other"]} :
            tasks' = tasks \/ (tasks' = Append(tasks, t) /\ dispatcher = "RUNNING")
      BY <1>2 DEF Woken, RequestShutdown, AddOther
    <2>2. \A p \in Port : /\ NoneOpens(tasks', p) <=> NoneOpens(tasks, p)
                          /\ OnceOpens(tasks, p) => OnceOpens(tasks', p)
      <3> SUFFICES ASSUME NEW p \in Port
                   PROVE  /\ NoneOpens(tasks', p) <=> NoneOpens(tasks, p)
                          /\ OnceOpens(tasks, p) => OnceOpens(tasks', p)
        OBVIOUS
      <3>1. ~Reopens(t, p) /\ t \in Task
        BY <2>1, OtherTasks, TaskTypes
      <3>2. CASE tasks' = Append(tasks, t)
        <4>1. NoneOpens(Append(tasks, t), p) => NoneOpens(tasks, p)
          BY <1>0, <3>1, AppendProperties, LenProperties DEF NoneOpens
        <4> QED BY <1>0, <3>1, <3>2, <4>1, TaskAddedOnce
      <3> QED BY <2>1, <3>2
    <2>3. UNCHANGED <<handlers, accepting, reopening, added, scheduler, dispatcher>>
      BY <1>2 DEF Woken, RequestShutdown, AddOther
    <2>4. doing' = doing \/ (doing = "loop" /\ doing' = "stopping")
      BY <1>2 DEF Woken, RequestShutdown, AddOther
    <2>5. doing' = "ended" => doing = "ended" /\ tasks' = tasks
      BY <2>1, <2>4 DEF IInv, EndInv
    <2>6. doing = "ended" => doing' = "ended"
      BY <2>4
    <2>7. HandlerInv' /\ ReopenInv'
      BY <2>2, <2>3 DEF IInv, HandlerInv, ReopenInv
    <2>8. AddedInv'
      BY <2>2, <2>3, <2>6 DEF IInv, AddedInv
    <2>9. EndInv'
      BY <2>3, <2>4, <2>5 DEF IInv, EndInv
    <2> QED BY <2>7, <2>8, <2>9 DEF IInv
  <1>3. ASSUME NEW q \in Port, OnAccept(q) \/ OnError(q) \/ OnAborted(q) \/ OnStopServer(q)
        PROVE  IInv'
    <2>1. /\ handlers /= <<>> /\ Head(handlers) = On(q, Head(handlers).what)
          /\ UNCHANGED <<tasks, added, doing, scheduler, dispatcher>>
          /\ handlers' = Tail(handlers) \/ handlers' = Tail(handlers) \o Aborted(q)
      BY <1>3 DEF OnAccept, OnError, OnAborted, OnStopServer, Handles, On
    <2>2. Tail(handlers) \in Seq(Handler)
      BY <1>0, <2>1, HeadTailProperties
    <2>3. \A p \in Port : /\ NoneDone(handlers, p) => NoneDone(handlers', p)
                          /\ OnceDone(handlers, p) => OnceDone(handlers', p)
                          /\ OnceDone(handlers, p) /\ Completed(Head(handlers), p)
                               => NoneDone(handlers', p)
                          /\ NoStop(handlers) => NoStop(handlers')
      BY <1>0, <2>1, <2>2, HandlerTaken, AbortAdded
    <2>4. Completed(Head(handlers), q) => ~NoneDone(handlers, q)
      <3>1. Head(handlers) = handlers[1] /\ 1 \in DOMAIN handlers
        BY <1>0, <2>1, HeadTailProperties, LenProperties, EmptySeq
      <3> QED BY <3>1 DEF NoneDone
    <2>5. CASE OnAborted(q) \/ OnStopServer(q)
      <3>1. accepting' \subseteq accepting /\ reopening' = reopening
        BY <2>5 DEF OnAborted, OnStopServer
      <3> QED BY <2>1, <2>3, <3>1 DEF IInv, HandlerInv, ReopenInv, AddedInv, EndInv
    <2>6. CASE OnAccept(q) \/ OnError(q)
      <3>1. Completed(Head(handlers), q)
        BY <2>6 DEF OnAccept, OnError, Handles, On, Completed
      <3>2. /\ q \notin accepting /\ q \notin reopening /\ NoneOpens(tasks, q)
            /\ NoneDone(handlers', q)
        BY <2>3, <2>4, <3>1 DEF IInv, HandlerInv, ReopenInv
      <3>3. doing /= "ended" => q \in added
        BY <2>4, <3>1 DEF IInv, AddedInv
      <3>4. \/ accepting' \subseteq accepting \union {q} /\ reopening' = reopening
            \/ /\ accepting' \subseteq accepting /\ scheduler = "RUNNING"
               /\ reopening' = reopening \union {q}
        BY <2>6 DEF OnAccept, OnError, Schedule
      <3>5. doing \in {"flushToQuit", "flushToStop", "ended"} => scheduler = "TERMINATED"
        BY DEF IInv, EndInv
      <3>6. HandlerInv'
        BY <2>3, <3>2, <3>4 DEF IInv, HandlerInv
      <3>7. ReopenInv'
        BY <2>1, <2>3, <3>2, <3>4 DEF IInv, ReopenInv
      <3>8. AddedInv'
        BY <2>1, <2>3, <3>2, <3>3, <3>4 DEF IInv, AddedInv
      <3>9. EndInv'
        BY <2>1, <2>3, <3>4, <3>5 DEF IInv, EndInv
      <3> QED BY <3>6, <3>7, <3>8, <3>9 DEF IInv
    <2> QED BY <1>3, <2>5, <2>6
  <1>4. ASSUME NEW q \in Port, AcceptCompletes(q) PROVE IInv'
    <2>1. PICK h \in {On(q, "accepted"), On(q, "failed")} : handlers' = Append(handlers, h)
      BY <1>4 DEF AcceptCompletes
    <2>2. h \in Handler /\ h.what /= "stop" /\ \A p \in Port : Completed(h, p) => p = q
      BY <2>1, HandlerTypes DEF Completed
    <2>3. \A p \in Port : /\ NoneDone(handlers, p) => OnceDone(handlers', p)
                          /\ p /= q /\ NoneDone(handlers, p) => NoneDone(handlers', p)
                          /\ p /= q /\ OnceDone(handlers, p) => OnceDone(handlers', p)
                          /\ NoStop(handlers) => NoStop(handlers')
      BY <1>0, <2>1, <2>2, HandlerAdded
    <2>4. /\ q \in accepting /\ accepting' = accepting \ {q}
          /\ UNCHANGED <<tasks, added, doing, scheduler, dispatcher, reopening>>
      BY <1>4 DEF AcceptCompletes
    <2>5. HandlerInv'
      BY <2>3, <2>4 DEF IInv, HandlerInv
    <2>6. ReopenInv' /\ AddedInv'
      BY <2>3, <2>4 DEF IInv, ReopenInv, AddedInv
    <2>7. EndInv'
      BY <2>3, <2>4 DEF IInv, EndInv
    <2> QED BY <2>5, <2>6, <2>7 DEF IInv
  <1>5. ASSUME NEW q \in Port, FireReopen(q) PROVE IInv'
    <2> DEFINE t == [run |-> "reopen", port |-> q]
    <2>1. t \in Task /\ Reopens(t, q) /\ \A p \in Port : Reopens(t, p) => p = q
      BY TaskTypes DEF Reopens
    <2>2. /\ q \in reopening /\ reopening' = reopening \ {q}
          /\ tasks' = <<t>> \o tasks \/ tasks' = tasks
          /\ UNCHANGED <<handlers, accepting, added, doing, scheduler, dispatcher>>
          /\ scheduler /= "TERMINATED"
      BY <1>5 DEF FireReopen
    <2> HIDE DEF t
    <2>3. \A p \in Port : /\ NoneOpens(tasks, p) => OnceOpens(tasks', p)
                          /\ p /= q /\ NoneOpens(tasks, p) => NoneOpens(tasks', p)
                          /\ OnceOpens(tasks, p) /\ p /= q => OnceOpens(tasks', p)
      BY <1>0, <2>1, <2>2, TaskFirstOnce DEF NoneOpens, OnceOpens
    <2>4. HandlerInv'
      BY <2>2 DEF IInv, HandlerInv
    <2>5. ReopenInv'
      BY <2>2, <2>3 DEF IInv, ReopenInv
    <2>6. AddedInv'
      BY <2>2, <2>3 DEF IInv, AddedInv
    <2>7. EndInv'
      BY <2>2 DEF IInv, EndInv
    <2> QED BY <2>4, <2>5, <2>6, <2>7 DEF IInv
  <1>6. ASSUME NEW q \in Port, AddPort(q) PROVE IInv'
    <2>1. /\ q \notin added /\ added' = added \union {q} /\ doing = "load"
          /\ UNCHANGED <<tasks, doing, dispatcher, scheduler>>
          /\ OpenSucceeds(q) \/ OpenFails(q)
      BY <1>6 DEF AddPort
    <2>2. q \notin accepting \union reopening /\ NoneDone(handlers, q) /\ NoneOpens(tasks, q)
      BY <2>1 DEF IInv, AddedInv
    <2>3. /\ handlers' = handlers
          /\ accepting' \in {accepting \union {q}, accepting \ {q}}
          /\ reopening' \in {reopening, reopening \union {q}}
          /\ q \in accepting' => reopening' = reopening
      BY <2>1, <2>2, OpenStep
    <2>4. HandlerInv' /\ ReopenInv' /\ AddedInv'
      BY <2>1, <2>2, <2>3 DEF IInv, HandlerInv, ReopenInv, AddedInv
    <2>5. EndInv'
      BY <2>1, <2>3 DEF IInv, EndInv
    <2> QED BY <2>4, <2>5 DEF IInv
  <1>7. ASSUME NEW q \in Port, Reopen(q) PROVE IInv'
    <2>1. /\ tasks /= <<>> /\ tasks' = Tail(tasks)
          /\ Head(tasks).run = "reopen" /\ Head(tasks).port = q
          /\ doing \in {"loop", "flushToQuit", "flushToStop"}
          /\ UNCHANGED <<added, doing, dispatcher, scheduler>>
          /\ OpenSucceeds(q) \/ OpenFails(q)
      BY <1>7 DEF Reopen, Runs
    <2>2. Reopens(Head(tasks), q) /\ ~NoneOpens(tasks, q)
      <3>1. Head(tasks) = tasks[1] /\ 1 \in DOMAIN tasks /\ Head(tasks) \in Task
        BY <1>0, <2>1, HeadTailProperties, LenProperties, EmptySeq
      <3> QED BY <2>1, <3>1 DEF NoneOpens, Reopens, Task
    <2>3. \A p \in Port : /\ NoneOpens(tasks, p) => NoneOpens(tasks', p)
                          /\ OnceOpens(tasks, p) => OnceOpens(tasks', p)
                          /\ OnceOpens(tasks, p) /\ Reopens(Head(tasks), p) => NoneOpens(tasks', p)
      BY <1>0, <2>1, TaskTakenOnce
    <2>4. q \notin accepting /\ NoneDone(handlers, q) /\ NoneOpens(tasks', q)
          /\ q \notin reopening
      BY <2>2, <2>3 DEF IInv, ReopenInv
    <2>5. /\ handlers' = handlers
          /\ accepting' \in {accepting \union {q}, accepting \ {q}}
          /\ reopening' \in {reopening, reopening \union {q}}
          /\ q \in accepting' => reopening' = reopening
          /\ scheduler /= "RUNNING" => reopening' = reopening
      BY <2>1, <2>4, OpenStep
    <2>6. q \in added
      BY <2>1, <2>2 DEF IInv, AddedInv
    <2>7. HandlerInv'
      BY <2>4, <2>5 DEF IInv, HandlerInv
    <2>8. ReopenInv'
      BY <2>3, <2>4, <2>5 DEF IInv, ReopenInv
    <2>9. AddedInv'
      BY <2>1, <2>3, <2>5, <2>6 DEF IInv, AddedInv
    <2>10. EndInv'
      BY <2>1, <2>5 DEF IInv, EndInv
    <2> QED BY <2>7, <2>8, <2>9, <2>10 DEF IInv
  <1>8. ASSUME BeginLoad \/ (\E what, then : then \in {"flushToStop", "flushToQuit"} /\
                               BeginShutdown(what, then))
        PROVE  IInv'
    <2>1. /\ tasks /= <<>> /\ tasks' = Tail(tasks) /\ doing /= "ended" /\ doing' /= "ended"
          /\ UNCHANGED <<handlers, accepting, added>>
          /\ reopening' \in {reopening, {}}
          /\ \/ doing' = "load"
             \/ scheduler' = "TERMINATED" /\ dispatcher' = "TERMINATED" /\ reopening' = {}
      BY <1>8 DEF BeginLoad, BeginShutdown, Runs
    <2>2. \A p \in Port : /\ NoneOpens(tasks, p) => NoneOpens(tasks', p)
                          /\ OnceOpens(tasks, p) => OnceOpens(tasks', p)
      BY <1>0, <2>1, TaskTakenOnce
    <2>3. HandlerInv' /\ ReopenInv' /\ AddedInv'
      BY <2>1, <2>2 DEF IInv, HandlerInv, ReopenInv, AddedInv
    <2>4. EndInv'
      BY <2>1 DEF IInv, EndInv
    <2> QED BY <2>3, <2>4 DEF IInv
  <1>9. ASSUME Quit PROVE IInv'
    <2>1. /\ tasks /= <<>> /\ doing /= "ended"
          /\ UNCHANGED <<handlers, accepting, added, reopening, scheduler, dispatcher>>
          /\ doing' = "stopping"
          /\ tasks' = Tail(tasks) \o (IF dispatcher = "RUNNING" THEN <<[run |-> "quitNow"]>> ELSE <<>>)
          /\ doing = "loop"
      BY <1>9 DEF Quit, Runs
    <2>2. Tail(tasks) \in Seq(Task)
      BY <1>0, <2>1, HeadTailProperties
    <2>3. tasks' = Tail(tasks) \/ tasks' = Append(Tail(tasks), [run |-> "quitNow"])
      BY <2>1, <2>2, ConcatEmptySeq, AppendIsConcat, TaskTypes
    <2>4. \A p \in Port : /\ NoneOpens(tasks, p) => NoneOpens(tasks', p)
                          /\ OnceOpens(tasks, p) => OnceOpens(tasks', p)
      BY <1>0, <2>1, <2>2, <2>3, TaskTakenOnce, TaskAddedOnce, OtherTasks, TaskTypes
    <2>5. HandlerInv' /\ ReopenInv' /\ AddedInv'
      BY <2>1, <2>4 DEF IInv, HandlerInv, ReopenInv, AddedInv
    <2>6. EndInv'
      BY <2>1 DEF IInv, EndInv
    <2> QED BY <2>5, <2>6 DEF IInv
  <1>10. ASSUME EndShutdown PROVE IInv'
    <2> DEFINE s == SetToSeq({On(p, "stop") : p \in added})
    <2>1. /\ tasks = <<>> /\ tasks' = tasks /\ doing' = "ended"
          /\ doing \in {"flushToQuit", "flushToStop"}
          /\ UNCHANGED <<accepting, reopening, scheduler, dispatcher>>
          /\ handlers' = handlers \/ handlers' = handlers \o s
      BY <1>10 DEF EndShutdown, Stop
    <2>2. s \in Seq(Handler) /\ \A i \in DOMAIN s : s[i].what = "stop"
      BY StopsType DEF TypeOK
    <2> HIDE DEF s
    <2>3. \A p \in Port : /\ NoneDone(handlers, p) => NoneDone(handlers', p)
                          /\ OnceDone(handlers, p) => OnceDone(handlers', p)
      <3>1. \A i \in DOMAIN s : \A p \in Port : ~Completed(s[i], p)
        BY <2>2 DEF Completed
      <3>2. /\ DOMAIN (handlers \o s) = 1..(Len(handlers) + Len(s))
            /\ \A i \in 1..(Len(handlers) + Len(s)) :
                 (handlers \o s)[i] = IF i <= Len(handlers) THEN handlers[i]
                                                          ELSE s[i - Len(handlers)]
            /\ DOMAIN handlers = 1..Len(handlers) /\ DOMAIN s = 1..Len(s)
            /\ Len(handlers) \in Nat /\ Len(s) \in Nat
        BY <1>0, <2>2, ConcatProperties, LenProperties
      <3>3. \A i \in DOMAIN (handlers \o s) : \A p \in Port :
              Completed((handlers \o s)[i], p) =>
                i \in DOMAIN handlers /\ (handlers \o s)[i] = handlers[i]
        BY <3>1, <3>2
      <3> QED BY <2>1, <3>3 DEF NoneDone, OnceDone
    <2>4. HandlerInv' /\ ReopenInv' /\ AddedInv'
      BY <2>1, <2>3 DEF IInv, HandlerInv, ReopenInv, AddedInv
    <2>5. EndInv'
      BY <2>1 DEF IInv, EndInv
    <2> QED BY <2>4, <2>5 DEF IInv
  <1>11. ASSUME StopScheduler \/ StopDispatcher PROVE IInv'
    BY <1>11 DEF StopScheduler, StopDispatcher, IInv, HandlerInv, ReopenInv, AddedInv, EndInv,
                 NoneDone, OnceDone, NoneOpens, OnceOpens, NoStop
  <1>12. ASSUME RunOther PROVE IInv'
    <2>1. /\ tasks /= <<>> /\ tasks' = Tail(tasks)
          /\ UNCHANGED <<handlers, accepting, added, reopening, scheduler, dispatcher>>
          /\ doing' = doing \/ (doing \in {"flushToQuit", "flushToStop"} /\ doing' = "stuck")
          /\ doing /= "ended"
      BY <1>12 DEF RunOther, Runs
    <2>2. \A p \in Port : /\ NoneOpens(tasks, p) => NoneOpens(tasks', p)
                          /\ OnceOpens(tasks, p) => OnceOpens(tasks', p)
      BY <1>0, <2>1, TaskTakenOnce
    <2>3. HandlerInv' /\ ReopenInv' /\ AddedInv'
      BY <2>1, <2>2 DEF IInv, HandlerInv, ReopenInv, AddedInv
    <2>4. EndInv'
      BY <2>1 DEF IInv, EndInv
    <2> QED BY <2>3, <2>4 DEF IInv
  <1> QED
    BY <1>1, <1>2, <1>3, <1>4, <1>5, <1>6, <1>7, <1>8, <1>9, <1>10, <1>11, <1>12
    DEF Next, MainNext, NetworkNext, DispatcherNext

\* The inductive invariant: at most one of the acceptor's users, a handler, a
\* reopening task or an accept, is under way for each port (server.cpp 114-234).
THEOREM Invariant == Spec => [](TypeOK /\ IInv)
  <1>1. Init => TypeOK /\ IInv
    <2>1. Init => TypeOK
      BY InitTypeOK
    <2>2. Init => IInv
      BY DEF Init, IInv, HandlerInv, ReopenInv, AddedInv, EndInv, NoneDone, OnceDone,
             NoneOpens, OnceOpens, NoStop, Reopens
    <2> QED BY <2>1, <2>2
  <1> QED BY <1>1, TypeStep, InvStep, PTL DEF Spec

\* The network thread and the dispatcher never use the acceptor of a port at the
\* same time, for any number of ports: while openAcceptor() is on its way no
\* handler and no accept of that port is there (server.cpp 114-234).
THEOREM AcceptorIsExclusive == Spec => []ExclusiveAcceptor
  <1>1. TypeOK /\ IInv => ExclusiveAcceptor
    <2> SUFFICES ASSUME TypeOK, IInv, NEW p \in Port
                 PROVE  LET Queued(i) == tasks[i] = [run |-> "reopen", port |-> p]
                        IN /\ p \in reopening \/ (\E i \in DOMAIN tasks : Queued(i)) =>
                                /\ p \notin accepting
                                /\ \A i \in DOMAIN handlers :
                                     handlers[i].port = p => handlers[i].what = "aborted"
                           /\ p \in reopening => \A i \in DOMAIN tasks : ~Queued(i)
                           /\ \A i, j \in DOMAIN tasks : Queued(i) /\ Queued(j) => i = j
      BY DEF ExclusiveAcceptor
    <2>1. ASSUME p \in reopening \/ \E i \in DOMAIN tasks : Reopens(tasks[i], p)
          PROVE  /\ p \notin accepting
                 /\ \A i \in DOMAIN handlers : handlers[i].port = p => handlers[i].what = "aborted"
      <3>1. p \notin accepting /\ NoneDone(handlers, p)
        BY <2>1 DEF IInv, ReopenInv, NoneOpens
      <3>2. NoStop(handlers)
        BY <2>1 DEF IInv, EndInv
      <3>3. \A i \in DOMAIN handlers : handlers[i] \in Handler
        BY ElementOfSeq, LenProperties DEF TypeOK
      <3> QED BY <3>1, <3>2, <3>3 DEF NoneDone, NoStop, Completed, Handler
    <2>2. p \in reopening => \A i \in DOMAIN tasks : ~Reopens(tasks[i], p)
      BY DEF IInv, ReopenInv, NoneOpens
    <2>3. \A i, j \in DOMAIN tasks : Reopens(tasks[i], p) /\ Reopens(tasks[j], p) => i = j
      BY DEF IInv, ReopenInv, OnceOpens
    <2> QED BY <2>1, <2>2, <2>3 DEF Reopens
  <1> QED BY <1>1, Invariant, PTL

-----------------------------------------------------------------------------
(* An open port listens.                                                    *)

\* The loader is queued first and runs once, before any port is added, and when main()
\* runs the handlers, woken by nothing else, every port has its service.
LoadInv ==
  /\ \A i \in DOMAIN tasks :
       tasks[i].run = "load" => i = 1 /\ loader = "loading" /\ doing /= "load" /\ added = {}
  /\ doing = "load" => loader = "loading"
  /\ loader /= "loading" /\ added /= {} => services = Port
  /\ main = "woken" /\ ~early => loader /= "loading"
  /\ main \in {"online", "running"} /\ ~early => services = Port

\* Listens, in terms of the completed accepts.
ListenInv ==
  ~early => \A p \in acceptor : p \in accepting \union pendingStart \/ ~NoneDone(handlers, p)

\* The tasks behind the first stay what they are, and only the loader is "load".
LEMMA LoadTaken ==
  ASSUME tasks \in Seq(Task), tasks /= <<>>, LoadInv
  PROVE  \A i \in DOMAIN Tail(tasks) : Tail(tasks)[i].run /= "load"
  <1>1. /\ Len(Tail(tasks)) = Len(tasks) - 1 /\ Tail(tasks) \in Seq(Task)
        /\ \A i \in 1..(Len(tasks) - 1) : Tail(tasks)[i] = tasks[i + 1]
    BY HeadTailProperties
  <1>2. DOMAIN tasks = 1..Len(tasks) /\ DOMAIN Tail(tasks) = 1..(Len(tasks) - 1)
        /\ Len(tasks) \in Nat \ {0}
    BY <1>1, LenProperties, EmptySeq
  <1> QED BY <1>1, <1>2 DEF LoadInv

\* A task that is not the loader is queued behind.
LEMMA LoadAdded ==
  ASSUME NEW ts \in Seq(Task), NEW t \in Task, t.run /= "load"
  PROVE  \A i \in DOMAIN Append(ts, t) :
           Append(ts, t)[i].run = "load" => i \in DOMAIN ts /\ Append(ts, t)[i] = ts[i]
  <1>1. /\ Len(Append(ts, t)) = Len(ts) + 1 /\ Append(ts, t) \in Seq(Task)
        /\ \A i \in 1..Len(ts) : Append(ts, t)[i] = ts[i]
        /\ Append(ts, t)[Len(ts) + 1] = t
    BY AppendProperties
  <1>2. DOMAIN ts = 1..Len(ts) /\ DOMAIN Append(ts, t) = 1..(Len(ts) + 1) /\ Len(ts) \in Nat
    BY <1>1, LenProperties
  <1> QED BY <1>1, <1>2

\* A completed accept stays queued until it is the first and is handled.
LEMMA DoneKept ==
  ASSUME NEW hs \in Seq(Handler), NEW gs \in Seq(Handler), NEW p \in Port
  PROVE  /\ ~NoneDone(hs, p) => ~NoneDone(hs \o gs, p)
         /\ hs /= <<>> /\ ~NoneDone(hs, p) /\ ~Completed(Head(hs), p) => ~NoneDone(Tail(hs), p)
  <1>1. /\ \A i \in 1..Len(hs) : (hs \o gs)[i] = hs[i]
        /\ DOMAIN (hs \o gs) = 1..(Len(hs) + Len(gs))
        /\ DOMAIN hs = 1..Len(hs) /\ Len(hs) \in Nat /\ Len(gs) \in Nat
    BY ConcatProperties, LenProperties
  <1>2. ~NoneDone(hs, p) => ~NoneDone(hs \o gs, p)
    BY <1>1 DEF NoneDone
  <1>3. ASSUME hs /= <<>>, ~NoneDone(hs, p), ~Completed(Head(hs), p)
        PROVE  ~NoneDone(Tail(hs), p)
    <2>1. /\ Len(Tail(hs)) = Len(hs) - 1 /\ Head(hs) = hs[1] /\ Tail(hs) \in Seq(Handler)
          /\ \A i \in 1..(Len(hs) - 1) : Tail(hs)[i] = hs[i + 1]
      BY <1>3, HeadTailProperties
    <2>2. DOMAIN Tail(hs) = 1..(Len(hs) - 1)
      BY <2>1, LenProperties
    <2>3. PICK i \in 1..Len(hs) : Completed(hs[i], p)
      BY <1>1, <1>3 DEF NoneDone
    <2>4. i - 1 \in 1..(Len(hs) - 1) /\ Tail(hs)[i - 1] = hs[i]
      BY <1>1, <1>3, <2>1, <2>3
    <2> QED BY <2>2, <2>3, <2>4 DEF NoneDone
  <1> QED BY <1>2, <1>3

\* Every step keeps what is known of the loader.
LEMMA LoadStep == TypeOK /\ IInv /\ LoadInv /\ [Next]_vars => LoadInv'
  <1> SUFFICES ASSUME TypeOK, IInv, LoadInv, [Next]_vars PROVE LoadInv'
    OBVIOUS
  <1> USE DEF threadVars, taskVars, portVars, stopVars
  <1>0. tasks \in Seq(Task) /\ services \subseteq Port
    BY DEF TypeOK
  <1>1. ASSUME \/ Wait \/ Run \/ JoinScheduler \/ JoinDatabase \/ JoinDispatcher
               \/ SpuriousWake \/ Die \/ OutOfWork \/ (\E q \in Port : Crash(q))
               \/ LoadFails \/ LoadDone \/ StopScheduler \/ StopDispatcher
               \/ UNCHANGED vars
        PROVE  LoadInv'
    BY <1>1 DEF Wait, Run, JoinScheduler, JoinDatabase, JoinDispatcher, Joins, SpuriousWake,
                Die, OutOfWork, Crash, LoadFails, LoadDone, StopScheduler, StopDispatcher,
                NotifyLoader, vars, LoadInv
  <1>2. ASSUME NEW q \in Port, \/ OnAccept(q) \/ OnError(q) \/ OnAborted(q)
                               \/ OnStopServer(q) \/ AcceptCompletes(q)
        PROVE  LoadInv'
    BY <1>2 DEF OnAccept, OnError, OnAborted, OnStopServer, AcceptCompletes, Handles, LoadInv
  <1>3. ASSUME NEW q \in Port, AddPort(q) \/ AddService(q) PROVE LoadInv'
    BY <1>0, <1>3 DEF AddPort, AddService, LoadInv
  <1>4. ASSUME Woken \/ RequestShutdown \/ AddOther PROVE LoadInv'
    <2>1. \/ tasks' = tasks
          \/ \E t \in Task : t.run /= "load" /\ tasks' = Append(tasks, t)
      BY <1>4, TaskTypes DEF Woken, RequestShutdown, AddOther
    <2>2. \A i \in DOMAIN tasks' :
            tasks'[i].run = "load" => i \in DOMAIN tasks /\ tasks'[i] = tasks[i]
      BY <1>0, <2>1, LoadAdded
    <2>3. UNCHANGED <<early, loader, added, services>> /\ doing' \in {doing, "stopping"}
          /\ \/ main' = main
             \/ main = "woken" /\ main' = "online" /\ added /= {}
             \/ main' = "joining"
      BY <1>4 DEF Woken, RequestShutdown, AddOther
    <2> QED BY <2>2, <2>3 DEF LoadInv
  <1>5. ASSUME \/ BeginLoad \/ RunOther \/ (\E q \in Port : Reopen(q))
               \/ (\E what, then : then \in {"flushToStop", "flushToQuit"} /\
                                    BeginShutdown(what, then))
        PROVE  LoadInv'
    <2>1. /\ tasks /= <<>> /\ tasks' = Tail(tasks)
          /\ UNCHANGED <<main, early, loader, added, services>>
          /\ doing' \in {doing, "flushToStop", "flushToQuit", "stuck"} \/ Head(tasks).run = "load"
      BY <1>5 DEF BeginLoad, RunOther, Reopen, BeginShutdown, Runs
    <2>2. \A i \in DOMAIN tasks' : tasks'[i].run /= "load"
      BY <1>0, <2>1, LoadTaken
    <2>3. Head(tasks).run = "load" => loader = "loading"
      BY <1>0, <2>1, HeadTailProperties, LenProperties, EmptySeq DEF LoadInv
    <2> QED BY <2>1, <2>2, <2>3 DEF LoadInv
  <1>6. ASSUME Quit PROVE LoadInv'
    <2>1. /\ tasks /= <<>> /\ doing /= "load"
          /\ UNCHANGED <<main, early, loader, added, services>> /\ doing' = "stopping"
          /\ tasks' = Tail(tasks) \o (IF dispatcher = "RUNNING" THEN <<[run |-> "quitNow"]>> ELSE <<>>)
      BY <1>6 DEF Quit, Runs
    <2>2. Tail(tasks) \in Seq(Task)
      BY <1>0, <2>1, HeadTailProperties
    <2>3. tasks' = Tail(tasks) \/ tasks' = Append(Tail(tasks), [run |-> "quitNow"])
      BY <2>1, <2>2, ConcatEmptySeq, AppendIsConcat, TaskTypes
    <2>4. \A i \in DOMAIN Tail(tasks) : Tail(tasks)[i].run /= "load"
      BY <1>0, <2>1, LoadTaken
    <2>5. \A i \in DOMAIN tasks' : tasks'[i].run /= "load"
      <3> DEFINE t == [run |-> "quitNow"]
      <3>1. t \in Task /\ t.run /= "load"
        BY TaskTypes
      <3> HIDE DEF t
      <3>2. CASE tasks' = Append(Tail(tasks), t)
        BY <2>2, <2>4, <3>1, <3>2, LoadAdded
      <3> QED BY <2>3, <2>4, <3>2 DEF t
    <2> QED BY <2>1, <2>5 DEF LoadInv
  <1>7. ASSUME EndShutdown PROVE LoadInv'
    <2>1. tasks = <<>> /\ tasks' = tasks /\ doing' = "ended" /\ added' \in {added, {}}
          /\ UNCHANGED <<main, early, loader, services>>
      BY <1>7 DEF EndShutdown, Stop
    <2> QED BY <2>1 DEF LoadInv
  <1>8. ASSUME NEW q \in Port, FireReopen(q) PROVE LoadInv'
    <2> DEFINE t == [run |-> "reopen", port |-> q]
    <2>1. /\ t \in Task /\ t.run /= "load"
          /\ tasks' = tasks \/ tasks' = <<t>> \o tasks
          /\ q \in reopening /\ scheduler /= "TERMINATED"
          /\ UNCHANGED <<main, early, loader, doing, added, services>>
      BY <1>8, TaskTypes DEF FireReopen
    <2> HIDE DEF t
    <2>2. \A i \in DOMAIN tasks : tasks[i].run /= "load"
      BY <2>1 DEF LoadInv, IInv, AddedInv, EndInv
    <2>3. \A i \in DOMAIN tasks' : tasks'[i].run /= "load"
      <3>1. /\ DOMAIN (<<t>> \o tasks) = 1..(Len(tasks) + 1) /\ DOMAIN tasks = 1..Len(tasks)
            /\ Len(tasks) \in Nat
            /\ (<<t>> \o tasks)[1] = t
            /\ \A i \in 2..(Len(tasks) + 1) : (<<t>> \o tasks)[i] = tasks[i - 1]
        BY <1>0, <2>1
      <3>2. ASSUME tasks' = <<t>> \o tasks, NEW i \in 1..(Len(tasks) + 1)
            PROVE  tasks'[i].run /= "load"
        <4>1. CASE i = 1
          BY <2>1, <3>1, <3>2, <4>1
        <4>2. CASE i \in 2..(Len(tasks) + 1)
          <5>1. i - 1 \in DOMAIN tasks /\ tasks'[i] = tasks[i - 1]
            BY <3>1, <3>2, <4>2
          <5> QED BY <2>2, <5>1
        <4> QED BY <3>1, <4>1, <4>2
      <3> QED BY <2>1, <2>2, <3>1, <3>2
    <2> QED BY <2>1, <2>3 DEF LoadInv
  <1> QED
    BY <1>1, <1>2, <1>3, <1>4, <1>5, <1>6, <1>7, <1>8
    DEF Next, MainNext, NetworkNext, DispatcherNext

\* No step leaves an acceptor without an accept, a completed one or a reopening.
LEMMA ListenStep == TypeOK /\ IInv /\ LoadInv /\ ListenInv /\ [Next]_vars => ListenInv'
  <1> SUFFICES ASSUME TypeOK, IInv, LoadInv, ListenInv, [Next]_vars, ~early'
               PROVE  \A p \in acceptor' :
                        p \in accepting' \union pendingStart' \/ ~NoneDone(handlers', p)
    BY DEF ListenInv
  <1> USE DEF threadVars, taskVars, portVars, stopVars
  <1>0. handlers \in Seq(Handler) /\ acceptor \subseteq Port
    BY DEF TypeOK
  <1> DEFINE Goal == \A p \in acceptor' :
                       p \in accepting' \union pendingStart' \/ ~NoneDone(handlers', p)
  <1>1. ~early
    BY DEF Next, MainNext, NetworkNext, DispatcherNext, Wait, Woken, Run, JoinScheduler,
           JoinDatabase, JoinDispatcher, Joins, Crash, AddOther, RunOther, StopScheduler,
           StopDispatcher, SpuriousWake,
           OnAccept, OnError, OnAborted, OnStopServer, Handles, Die, OutOfWork,
           AcceptCompletes, FireReopen, BeginLoad, LoadFails, LoadDone, AddPort, AddService,
           Reopen, Quit, BeginShutdown, EndShutdown, RequestShutdown, vars
  <1>2. \A p \in acceptor : p \in accepting \union pendingStart \/ ~NoneDone(handlers, p)
    BY <1>1 DEF ListenInv
  <1>3. ASSUME UNCHANGED portVars PROVE Goal
    BY <1>2, <1>3
  <1>4. ASSUME NEW q \in Port, OnAccept(q) \/ OnError(q) \/ OnAborted(q) \/ OnStopServer(q)
        PROVE  Goal
    <2>1. /\ handlers /= <<>> /\ Head(handlers).port = q /\ main = "running"
          /\ handlers' = Tail(handlers) \/ handlers' = Tail(handlers) \o Aborted(q)
      BY <1>4 DEF OnAccept, OnError, OnAborted, OnStopServer, Handles, On
    <2>2. Tail(handlers) \in Seq(Handler) /\ Aborted(q) \in Seq(Handler)
      BY <1>0, <2>1, HeadTailProperties, AbortedType
    <2>3. \A p \in Port : ~NoneDone(handlers, p) /\ ~Completed(Head(handlers), p)
                            => ~NoneDone(handlers', p)
      BY <1>0, <2>1, <2>2, DoneKept
    <2>4. \A p \in Port \ {q} : ~Completed(Head(handlers), p)
      BY <2>1 DEF Completed
    <2>5. /\ acceptor' \subseteq acceptor /\ accepting \ {q} \subseteq accepting'
          /\ pendingStart \subseteq pendingStart'
      BY <1>4 DEF OnAccept, OnError, OnAborted, OnStopServer
    <2>6. q \in acceptor' => q \in accepting' \union pendingStart' \/ ~NoneDone(handlers', q)
      <3>1. CASE OnAccept(q)
        BY <1>1, <2>1, <2>5, <3>1 DEF OnAccept, LoadInv
      <3>2. CASE OnError(q)
        BY <3>2 DEF OnError
      <3>3. CASE OnStopServer(q)
        BY <3>3 DEF OnStopServer
      <3>4. CASE OnAborted(q)
        <4>1. ~Completed(Head(handlers), q)
          BY <3>4 DEF OnAborted, Handles, On, Completed
        <4>2. UNCHANGED <<acceptor, accepting, pendingStart>>
          BY <3>4 DEF OnAborted
        <4> QED BY <1>2, <2>3, <4>1, <4>2
      <3> QED BY <1>4, <3>1, <3>2, <3>3, <3>4
    <2> QED BY <1>0, <1>2, <2>3, <2>4, <2>5, <2>6
  <1>5. ASSUME NEW q \in Port, AcceptCompletes(q) PROVE Goal
    <2>1. PICK h \in {On(q, "accepted"), On(q, "failed")} : handlers' = Append(handlers, h)
      BY <1>5 DEF AcceptCompletes
    <2>2. h \in Handler /\ Completed(h, q) /\ <<h>> \in Seq(Handler)
      BY <2>1, HandlerTypes DEF Completed
    <2>3. handlers' = handlers \o <<h>>
      BY <1>0, <2>1, <2>2, AppendIsConcat
    <2>4. ~NoneDone(handlers', q)
      BY <1>0, <2>1, <2>2, AppendProperties, LenProperties DEF NoneDone
    <2>5. \A p \in Port : ~NoneDone(handlers, p) => ~NoneDone(handlers', p)
      BY <1>0, <2>2, <2>3, DoneKept
    <2>6. accepting' = accepting \ {q} /\ UNCHANGED <<acceptor, pendingStart>>
      BY <1>5 DEF AcceptCompletes
    <2> QED BY <1>0, <1>2, <2>4, <2>5, <2>6
  <1>6. ASSUME NEW q \in Port, AddPort(q) \/ Reopen(q) PROVE Goal
    <2>1. OpenSucceeds(q) \/ OpenFails(q)
      BY <1>6 DEF AddPort, Reopen
    <2>2. q \notin accepting /\ NoneDone(handlers, q)
      <3>1. CASE AddPort(q)
        BY <3>1 DEF AddPort, IInv, AddedInv
      <3>2. CASE Reopen(q)
        <4>1. Head(tasks) = tasks[1] /\ 1 \in DOMAIN tasks /\ Head(tasks) \in Task
              /\ Head(tasks).run = "reopen" /\ Head(tasks).port = q
          BY <3>2, HeadTailProperties, LenProperties, EmptySeq DEF Reopen, Runs, TypeOK
        <4>2. ~NoneOpens(tasks, q)
          BY <4>1 DEF NoneOpens, Reopens, Task
        <4> QED BY <4>2 DEF IInv, ReopenInv
      <3> QED BY <1>6, <3>1, <3>2
    <2>3. /\ handlers' = handlers
          /\ accepting' \in {accepting \union {q}, accepting \ {q}}
          /\ acceptor' \in {acceptor \union {q}, acceptor \ {q}}
          /\ q \in accepting' \/ q \in pendingStart'
          /\ pendingStart' \in {pendingStart \union {q}, pendingStart \ {q}}
      BY <2>1, <2>2, OpenStep
    <2> QED BY <1>2, <2>3
  <1>7. ASSUME EndShutdown PROVE Goal
    <2> DEFINE s == SetToSeq({On(p, "stop") : p \in added})
    <2>1. s \in Seq(Handler)
      BY StopsType DEF TypeOK
    <2>2. handlers' = handlers \/ handlers' = handlers \o s
      BY <1>7 DEF EndShutdown, Stop
    <2>3. UNCHANGED <<acceptor, accepting, pendingStart>>
      BY <1>7 DEF EndShutdown
    <2> HIDE DEF s
    <2>4. \A p \in Port : ~NoneDone(handlers, p) => ~NoneDone(handlers', p)
      BY <1>0, <2>1, <2>2, DoneKept
    <2> QED BY <1>0, <1>2, <2>3, <2>4
  <1>8. ASSUME \/ MainNext \/ SpuriousWake \/ Die \/ OutOfWork \/ BeginLoad \/ LoadFails
               \/ LoadDone \/ Quit \/ RequestShutdown \/ UNCHANGED vars
               \/ AddOther \/ RunOther \/ StopScheduler \/ StopDispatcher
               \/ \E q \in Port : FireReopen(q) \/ AddService(q) \/ Crash(q)
               \/ BeginShutdown("shutdown", "flushToStop")
               \/ BeginShutdown("quitNow", "flushToQuit")
        PROVE  UNCHANGED portVars
    BY <1>8 DEF MainNext, Wait, Woken, Run, JoinScheduler, JoinDatabase, JoinDispatcher, Joins,
                Crash, AddOther, RunOther, StopScheduler, StopDispatcher,
                SpuriousWake, Die, OutOfWork, BeginLoad,
                LoadFails, LoadDone, Quit, RequestShutdown, FireReopen, AddService,
                BeginShutdown, vars
  <1> QED
    BY <1>3, <1>4, <1>5, <1>6, <1>7, <1>8 DEF Next, NetworkNext, DispatcherNext

\* A port that is open takes connections: it accepts, or the handler that makes it
\* accept again is queued, or it is about to be opened anew, for any number of
\* ports, unless main() woke up for nothing (server.cpp 75-167, otserv.cpp).
THEOREM OpenPortListens == Spec => []Listens
  <1>1. Init => LoadInv /\ ListenInv
    BY DEF Init, LoadInv, ListenInv
  <1>2. TypeOK /\ ListenInv => Listens
    <2> SUFFICES ASSUME TypeOK, NEW p \in Port, ~NoneDone(handlers, p)
                 PROVE  \/ On(p, "accepted") \in ToSet(handlers)
                        \/ On(p, "failed") \in ToSet(handlers)
      BY DEF ListenInv, Listens, TypeOK
    <2>1. PICK i \in DOMAIN handlers : Completed(handlers[i], p)
      BY DEF NoneDone
    <2>2. handlers[i] \in Handler /\ handlers[i] \in ToSet(handlers)
      BY ElementOfSeq, LenProperties DEF TypeOK, ToSet
    <2>3. handlers[i] \in {On(p, "accepted"), On(p, "failed")}
      BY <2>1, <2>2 DEF Completed, Handler, On
    <2> QED BY <2>2, <2>3
  <1> QED BY <1>1, <1>2, Invariant, LoadStep, ListenStep, PTL DEF Spec
=============================================================================
