------------------------- MODULE GameSessionProofs -------------------------
(* The invariants of GameSession, for any number of sessions and of Player  *)
(* objects.  They need the order of the dispatcher's tasks: a session's     *)
(* close task comes after everything else its connection asked for; only    *)
(* the connect() that the scheduler puts in front may come after it.        *)
EXTENDS GameSession, WaitingList, FiniteSetTheorems, SequenceTheorems, WellFoundedInduction, TLAPS

-----------------------------------------------------------------------------
(* The inductive invariant.                                                 *)

\* The tasks themselves.
TaskOfLive(ts, lf) ==
  \A i \in 1..Len(ts) :
    /\ ts[i].job # "connect" => lf[ts[i].session] \in {"open", "closing"}
    /\ ts[i].job = "close" => lf[ts[i].session] = "closing"
CloseQueued(ts, lf) ==
  \A s \in Session :
    lf[s] = "closing" => \E i \in 1..Len(ts) : ts[i] = Task("close", s)
FirstJobs == {"login", "refuse"}
TasksDiffer(ts) ==
  \A i, j \in 1..Len(ts) :
    /\ ts[i] = ts[j] => i = j
    /\ ts[i].session = ts[j].session /\ ts[i].job \in FirstJobs /\ ts[j].job \in FirstJobs
         => i = j
CloseIsLast(ts) ==
  \A i, j \in 1..Len(ts) :
    ts[i].job = "close" /\ ts[j].job # "connect" /\ ts[i].session = ts[j].session
      => j <= i
Queue(ts, lf) ==
  /\ ts \in Seq([job : Job, session : Session])
  /\ lf \in [Session -> {"unborn", "open", "closing", "released", "deleted"}]
  /\ TaskOfLive(ts, lf) /\ CloseQueued(ts, lf) /\ TasksDiffer(ts) /\ CloseIsLast(ts)

\* What a task finds of its session when it runs.
TaskFinds(t) ==
  /\ t.job = "connect" => target[t.session] # NoAvatar /\ t.session \notin timers
  /\ t.job \in FirstJobs =>
       first[t.session] /\ player[t.session] = NoAvatar /\ target[t.session] = NoAvatar
TasksFind == \A i \in 1..Len(tasks) : TaskFinds(tasks[i])

SessionsWell ==
  \A s \in Session :
    /\ s \in timers => target[s] # NoAvatar
    /\ ~first[s] => player[s] = NoAvatar /\ target[s] = NoAvatar
    /\ life[s] = "unborn" => ~first[s]
    /\ target[s] # NoAvatar => player[s] = NoAvatar
    /\ life[s] = "deleted" => player[s] = NoAvatar /\ target[s] = NoAvatar

\* A Player is counted exactly as often as something will give it back: by the
\* sessions that control it, the map, the check list and ToReleaseCreatures.
One(condition) == IF condition THEN 1 ELSE 0
RefsExact ==
  \A a \in Avatar :
    refs[a] = Cardinality(Holders(a)) + One(status[a] = "online") + One(check[a] # "no")
                + toRelease[a]
PlayersLive == \A s \in Session : player[s] # NoAvatar => status[player[s]] # "free"
FreeIsUnused ==
  \A a \in Avatar :
    status[a] = "free" =>
      refs[a] = 0 /\ check[a] = "no" /\ toRelease[a] = 0 /\ client[a] = NoSession

\* While somebody connects to a player, his last client is gone or on its way
\* out, so that a connect() that fails on it came before that way was over.
ConnectComes ==
  \A a \in Avatar :
    status[a] = "online" /\ isConnecting[a] =>
      /\ overtaken[a] \/ \E s \in Session : target[s] = a
      /\ client[a] = NoSession \/ StillCloses(client[a])

IInv ==
  /\ TypeOK
  /\ Queue(tasks, life) /\ TasksFind /\ SessionsWell
  /\ RefsExact /\ PlayersLive /\ FreeIsUnused
  /\ ClientIsLive /\ OpenSessionIsClient
  /\ ConnectComes

-----------------------------------------------------------------------------
(* The queue of tasks: what taking the first one and closing do to it.      *)

OldOrClose ==
  \A i \in 1..Len(tasks') :
    tasks'[i].job = "close" \/ \E j \in 1..Len(tasks) : tasks[j] = tasks'[i]
LifeCloses ==
  \A r \in Session : life'[r] = life[r] \/ (life[r] = "open" /\ life'[r] = "closing")
QueueKept == Queue(tasks, life)' /\ OldOrClose /\ LifeCloses
RestOrClose ==
  \A i \in 1..Len(tasks') :
    tasks'[i].job = "close" \/ \E j \in 2..Len(tasks) : tasks[j] = tasks'[i]

\* What is queued is a task of a session.
LEMMA TaskIsTask ==
  ASSUME NEW ts \in Seq([job : Job, session : Session]), NEW i \in 1..Len(ts)
  PROVE  ts[i] \in [job : Job, session : Session] /\ ts[i].session \in Session
<1>1. ts[i] \in [job : Job, session : Session]
  BY ElementOfSeq
<1> QED BY <1>1

\* The rest of the queue is a queue, unless the task that left closes.
LEMMA QueueTail ==
  ASSUME NEW ts, NEW lf, Queue(ts, lf), ts # <<>>, Head(ts).job # "close"
  PROVE  /\ Queue(Tail(ts), lf)
         /\ Len(Tail(ts)) = Len(ts) - 1
         /\ \A i \in 1..Len(Tail(ts)) : i + 1 \in 1..Len(ts) /\ Tail(ts)[i] = ts[i + 1]
<1>1. /\ ts \in Seq([job : Job, session : Session])
      /\ Tail(ts) \in Seq([job : Job, session : Session])
      /\ Len(Tail(ts)) = Len(ts) - 1
      /\ Len(ts) \in Nat \ {0}
      /\ ts[1].job # "close"
  BY DEF Queue
<1>2. \A i \in 1..Len(Tail(ts)) : i + 1 \in 1..Len(ts) /\ Tail(ts)[i] = ts[i + 1]
  BY <1>1
<1>3. TaskOfLive(Tail(ts), lf)
  BY <1>1, <1>2 DEF Queue, TaskOfLive
<1>4. CloseQueued(Tail(ts), lf)
  <2>1. SUFFICES ASSUME NEW s \in Session, lf[s] = "closing"
                 PROVE  \E i \in 1..Len(Tail(ts)) : Tail(ts)[i] = Task("close", s)
    BY DEF CloseQueued
  <2>2. PICK i \in 1..Len(ts) : ts[i] = Task("close", s)
    BY <2>1 DEF Queue, CloseQueued
  <2>3. i # 1
    BY <1>1, <2>2 DEF Task
  <2>4. i - 1 \in 1..Len(Tail(ts)) /\ Tail(ts)[i - 1] = ts[i]
    BY <1>1, <1>2, <2>3
  <2> QED BY <2>2, <2>4
<1>5. TasksDiffer(Tail(ts))
  <2>1. SUFFICES ASSUME NEW i \in 1..Len(Tail(ts)), NEW j \in 1..Len(Tail(ts)), i # j
                 PROVE  /\ Tail(ts)[i] # Tail(ts)[j]
                        /\ ~(/\ Tail(ts)[i].session = Tail(ts)[j].session
                             /\ Tail(ts)[i].job \in FirstJobs /\ Tail(ts)[j].job \in FirstJobs)
    BY DEF TasksDiffer
  <2>2. i + 1 # j + 1
    BY <1>1, <2>1
  <2> QED BY <1>2, <2>2 DEF Queue, TasksDiffer
<1>6. CloseIsLast(Tail(ts))
  <2>1. SUFFICES ASSUME NEW i \in 1..Len(Tail(ts)), NEW j \in 1..Len(Tail(ts)),
                        Tail(ts)[i].job = "close", Tail(ts)[j].job # "connect",
                        Tail(ts)[i].session = Tail(ts)[j].session
                 PROVE  j <= i
    BY DEF CloseIsLast
  <2>2. j + 1 <= i + 1
    BY <1>2, <2>1 DEF Queue, CloseIsLast
  <2> QED BY <1>1, <2>2
<1> QED BY <1>1, <1>2, <1>3, <1>4, <1>5, <1>6 DEF Queue

\* Appending a task keeps the queue when the task may come last.
LEMMA QueueAppend ==
  ASSUME NEW ts, NEW lf, Queue(ts, lf), NEW job \in Job, NEW s \in Session,
         job # "connect" => lf[s] = "open",
         job # "close",
         \A i \in 1..Len(ts) : ts[i] # Task(job, s),
         job \in FirstJobs =>
           \A i \in 1..Len(ts) : ts[i].session = s => ts[i].job \notin FirstJobs
  PROVE  /\ Queue(Append(ts, Task(job, s)), lf)
         /\ Len(Append(ts, Task(job, s))) = Len(ts) + 1
         /\ \A i \in 1..Len(ts) : Append(ts, Task(job, s))[i] = ts[i]
         /\ Append(ts, Task(job, s))[Len(ts) + 1] = Task(job, s)
<1> DEFINE us == Append(ts, Task(job, s))
<1>1. Task(job, s) \in [job : Job, session : Session]
      /\ Task(job, s).job = job /\ Task(job, s).session = s
  BY DEF Task
<1>2. /\ ts \in Seq([job : Job, session : Session])
      /\ us \in Seq([job : Job, session : Session])
      /\ Len(us) = Len(ts) + 1 /\ Len(ts) \in Nat
      /\ \A i \in 1..Len(ts) : us[i] = ts[i]
      /\ us[Len(ts) + 1] = Task(job, s)
      /\ \A i \in 1..Len(us) : i \in 1..Len(ts) \/ i = Len(ts) + 1
      /\ 1..Len(ts) \subseteq 1..Len(us)
  BY <1>1 DEF Queue
<1> HIDE DEF us
<1>3. TaskOfLive(us, lf)
  BY <1>1, <1>2 DEF Queue, TaskOfLive
<1>4. CloseQueued(us, lf)
  BY <1>2 DEF Queue, CloseQueued
<1>5. TasksDiffer(us)
  <2>1. SUFFICES ASSUME NEW i \in 1..Len(us), NEW j \in 1..Len(us), i # j
                 PROVE  /\ us[i] # us[j]
                        /\ ~(/\ us[i].session = us[j].session
                             /\ us[i].job \in FirstJobs /\ us[j].job \in FirstJobs)
    BY DEF TasksDiffer
  <2>2. CASE i \in 1..Len(ts) /\ j \in 1..Len(ts)
    BY <1>2, <2>1, <2>2 DEF Queue, TasksDiffer
  <2>3. CASE i \in 1..Len(ts) /\ j = Len(ts) + 1
    BY <1>1, <1>2, <2>3
  <2>4. CASE i = Len(ts) + 1 /\ j \in 1..Len(ts)
    BY <1>1, <1>2, <2>4
  <2> QED BY <1>2, <2>1, <2>2, <2>3, <2>4
<1>6. CloseIsLast(us)
  <2>1. SUFFICES ASSUME NEW i \in 1..Len(us), NEW j \in 1..Len(us), us[i].job = "close",
                        us[j].job # "connect", us[i].session = us[j].session
                 PROVE  j <= i
    BY DEF CloseIsLast
  <2>2. i \in 1..Len(ts) /\ us[i] = ts[i]
    BY <1>1, <1>2, <2>1
  <2>3. CASE j \in 1..Len(ts)
    BY <1>2, <2>1, <2>2, <2>3 DEF Queue, CloseIsLast
  <2>4. CASE j = Len(ts) + 1
    <3>1. lf[s] = "closing"
      BY <1>1, <1>2, <2>1, <2>2, <2>4 DEF Queue, TaskOfLive
    <3> QED BY <1>1, <1>2, <2>1, <2>4, <3>1
  <2> QED BY <1>2, <2>3, <2>4
<1> QED BY <1>2, <1>3, <1>4, <1>5, <1>6 DEF Queue, us

\* close() of a session that is open brings one close task, the last of it.
LEMMA QueueClose ==
  ASSUME NEW ts, Queue(ts, life), NEW s \in Session \cup {NoSession}, Close(s, ts)
  PROVE  /\ Queue(tasks, life)' /\ LifeCloses
         /\ Len(ts) \in Nat /\ Len(ts) <= Len(tasks')
         /\ \A i \in 1..Len(ts) : tasks'[i] = ts[i]
         /\ \A i \in 1..Len(tasks') : i \in 1..Len(ts) \/ tasks'[i].job = "close"
<1>0. /\ ts \in Seq([job : Job, session : Session]) /\ Len(ts) \in Nat
      /\ \A i \in 1..Len(ts) : ts[i].session \in Session
  <2>1. ts \in Seq([job : Job, session : Session])
    BY DEF Queue
  <2>2. Len(ts) \in Nat
    BY <2>1
  <2>3. \A i \in 1..Len(ts) : ts[i].session \in Session
    BY <2>1, TaskIsTask
  <2> QED BY <2>1, <2>2, <2>3
<1>1. CASE ~(s # NoSession /\ life[s] = "open")
  BY <1>0, <1>1 DEF Close, LifeCloses
<1>2. CASE s # NoSession /\ life[s] = "open"
  <2> DEFINE t == Task("close", s)
  <2>1. /\ s \in Session
        /\ life' = [life EXCEPT ![s] = "closing"] /\ tasks' = Append(ts, t)
    BY <1>2 DEF Close
  <2>2. t \in [job : Job, session : Session] /\ t.job = "close" /\ t.session = s
    BY <2>1 DEF Task, Job
  <2>3. /\ tasks' \in Seq([job : Job, session : Session])
        /\ Len(tasks') = Len(ts) + 1
        /\ \A i \in 1..Len(ts) : tasks'[i] = ts[i]
        /\ tasks'[Len(ts) + 1] = t
        /\ \A i \in 1..Len(tasks') : i \in 1..Len(ts) \/ i = Len(ts) + 1
        /\ 1..Len(ts) \subseteq 1..Len(tasks')
        /\ Len(ts) + 1 \in 1..Len(tasks')
    <3> HIDE DEF t
    <3> QED BY <1>0, <2>1, <2>2
  <2>4. /\ life' \in [Session -> {"unborn", "open", "closing", "released", "deleted"}]
        /\ life'[s] = "closing" /\ \A r \in Session \ {s} : life'[r] = life[r]
    BY <2>1 DEF Queue
  <2>5. \A i \in 1..Len(ts) : ts[i].session = s => ts[i].job # "close"
    BY <1>2 DEF Queue, TaskOfLive
  <2>6. TaskOfLive(tasks, life)'
    <3>1. SUFFICES ASSUME NEW i \in 1..Len(tasks')
                   PROVE  /\ tasks'[i].job # "connect" =>
                               life'[tasks'[i].session] \in {"open", "closing"}
                          /\ tasks'[i].job = "close" => life'[tasks'[i].session] = "closing"
      BY DEF TaskOfLive
    <3>2. CASE i \in 1..Len(ts)
      <4>1. tasks'[i] = ts[i] /\ ts[i].session \in Session
        BY <1>0, <2>3, <3>2
      <4>2. CASE ts[i].session = s
        BY <2>4, <4>1, <4>2
      <4>3. CASE ts[i].session # s
        BY <2>4, <3>2, <4>1, <4>3 DEF Queue, TaskOfLive
      <4> QED BY <4>2, <4>3
    <3>3. CASE i = Len(ts) + 1
      BY <2>2, <2>3, <2>4, <3>3
    <3> QED BY <2>3, <3>2, <3>3
  <2>7. CloseQueued(tasks, life)'
    <3>1. SUFFICES ASSUME NEW r \in Session, life'[r] = "closing"
                   PROVE  \E i \in 1..Len(tasks') : tasks'[i] = Task("close", r)
      BY DEF CloseQueued
    <3>2. CASE r = s
      BY <2>3, <3>2
    <3>3. CASE r # s
      BY <2>3, <2>4, <3>1, <3>3 DEF Queue, CloseQueued
    <3> QED BY <3>2, <3>3
  <2>8. TasksDiffer(tasks)'
    <3>1. SUFFICES ASSUME NEW i \in 1..Len(tasks'), NEW j \in 1..Len(tasks'), i # j
                   PROVE  /\ tasks'[i] # tasks'[j]
                          /\ ~(/\ tasks'[i].session = tasks'[j].session
                               /\ tasks'[i].job \in FirstJobs /\ tasks'[j].job \in FirstJobs)
      BY DEF TasksDiffer
    <3>2. CASE i \in 1..Len(ts) /\ j \in 1..Len(ts)
      BY <2>3, <3>1, <3>2 DEF Queue, TasksDiffer
    <3>3. CASE i \in 1..Len(ts) /\ j = Len(ts) + 1
      BY <2>2, <2>3, <2>5, <3>3 DEF FirstJobs
    <3>4. CASE i = Len(ts) + 1 /\ j \in 1..Len(ts)
      BY <2>2, <2>3, <2>5, <3>4 DEF FirstJobs
    <3> QED BY <2>3, <3>1, <3>2, <3>3, <3>4
  <2>9. CloseIsLast(tasks)'
    <3>1. SUFFICES ASSUME NEW i \in 1..Len(tasks'), NEW j \in 1..Len(tasks'),
                          tasks'[i].job = "close", tasks'[j].job # "connect",
                          tasks'[i].session = tasks'[j].session
                   PROVE  j <= i
      BY DEF CloseIsLast
    <3>2. CASE i \in 1..Len(ts) /\ j \in 1..Len(ts)
      BY <2>3, <3>1, <3>2 DEF Queue, CloseIsLast
    <3>3. CASE i \in 1..Len(ts) /\ j = Len(ts) + 1
      BY <2>2, <2>3, <2>5, <3>1, <3>3
    <3>4. CASE i = Len(ts) + 1
      BY <1>0, <2>3, <3>4
    <3> QED BY <2>3, <3>2, <3>3, <3>4
  <2>10. LifeCloses
    BY <1>2, <2>1, <2>4 DEF LifeCloses
  <2> QED BY <1>0, <2>2, <2>3, <2>4, <2>6, <2>7, <2>8, <2>9, <2>10 DEF Queue
<1> QED BY <1>1, <1>2

\* A step that takes no task, but may close a session.
LEMMA CloseStep ==
  ASSUME Queue(tasks, life), NEW s \in Session \cup {NoSession}, Close(s, tasks)
  PROVE  QueueKept
<1>1. /\ Queue(tasks, life)' /\ LifeCloses
      /\ Len(tasks) \in Nat /\ Len(tasks) <= Len(tasks')
      /\ \A i \in 1..Len(tasks) : tasks'[i] = tasks[i]
      /\ \A i \in 1..Len(tasks') : i \in 1..Len(tasks) \/ tasks'[i].job = "close"
  BY QueueClose
<1>2. OldOrClose
  BY <1>1 DEF OldOrClose
<1> QED BY <1>1, <1>2 DEF QueueKept

\* A step that runs the first task, which may close a session.
LEMMA TaskStep ==
  ASSUME Queue(tasks, life), tasks # <<>>, Head(tasks).job # "close",
         \E s \in Session \cup {NoSession} : Close(s, Tail(tasks))
  PROVE  QueueKept /\ RestOrClose
<1>1. /\ Queue(Tail(tasks), life)
      /\ Len(Tail(tasks)) = Len(tasks) - 1
      /\ \A i \in 1..Len(Tail(tasks)) : i + 1 \in 1..Len(tasks) /\ Tail(tasks)[i] = tasks[i + 1]
  BY QueueTail
<1>2. /\ Queue(tasks, life)' /\ LifeCloses
      /\ Len(Tail(tasks)) \in Nat /\ Len(Tail(tasks)) <= Len(tasks')
      /\ \A i \in 1..Len(Tail(tasks)) : tasks'[i] = Tail(tasks)[i]
      /\ \A i \in 1..Len(tasks') : i \in 1..Len(Tail(tasks)) \/ tasks'[i].job = "close"
  BY <1>1, QueueClose
<1>3. RestOrClose
  <2>1. \A i \in 1..Len(Tail(tasks)) : i + 1 \in 2..Len(tasks)
    BY <1>1, <1>2
  <2> QED BY <1>1, <1>2, <2>1 DEF RestOrClose
<1>4. OldOrClose
  BY <1>1, <1>2 DEF OldOrClose
<1> QED BY <1>2, <1>3, <1>4 DEF QueueKept

-----------------------------------------------------------------------------
(* What such a step leaves as it was.                                       *)

\* The tasks that stay find their sessions if the sessions stay attached.
LEMMA TasksStillFind ==
  ASSUME TasksFind, OldOrClose, UNCHANGED <<target, timers, first, player>>
  PROVE  TasksFind'
BY DEF TasksFind, OldOrClose, TaskFinds, FirstJobs

\* What is known of a session outlives its closing.
LEMMA SessionsStillWell ==
  ASSUME SessionsWell, LifeCloses, UNCHANGED <<target, timers, first, player>>
  PROVE  SessionsWell'
BY DEF SessionsWell, LifeCloses

\* Nobody starts to connect or loses the one who comes for him.
LEMMA ConnectStillComes ==
  ASSUME TypeOK, ConnectComes, LifeCloses, UNCHANGED <<target, client, overtaken>>,
         \A a \in Avatar : status'[a] = "online" /\ isConnecting'[a]
                             => status[a] = "online" /\ isConnecting[a]
  PROVE  ConnectComes'
<1>1. SUFFICES ASSUME NEW a \in Avatar, status[a] = "online", isConnecting[a]
               PROVE  /\ overtaken[a] \/ \E s \in Session : target[s] = a
                      /\ client[a] = NoSession \/ StillCloses(client[a])'
  BY DEF ConnectComes
<1>2. /\ overtaken[a] \/ \E s \in Session : target[s] = a
      /\ client[a] = NoSession \/ StillCloses(client[a])
  BY <1>1 DEF ConnectComes
<1>3. client[a] = NoSession \/ client[a] \in Session
  BY DEF TypeOK
<1> QED BY <1>2, <1>3 DEF StillCloses, LifeCloses

\* The clients are as they were, and no session was opened or deleted.
LEMMA ClientsStay ==
  ASSUME TypeOK, ClientIsLive, OpenSessionIsClient, LifeCloses, UNCHANGED <<client, player>>
  PROVE  ClientIsLive' /\ OpenSessionIsClient'
<1>1. \A a \in Avatar : client[a] # NoSession => client[a] \in Session
  BY DEF TypeOK
<1> QED BY <1>1 DEF ClientIsLive, OpenSessionIsClient, LifeCloses, TypeOK

\* Who shows a player is a matter of the sessions alone.
LEMMA HoldersStay ==
  ASSUME UNCHANGED player
  PROVE  \A a \in Avatar : Holders(a)' = Holders(a)
BY DEF Holders

\* A player is shown by finitely many sessions.
LEMMA HoldersFinite ==
  ASSUME NEW a
  PROVE  IsFiniteSet(Holders(a)) /\ Cardinality(Holders(a)) \in Nat
BY SessionAssumption, FS_Subset, FS_CardinalityType DEF Holders

\* A session takes hold of a Player, or lets him go.
LEMMA HolderComes ==
  ASSUME TypeOK, NEW s \in Session, NEW a \in Avatar, player[s] = NoAvatar,
         player' = [player EXCEPT ![s] = a]
  PROVE  /\ Cardinality(Holders(a)') = Cardinality(Holders(a)) + 1
         /\ \A b \in Avatar \ {a} : Holders(b)' = Holders(b)
<1>1. Holders(a)' = Holders(a) \cup {s} /\ s \notin Holders(a)
  BY SessionAssumption DEF Holders, TypeOK
<1>2. \A b \in Avatar \ {a} : Holders(b)' = Holders(b)
  BY SessionAssumption DEF Holders, TypeOK
<1>3. IsFiniteSet(Holders(a))
  BY HoldersFinite
<1>4. Cardinality(Holders(a) \cup {s}) = Cardinality(Holders(a)) + 1
  BY <1>1, <1>3, FS_AddElement
<1> QED BY <1>1, <1>2, <1>4

\* A session that lets its player go is one holder less.
LEMMA HolderGoes ==
  ASSUME TypeOK, NEW s \in Session, NEW a \in Avatar, player[s] = a,
         player' = [player EXCEPT ![s] = NoAvatar]
  PROVE  /\ Cardinality(Holders(a)') = Cardinality(Holders(a)) - 1
         /\ \A b \in Avatar \ {a} : Holders(b)' = Holders(b)
<1>1. Holders(a)' = Holders(a) \ {s} /\ s \in Holders(a)
  BY SessionAssumption DEF Holders, TypeOK
<1>2. \A b \in Avatar \ {a} : Holders(b)' = Holders(b)
  BY SessionAssumption DEF Holders, TypeOK
<1>3. IsFiniteSet(Holders(a))
  BY HoldersFinite
<1>4. Cardinality(Holders(a) \ {s}) = Cardinality(Holders(a)) - 1
  BY <1>1, <1>3, FS_RemoveElement
<1> QED BY <1>1, <1>2, <1>4

\* A step that leaves the sessions and the clients alone, whatever it closes.
LEMMA SessionsQuiet ==
  ASSUME IInv, QueueKept, UNCHANGED <<sessionVars, client, overtaken>>,
         \A a \in Avatar : status'[a] = "online" /\ isConnecting'[a]
                             => status[a] = "online" /\ isConnecting[a]
  PROVE  /\ Queue(tasks, life)' /\ TasksFind' /\ SessionsWell'
         /\ ClientIsLive' /\ OpenSessionIsClient' /\ ConnectComes'
<1>1. UNCHANGED <<first, accepts, player, target, timers, client, overtaken>>
  BY DEF sessionVars
<1>2. Queue(tasks, life)' /\ OldOrClose /\ LifeCloses
  BY DEF QueueKept
<1>3. TasksFind'
  BY <1>1, <1>2, TasksStillFind DEF IInv
<1>4. SessionsWell'
  BY <1>1, <1>2, SessionsStillWell DEF IInv
<1>5. ClientIsLive' /\ OpenSessionIsClient'
  BY <1>1, <1>2, ClientsStay DEF IInv
<1>6. ConnectComes'
  BY <1>1, <1>2, ConnectStillComes DEF IInv
<1> QED BY <1>2, <1>3, <1>4, <1>5, <1>6

\* removeCreature moves references about and gives none back.
LEMMA RemoveKeeps ==
  ASSUME TypeOK, RefsExact, PlayersLive, FreeIsUnused, NEW a \in Avatar, Remove(a),
         UNCHANGED <<player, client, refs>>
  PROVE  /\ status' \in [Avatar -> {"free", "made", "online", "removed"}]
         /\ check' \in [Avatar -> {"no", "yes", "leaving"}]
         /\ toRelease' \in [Avatar -> Nat]
         /\ \A b \in Avatar : status'[b] = "online" => status[b] = "online"
         /\ RefsExact' /\ PlayersLive' /\ FreeIsUnused'
<1>0. /\ status \in [Avatar -> {"free", "made", "online", "removed"}]
      /\ check \in [Avatar -> {"no", "yes", "leaving"}]
      /\ toRelease \in [Avatar -> Nat] /\ refs \in [Avatar -> Nat]
      /\ player \in [Session -> Avatar \cup {NoAvatar}]
  BY DEF TypeOK
<1>1. \A b \in Avatar : Holders(b)' = Holders(b) /\ Cardinality(Holders(b)) \in Nat
  BY HoldersStay, HoldersFinite
<1>2. CASE status[a] # "online"
  <2>1. UNCHANGED <<status, toRelease, check>>
    BY <1>2 DEF Remove
  <2>2. RefsExact'
    BY <1>1, <2>1 DEF RefsExact
  <2> QED BY <1>0, <2>1, <2>2 DEF PlayersLive, FreeIsUnused
<1>3. CASE status[a] = "online"
  <2>1. /\ status' = [status EXCEPT ![a] = "removed"]
        /\ toRelease' = [toRelease EXCEPT ![a] = @ + 1]
        /\ check' = [check EXCEPT ![a] = IF @ = "yes" THEN "leaving" ELSE @]
    BY <1>3 DEF Remove
  <2>2. /\ status'[a] = "removed" /\ toRelease'[a] = toRelease[a] + 1
        /\ (check'[a] # "no") <=> (check[a] # "no")
        /\ \A b \in Avatar \ {a} : /\ status'[b] = status[b] /\ check'[b] = check[b]
                                   /\ toRelease'[b] = toRelease[b]
    BY <1>0, <2>1
  <2>3. RefsExact'
    <3>1. SUFFICES ASSUME NEW b \in Avatar
                   PROVE  refs[b] = Cardinality(Holders(b)) + One(status'[b] = "online")
                                      + One(check'[b] # "no") + toRelease'[b]
      BY <1>1 DEF RefsExact
    <3>2. refs[b] = Cardinality(Holders(b)) + One(status[b] = "online")
                      + One(check[b] # "no") + toRelease[b]
      BY DEF RefsExact
    <3>3. CASE b # a
      BY <2>2, <3>2, <3>3
    <3>4. CASE b = a
      <4>1. One(check'[a] # "no") = One(check[a] # "no")
        BY <2>2 DEF One
      <4>2. One(status[a] = "online") = 1 /\ One(status'[a] = "online") = 0
        BY <1>3, <2>2 DEF One
      <4>3. One(check[a] # "no") \in Nat /\ toRelease[a] \in Nat
        BY <1>0 DEF One
      <4> QED BY <1>1, <2>2, <3>2, <3>4, <4>1, <4>2, <4>3
    <3> QED BY <3>3, <3>4
  <2>4. /\ status' \in [Avatar -> {"free", "made", "online", "removed"}]
        /\ check' \in [Avatar -> {"no", "yes", "leaving"}]
        /\ toRelease' \in [Avatar -> Nat]
    BY <1>0, <2>1
  <2> QED BY <1>0, <1>3, <2>2, <2>3, <2>4 DEF PlayersLive, FreeIsUnused
<1> QED BY <1>2, <1>3

\* The references stay exact when nothing they count changes.
LEMMA RefsStay ==
  ASSUME RefsExact, PlayersLive, FreeIsUnused,
         UNCHANGED <<player, status, client, refs, check, toRelease>>
  PROVE  RefsExact' /\ PlayersLive' /\ FreeIsUnused'
<1>1. RefsExact'
  BY HoldersStay DEF RefsExact
<1> QED BY <1>1 DEF PlayersLive, FreeIsUnused

-----------------------------------------------------------------------------
(* The steps that touch neither the sessions nor the clients.               *)

\* A queue in order has its type.
LEMMA QueueTypes ==
  ASSUME Queue(tasks, life)
  PROVE  /\ tasks \in Seq([job : Job, session : Session])
         /\ life \in [Session -> {"unborn", "open", "closing", "released", "deleted"}]
BY DEF Queue

\* A connection is lost or dropped: its session closes.
LEMMA DropStep ==
  ASSUME IInv, NEW s \in Session, Drop(s)
  PROVE  IInv'
<1>1. Close(s, tasks) /\ UNCHANGED <<sessionVars, avatarVars>>
  BY DEF Drop
<1>2. UNCHANGED <<first, accepts, player, target, timers,
                  status, client, isConnecting, overtaken, refs, check, toRelease>>
  BY <1>1 DEF sessionVars, avatarVars
<1>3. QueueKept
  BY <1>1, CloseStep DEF IInv
<1>4. /\ Queue(tasks, life)' /\ TasksFind' /\ SessionsWell'
      /\ ClientIsLive' /\ OpenSessionIsClient' /\ ConnectComes'
  BY <1>1, <1>2, <1>3, SessionsQuiet
<1>5. RefsExact' /\ PlayersLive' /\ FreeIsUnused'
  BY <1>2, RefsStay DEF IInv
<1>6. TypeOK'
  BY <1>2, <1>4, QueueTypes DEF IInv, TypeOK, Queue
<1> QED BY <1>4, <1>5, <1>6 DEF IInv

\* The first message is refused: the session closes.
LEMMA RefuseStep ==
  ASSUME IInv, NEW s \in Session, Refuse(s)
  PROVE  IInv'
<1>1. /\ tasks # <<>> /\ Head(tasks).job # "close" /\ Close(s, Tail(tasks))
      /\ UNCHANGED <<sessionVars, avatarVars>>
  BY DEF Refuse, Runs, Task
<1>2. UNCHANGED <<first, accepts, player, target, timers,
                  status, client, isConnecting, overtaken, refs, check, toRelease>>
  BY <1>1 DEF sessionVars, avatarVars
<1>3. QueueKept
  BY <1>1, TaskStep DEF IInv
<1>4. /\ Queue(tasks, life)' /\ TasksFind' /\ SessionsWell'
      /\ ClientIsLive' /\ OpenSessionIsClient' /\ ConnectComes'
  BY <1>1, <1>2, <1>3, SessionsQuiet
<1>5. RefsExact' /\ PlayersLive' /\ FreeIsUnused'
  BY <1>2, RefsStay DEF IInv
<1>6. TypeOK'
  BY <1>2, <1>4 DEF IInv, TypeOK, Queue
<1> QED BY <1>4, <1>5, <1>6 DEF IInv

\* The steps that remove a creature: Kick, LostConnection, Die and Logout.
LEMMA RemoveStep ==
  ASSUME IInv, QueueKept, NEW a \in Avatar, Remove(a),
         UNCHANGED <<sessionVars, client, isConnecting, overtaken, refs>>
  PROVE  IInv'
<1>1. UNCHANGED <<first, accepts, player, target, timers,
                  client, isConnecting, overtaken, refs>>
  BY DEF sessionVars
<1>2. /\ status' \in [Avatar -> {"free", "made", "online", "removed"}]
      /\ check' \in [Avatar -> {"no", "yes", "leaving"}]
      /\ toRelease' \in [Avatar -> Nat]
      /\ \A b \in Avatar : status'[b] = "online" => status[b] = "online"
      /\ RefsExact' /\ PlayersLive' /\ FreeIsUnused'
  BY <1>1, RemoveKeeps DEF IInv
<1>3. \A b \in Avatar : status'[b] = "online" /\ isConnecting'[b]
                          => status[b] = "online" /\ isConnecting[b]
  BY <1>1, <1>2
<1>4. /\ Queue(tasks, life)' /\ TasksFind' /\ SessionsWell'
      /\ ClientIsLive' /\ OpenSessionIsClient' /\ ConnectComes'
  BY <1>1, <1>3, SessionsQuiet
<1>5. TypeOK'
  BY <1>1, <1>2, <1>4 DEF IInv, TypeOK, Queue
<1> QED BY <1>2, <1>4, <1>5 DEF IInv

\* A player is kicked.
LEMMA KickStep ==
  ASSUME IInv, NEW a \in Avatar, Kick(a)
  PROVE  IInv'
<1>1. client[a] \in Session \cup {NoSession}
  BY DEF IInv, TypeOK
<1>2. Close(client[a], tasks) /\ Remove(a) /\ UNCHANGED <<sessionVars, client, isConnecting, overtaken, refs>>
  BY DEF Kick
<1>3. QueueKept
  BY <1>1, <1>2, CloseStep DEF IInv
<1> QED BY <1>2, <1>3, RemoveStep

\* A player dies.
LEMMA DieStep ==
  ASSUME IInv, NEW a \in Avatar, Die(a)
  PROVE  IInv'
<1>1. Close(NoSession, tasks) /\ Remove(a) /\ UNCHANGED <<sessionVars, client, isConnecting, overtaken, refs>>
  BY DEF Die, netVars, Close
<1>2. QueueKept
  BY <1>1, CloseStep DEF IInv
<1> QED BY <1>1, <1>2, RemoveStep

\* A player logs out, if he may.
LEMMA LogoutStep ==
  ASSUME IInv, NEW s \in Session, NEW allowed \in BOOLEAN, Logout(s, allowed)
  PROVE  IInv'
<1>1. /\ tasks # <<>> /\ Head(tasks).job # "close"
      /\ UNCHANGED <<sessionVars, client, isConnecting, overtaken, refs>>
  BY DEF Logout, Runs, Task
<1>2. CASE player[s] = NoAvatar \/ (status[player[s]] = "online" /\ ~allowed)
  <2>1. Close(NoSession, Tail(tasks)) /\ UNCHANGED <<status, toRelease, check>>
    BY <1>2 DEF Logout, Close
  <2>2. QueueKept
    BY <1>1, <2>1, TaskStep DEF IInv
  <2>3. UNCHANGED <<first, accepts, player, target, timers,
                    status, client, isConnecting, overtaken, refs, check, toRelease>>
    BY <1>1, <2>1 DEF sessionVars
  <2>4. /\ Queue(tasks, life)' /\ TasksFind' /\ SessionsWell'
        /\ ClientIsLive' /\ OpenSessionIsClient' /\ ConnectComes'
    BY <1>1, <2>2, <2>3, SessionsQuiet
  <2>5. RefsExact' /\ PlayersLive' /\ FreeIsUnused'
    BY <2>3, RefsStay DEF IInv
  <2>6. TypeOK'
    BY <2>3, <2>4 DEF IInv, TypeOK, Queue
  <2> QED BY <2>4, <2>5, <2>6 DEF IInv
<1>3. CASE ~(player[s] = NoAvatar \/ (status[player[s]] = "online" /\ ~allowed))
  <2>1. player[s] \in Avatar /\ Close(s, Tail(tasks)) /\ Remove(player[s])
    BY <1>3 DEF Logout, IInv, TypeOK
  <2>2. QueueKept
    BY <1>1, <2>1, TaskStep DEF IInv
  <2> QED BY <1>1, <2>1, <2>2, RemoveStep
<1> QED BY <1>2, <1>3

-----------------------------------------------------------------------------
(* The network thread and the scheduler.                                    *)

\* A new connection: a session that nothing is queued for.
LEMMA AcceptStep ==
  ASSUME IInv, NEW s \in Session, Accept(s)
  PROVE  IInv'
<1>1. /\ life[s] = "unborn" /\ life' = [life EXCEPT ![s] = "open"]
      /\ UNCHANGED <<tasks, first, accepts, player, target, timers,
                     status, client, isConnecting, overtaken, refs, check, toRelease>>
  BY DEF Accept, sessionVars, avatarVars
<1>2. /\ tasks \in Seq([job : Job, session : Session])
      /\ life \in [Session -> {"unborn", "open", "closing", "released", "deleted"}]
      /\ TaskOfLive(tasks, life) /\ CloseQueued(tasks, life) /\ TasksDiffer(tasks)
      /\ CloseIsLast(tasks)
      /\ TasksFind /\ SessionsWell
  BY DEF IInv, Queue
<1>3. /\ life'[s] = "open" /\ \A r \in Session \ {s} : life'[r] = life[r]
      /\ life' \in [Session -> {"unborn", "open", "closing", "released", "deleted"}]
  BY <1>1, <1>2
<1>4. TaskOfLive(tasks, life)'
  <2>1. SUFFICES ASSUME NEW i \in 1..Len(tasks)
                 PROVE  /\ tasks[i].job # "connect" =>
                             life'[tasks[i].session] \in {"open", "closing"}
                        /\ tasks[i].job = "close" => life'[tasks[i].session] = "closing"
    BY <1>1 DEF TaskOfLive
  <2>2. /\ tasks[i].job # "connect" => life[tasks[i].session] \in {"open", "closing"}
        /\ tasks[i].job = "close" => life[tasks[i].session] = "closing"
    BY <1>2 DEF TaskOfLive
  <2> QED BY <1>1, <1>2, <2>2
<1>5. CloseQueued(tasks, life)'
  BY <1>1, <1>2, <1>3 DEF CloseQueued
<1>6. Queue(tasks, life)'
  BY <1>1, <1>2, <1>3, <1>4, <1>5 DEF Queue
<1>7. TasksFind' /\ SessionsWell'
  BY <1>1, <1>2, <1>3 DEF TasksFind, TaskFinds, SessionsWell
<1>8. RefsExact' /\ PlayersLive' /\ FreeIsUnused'
  BY <1>1, RefsStay DEF IInv
<1>9. player[s] = NoAvatar
  BY <1>1, <1>2 DEF SessionsWell
<1>10. ClientIsLive' /\ OpenSessionIsClient'
  BY <1>1, <1>3, <1>9 DEF IInv, ClientIsLive, OpenSessionIsClient, TypeOK
<1>11. ConnectComes'
  <2>1. SUFFICES ASSUME NEW b \in Avatar, status[b] = "online", isConnecting[b]
                 PROVE  /\ overtaken[b] \/ \E r \in Session : target[r] = b
                        /\ client[b] = NoSession \/ StillCloses(client[b])'
    BY <1>1 DEF ConnectComes
  <2>2. /\ overtaken[b] \/ \E r \in Session : target[r] = b
        /\ client[b] = NoSession \/ StillCloses(client[b])
    BY <2>1 DEF IInv, ConnectComes
  <2>3. client[b] = NoSession \/ (client[b] \in Session /\ player[client[b]] = b)
    BY DEF IInv, TypeOK, ClientIsLive
  <2>4. client[b] = NoSession \/ client[b] \in Session \ {s}
    BY <1>9, <2>3, SessionAssumption
  <2> QED BY <1>1, <1>3, <2>2, <2>4 DEF StillCloses
<1>12. TypeOK'
  BY <1>1, <1>3 DEF IInv, TypeOK
<1> QED BY <1>6, <1>7, <1>8, <1>10, <1>11, <1>12 DEF IInv

\* A task that is not connect() joins the queue.
LEMMA AppendStep ==
  ASSUME Queue(tasks, life), NEW job \in Job \ {"close", "connect"}, NEW s \in Session,
         life[s] = "open",
         \A i \in 1..Len(tasks) : tasks[i] # Task(job, s),
         job \in FirstJobs =>
           \A i \in 1..Len(tasks) : tasks[i].session = s => tasks[i].job \notin FirstJobs,
         tasks' = Append(tasks, Task(job, s)), life' = life
  PROVE  /\ Queue(tasks, life)' /\ LifeCloses
         /\ \A i \in 1..Len(tasks') :
              tasks'[i] = Task(job, s) \/ \E j \in 1..Len(tasks) : tasks[j] = tasks'[i]
<1>1. /\ Queue(tasks, life)'
      /\ Len(tasks') = Len(tasks) + 1
      /\ \A i \in 1..Len(tasks) : tasks'[i] = tasks[i]
      /\ tasks'[Len(tasks) + 1] = Task(job, s)
  BY QueueAppend
<1>2. /\ Len(tasks) \in Nat /\ 1..Len(tasks) \subseteq 1..Len(tasks')
      /\ \A i \in 1..Len(tasks') : i \in 1..Len(tasks) \/ i = Len(tasks) + 1
  BY <1>1 DEF Queue
<1>3. LifeCloses
  BY DEF LifeCloses
<1> QED BY <1>1, <1>2, <1>3

\* The first packet queues the login.
LEMMA FirstMessageStep ==
  ASSUME IInv, NEW s \in Session, NEW job \in {"login", "refuse"}, FirstMessage(s, job)
  PROVE  IInv'
<1>1. /\ life[s] = "open" /\ ~first[s]
      /\ first' = [first EXCEPT ![s] = TRUE]
      /\ tasks' = Append(tasks, Task(job, s))
      /\ UNCHANGED <<life, accepts, player, target, timers,
                     status, client, isConnecting, overtaken, refs, check, toRelease>>
  BY DEF FirstMessage, avatarVars
<1>2. /\ Queue(tasks, life) /\ TasksFind /\ SessionsWell /\ first \in [Session -> BOOLEAN]
      /\ tasks \in Seq([job : Job, session : Session])
  BY DEF IInv, TypeOK, Queue
<1>3. \A i \in 1..Len(tasks) : tasks[i].session = s => tasks[i].job \notin FirstJobs
  BY <1>1, <1>2 DEF TasksFind, TaskFinds
<1>4. \A i \in 1..Len(tasks) : tasks[i] # Task(job, s)
  BY <1>3 DEF Task, FirstJobs
<1>5. job \in Job \ {"close", "connect"}
  BY DEF Job
<1>6. /\ Queue(tasks, life)' /\ LifeCloses
      /\ \A i \in 1..Len(tasks') :
           tasks'[i] = Task(job, s) \/ \E j \in 1..Len(tasks) : tasks[j] = tasks'[i]
  BY <1>1, <1>2, <1>3, <1>4, <1>5, AppendStep
<1>7. first'[s] /\ \A r \in Session : first[r] => first'[r]
  BY <1>1, <1>2
<1>8. player[s] = NoAvatar /\ target[s] = NoAvatar
  BY <1>1, <1>2 DEF SessionsWell
<1>9. TasksFind'
  <2>1. SUFFICES ASSUME NEW i \in 1..Len(tasks')
                 PROVE  TaskFinds(tasks[i])'
    BY DEF TasksFind
  <2>2. CASE tasks'[i] = Task(job, s)
    BY <1>1, <1>7, <1>8, <2>2 DEF TaskFinds, Task
  <2>3. CASE \E j \in 1..Len(tasks) : tasks[j] = tasks'[i]
    <3>1. PICK j \in 1..Len(tasks) : tasks[j] = tasks'[i]
      BY <2>3
    <3>2. TaskFinds(tasks[j]) /\ tasks[j].session \in Session
      BY <1>2, TaskIsTask DEF TasksFind
    <3> QED BY <1>1, <1>7, <3>1, <3>2 DEF TaskFinds
  <2> QED BY <1>6, <2>2, <2>3
<1>10. SessionsWell'
  BY <1>1, <1>2, <1>7 DEF SessionsWell
<1>11. ClientIsLive' /\ OpenSessionIsClient'
  BY <1>1, <1>6, ClientsStay DEF IInv
<1>12. ConnectComes'
  BY <1>1, <1>6, ConnectStillComes DEF IInv
<1>13. RefsExact' /\ PlayersLive' /\ FreeIsUnused'
  BY <1>1, RefsStay DEF IInv
<1>14. TypeOK'
  BY <1>1, <1>6 DEF IInv, TypeOK, Queue
<1> QED BY <1>6, <1>9, <1>10, <1>11, <1>12, <1>13, <1>14 DEF IInv

\* The packet to log out queues its task.
LEMMA LogoutPacketStep ==
  ASSUME IInv, NEW s \in Session, LogoutPacket(s)
  PROVE  IInv'
<1>1. /\ life[s] = "open" /\ \A i \in DOMAIN tasks : tasks[i] # Task("logout", s)
      /\ tasks' = Append(tasks, Task("logout", s))
      /\ UNCHANGED <<life, first, accepts, player, target, timers,
                     status, client, isConnecting, overtaken, refs, check, toRelease>>
  BY DEF LogoutPacket, sessionVars, avatarVars
<1>2. /\ Queue(tasks, life) /\ TasksFind /\ SessionsWell
      /\ DOMAIN tasks = 1..Len(tasks)
  BY DEF IInv, Queue
<1>3. "logout" \in Job \ {"close", "connect"} /\ "logout" \notin FirstJobs
  BY DEF Job, FirstJobs
<1>4. /\ Queue(tasks, life)' /\ LifeCloses
      /\ \A i \in 1..Len(tasks') :
           tasks'[i] = Task("logout", s) \/ \E j \in 1..Len(tasks) : tasks[j] = tasks'[i]
  BY <1>1, <1>2, <1>3, AppendStep
<1>5. TasksFind'
  BY <1>1, <1>2, <1>4 DEF TasksFind, TaskFinds, Task, FirstJobs
<1>6. SessionsWell'
  BY <1>1, <1>2 DEF SessionsWell
<1>7. ClientIsLive' /\ OpenSessionIsClient'
  BY <1>1, <1>4, ClientsStay DEF IInv
<1>8. ConnectComes'
  BY <1>1, <1>4, ConnectStillComes DEF IInv
<1>9. RefsExact' /\ PlayersLive' /\ FreeIsUnused'
  BY <1>1, RefsStay DEF IInv
<1>10. TypeOK'
  BY <1>1, <1>4 DEF IInv, TypeOK, Queue
<1> QED BY <1>4, <1>5, <1>6, <1>7, <1>8, <1>9, <1>10 DEF IInv

\* A connect() in front of the queue keeps it in order.
LEMMA QueueFront ==
  ASSUME Queue(tasks, life), NEW s \in Session, tasks' = <<Task("connect", s)>> \o tasks,
         life' = life, \A i \in 1..Len(tasks) : tasks[i] # Task("connect", s)
  PROVE  /\ Queue(tasks, life)'
         /\ \A i \in 1..Len(tasks') :
              tasks'[i] = Task("connect", s) \/ \E j \in 1..Len(tasks) : tasks[j] = tasks'[i]
<1> DEFINE t == Task("connect", s)
<1>1. t \in [job : Job, session : Session] /\ t.job = "connect" /\ t.session = s
  BY DEF Task, Job
<1>2. tasks \in Seq([job : Job, session : Session]) /\ Len(tasks) \in Nat
  BY DEF Queue
<1>3. tasks' = <<t>> \o tasks
  OBVIOUS
<1>4. \A i \in 1..Len(tasks) : tasks[i] # t
  OBVIOUS
<1> HIDE DEF t
<1>5. /\ tasks' \in Seq([job : Job, session : Session])
      /\ Len(tasks') = Len(tasks) + 1
      /\ tasks'[1] = t
      /\ \A i \in 1..Len(tasks) : i + 1 \in 1..Len(tasks') /\ tasks'[i + 1] = tasks[i]
      /\ \A i \in 1..Len(tasks') :
           i = 1 \/ (i - 1 \in 1..Len(tasks) /\ tasks'[i] = tasks[i - 1])
  BY <1>1, <1>2, <1>3
<1>6. TaskOfLive(tasks, life)'
  <2>1. SUFFICES ASSUME NEW i \in 1..Len(tasks')
                 PROVE  /\ tasks'[i].job # "connect" =>
                             life[tasks'[i].session] \in {"open", "closing"}
                        /\ tasks'[i].job = "close" => life[tasks'[i].session] = "closing"
    BY DEF TaskOfLive
  <2>2. \A j \in 1..Len(tasks) :
          /\ tasks[j].job # "connect" => life[tasks[j].session] \in {"open", "closing"}
          /\ tasks[j].job = "close" => life[tasks[j].session] = "closing"
    BY DEF Queue, TaskOfLive
  <2>3. CASE i = 1
    BY <1>1, <1>5, <2>3
  <2>4. CASE i - 1 \in 1..Len(tasks) /\ tasks'[i] = tasks[i - 1]
    BY <2>2, <2>4
  <2> QED BY <1>5, <2>3, <2>4
<1>7. CloseQueued(tasks, life)'
  <2>1. SUFFICES ASSUME NEW r \in Session, life[r] = "closing"
                 PROVE  \E i \in 1..Len(tasks') : tasks'[i] = Task("close", r)
    BY DEF CloseQueued
  <2>2. PICK i \in 1..Len(tasks) : tasks[i] = Task("close", r)
    BY <2>1 DEF Queue, CloseQueued
  <2> QED BY <1>5, <2>2
<1>8. TasksDiffer(tasks)'
  <2>1. SUFFICES ASSUME NEW i \in 1..Len(tasks'), NEW j \in 1..Len(tasks'), i # j
                 PROVE  /\ tasks'[i] # tasks'[j]
                        /\ ~(/\ tasks'[i].session = tasks'[j].session
                             /\ tasks'[i].job \in FirstJobs /\ tasks'[j].job \in FirstJobs)
    BY DEF TasksDiffer
  <2>2. CASE i = 1 \/ j = 1
    BY <1>1, <1>4, <1>5, <2>1, <2>2 DEF FirstJobs
  <2>3. CASE i # 1 /\ j # 1
    <3>1. /\ i - 1 \in 1..Len(tasks) /\ j - 1 \in 1..Len(tasks) /\ i - 1 # j - 1
          /\ tasks'[i] = tasks[i - 1] /\ tasks'[j] = tasks[j - 1]
      BY <1>5, <2>1, <2>3
    <3> QED BY <3>1 DEF Queue, TasksDiffer
  <2> QED BY <2>2, <2>3
<1>9. CloseIsLast(tasks)'
  <2>1. SUFFICES ASSUME NEW i \in 1..Len(tasks'), NEW j \in 1..Len(tasks'),
                        tasks'[i].job = "close", tasks'[j].job # "connect",
                        tasks'[i].session = tasks'[j].session
                 PROVE  j <= i
    BY DEF CloseIsLast
  <2>2. /\ i - 1 \in 1..Len(tasks) /\ j - 1 \in 1..Len(tasks)
        /\ tasks'[i] = tasks[i - 1] /\ tasks'[j] = tasks[j - 1]
    BY <1>1, <1>5, <2>1
  <2>3. j - 1 <= i - 1
    BY <2>1, <2>2 DEF Queue, CloseIsLast
  <2> QED BY <2>3
<1>10. \A i \in 1..Len(tasks') : tasks'[i] = t \/ \E j \in 1..Len(tasks) : tasks[j] = tasks'[i]
  BY <1>5
<1> QED BY <1>5, <1>6, <1>7, <1>8, <1>9, <1>10 DEF Queue, t

\* connect() goes in front of all that waits, even of the close it relies on.
LEMMA TimeIsUpStep ==
  ASSUME IInv, NEW s \in Session, TimeIsUp(s)
  PROVE  IInv'
<1>1. /\ s \in timers /\ timers' = timers \ {s}
      /\ tasks' = <<Task("connect", s)>> \o tasks
      /\ UNCHANGED <<life, first, accepts, player, target,
                     status, client, isConnecting, overtaken, refs, check, toRelease>>
  BY DEF TimeIsUp, avatarVars
<1>2. /\ Queue(tasks, life) /\ TasksFind /\ SessionsWell /\ timers \in SUBSET Session
  BY DEF IInv, TypeOK
<1>3. \A i \in 1..Len(tasks) : tasks[i] # Task("connect", s)
  BY <1>1, <1>2 DEF TasksFind, TaskFinds, Task
<1>4. /\ Queue(tasks, life)'
      /\ \A i \in 1..Len(tasks') :
           tasks'[i] = Task("connect", s) \/ \E j \in 1..Len(tasks) : tasks[j] = tasks'[i]
  BY <1>1, <1>2, <1>3, QueueFront
<1>5. TasksFind'
  <2>1. SUFFICES ASSUME NEW i \in 1..Len(tasks')
                 PROVE  TaskFinds(tasks[i])'
    BY DEF TasksFind
  <2>2. CASE tasks'[i] = Task("connect", s)
    BY <1>1, <1>2, <2>2 DEF TaskFinds, Task, SessionsWell, FirstJobs
  <2>3. CASE \E j \in 1..Len(tasks) : tasks[j] = tasks'[i]
    BY <1>1, <1>2, <2>3 DEF TasksFind, TaskFinds
  <2> QED BY <1>4, <2>2, <2>3
<1>6. SessionsWell'
  BY <1>1, <1>2 DEF SessionsWell
<1>7. LifeCloses
  BY <1>1 DEF LifeCloses
<1>8. ClientIsLive' /\ OpenSessionIsClient'
  BY <1>1, <1>7, ClientsStay DEF IInv
<1>9. ConnectComes'
  BY <1>1, <1>7, ConnectStillComes DEF IInv
<1>10. RefsExact' /\ PlayersLive' /\ FreeIsUnused'
  BY <1>1, RefsStay DEF IInv
<1>11. TypeOK'
  BY <1>1, <1>4 DEF IInv, TypeOK, Queue
<1> QED BY <1>4, <1>5, <1>6, <1>8, <1>9, <1>10, <1>11 DEF IInv

-----------------------------------------------------------------------------
(* The steps that take a player over.                                       *)

\* What the first task leaves in the queue when it runs.
LEMMA FirstIsGone ==
  ASSUME IInv, NEW job \in Job, NEW s \in Session, Runs(job, s), job # "close", RestOrClose
  PROVE  /\ \A i \in 1..Len(tasks') : tasks'[i] # Task(job, s)
         /\ job \in FirstJobs =>
              \A i \in 1..Len(tasks') :
                tasks'[i].session = s => tasks'[i].job \notin FirstJobs
         /\ job # "connect" => life[s] \in {"open", "closing"}
         /\ TaskFinds(Task(job, s))
<1>1. /\ tasks \in Seq([job : Job, session : Session])
      /\ TaskOfLive(tasks, life) /\ TasksDiffer(tasks) /\ TasksFind
  BY DEF IInv, Queue
<1>2. tasks[1] = Task(job, s) /\ 1 \in 1..Len(tasks)
  BY <1>1 DEF Runs
<1>3. Task(job, s).job = job /\ Task(job, s).session = s
  BY DEF Task
<1>4. \A j \in 2..Len(tasks) : j \in 1..Len(tasks) /\ j # 1
  OBVIOUS
<1>5. \A i \in 1..Len(tasks') : tasks'[i] # Task(job, s)
  <2>1. SUFFICES ASSUME NEW i \in 1..Len(tasks'), tasks'[i] = Task(job, s)
                 PROVE  FALSE
    OBVIOUS
  <2>2. PICK j \in 2..Len(tasks) : tasks[j] = tasks'[i]
    BY <1>3, <2>1 DEF RestOrClose
  <2> QED BY <1>1, <1>2, <1>4, <2>1, <2>2 DEF TasksDiffer
<1>6. ASSUME job \in FirstJobs, NEW i \in 1..Len(tasks'), tasks'[i].session = s,
             tasks'[i].job \in FirstJobs
      PROVE  FALSE
  <2>1. PICK j \in 2..Len(tasks) : tasks[j] = tasks'[i]
    BY <1>6 DEF RestOrClose, FirstJobs
  <2> QED BY <1>1, <1>2, <1>3, <1>4, <1>6, <2>1 DEF TasksDiffer
<1>7. job # "connect" => life[s] \in {"open", "closing"}
  BY <1>1, <1>2, <1>3 DEF TaskOfLive
<1>8. TaskFinds(Task(job, s))
  BY <1>1, <1>2 DEF TasksFind
<1> QED BY <1>5, <1>6, <1>7, <1>8

\* A task of another session finds what it found.
LEMMA OthersFind ==
  ASSUME IInv, OldOrClose, NEW s \in Session,
         \A r \in Session \ {s} :
           /\ first'[r] = first[r] /\ player'[r] = player[r] /\ target'[r] = target[r]
           /\ r \in timers' => r \in timers,
         \A i \in 1..Len(tasks') :
           tasks'[i].session = s => tasks'[i].job \notin FirstJobs \cup {"connect"}
  PROVE  TasksFind'
<1>1. SUFFICES ASSUME NEW i \in 1..Len(tasks'), tasks'[i].job # "close"
               PROVE  TaskFinds(tasks[i])'
  BY DEF TasksFind, TaskFinds, FirstJobs
<1>2. PICK j \in 1..Len(tasks) : tasks[j] = tasks'[i]
  BY <1>1 DEF OldOrClose
<1>3. TaskFinds(tasks[j]) /\ tasks[j].session \in Session
  BY <1>2, TaskIsTask DEF IInv, Queue, TasksFind
<1>4. CASE tasks[j].session = s
  BY <1>2, <1>4 DEF TaskFinds
<1>5. CASE tasks[j].session # s
  BY <1>2, <1>3, <1>5 DEF TaskFinds
<1> QED BY <1>4, <1>5

\* A new Player is counted as often as he is referred to.
LEMMA NewPlayerCounted ==
  ASSUME IInv, NEW s \in Session, NEW a \in Avatar, status[a] = "free", player[s] = NoAvatar,
         player' = [player EXCEPT ![s] = a],
         \A b \in Avatar \ {a} :
           /\ status'[b] = status[b] /\ refs'[b] = refs[b] /\ check'[b] = check[b]
           /\ toRelease'[b] = toRelease[b] /\ client'[b] = client[b],
         refs'[a] = 1 + One(status'[a] = "online") + One(check'[a] # "no") + toRelease'[a],
         status'[a] # "free"
  PROVE  RefsExact' /\ PlayersLive' /\ FreeIsUnused'
<1>1. TypeOK /\ RefsExact /\ PlayersLive /\ FreeIsUnused
  BY DEF IInv
<1>2. /\ Cardinality(Holders(a)') = Cardinality(Holders(a)) + 1
      /\ \A b \in Avatar \ {a} : Holders(b)' = Holders(b)
  BY <1>1, HolderComes
<1>3. Holders(a) = {}
  BY <1>1, SessionAssumption DEF Holders, PlayersLive
<1>4. Cardinality(Holders(a)') = 1
  BY <1>2, <1>3, FS_EmptySet
<1>5. RefsExact'
  <2>1. SUFFICES ASSUME NEW b \in Avatar
                 PROVE  refs'[b] = Cardinality(Holders(b)') + One(status'[b] = "online")
                                     + One(check'[b] # "no") + toRelease'[b]
    BY DEF RefsExact
  <2>2. CASE b = a
    BY <1>4, <2>2
  <2>3. CASE b # a
    BY <1>1, <1>2, <2>3 DEF RefsExact
  <2> QED BY <2>2, <2>3
<1>6. PlayersLive'
  BY <1>1 DEF PlayersLive, TypeOK
<1>7. FreeIsUnused'
  BY <1>1 DEF FreeIsUnused
<1> QED BY <1>5, <1>6, <1>7

\* A login of a character who is not in the game: a new Player.
LEMMA LoginNewStep ==
  ASSUME IInv, NEW s \in Session, NEW a \in Avatar,
         NEW outcome \in {"refused", "placed", "kicked"}, LoginNew(s, a, outcome)
  PROVE  IInv'
<1>1. /\ Runs("login", s) /\ Online = {} /\ status[a] = "free"
      /\ \A r \in Session : target[r] # a
      /\ player' = [player EXCEPT ![s] = a]
      /\ client' = [client EXCEPT ![a] = s]
      /\ isConnecting' = [isConnecting EXCEPT ![a] = FALSE]
      /\ overtaken' = [overtaken EXCEPT ![a] = FALSE]
      /\ accepts' = [accepts EXCEPT ![s] = (outcome # "refused")]
      /\ UNCHANGED <<first, target, timers>>
  BY DEF LoginNew
<1>2. TypeOK /\ TasksFind /\ SessionsWell /\ FreeIsUnused /\ PlayersLive
  BY DEF IInv
<1>3. QueueKept /\ RestOrClose
  <2>1. \E r \in Session \cup {NoSession} : Close(r, Tail(tasks))
    <3>1. CASE Close(s, Tail(tasks))
      BY <3>1
    <3>2. CASE tasks' = Tail(tasks) /\ UNCHANGED <<life, toRelease>>
      <4>1. Close(NoSession, Tail(tasks))
        BY <3>2 DEF Close
      <4> QED BY <4>1
    <3> QED BY <3>1, <3>2 DEF LoginNew
  <2>2. tasks # <<>> /\ Head(tasks).job # "close"
    BY <1>1 DEF Runs, Task
  <2> QED BY <2>1, <2>2, TaskStep DEF IInv
<1>4. /\ \A i \in 1..Len(tasks') : tasks'[i].session = s => tasks'[i].job \notin FirstJobs
      /\ life[s] \in {"open", "closing"}
      /\ TaskFinds(Task("login", s))
  BY <1>1, <1>3, FirstIsGone DEF Job, FirstJobs
<1>5. first[s] /\ player[s] = NoAvatar /\ target[s] = NoAvatar
  BY <1>4 DEF TaskFinds, Task, FirstJobs
<1>6. \A i \in 1..Len(tasks') : tasks'[i].session = s => tasks'[i].job # "connect"
  <2>1. SUFFICES ASSUME NEW i \in 1..Len(tasks'), tasks'[i].session = s,
                        tasks'[i].job = "connect"
                 PROVE  FALSE
    OBVIOUS
  <2>2. PICK j \in 1..Len(tasks) : tasks[j] = tasks'[i]
    BY <1>3, <2>1 DEF QueueKept, OldOrClose
  <2> QED BY <1>2, <1>5, <2>1, <2>2 DEF TasksFind, TaskFinds
<1>7. /\ player'[s] = a /\ \A r \in Session \ {s} : player'[r] = player[r]
      /\ client'[a] = s /\ \A b \in Avatar \ {a} : client'[b] = client[b]
      /\ ~isConnecting'[a] /\ \A b \in Avatar \ {a} : isConnecting'[b] = isConnecting[b]
  BY <1>1, <1>2 DEF TypeOK
<1>8. /\ status' \in [Avatar -> {"free", "made", "online", "removed"}]
      /\ refs' \in [Avatar -> Nat]
      /\ check' \in [Avatar -> {"no", "yes", "leaving"}]
      /\ toRelease' \in [Avatar -> Nat]
      /\ \A b \in Avatar \ {a} :
           /\ status'[b] = status[b] /\ refs'[b] = refs[b] /\ check'[b] = check[b]
           /\ toRelease'[b] = toRelease[b]
      /\ status'[a] # "free"
  <2>1. /\ status \in [Avatar -> {"free", "made", "online", "removed"}]
        /\ refs \in [Avatar -> Nat]
        /\ check \in [Avatar -> {"no", "yes", "leaving"}]
        /\ toRelease \in [Avatar -> Nat]
    BY <1>2 DEF TypeOK
  <2>2. CASE outcome = "refused"
    <3>1. /\ status' = [status EXCEPT ![a] = "made"]
          /\ refs' = [refs EXCEPT ![a] = 1]
          /\ UNCHANGED <<check, toRelease>>
      BY <2>2 DEF LoginNew
    <3> QED BY <2>1, <3>1
  <2>3. CASE outcome = "placed"
    <3>1. /\ status' = [status EXCEPT ![a] = "online"]
          /\ refs' = [refs EXCEPT ![a] = 3]
          /\ check' = [check EXCEPT ![a] = "yes"]
          /\ UNCHANGED toRelease
      BY <2>3 DEF LoginNew
    <3> QED BY <2>1, <3>1
  <2>4. CASE outcome = "kicked"
    <3>1. /\ status' = [status EXCEPT ![a] = "removed"]
          /\ refs' = [refs EXCEPT ![a] = 3]
          /\ check' = [check EXCEPT ![a] = "leaving"]
          /\ toRelease' = [toRelease EXCEPT ![a] = 1]
      BY <2>4 DEF LoginNew
    <3> QED BY <2>1, <3>1
  <2> QED BY <2>2, <2>3, <2>4
<1>9. refs'[a] = 1 + One(status'[a] = "online") + One(check'[a] # "no") + toRelease'[a]
  <2>1. toRelease[a] = 0 /\ check[a] = "no"
    BY <1>1, <1>2 DEF FreeIsUnused
  <2> QED BY <1>2, <2>1 DEF LoginNew, TypeOK, One
<1>10. RefsExact' /\ PlayersLive' /\ FreeIsUnused'
  <2>1. \A b \in Avatar \ {a} :
          /\ status'[b] = status[b] /\ refs'[b] = refs[b] /\ check'[b] = check[b]
          /\ toRelease'[b] = toRelease[b] /\ client'[b] = client[b]
    BY <1>7, <1>8
  <2>2. status[a] = "free" /\ player[s] = NoAvatar /\ player' = [player EXCEPT ![s] = a]
        /\ status'[a] # "free"
    BY <1>1, <1>5, <1>8
  <2> QED BY <1>9, <2>1, <2>2, NewPlayerCounted
<1>11. Queue(tasks, life)' /\ OldOrClose /\ LifeCloses
  BY <1>3 DEF QueueKept
<1>12. TasksFind'
  BY <1>1, <1>4, <1>6, <1>7, <1>11, OthersFind
<1>13. SessionsWell'
  <2>1. ASSUME NEW r \in Session \ {s}
        PROVE  /\ life'[r] = "unborn" => life[r] = "unborn"
               /\ life'[r] = "deleted" => life[r] = "deleted"
    BY <1>11 DEF LifeCloses
  <2>2. life'[s] \in {"open", "closing"}
    BY <1>4, <1>11 DEF LifeCloses
  <2> QED BY <1>1, <1>2, <1>5, <1>7, <2>1, <2>2 DEF SessionsWell
<1>14. ClientIsLive' /\ OpenSessionIsClient'
  <2>1. life'[s] \in {"open", "closing"}
    BY <1>4, <1>11 DEF LifeCloses
  <2>2. \A b \in Avatar : client[b] # NoSession => client[b] \in Session /\ client[b] # s
    BY <1>2, <1>5, SessionAssumption DEF IInv, ClientIsLive, TypeOK
  <2>3. ClientIsLive'
    BY <1>7, <1>11, <2>1, <2>2 DEF IInv, ClientIsLive, LifeCloses
  <2>4. \A r \in Session \ {s} : player[r] # a
    BY <1>1, <1>2, SessionAssumption DEF PlayersLive
  <2>5. OpenSessionIsClient'
    <3>1. SUFFICES ASSUME NEW r \in Session \ {s}, life'[r] \in {"open", "closing"},
                          player[r] # NoAvatar
                   PROVE  client'[player[r]] = r
      BY <1>7 DEF OpenSessionIsClient
    <3>2. life[r] \in {"open", "closing"}
      BY <1>11, <3>1 DEF LifeCloses
    <3>3. player[r] \in Avatar \ {a} /\ client[player[r]] = r
      BY <1>2, <2>4, <3>1, <3>2 DEF IInv, OpenSessionIsClient, TypeOK
    <3> QED BY <1>7, <3>3
  <2> QED BY <2>3, <2>5
<1>15. ConnectComes'
  <2>1. SUFFICES ASSUME NEW b \in Avatar, status'[b] = "online", isConnecting'[b]
                 PROVE  FALSE
    BY DEF ConnectComes
  <2>2. b # a
    BY <1>7, <2>1
  <2>3. status[b] = "online"
    BY <1>8, <2>1, <2>2
  <2> QED BY <1>1, <2>3 DEF Online
<1>16. TypeOK'
  BY <1>1, <1>2, <1>8, <1>11 DEF TypeOK, Queue
<1> QED BY <1>10, <1>11, <1>12, <1>13, <1>14, <1>15, <1>16 DEF IInv

\* Attach, whether it takes the player over or closes the connection.
LEMMA AttachKeeps ==
  ASSUME IInv, NEW s \in Session, NEW a \in Avatar, Attach(s, a, Tail(tasks)),
         tasks # <<>>, Head(tasks).job # "close",
         player[s] = NoAvatar, life[s] \notin {"unborn", "deleted"},
         UNCHANGED <<first, status, check, toRelease>>
  PROVE  /\ QueueKept /\ RestOrClose
         /\ \/ /\ UNCHANGED <<player, accepts, client, isConnecting, refs>>
               /\ overtaken' = [overtaken EXCEPT ![a] = @ \/ StillCloses(client[a])]
               /\ status[a] # "online" \/ client[a] # NoSession
            \/ /\ status[a] = "online" /\ client[a] = NoSession
               /\ player' = [player EXCEPT ![s] = a]
               /\ client' = [client EXCEPT ![a] = s]
               /\ isConnecting' = [isConnecting EXCEPT ![a] = FALSE]
               /\ overtaken' = [overtaken EXCEPT ![a] = FALSE]
         /\ player' \in [Session -> Avatar \cup {NoAvatar}]
         /\ accepts' \in [Session -> BOOLEAN]
         /\ client' \in [Avatar -> Session \cup {NoSession}]
         /\ isConnecting' \in [Avatar -> BOOLEAN]
         /\ overtaken' \in [Avatar -> BOOLEAN]
         /\ refs' \in [Avatar -> Nat]
         /\ RefsExact' /\ PlayersLive' /\ FreeIsUnused'
         /\ ClientIsLive' /\ OpenSessionIsClient'
<1>1. TypeOK /\ RefsExact /\ PlayersLive /\ FreeIsUnused /\ ClientIsLive /\ OpenSessionIsClient
  BY DEF IInv
<1>2. QueueKept /\ RestOrClose
  <2>1. \E r \in Session \cup {NoSession} : Close(r, Tail(tasks))
    <3>1. CASE Close(s, Tail(tasks))
      BY <3>1
    <3>2. CASE life' = life /\ tasks' = Tail(tasks)
      <4>1. Close(NoSession, Tail(tasks))
        BY <3>2 DEF Close
      <4> QED BY <4>1
    <3> QED BY <3>1, <3>2 DEF Attach
  <2> QED BY <2>1, TaskStep DEF IInv
<1>3. LifeCloses
  BY <1>2 DEF QueueKept
<1>4. CASE status[a] # "online" \/ client[a] # NoSession
  <2>1. /\ UNCHANGED <<player, accepts, client, isConnecting, refs>>
        /\ overtaken' = [overtaken EXCEPT ![a] = @ \/ StillCloses(client[a])]
    BY <1>4 DEF Attach
  <2>1a. overtaken' \in [Avatar -> BOOLEAN]
    BY <1>1, <2>1 DEF TypeOK, StillCloses
  <2>2. RefsExact' /\ PlayersLive' /\ FreeIsUnused'
    BY <1>1, <2>1, RefsStay
  <2>3. ClientIsLive' /\ OpenSessionIsClient'
    BY <1>1, <1>3, <2>1, ClientsStay
  <2> QED BY <1>1, <1>2, <1>4, <2>1, <2>1a, <2>2, <2>3 DEF TypeOK
<1>5. CASE ~(status[a] # "online" \/ client[a] # NoSession)
  <2>1. /\ player' = [player EXCEPT ![s] = a]
        /\ accepts' = [accepts EXCEPT ![s] = TRUE]
        /\ client' = [client EXCEPT ![a] = s]
        /\ isConnecting' = [isConnecting EXCEPT ![a] = FALSE]
        /\ overtaken' = [overtaken EXCEPT ![a] = FALSE]
        /\ refs' = [refs EXCEPT ![a] = @ + 1]
        /\ life' = life
    BY <1>5 DEF Attach
  <2>2. /\ player' \in [Session -> Avatar \cup {NoAvatar}]
        /\ accepts' \in [Session -> BOOLEAN]
        /\ client' \in [Avatar -> Session \cup {NoSession}]
        /\ isConnecting' \in [Avatar -> BOOLEAN]
        /\ overtaken' \in [Avatar -> BOOLEAN]
        /\ refs' \in [Avatar -> Nat]
    BY <1>1, <2>1 DEF TypeOK
  <2>3. /\ player'[s] = a /\ \A r \in Session \ {s} : player'[r] = player[r]
        /\ client'[a] = s /\ \A b \in Avatar \ {a} : client'[b] = client[b]
        /\ refs'[a] = refs[a] + 1 /\ \A b \in Avatar \ {a} : refs'[b] = refs[b]
    BY <1>1, <2>1 DEF TypeOK
  <2>4. RefsExact'
    <3>1. /\ Cardinality(Holders(a)') = Cardinality(Holders(a)) + 1
          /\ \A b \in Avatar \ {a} : Holders(b)' = Holders(b)
      BY <1>1, <2>1, HolderComes
    <3>2. SUFFICES ASSUME NEW b \in Avatar
                   PROVE  refs'[b] = Cardinality(Holders(b)') + One(status[b] = "online")
                                       + One(check[b] # "no") + toRelease[b]
      BY DEF RefsExact
    <3>3. refs[b] = Cardinality(Holders(b)) + One(status[b] = "online")
                      + One(check[b] # "no") + toRelease[b]
      BY <1>1 DEF RefsExact
    <3>4. CASE b # a
      BY <2>3, <3>1, <3>3, <3>4
    <3>5. CASE b = a
      <4>1. One(status[a] = "online") \in Nat /\ One(check[a] # "no") \in Nat
        BY DEF One
      <4>2. Cardinality(Holders(a)) \in Nat /\ toRelease[a] \in Nat
        BY <1>1, HoldersFinite DEF TypeOK
      <4> QED BY <2>3, <3>1, <3>3, <3>5, <4>1, <4>2
    <3> QED BY <3>4, <3>5
  <2>5. PlayersLive'
    BY <1>1, <1>5, <2>3 DEF PlayersLive
  <2>6. FreeIsUnused'
    BY <1>1, <1>5, <2>3 DEF FreeIsUnused
  <2>7. \A b \in Avatar : client[b] # NoSession => client[b] \in Session \ {s}
    BY <1>1, SessionAssumption DEF ClientIsLive, TypeOK
  <2>8. ClientIsLive'
    BY <1>1, <2>1, <2>3, <2>7 DEF ClientIsLive
  <2>9. OpenSessionIsClient'
    <3>1. SUFFICES ASSUME NEW r \in Session \ {s}, life[r] \in {"open", "closing"},
                          player[r] # NoAvatar
                   PROVE  client'[player[r]] = r
      BY <2>1, <2>3 DEF OpenSessionIsClient
    <3>2. player[r] \in Avatar /\ client[player[r]] = r
      BY <1>1, <3>1 DEF OpenSessionIsClient, TypeOK
    <3>3. player[r] # a
      BY <1>5, <3>1, <3>2, SessionAssumption
    <3> QED BY <2>3, <3>2, <3>3
  <2> QED BY <1>2, <1>5, <2>1, <2>2, <2>4, <2>5, <2>6, <2>8, <2>9
<1> QED BY <1>4, <1>5

\* The delayed connect(): it takes over, or somebody still is or again was there.
LEMMA ConnectStep ==
  ASSUME IInv, NEW s \in Session, Connect(s)
  PROVE  IInv'
<1>1. /\ Runs("connect", s)
      /\ target' = [target EXCEPT ![s] = NoAvatar]
      /\ Attach(s, target[s], Tail(tasks))
      /\ UNCHANGED <<first, timers, status, check, toRelease>>
  BY DEF Connect
<1>2. TypeOK /\ TasksFind /\ SessionsWell /\ ConnectComes
  BY DEF IInv
<1>3. tasks # <<>> /\ Head(tasks) = Task("connect", s) /\ Head(tasks).job # "close"
  BY <1>1 DEF Runs, Task
<1>4. target[s] # NoAvatar /\ s \notin timers
  <2>1. /\ tasks \in Seq([job : Job, session : Session])
    BY <1>2 DEF TypeOK
  <2>2. 1 \in 1..Len(tasks) /\ tasks[1] = Task("connect", s)
    BY <1>3, <2>1
  <2> QED BY <1>2, <2>2 DEF TasksFind, TaskFinds, Task
<1> DEFINE a == target[s]
<1>5. /\ a \in Avatar /\ player[s] = NoAvatar /\ life[s] \notin {"unborn", "deleted"}
      /\ first[s]
  BY <1>2, <1>4 DEF SessionsWell, TypeOK
<1> HIDE DEF a
<1>6. /\ QueueKept /\ RestOrClose
      /\ \/ /\ UNCHANGED <<player, accepts, client, isConnecting, refs>>
            /\ overtaken' = [overtaken EXCEPT ![a] = @ \/ StillCloses(client[a])]
            /\ status[a] # "online" \/ client[a] # NoSession
         \/ /\ status[a] = "online" /\ client[a] = NoSession
            /\ player' = [player EXCEPT ![s] = a]
            /\ client' = [client EXCEPT ![a] = s]
            /\ isConnecting' = [isConnecting EXCEPT ![a] = FALSE]
            /\ overtaken' = [overtaken EXCEPT ![a] = FALSE]
      /\ player' \in [Session -> Avatar \cup {NoAvatar}]
      /\ accepts' \in [Session -> BOOLEAN]
      /\ client' \in [Avatar -> Session \cup {NoSession}]
      /\ isConnecting' \in [Avatar -> BOOLEAN]
      /\ overtaken' \in [Avatar -> BOOLEAN]
      /\ refs' \in [Avatar -> Nat]
      /\ RefsExact' /\ PlayersLive' /\ FreeIsUnused'
      /\ ClientIsLive' /\ OpenSessionIsClient'
  <2>1. Attach(s, a, Tail(tasks))
    BY <1>1 DEF a
  <2> QED BY <1>1, <1>3, <1>5, <2>1, AttachKeeps
<1>7. Queue(tasks, life)' /\ OldOrClose /\ LifeCloses
  BY <1>6 DEF QueueKept
<1>8. \A r \in Session \ {s} : player'[r] = player[r] /\ target'[r] = target[r]
  BY <1>1, <1>2, <1>6 DEF TypeOK
<1>9. TasksFind'
  <2>1. /\ \A i \in 1..Len(tasks') : tasks'[i] # Task("connect", s)
    BY <1>1, <1>6, FirstIsGone DEF Job
  <2>2. SUFFICES ASSUME NEW i \in 1..Len(tasks'), tasks'[i].session = s
                 PROVE  tasks'[i].job \notin FirstJobs \cup {"connect"}
    BY <1>1, <1>7, <1>8, OthersFind
  <2>3. tasks'[i].job # "connect"
    <3>1. tasks'[i] \in [job : Job, session : Session]
      BY <1>7, TaskIsTask DEF Queue
    <3> QED BY <2>1, <2>2, <3>1 DEF Task
  <2>4. tasks'[i].job \notin FirstJobs
    <3>1. SUFFICES ASSUME tasks'[i].job \in FirstJobs  PROVE FALSE
      OBVIOUS
    <3>2. PICK j \in 1..Len(tasks) : tasks[j] = tasks'[i]
      BY <1>7, <3>1 DEF OldOrClose, FirstJobs
    <3> QED BY <1>2, <1>4, <2>2, <3>1, <3>2 DEF TasksFind, TaskFinds
  <2> QED BY <2>3, <2>4
<1>10. SessionsWell'
  <2>1. \A r \in Session : /\ life'[r] = "unborn" => life[r] = "unborn"
                           /\ life'[r] = "deleted" => life[r] = "deleted"
    BY <1>7 DEF LifeCloses
  <2>2. target'[s] = NoAvatar
    BY <1>1, <1>2 DEF TypeOK
  <2> QED BY <1>1, <1>2, <1>4, <1>5, <1>8, <2>1, <2>2 DEF SessionsWell
<1>11. ConnectComes'
  <2>1. SUFFICES ASSUME NEW b \in Avatar, status[b] = "online", isConnecting'[b]
                 PROVE  /\ overtaken'[b] \/ \E r \in Session : target'[r] = b
                        /\ client'[b] = NoSession \/ StillCloses(client[b])'
    BY <1>1 DEF ConnectComes
  <2>2. isConnecting[b] /\ client'[b] = client[b]
    BY <1>2, <1>5, <1>6, <2>1 DEF TypeOK
  <2>3. /\ overtaken[b] \/ \E r \in Session : target[r] = b
        /\ client[b] = NoSession \/ StillCloses(client[b])
    BY <1>2, <2>1, <2>2 DEF ConnectComes
  <2>4. client'[b] = NoSession \/ StillCloses(client[b])'
    BY <1>2, <1>7, <2>2, <2>3 DEF StillCloses, LifeCloses, TypeOK
  <2>5. CASE b = a
    <3>1. /\ overtaken' = [overtaken EXCEPT ![a] = @ \/ StillCloses(client[a])]
          /\ client[a] # NoSession
      BY <1>2, <1>5, <1>6, <2>1, <2>5 DEF TypeOK
    <3> QED BY <1>2, <1>5, <2>3, <2>4, <2>5, <3>1 DEF TypeOK
  <2>6. CASE b # a
    <3>1. overtaken'[b] = overtaken[b]
      BY <1>2, <1>6, <2>6 DEF TypeOK
    <3>2. \A r \in Session : target[r] = b => target'[r] = b
      BY <1>8, <2>6 DEF a
    <3> QED BY <2>3, <2>4, <3>1, <3>2
  <2> QED BY <2>5, <2>6
<1>12. TypeOK'
  BY <1>1, <1>2, <1>6, <1>7 DEF TypeOK, Queue
<1> QED BY <1>6, <1>7, <1>9, <1>10, <1>11, <1>12 DEF IInv

\* A login of a character in the game: takeover, at once or after a second.
LEMMA LoginOnlineStep ==
  ASSUME IInv, NEW s \in Session, NEW a \in Avatar, NEW replace \in BOOLEAN,
         LoginOnline(s, a, replace)
  PROVE  IInv'
<1>1. Runs("login", s) /\ status[a] = "online" /\ UNCHANGED <<first, status, check, toRelease>>
  BY DEF LoginOnline
<1>2. TypeOK /\ TasksFind /\ SessionsWell /\ ConnectComes /\ ClientIsLive
  BY DEF IInv
<1>3. tasks # <<>> /\ Head(tasks) = Task("login", s) /\ Head(tasks).job # "close"
  BY <1>1 DEF Runs, Task
<1>4. /\ TaskFinds(Task("login", s)) /\ life[s] \in {"open", "closing"}
      /\ first[s] /\ player[s] = NoAvatar /\ target[s] = NoAvatar
  <2>1. tasks \in Seq([job : Job, session : Session])
    BY <1>2 DEF TypeOK
  <2>2. 1 \in 1..Len(tasks) /\ tasks[1] = Task("login", s)
    BY <1>3, <2>1
  <2>3. life[s] \in {"open", "closing"}
    BY <2>2 DEF IInv, Queue, TaskOfLive, Task
  <2> QED BY <1>2, <2>2, <2>3 DEF TasksFind, TaskFinds, Task, FirstJobs
<1>5. s \notin timers
  BY <1>2, <1>4 DEF SessionsWell
<1>6. ASSUME QueueKept, RestOrClose,
             NEW i \in 1..Len(tasks'), tasks'[i].session = s
      PROVE  tasks'[i].job \notin FirstJobs \cup {"connect"}
  <2>1. tasks'[i].job \notin FirstJobs
    BY <1>1, <1>6, FirstIsGone DEF Job, FirstJobs
  <2>2. SUFFICES ASSUME tasks'[i].job = "connect"  PROVE FALSE
    BY <2>1
  <2>3. PICK j \in 1..Len(tasks) : tasks[j] = tasks'[i]
    BY <1>6, <2>2 DEF QueueKept, OldOrClose
  <2> QED BY <1>2, <1>4, <1>6, <2>2, <2>3 DEF TasksFind, TaskFinds
<1>7. CASE replace /\ client[a] # NoSession
  <2>0. PICK c \in Session : c = client[a]
    BY <1>2, <1>7 DEF TypeOK
  <2>1. /\ Close(c, Tail(tasks))
        /\ isConnecting' = [isConnecting EXCEPT ![a] = TRUE]
        /\ target' = [target EXCEPT ![s] = a]
        /\ timers' = timers \cup {s}
        /\ UNCHANGED <<player, accepts, client, overtaken, refs>>
    BY <1>7, <2>0 DEF LoginOnline
  <2>2. /\ life[c] # "deleted" /\ player[c] = a
    BY <1>2, <1>7, <2>0 DEF ClientIsLive, TypeOK
  <2>3. QueueKept /\ RestOrClose
    BY <1>3, <2>1, <2>2, TaskStep DEF IInv
  <2>4. Queue(tasks, life)' /\ OldOrClose /\ LifeCloses
    BY <2>3 DEF QueueKept
  <2>5. /\ target'[s] = a /\ \A r \in Session \ {s} : target'[r] = target[r]
        /\ \A b \in Avatar \ {a} : isConnecting'[b] = isConnecting[b]
    BY <1>2, <2>1 DEF TypeOK
  <2>6. TasksFind'
    BY <1>1, <1>6, <2>1, <2>3, <2>4, <2>5, OthersFind
  <2>7. SessionsWell'
    <3>1. \A r \in Session : /\ life'[r] = "unborn" => life[r] = "unborn"
                             /\ life'[r] = "deleted" => life[r] = "deleted"
      BY <2>4 DEF LifeCloses
    <3>2. a # NoAvatar
      BY SessionAssumption
    <3> QED BY <1>1, <1>2, <1>4, <2>1, <2>5, <3>1, <3>2 DEF SessionsWell
  <2>8. ClientIsLive' /\ OpenSessionIsClient'
    BY <2>1, <2>4, ClientsStay DEF IInv
  <2>9. RefsExact' /\ PlayersLive' /\ FreeIsUnused'
    BY <1>1, <2>1, RefsStay DEF IInv
  <2>10. StillCloses(client[a])'
    <3>1. client'[a] = c
      BY <2>0, <2>1
    <3>2. CASE life[c] = "open"
      <4>1. life' = [life EXCEPT ![c] = "closing"]
        BY <2>1, <3>2, SessionAssumption DEF Close
      <4>2. life'[c] = "closing"
        BY <1>2, <4>1 DEF TypeOK
      <4> QED BY <3>1, <4>2, SessionAssumption DEF StillCloses
    <3>3. CASE life[c] # "open"
      BY <2>4, <3>1, <3>3, SessionAssumption DEF StillCloses, LifeCloses
    <3> QED BY <3>2, <3>3
  <2>11. ConnectComes'
    <3>1. SUFFICES ASSUME NEW b \in Avatar, status[b] = "online", isConnecting'[b]
                   PROVE  /\ overtaken[b] \/ \E r \in Session : target'[r] = b
                          /\ client[b] = NoSession \/ StillCloses(client[b])'
      BY <1>1, <2>1 DEF ConnectComes
    <3>2. CASE b = a
      BY <2>5, <2>10, <3>2
    <3>3. CASE b # a
      <4>1. /\ overtaken[b] \/ \E r \in Session : target[r] = b
            /\ client[b] = NoSession \/ StillCloses(client[b])
        BY <1>2, <2>5, <3>1, <3>3 DEF ConnectComes
      <4>2. \A r \in Session : target[r] = b => target'[r] = b
        BY <1>4, <2>5, SessionAssumption
      <4>3. client[b] = NoSession \/ StillCloses(client[b])'
        BY <1>2, <2>1, <2>4, <4>1 DEF StillCloses, LifeCloses, TypeOK
      <4> QED BY <4>1, <4>2, <4>3
    <3> QED BY <3>2, <3>3
  <2>12. TypeOK'
    BY <1>1, <1>2, <2>1, <2>4 DEF TypeOK, Queue
  <2> QED BY <2>4, <2>6, <2>7, <2>8, <2>9, <2>11, <2>12 DEF IInv
<1>8. CASE ~(replace /\ client[a] # NoSession)
  <2>1. UNCHANGED <<first, target, timers, status, check, toRelease>>
    BY <1>1, <1>8 DEF LoginOnline
  <2>2. /\ QueueKept /\ RestOrClose
        /\ \/ UNCHANGED <<player, accepts, client, isConnecting, overtaken, refs>>
           \/ /\ status[a] = "online" /\ client[a] = NoSession
              /\ player' = [player EXCEPT ![s] = a]
              /\ client' = [client EXCEPT ![a] = s]
              /\ isConnecting' = [isConnecting EXCEPT ![a] = FALSE]
              /\ overtaken' = [overtaken EXCEPT ![a] = FALSE]
        /\ player' \in [Session -> Avatar \cup {NoAvatar}]
        /\ accepts' \in [Session -> BOOLEAN]
        /\ client' \in [Avatar -> Session \cup {NoSession}]
        /\ isConnecting' \in [Avatar -> BOOLEAN]
        /\ overtaken' \in [Avatar -> BOOLEAN]
        /\ refs' \in [Avatar -> Nat]
        /\ RefsExact' /\ PlayersLive' /\ FreeIsUnused'
        /\ ClientIsLive' /\ OpenSessionIsClient'
    <3>1. CASE Attach(s, a, Tail(tasks)) /\ client[a] = NoSession
      BY <1>1, <1>3, <1>4, <3>1, AttachKeeps
    <3>2. CASE /\ Close(s, Tail(tasks))
               /\ UNCHANGED <<player, accepts, client, isConnecting, overtaken, refs>>
      <4>1. QueueKept /\ RestOrClose
        BY <1>3, <3>2, TaskStep DEF IInv
      <4>2. RefsExact' /\ PlayersLive' /\ FreeIsUnused'
        BY <2>1, <3>2, RefsStay DEF IInv
      <4>3. ClientIsLive' /\ OpenSessionIsClient'
        BY <3>2, <4>1, ClientsStay DEF IInv, QueueKept
      <4> QED BY <1>2, <3>2, <4>1, <4>2, <4>3 DEF TypeOK
    <3> QED BY <1>8, <3>1, <3>2 DEF LoginOnline
  <2>3. Queue(tasks, life)' /\ OldOrClose /\ LifeCloses
    BY <2>2 DEF QueueKept
  <2>4. \A r \in Session \ {s} : player'[r] = player[r]
    BY <1>2, <2>2 DEF TypeOK
  <2>5. TasksFind'
    BY <1>6, <2>1, <2>2, <2>3, <2>4, OthersFind
  <2>6. SessionsWell'
    <3>1. \A r \in Session : /\ life'[r] = "unborn" => life[r] = "unborn"
                             /\ life'[r] = "deleted" => life[r] = "deleted"
      BY <2>3 DEF LifeCloses
    <3> QED BY <1>2, <1>4, <2>1, <2>4, <3>1 DEF SessionsWell
  <2>7. ConnectComes'
    <3>1. SUFFICES ASSUME NEW b \in Avatar, status[b] = "online", isConnecting'[b]
                   PROVE  /\ overtaken'[b] \/ \E r \in Session : target[r] = b
                          /\ client'[b] = NoSession \/ StillCloses(client[b])'
      BY <2>1 DEF ConnectComes
    <3>2. isConnecting[b] /\ client'[b] = client[b] /\ overtaken'[b] = overtaken[b]
      BY <1>2, <2>2, <3>1 DEF TypeOK
    <3>3. /\ overtaken[b] \/ \E r \in Session : target[r] = b
          /\ client[b] = NoSession \/ StillCloses(client[b])
      BY <1>2, <3>1, <3>2 DEF ConnectComes
    <3> QED BY <1>2, <2>3, <3>2, <3>3 DEF StillCloses, LifeCloses, TypeOK
  <2>8. TypeOK'
    BY <1>2, <2>1, <2>2, <2>3 DEF TypeOK, Queue
  <2> QED BY <2>2, <2>3, <2>5, <2>6, <2>7, <2>8 DEF IInv
<1> QED BY <1>7, <1>8

-----------------------------------------------------------------------------
(* The session is released, and in the end deleted.                         *)

\* releaseProtocol(): the session lets its player go, unless something holds it.
LEMMA ReleaseStep ==
  ASSUME IInv, NEW s \in Session, NEW messages \in BOOLEAN, ReleaseProtocol(s, messages),
         life[s] \in {"closing", "released"},
         Queue(tasks, life)',
         \A i \in 1..Len(tasks') : \E j \in 1..Len(tasks) : tasks[j] = tasks'[i]
  PROVE  IInv'
<1>1. /\ TypeOK /\ TasksFind /\ SessionsWell /\ RefsExact /\ PlayersLive /\ FreeIsUnused
      /\ ClientIsLive /\ OpenSessionIsClient /\ ConnectComes
  BY DEF IInv
<1>0. PICK a \in Avatar \cup {NoAvatar} : a = player[s]
  BY <1>1 DEF TypeOK
<1>0a. PICK held \in BOOLEAN : held <=> (target[s] # NoAvatar \/ messages)
  OBVIOUS
<1>2. /\ client' = IF a # NoAvatar /\ client[a] = s
                     THEN [client EXCEPT ![a] = NoSession] ELSE client
      /\ life' = [life EXCEPT ![s] = IF held THEN "released" ELSE "deleted"]
      /\ IF held \/ a = NoAvatar
           THEN UNCHANGED <<player, toRelease>>
           ELSE /\ player' = [player EXCEPT ![s] = NoAvatar]
                /\ toRelease' = [toRelease EXCEPT ![a] = @ + 1]
      /\ UNCHANGED <<first, accepts, target, timers, status, isConnecting, overtaken, refs, check>>
  BY <1>0, <1>0a DEF ReleaseProtocol
<1>4. /\ life'[s] = IF held THEN "released" ELSE "deleted"
      /\ \A r \in Session \ {s} : life'[r] = life[r] /\ player'[r] = player[r]
      /\ player'[s] = IF held THEN a ELSE NoAvatar
      /\ \A b \in Avatar : client'[b] = IF client[b] = s /\ b = a THEN NoSession ELSE client[b]
  <2>1. /\ life \in [Session -> {"unborn", "open", "closing", "released", "deleted"}]
        /\ player \in [Session -> Avatar \cup {NoAvatar}]
        /\ client \in [Avatar -> Session \cup {NoSession}]
    BY <1>1 DEF TypeOK
  <2>2. /\ life'[s] = IF held THEN "released" ELSE "deleted"
        /\ \A r \in Session \ {s} : life'[r] = life[r]
    BY <1>2, <2>1
  <2>3. /\ \A r \in Session \ {s} : player'[r] = player[r]
        /\ player'[s] = IF held THEN a ELSE NoAvatar
    BY <1>0, <1>2, <2>1
  <2>4. \A b \in Avatar : client'[b] = IF client[b] = s /\ b = a THEN NoSession ELSE client[b]
    BY <1>2, <2>1, SessionAssumption
  <2> QED BY <2>2, <2>3, <2>4
<1>5. /\ \A b \in Avatar : client[b] # NoSession => client[b] \in Session /\ player[client[b]] = b
      /\ NoSession \notin Session
  BY <1>1, SessionAssumption DEF ClientIsLive, TypeOK
<1>6. \A b \in Avatar : client'[b] = IF client[b] = s THEN NoSession ELSE client[b]
  BY <1>0, <1>4, <1>5
<1>7. TasksFind'
  <2>1. SUFFICES ASSUME NEW i \in 1..Len(tasks')
                 PROVE  TaskFinds(tasks[i])'
    BY DEF TasksFind
  <2>2. PICK j \in 1..Len(tasks) : tasks[j] = tasks'[i]
    OBVIOUS
  <2>3. TaskFinds(tasks[j]) /\ tasks[j].session \in Session
    BY <1>1, TaskIsTask DEF TasksFind, TypeOK
  <2>4. \A r \in Session : player[r] = NoAvatar => player'[r] = NoAvatar
    BY <1>0, <1>4
  <2> QED BY <1>2, <2>2, <2>3, <2>4 DEF TaskFinds
<1>8. SessionsWell'
  BY <1>0, <1>0a, <1>1, <1>2, <1>4 DEF SessionsWell
<1>9. /\ \A b \in Avatar : toRelease[b] \in Nat /\ Cardinality(Holders(b)) \in Nat
      /\ \A b \in Avatar : One(status[b] = "online") \in Nat /\ One(check[b] # "no") \in Nat
  BY <1>1, HoldersFinite DEF TypeOK, One
<1>10. ASSUME held \/ a = NoAvatar
       PROVE  /\ player' \in [Session -> Avatar \cup {NoAvatar}] /\ toRelease' \in [Avatar -> Nat]
              /\ RefsExact' /\ PlayersLive' /\ FreeIsUnused'
  <2>1. UNCHANGED <<player, toRelease>>
    BY <1>2, <1>10
  <2>2. RefsExact'
    BY <1>1, <1>2, <2>1, HoldersStay DEF RefsExact
  <2>3. PlayersLive' /\ FreeIsUnused'
    BY <1>1, <1>2, <1>6, <2>1 DEF PlayersLive, FreeIsUnused
  <2> QED BY <1>1, <2>1, <2>2, <2>3 DEF TypeOK
<1>11. ASSUME ~(held \/ a = NoAvatar)
       PROVE  /\ player' \in [Session -> Avatar \cup {NoAvatar}] /\ toRelease' \in [Avatar -> Nat]
              /\ RefsExact' /\ PlayersLive' /\ FreeIsUnused'
  <2>1. /\ player' = [player EXCEPT ![s] = NoAvatar]
        /\ toRelease' = [toRelease EXCEPT ![a] = @ + 1]
    BY <1>2, <1>11
  <2>2. /\ a \in Avatar
        /\ toRelease'[a] = toRelease[a] + 1
        /\ \A b \in Avatar \ {a} : toRelease'[b] = toRelease[b]
        /\ toRelease' \in [Avatar -> Nat]
    BY <1>1, <1>11, <2>1 DEF TypeOK
  <2>3. /\ Cardinality(Holders(a)') = Cardinality(Holders(a)) - 1
        /\ \A b \in Avatar \ {a} : Holders(b)' = Holders(b)
    BY <1>0, <1>1, <2>1, <2>2, HolderGoes
  <2>4. RefsExact'
    <3>1. SUFFICES ASSUME NEW b \in Avatar
                   PROVE  refs[b] = Cardinality(Holders(b)') + One(status[b] = "online")
                                      + One(check[b] # "no") + toRelease'[b]
      BY <1>2 DEF RefsExact
    <3>2. refs[b] = Cardinality(Holders(b)) + One(status[b] = "online")
                      + One(check[b] # "no") + toRelease[b]
      BY <1>1 DEF RefsExact
    <3>3. CASE b # a
      BY <2>2, <2>3, <3>2, <3>3
    <3>4. CASE b = a
      BY <1>9, <2>2, <2>3, <3>2, <3>4
    <3> QED BY <3>3, <3>4
  <2>5. PlayersLive'
    BY <1>1, <1>2, <1>4 DEF PlayersLive
  <2>6. FreeIsUnused'
    <3>1. status[a] # "free"
      BY <1>0, <1>1, <1>11 DEF PlayersLive
    <3> QED BY <1>1, <1>2, <1>6, <2>2, <3>1 DEF FreeIsUnused
  <2> QED BY <1>1, <2>1, <2>2, <2>4, <2>5, <2>6 DEF TypeOK
<1>12. ClientIsLive'
  BY <1>1, <1>4, <1>5, <1>6 DEF ClientIsLive
<1>13. OpenSessionIsClient'
  <2>1. SUFFICES ASSUME NEW r \in Session, life'[r] \in {"open", "closing"},
                        player'[r] # NoAvatar
                 PROVE  client'[player'[r]] = r
    BY DEF OpenSessionIsClient
  <2>2. r # s
    BY <1>4, <2>1
  <2>3. player'[r] = player[r] /\ player[r] \in Avatar /\ client[player[r]] = r
    BY <1>1, <1>4, <2>1, <2>2 DEF OpenSessionIsClient, TypeOK
  <2> QED BY <1>6, <2>2, <2>3
<1>14. ConnectComes'
  <2>1. SUFFICES ASSUME NEW b \in Avatar, status[b] = "online", isConnecting[b]
                 PROVE  /\ overtaken[b] \/ \E r \in Session : target[r] = b
                        /\ client'[b] = NoSession \/ StillCloses(client[b])'
    BY <1>2 DEF ConnectComes
  <2>2. /\ overtaken[b] \/ \E r \in Session : target[r] = b
        /\ client[b] = NoSession \/ StillCloses(client[b])
    BY <1>1, <2>1 DEF ConnectComes
  <2>3. CASE client'[b] = NoSession
    BY <2>2, <2>3
  <2>4. CASE client'[b] # NoSession
    <3>1. client'[b] = client[b] /\ client[b] \in Session \ {s}
      BY <1>5, <1>6, <2>4
    <3>2. life'[client[b]] = life[client[b]]
      BY <1>4, <3>1
    <3> QED BY <2>2, <3>1, <3>2 DEF StillCloses
  <2> QED BY <2>3, <2>4
<1>15. TypeOK'
  <2>1. /\ player' \in [Session -> Avatar \cup {NoAvatar}] /\ toRelease' \in [Avatar -> Nat]
    BY <1>10, <1>11
  <2>2. client' \in [Avatar -> Session \cup {NoSession}]
    BY <1>1, <1>2 DEF TypeOK
  <2> QED BY <1>1, <1>2, <2>1, <2>2 DEF TypeOK, Queue
<1>16. RefsExact' /\ PlayersLive' /\ FreeIsUnused'
  BY <1>10, <1>11
<1> QED BY <1>7, <1>8, <1>12, <1>13, <1>14, <1>15, <1>16 DEF IInv

\* The release is tried again.
LEMMA RetryReleaseStep ==
  ASSUME IInv, NEW s \in Session, NEW messages \in BOOLEAN, RetryRelease(s, messages)
  PROVE  IInv'
<1>1. life[s] = "released" /\ ReleaseProtocol(s, messages) /\ UNCHANGED tasks
  BY DEF RetryRelease
<1>2. /\ tasks \in Seq([job : Job, session : Session])
      /\ life \in [Session -> {"unborn", "open", "closing", "released", "deleted"}]
      /\ TaskOfLive(tasks, life) /\ CloseQueued(tasks, life) /\ TasksDiffer(tasks)
      /\ CloseIsLast(tasks)
  BY DEF IInv, Queue
<1>3. /\ life'[s] \in {"released", "deleted"} /\ \A r \in Session \ {s} : life'[r] = life[r]
      /\ life' \in [Session -> {"unborn", "open", "closing", "released", "deleted"}]
  BY <1>1, <1>2 DEF ReleaseProtocol
<1>4. TaskOfLive(tasks, life)'
  <2>1. SUFFICES ASSUME NEW i \in 1..Len(tasks)
                 PROVE  /\ tasks[i].job # "connect" =>
                             life'[tasks[i].session] \in {"open", "closing"}
                        /\ tasks[i].job = "close" => life'[tasks[i].session] = "closing"
    BY <1>1 DEF TaskOfLive
  <2>2. /\ tasks[i].job # "connect" => life[tasks[i].session] \in {"open", "closing"}
        /\ tasks[i].job = "close" => life[tasks[i].session] = "closing"
        /\ tasks[i].session \in Session
    BY <1>2, TaskIsTask DEF TaskOfLive
  <2> QED BY <1>1, <1>3, <2>2
<1>5. CloseQueued(tasks, life)'
  BY <1>1, <1>2, <1>3 DEF CloseQueued
<1>6. Queue(tasks, life)'
  BY <1>1, <1>2, <1>3, <1>4, <1>5 DEF Queue
<1>7. \A i \in 1..Len(tasks') : \E j \in 1..Len(tasks) : tasks[j] = tasks'[i]
  BY <1>1
<1> QED BY <1>1, <1>6, <1>7, ReleaseStep

\* After the close task of a session nothing is left that its connection asked for.
LEMMA CloseTaskStep ==
  ASSUME IInv, NEW s \in Session, NEW messages \in BOOLEAN, CloseTask(s, messages)
  PROVE  IInv'
<1>1. /\ tasks # <<>> /\ Head(tasks) = Task("close", s)
      /\ tasks' = Tail(tasks) /\ ReleaseProtocol(s, messages)
  BY DEF CloseTask, Runs
<1>2. /\ tasks \in Seq([job : Job, session : Session])
      /\ life \in [Session -> {"unborn", "open", "closing", "released", "deleted"}]
      /\ TaskOfLive(tasks, life) /\ CloseQueued(tasks, life) /\ TasksDiffer(tasks)
      /\ CloseIsLast(tasks)
  BY DEF IInv, Queue
<1>3. /\ tasks' \in Seq([job : Job, session : Session])
      /\ Len(tasks) \in Nat \ {0} /\ Len(tasks') = Len(tasks) - 1
      /\ tasks[1] = Task("close", s)
      /\ \A i \in 1..Len(tasks') : i + 1 \in 1..Len(tasks) /\ tasks'[i] = tasks[i + 1]
  BY <1>1, <1>2
<1>4. /\ Task("close", s).job = "close" /\ Task("close", s).session = s
      /\ 1 \in 1..Len(tasks)
  BY <1>3 DEF Task
<1>5. life[s] = "closing"
  BY <1>2, <1>3, <1>4 DEF TaskOfLive
<1>6. /\ life'[s] \in {"released", "deleted"} /\ \A r \in Session \ {s} : life'[r] = life[r]
      /\ life' \in [Session -> {"unborn", "open", "closing", "released", "deleted"}]
  BY <1>1, <1>2 DEF ReleaseProtocol
<1>7. TaskOfLive(tasks, life)'
  <2>1. SUFFICES ASSUME NEW i \in 1..Len(tasks')
                 PROVE  /\ tasks'[i].job # "connect" =>
                             life'[tasks'[i].session] \in {"open", "closing"}
                        /\ tasks'[i].job = "close" => life'[tasks'[i].session] = "closing"
    BY DEF TaskOfLive
  <2>2. /\ tasks'[i].job # "connect" => life[tasks'[i].session] \in {"open", "closing"}
        /\ tasks'[i].job = "close" => life[tasks'[i].session] = "closing"
        /\ tasks'[i].session \in Session
    <3>1. i + 1 \in 1..Len(tasks) /\ tasks'[i] = tasks[i + 1]
      BY <1>3
    <3>2. tasks[i + 1].session \in Session
      BY <1>2, <3>1, TaskIsTask
    <3> QED BY <1>2, <3>1, <3>2 DEF TaskOfLive
  <2>3. CASE tasks'[i].session # s
    BY <1>6, <2>2, <2>3
  <2>4. CASE tasks'[i].session = s
    <3>1. SUFFICES ASSUME tasks'[i].job # "connect"  PROVE FALSE
      OBVIOUS
    <3>2. i + 1 <= 1
      BY <1>2, <1>3, <1>4, <2>4, <3>1 DEF CloseIsLast
    <3> QED BY <1>3, <3>2
  <2> QED BY <2>3, <2>4
<1>8. CloseQueued(tasks, life)'
  <2>1. SUFFICES ASSUME NEW r \in Session, life'[r] = "closing"
                 PROVE  \E i \in 1..Len(tasks') : tasks'[i] = Task("close", r)
    BY DEF CloseQueued
  <2>2. r # s /\ life[r] = "closing"
    BY <1>6, <2>1
  <2>3. PICK i \in 1..Len(tasks) : tasks[i] = Task("close", r)
    BY <1>2, <2>2 DEF CloseQueued
  <2>4. i # 1
    BY <1>3, <2>2, <2>3 DEF Task
  <2>5. i - 1 \in 1..Len(tasks') /\ tasks'[i - 1] = tasks[i]
    BY <1>3, <2>4
  <2> QED BY <2>3, <2>5
<1>9. TasksDiffer(tasks)'
  <2>1. SUFFICES ASSUME NEW i \in 1..Len(tasks'), NEW j \in 1..Len(tasks'), i # j
                 PROVE  /\ tasks'[i] # tasks'[j]
                        /\ ~(/\ tasks'[i].session = tasks'[j].session
                             /\ tasks'[i].job \in FirstJobs /\ tasks'[j].job \in FirstJobs)
    BY DEF TasksDiffer
  <2>2. /\ i + 1 # j + 1 /\ i + 1 \in 1..Len(tasks) /\ j + 1 \in 1..Len(tasks)
        /\ tasks'[i] = tasks[i + 1] /\ tasks'[j] = tasks[j + 1]
    BY <1>3, <2>1
  <2> QED BY <1>2, <2>2 DEF TasksDiffer
<1>10. CloseIsLast(tasks)'
  <2>1. SUFFICES ASSUME NEW i \in 1..Len(tasks'), NEW j \in 1..Len(tasks'),
                        tasks'[i].job = "close", tasks'[j].job # "connect",
                        tasks'[i].session = tasks'[j].session
                 PROVE  j <= i
    BY DEF CloseIsLast
  <2>2. j + 1 <= i + 1
    BY <1>2, <1>3, <2>1 DEF CloseIsLast
  <2> QED BY <1>3, <2>2
<1>11. Queue(tasks, life)'
  BY <1>3, <1>6, <1>7, <1>8, <1>9, <1>10 DEF Queue
<1>12. \A i \in 1..Len(tasks') : \E j \in 1..Len(tasks) : tasks[j] = tasks'[i]
  BY <1>3
<1> QED BY <1>1, <1>5, <1>11, <1>12, ReleaseStep

-----------------------------------------------------------------------------
(* The references are given back.                                           *)

\* A round of checks: what left the game is freed when nobody refers to it.
LEMMA CheckCreaturesStep ==
  ASSUME IInv, NEW B \in SUBSET Avatar, CheckCreatures(B)
  PROVE  IInv'
<1>1. /\ TypeOK /\ RefsExact /\ PlayersLive /\ FreeIsUnused /\ ClientIsLive
      /\ OpenSessionIsClient /\ ConnectComes /\ TasksFind /\ SessionsWell
      /\ Queue(tasks, life)
  BY DEF IInv
<1> DEFINE given(a) == toRelease[a] + IF a \in B THEN 1 ELSE 0
           freed(a) == given(a) > 0 /\ refs[a] = given(a)
<1>2. /\ \A a \in B : check[a] = "leaving"
      /\ check' = [a \in Avatar |-> IF a \in B THEN "no" ELSE check[a]]
      /\ toRelease' = [a \in Avatar |-> 0]
      /\ refs' = [a \in Avatar |-> refs[a] - given(a)]
      /\ UNCHANGED <<life, tasks, first, accepts, player, target, timers,
                     isConnecting, overtaken>>
  BY DEF CheckCreatures, netVars, sessionVars
<1>3. /\ status' = [a \in Avatar |-> IF freed(a) THEN "free" ELSE status[a]]
      /\ client' = [a \in Avatar |-> IF freed(a) THEN NoSession ELSE client[a]]
  BY DEF CheckCreatures
<1>4. ASSUME NEW a \in Avatar
      PROVE  /\ refs[a] - given(a) = Cardinality(Holders(a)) + One(status[a] = "online")
                                       + One(check'[a] # "no")
             /\ given(a) \in Nat /\ Cardinality(Holders(a)) \in Nat
             /\ One(status[a] = "online") \in Nat /\ One(check'[a] # "no") \in Nat
             /\ refs[a] \in Nat
  <2>1. refs[a] = Cardinality(Holders(a)) + One(status[a] = "online") + One(check[a] # "no")
                    + toRelease[a]
    BY <1>1 DEF RefsExact
  <2>2. One(check[a] # "no") = One(check'[a] # "no") + IF a \in B THEN 1 ELSE 0
    BY <1>2 DEF One
  <2>3. /\ Cardinality(Holders(a)) \in Nat /\ toRelease[a] \in Nat /\ refs[a] \in Nat
        /\ One(status[a] = "online") \in Nat /\ One(check'[a] # "no") \in Nat
    BY <1>1, HoldersFinite DEF TypeOK, One
  <2> QED BY <2>1, <2>2, <2>3
<1>5. ASSUME NEW a \in Avatar, freed(a)
      PROVE  Holders(a) = {} /\ status[a] # "online" /\ check'[a] = "no"
  <2>1. /\ Cardinality(Holders(a)) = 0 /\ One(status[a] = "online") = 0
        /\ One(check'[a] # "no") = 0
    BY <1>4, <1>5
  <2>2. Holders(a) = {}
    BY <2>1, HoldersFinite, FS_EmptySet
  <2> QED BY <2>1, <2>2 DEF One
<1>6. client' = client
  <2>1. ASSUME NEW a \in Avatar, freed(a)  PROVE client[a] = NoSession
    <3>1. SUFFICES ASSUME client[a] # NoSession  PROVE FALSE
      OBVIOUS
    <3>2. client[a] \in Session /\ player[client[a]] = a
      BY <1>1, <3>1 DEF ClientIsLive, TypeOK
    <3>3. Holders(a) = {}
      BY <1>5, <2>1
    <3> QED BY <3>2, <3>3 DEF Holders
  <2>2. \A a \in Avatar : client'[a] = client[a]
    BY <1>3, <2>1
  <2> QED BY <1>1, <1>3, <2>1, <2>2 DEF TypeOK
<1>7. \A a \in Avatar : (status'[a] = "online") <=> (status[a] = "online")
  BY <1>3, <1>5
<1>8. RefsExact'
  <2>1. SUFFICES ASSUME NEW a \in Avatar
                 PROVE  refs'[a] = Cardinality(Holders(a)') + One(status'[a] = "online")
                                     + One(check'[a] # "no") + toRelease'[a]
    BY DEF RefsExact
  <2>2. refs'[a] = refs[a] - given(a) /\ toRelease'[a] = 0
    BY <1>2
  <2>3. Holders(a)' = Holders(a)
    BY <1>2, HoldersStay
  <2>4. One(status'[a] = "online") = One(status[a] = "online")
    BY <1>7 DEF One
  <2> HIDE DEF given
  <2> QED BY <1>4, <2>2, <2>3, <2>4
<1>9. PlayersLive'
  <2>1. SUFFICES ASSUME NEW s \in Session, player[s] # NoAvatar
                 PROVE  status'[player[s]] # "free"
    BY <1>2 DEF PlayersLive
  <2>2. player[s] \in Avatar /\ status[player[s]] # "free"
    BY <1>1, <2>1 DEF PlayersLive, TypeOK
  <2>3. ~freed(player[s])
    <3>1. s \in Holders(player[s])
      BY DEF Holders
    <3> QED BY <1>5, <2>2, <3>1
  <2> QED BY <1>3, <2>2, <2>3
<1>10. FreeIsUnused'
  <2>1. SUFFICES ASSUME NEW a \in Avatar, status'[a] = "free"
                 PROVE  refs'[a] = 0 /\ check'[a] = "no" /\ toRelease'[a] = 0
                          /\ client'[a] = NoSession
    BY DEF FreeIsUnused
  <2>2. CASE freed(a)
    <3>1. refs'[a] = 0
      BY <1>2, <1>4, <2>2
    <3> QED BY <1>2, <1>3, <1>5, <2>2, <3>1
  <2>3. CASE ~freed(a)
    <3>1. status[a] = "free"
      BY <1>3, <2>1, <2>3
    <3>2. refs[a] = 0 /\ check[a] = "no" /\ toRelease[a] = 0 /\ client[a] = NoSession
      BY <1>1, <3>1 DEF FreeIsUnused
    <3>3. a \notin B
      BY <1>2, <3>2
    <3> QED BY <1>2, <1>6, <3>2, <3>3
  <2> QED BY <2>2, <2>3
<1>11. ClientIsLive' /\ OpenSessionIsClient'
  BY <1>1, <1>2, <1>6 DEF ClientIsLive, OpenSessionIsClient
<1>12. TasksFind' /\ SessionsWell' /\ Queue(tasks, life)'
  BY <1>1, <1>2 DEF TasksFind, TaskFinds, SessionsWell, Queue, TaskOfLive, CloseQueued,
                    TasksDiffer, CloseIsLast
<1>13. ConnectComes'
  BY <1>1, <1>2, <1>6, <1>7, ConnectStillComes DEF LifeCloses
<1>14. TypeOK'
  <2>1. \A a \in Avatar : refs[a] - given(a) \in Nat
    BY <1>4
  <2>2. refs' \in [Avatar -> Nat]
    BY <1>2, <2>1
  <2>3. /\ status' \in [Avatar -> {"free", "made", "online", "removed"}]
        /\ check' \in [Avatar -> {"no", "yes", "leaving"}]
        /\ toRelease' \in [Avatar -> Nat]
    BY <1>1, <1>2, <1>3 DEF TypeOK
  <2> QED BY <1>1, <1>2, <1>6, <2>2, <2>3 DEF TypeOK
<1> QED BY <1>8, <1>9, <1>10, <1>11, <1>12, <1>13, <1>14 DEF IInv

-----------------------------------------------------------------------------
(* The theorems.                                                            *)

\* The invariant holds at first, ...
LEMMA InitHolds == Init => IInv
<1>1. SUFFICES ASSUME Init  PROVE IInv
  OBVIOUS
<1>2. TypeOK
  BY <1>1 DEF Init, TypeOK, Job
<1>3. Queue(tasks, life)
  BY <1>1, <1>2 DEF Init, Queue, TypeOK, TaskOfLive, CloseQueued, TasksDiffer, CloseIsLast
<1>4. TasksFind /\ SessionsWell
  BY <1>1 DEF Init, TasksFind, SessionsWell
<1>5. RefsExact
  <2>1. SUFFICES ASSUME NEW a \in Avatar
                 PROVE  refs[a] = Cardinality(Holders(a)) + One(status[a] = "online")
                                    + One(check[a] # "no") + toRelease[a]
    BY DEF RefsExact
  <2>2. Holders(a) = {}
    BY <1>1, SessionAssumption DEF Init, Holders
  <2>3. Cardinality(Holders(a)) = 0
    BY <2>2, FS_EmptySet
  <2> QED BY <1>1, <2>3 DEF Init, One
<1>6. PlayersLive /\ FreeIsUnused /\ ClientIsLive /\ OpenSessionIsClient /\ ConnectComes
  BY <1>1 DEF Init, PlayersLive, FreeIsUnused, ClientIsLive, OpenSessionIsClient, ConnectComes
<1> QED BY <1>2, <1>3, <1>4, <1>5, <1>6 DEF IInv

\* ... when nothing happens, ...
LEMMA StutterHolds == IInv /\ UNCHANGED vars => IInv'
<1>1. SUFFICES ASSUME IInv, UNCHANGED vars  PROVE IInv'
  OBVIOUS
<1>2. UNCHANGED <<life, tasks, first, accepts, player, target, timers,
                  status, client, isConnecting, overtaken, refs, check, toRelease>>
  BY <1>1 DEF vars, netVars, sessionVars, avatarVars
<1>3. Close(NoSession, tasks)
  BY <1>2 DEF Close
<1>4. QueueKept
  BY <1>1, <1>3, CloseStep DEF IInv
<1>5. /\ Queue(tasks, life)' /\ TasksFind' /\ SessionsWell'
      /\ ClientIsLive' /\ OpenSessionIsClient' /\ ConnectComes'
  BY <1>1, <1>2, <1>4, SessionsQuiet DEF sessionVars
<1>6. RefsExact' /\ PlayersLive' /\ FreeIsUnused'
  BY <1>1, <1>2, RefsStay DEF IInv
<1>7. TypeOK'
  BY <1>1, <1>2 DEF IInv, TypeOK
<1> QED BY <1>5, <1>6, <1>7 DEF IInv

\* ... after every step ...
LEMMA NextHolds == IInv /\ [Next]_vars => IInv'
<1>1. SUFFICES ASSUME IInv, Next  PROVE IInv'
  BY StutterHolds
<1>2. CASE NetNext
  <2>1. PICK s \in Session :
          \/ Accept(s)
          \/ \E job \in {"login", "refuse"} : FirstMessage(s, job)
          \/ LogoutPacket(s) \/ Drop(s) \/ TimeIsUp(s)
    BY <1>2 DEF NetNext
  <2> QED BY <1>1, <2>1, AcceptStep, FirstMessageStep, LogoutPacketStep, DropStep, TimeIsUpStep
<1>3. CASE TaskNext
  <2>1. PICK s \in Session :
          \/ \E a \in Avatar :
               \/ \E outcome \in {"refused", "placed", "kicked"} : LoginNew(s, a, outcome)
               \/ \E replace \in BOOLEAN : LoginOnline(s, a, replace)
          \/ Connect(s) \/ Refuse(s)
          \/ \E allowed \in BOOLEAN : Logout(s, allowed)
          \/ \E messages \in BOOLEAN : CloseTask(s, messages) \/ RetryRelease(s, messages)
    BY <1>3 DEF TaskNext
  <2> QED BY <1>1, <2>1, LoginNewStep, LoginOnlineStep, ConnectStep, RefuseStep, LogoutStep,
             CloseTaskStep, RetryReleaseStep
<1>4. CASE GameNext
  <2>1. CASE \E a \in Avatar : Kick(a) \/ LostConnection(a) \/ Die(a)
    BY <1>1, <2>1, KickStep, DieStep DEF LostConnection
  <2>2. CASE \E B \in SUBSET Avatar : CheckCreatures(B)
    BY <1>1, <2>2, CheckCreaturesStep
  <2> QED BY <1>4, <2>1, <2>2 DEF GameNext
<1> QED BY <1>1, <1>2, <1>3, <1>4 DEF Next

\* ... and so for good.
LEMMA InductiveInvariant == Spec => []IInv
<1> QED BY InitHolds, NextHolds, PTL DEF Spec

\* The variables keep their types: the counters of references never go below
\* zero in Game::ReleaseCreature and decrementReferenceCounter.
THEOREM TypeCorrect == Spec => []TypeOK
<1>1. IInv => TypeOK
  BY DEF IInv
<1> QED BY <1>1, InductiveInvariant, PTL

\* Game::cleanup frees no Player that a session, the map or a list still names.
THEOREM NothingDangles == Spec => []NoDangling
<1>1. IInv => NoDangling
  BY DEF IInv, NoDangling, PlayersLive, FreeIsUnused
<1> QED BY <1>1, InductiveInvariant, PTL

\* Every task and every scheduled connect() finds its session, and those of the
\* connection find it attached (std::bind(&ProtocolGame::..., this)).
THEOREM TasksFindTheirSession == Spec => []TasksFindSession
<1>1. ASSUME IInv  PROVE TasksFindSession
  <2>1. ASSUME NEW s \in timers  PROVE life[s] # "deleted"
    BY <1>1, <2>1 DEF IInv, SessionsWell, TypeOK
  <2>2. tasks \in Seq([job : Job, session : Session]) /\ DOMAIN tasks = 1..Len(tasks)
    BY <1>1 DEF IInv, TypeOK
  <2>3. ASSUME NEW i \in 1..Len(tasks)
        PROVE  life[tasks[i].session] \in
                 IF tasks[i].job = "connect" THEN {"open", "closing", "released"}
                                             ELSE {"open", "closing"}
    <3>1. tasks[i].session \in Session
      BY <2>2, TaskIsTask
    <3>2. CASE tasks[i].job # "connect"
      BY <1>1, <3>2 DEF IInv, Queue, TaskOfLive
    <3>3. CASE tasks[i].job = "connect"
      <4>1. target[tasks[i].session] # NoAvatar
        BY <1>1, <3>3 DEF IInv, TasksFind, TaskFinds
      <4> QED BY <1>1, <3>1, <3>3, <4>1 DEF IInv, SessionsWell, TypeOK
    <3> QED BY <3>2, <3>3
  <2> QED BY <2>1, <2>2, <2>3 DEF TasksFindSession
<1> QED BY <1>1, InductiveInvariant, PTL

\* Player::client names a session that lives and that controls this player.
THEOREM ClientsAreLive == Spec => []ClientIsLive
<1>1. IInv => ClientIsLive
  BY DEF IInv
<1> QED BY <1>1, InductiveInvariant, PTL

\* No two attached sessions steer one character (connect(), protocolgame.cpp:227).
THEOREM OneSessionSteers == Spec => []OpenSessionIsClient
<1>1. IInv => OpenSessionIsClient
  BY DEF IInv
<1> QED BY <1>1, InductiveInvariant, PTL

\* Player::isConnecting does not outlast the connect() it stands for, unless that
\* connect() overtook the close of the client it was to replace.
THEOREM ConnectingEnds == Spec => []ConnectingIsPending
<1>1. IInv => ConnectingIsPending
  BY DEF IInv, ConnectingIsPending, ConnectComes, Online
<1> QED BY <1>1, InductiveInvariant, PTL

-----------------------------------------------------------------------------
(* The waiting list, which a login passes before it is a session.           *)
(*                                                                          *)
(* cleanupList() is a loop over a list, so what it leaves is shown by       *)
(* induction over the entries: of the numbers a fact fails for there is a   *)
(* smallest one.  Then only this counts: the cleaned lists are the old ones *)
(* thinned out, where nobody stands further back and none passes another.   *)

\* A set of numbers that is not empty has a least one.
LEMMA Smallest ==
  ASSUME NEW B \in SUBSET Nat, B # {}
  PROVE  \E m \in B : \A n \in B : m <= n
<1>1. PICK m \in B : \A n \in B : ~ (<<n, m>> \in OpToRel(<, Nat))
  BY NatLessThanWellFounded, WFMin
<1>2. \A n \in B : <<n, m>> \in OpToRel(<, Nat) <=> n < m
  BY DEF OpToRel
<1>3. \A n \in B : ~ (n < m)
  BY <1>1, <1>2, Zenon
<1> QED BY <1>3

\* What holds of 0 and of each number's successor holds up to n.
LEMMA UpTo ==
  ASSUME NEW n \in Nat, NEW G \in SUBSET Nat, 0 \in G,
         \A i \in 1..n : i - 1 \in G => i \in G
  PROVE  \A i \in 0..n : i \in G
<1>1. SUFFICES ASSUME (0..n) \ G # {} PROVE FALSE
  OBVIOUS
<1>2. PICK m \in (0..n) \ G : \A k \in (0..n) \ G : m <= k
  <2> DEFINE B == (0..n) \ G
  <2>1. B \in SUBSET Nat /\ B # {}
    BY <1>1
  <2>2. \E m \in B : \A k \in B : m <= k
    BY <2>1, Smallest
  <2> QED BY <2>2
<1>3. m # 0 /\ m - 1 \in 0..n
  BY <1>2
<1> QED BY <1>2, <1>3

\* Who is in a list stands somewhere in it.
LEMMA InList ==
  ASSUME NEW S, NEW s \in Seq(S), NEW x
  PROVE  x \in Range(s) <=> \E a \in 1..Len(s) : s[a] = x
BY DEF Range

\* cleanupList() looks at entry c when it has kept t, and up to entry n.
Looked(t, c, gone) == IF c \in gone THEN t ELSE Append(t, c)
IsKept(k, list, gone, n) ==
  k = [i \in 0..n |->
         IF i = 0 THEN <<>>
         ELSE Looked(k[i - 1], list[i], gone)]

\* The loop of cleanupList() has a result at every entry.
LEMMA KeptIs ==
  ASSUME NEW list, NEW gone, NEW n \in Nat
  PROVE  \E k : IsKept(k, list, gone, n)
<1> DEFINE G == {m \in Nat : \E k : IsKept(k, list, gone, m)}
<1>1. 0 \in G
  <2>1. IsKept([i \in 0..0 |-> <<>>], list, gone, 0)
    BY DEF IsKept
  <2> QED BY <2>1
<1>2. ASSUME NEW m \in 1..n, m - 1 \in G PROVE m \in G
  <2>1. PICK k : IsKept(k, list, gone, m - 1)
    BY <1>2
  <2> DEFINE next == Looked(k[m - 1], list[m], gone)
             f == [i \in 0..m |-> IF i = m THEN next ELSE k[i]]
  <2>2. \A i \in 0..(m - 1) : f[i] = k[i]
    OBVIOUS
  <2>3. \A i \in 0..(m - 1) : k[i] =
          IF i = 0 THEN <<>>
          ELSE Looked(k[i - 1], list[i], gone)
    BY <2>1 DEF IsKept
  <2>4. f[m] = next /\ f[m - 1] = k[m - 1]
    OBVIOUS
  <2> HIDE DEF f
  <2>5. \A i \in 0..m : f[i] =
          IF i = 0 THEN <<>>
          ELSE Looked(f[i - 1], list[i], gone)
    <3> TAKE i \in 0..m
    <3>1. CASE i = m
      BY <2>4, <3>1
    <3>2. CASE i # m
      <4>1. i \in 0..(m - 1) /\ (i # 0 => i - 1 \in 0..(m - 1))
        BY <3>2
      <4> QED BY <2>2, <2>3, <4>1
    <3> QED BY <3>1, <3>2
  <2>6. f = [i \in 0..m |-> f[i]]
    BY DEF f
  <2>7. IsKept(f, list, gone, m)
    BY <2>5, <2>6 DEF IsKept
  <2> QED BY <2>7
<1>3. G \in SUBSET Nat
  OBVIOUS
<1> HIDE DEF G
<1>4. \A i \in 0..n : i \in G
  BY <1>1, <1>2, <1>3, UpTo
<1>5. n \in G
  BY <1>4
<1> QED BY <1>5 DEF G

\* cleanupList() is this loop up to the end.
LEMMA CleanupIs ==
  ASSUME NEW S, NEW list \in Seq(S), NEW gone
  PROVE  \E k : IsKept(k, list, gone, Len(list)) /\ CleanupList(list, gone) = k[Len(list)]
<1> DEFINE K == CHOOSE k : IsKept(k, list, gone, Len(list))
<1>1. Len(list) \in Nat
  OBVIOUS
<1>2. IsKept(K, list, gone, Len(list))
  BY <1>1, KeptIs
<1>3. CleanupList(list, gone) = K[Len(list)]
  BY DEF CleanupList, IsKept, Looked
<1> QED BY <1>2, <1>3

\* t is what remains of s when some entries are taken out: nobody stands further
\* back, and who stood ahead of another still does.
Thins(t, s) ==
  /\ \A a \in 1..Len(t) : \E b \in 1..Len(s) : t[a] = s[b] /\ a <= b
  /\ \A a, d \in 1..Len(t) :
       a < d => \E b, e \in 1..Len(s) : t[a] = s[b] /\ t[d] = s[e] /\ b < e

\* t is what cleanupList() keeps of the first i entries of s; f says where they stood.
Cleaned(t, s, gone, i, f) ==
  /\ Len(t) <= i
  /\ f \in [1..Len(t) -> 1..i]
  /\ \A a \in 1..Len(t) : t[a] = s[f[a]] /\ a <= f[a] /\ s[f[a]] \notin gone
  /\ \A a, b \in 1..Len(t) : a < b => f[a] < f[b]
  /\ \A c \in 1..i : s[c] \notin gone => \E a \in 1..Len(t) : f[a] = c

\* One entry further.
LEMMA CleanedStep ==
  ASSUME NEW S, NEW s \in Seq(S), NEW gone, NEW t \in Seq(S), NEW f,
         NEW i \in 1..Len(s), Cleaned(t, s, gone, i - 1, f)
  PROVE  /\ Looked(t, s[i], gone) \in Seq(S)
         /\ \E g : Cleaned(Looked(t, s[i], gone), s, gone, i, g)
<1>1. CASE s[i] \in gone
  <2>1. Cleaned(t, s, gone, i, f)
    BY <1>1 DEF Cleaned
  <2> QED BY <1>1, <2>1 DEF Looked
<1>2. CASE s[i] \notin gone
  <2> DEFINE u == Append(t, s[i])
             n == Len(t)
             g == [a \in 1..(n + 1) |-> IF a = n + 1 THEN i ELSE f[a]]
  <2>1. /\ u \in Seq(S) /\ Len(u) = n + 1 /\ n \in Nat /\ n <= i - 1
        /\ u[n + 1] = s[i] /\ \A a \in 1..n : u[a] = t[a]
    BY DEF Cleaned
  <2>4. /\ n + 1 \in 1..(n + 1) /\ \A a \in 1..n : a \in 1..(n + 1) /\ a # n + 1
        /\ \A a \in 1..(n + 1) : a = n + 1 \/ a \in 1..n
    BY <2>1
  <2>9. \A a \in 1..n : f[a] \in 1..(i - 1)
    BY DEF Cleaned
  <2>2. g[n + 1] = i /\ \A a \in 1..n : g[a] = f[a] /\ f[a] \in 1..(i - 1)
    BY <2>4, <2>9
  <2>3. g \in [1..Len(u) -> 1..i]
    <3>1. \A a \in 1..(n + 1) : g[a] \in 1..i
      <4>1. i \in 1..i /\ \A m \in 1..(i - 1) : m \in 1..i
        OBVIOUS
      <4> HIDE DEF g
      <4> QED BY <2>2, <2>4, <4>1
    <3>2. g = [a \in 1..(n + 1) |-> g[a]]
      OBVIOUS
    <3> QED BY <2>1, <3>1, <3>2
  <2> HIDE DEF g, u
  <2>5. \A a \in 1..Len(u) : u[a] = s[g[a]] /\ a <= g[a] /\ s[g[a]] \notin gone
    BY <1>2, <2>1, <2>2, <2>4 DEF Cleaned
  <2>6. \A a, b \in 1..Len(u) : a < b => g[a] < g[b]
    BY <2>1, <2>2, <2>4 DEF Cleaned
  <2>7. ASSUME NEW c \in 1..i, s[c] \notin gone PROVE \E a \in 1..Len(u) : g[a] = c
    <3>1. CASE c = i
      BY <2>1, <2>2, <2>4, <3>1
    <3>2. CASE c # i
      <4>1. c \in 1..(i - 1)
        BY <3>2
      <4>2. PICK a \in 1..n : f[a] = c
        BY <2>7, <4>1 DEF Cleaned
      <4> QED BY <2>1, <2>2, <2>4, <4>2
    <3> QED BY <3>1, <3>2
  <2>8. Cleaned(u, s, gone, i, g)
    BY <2>1, <2>3, <2>5, <2>6, <2>7 DEF Cleaned
  <2> QED BY <1>2, <2>1, <2>8 DEF u, Looked
<1> QED BY <1>1, <1>2

\* cleanupList() takes out what is gone, and nothing else.
LEMMA CleanupKeeps ==
  ASSUME NEW S, NEW list \in Seq(S), NEW gone
  PROVE  /\ CleanupList(list, gone) \in Seq(S)
         /\ Thins(CleanupList(list, gone), list)
         /\ Range(CleanupList(list, gone)) = Range(list) \ gone
<1>1. PICK k : IsKept(k, list, gone, Len(list)) /\ CleanupList(list, gone) = k[Len(list)]
  BY CleanupIs
<1> DEFINE n == Len(list)
           G == {i \in 0..n : k[i] \in Seq(S) /\ \E f : Cleaned(k[i], list, gone, i, f)}
<1>2. n \in Nat /\ G \in SUBSET Nat
  OBVIOUS
<1>3. /\ k[0] = <<>>
      /\ \A i \in 1..n : k[i] = Looked(k[i - 1], list[i], gone)
  <2>1. k = [i \in 0..n |->
              IF i = 0 THEN <<>>
              ELSE Looked(k[i - 1], list[i], gone)]
    BY <1>1 DEF IsKept
  <2>2. \A i \in 0..n : k[i] =
          IF i = 0 THEN <<>>
          ELSE Looked(k[i - 1], list[i], gone)
    BY <2>1
  <2>3. 0 \in 0..n /\ \A i \in 1..n : i \in 0..n /\ i # 0
    BY <1>2
  <2> QED BY <2>2, <2>3
<1>4. 0 \in G
  <2>1. Cleaned(<<>>, list, gone, 0, <<>>)
    BY DEF Cleaned
  <2>2. <<>> \in Seq(S) /\ 0 \in 0..n
    BY <1>2
  <2> HIDE DEF n
  <2> QED BY <1>3, <2>1, <2>2
<1>5. ASSUME NEW i \in 1..n, i - 1 \in G PROVE i \in G
  <2>1. PICK f : k[i - 1] \in Seq(S) /\ Cleaned(k[i - 1], list, gone, i - 1, f)
    BY <1>5
  <2>2. i \in 1..Len(list) /\ i \in 0..n
    BY <1>2
  <2> HIDE DEF n, G
  <2>3. /\ Looked(k[i - 1], list[i], gone) \in Seq(S)
        /\ \E g : Cleaned(Looked(k[i - 1], list[i], gone), list, gone, i, g)
    BY <2>1, <2>2, CleanedStep
  <2>4. Looked(k[i - 1], list[i], gone) = k[i]
    BY <1>3
  <2> QED BY <2>2, <2>3, <2>4 DEF G
<1> HIDE DEF G
<1>6. n \in G
  <2>1. \A i \in 0..n : i \in G
    BY <1>2, <1>4, <1>5, UpTo
  <2> QED BY <1>2, <2>1
<1> DEFINE t == CleanupList(list, gone)
<1>7. PICK f : t \in Seq(S) /\ Cleaned(t, list, gone, n, f)
  BY <1>1, <1>6 DEF G
<1> HIDE DEF t
<1>8. Thins(t, list)
  BY <1>7 DEF Cleaned, Thins
<1>9. ASSUME NEW x
      PROVE  (\E a \in 1..Len(t) : t[a] = x)
               <=> (\E a \in 1..Len(list) : list[a] = x) /\ x \notin gone
  <2>1. ASSUME NEW a \in 1..Len(t)
        PROVE  f[a] \in 1..n /\ t[a] = list[f[a]] /\ t[a] \notin gone
    BY <1>7 DEF Cleaned
  <2>2. ASSUME NEW c \in 1..n, list[c] = x, x \notin gone
        PROVE  \E a \in 1..Len(t) : t[a] = x
    <3>1. PICK a \in 1..Len(t) : f[a] = c
      BY <1>7, <2>2 DEF Cleaned
    <3> QED BY <2>1, <2>2, <3>1
  <2> QED BY <2>1, <2>2
<1>10. \A x : x \in Range(t) <=> \E a \in 1..Len(t) : t[a] = x
  BY <1>7, InList
<1>11. \A x : x \in Range(list) <=> \E a \in 1..Len(list) : list[a] = x
  BY InList
<1>12. Range(t) = Range(list) \ gone
  BY <1>9, <1>10, <1>11
<1> QED BY <1>7, <1>8, <1>12 DEF t

\* Nobody waits twice.
Unique(s) == \A i, j \in 1..Len(s) : s[i] = s[j] => i = j

\* The two lists as one.
LEMMA Joined ==
  ASSUME NEW S, NEW p \in Seq(S), NEW w \in Seq(S)
  PROVE  /\ p \o w \in Seq(S) /\ Len(p) \in Nat /\ Len(w) \in Nat
         /\ Len(p \o w) = Len(p) + Len(w)
         /\ \A a \in 1..Len(p) : a \in 1..Len(p \o w) /\ (p \o w)[a] = p[a]
         /\ \A a \in 1..Len(w) : a + Len(p) \in 1..Len(p \o w) /\ (p \o w)[a + Len(p)] = w[a]
         /\ \A a \in 1..Len(p \o w) :
              \/ a \in 1..Len(p)
              \/ a > Len(p) /\ \E b \in 1..Len(w) : a = b + Len(p)
<1>1. ASSUME NEW a \in 1..Len(p \o w)
      PROVE  a \in 1..Len(p) \/ (a > Len(p) /\ \E b \in 1..Len(w) : a = b + Len(p))
  <2>1. CASE a > Len(p)
    <3>1. a - Len(p) \in 1..Len(w) /\ a = (a - Len(p)) + Len(p)
      BY <2>1
    <3> QED BY <2>1, <3>1
  <2> QED BY <2>1
<1> QED BY <1>1

\* Two lists thinned out, one after the other.
LEMMA ThinsBoth ==
  ASSUME NEW S, NEW p \in Seq(S), NEW w \in Seq(S), NEW q \in Seq(S), NEW v \in Seq(S),
         Thins(q, p), Thins(v, w)
  PROVE  Thins(q \o v, p \o w)
<1> DEFINE s == p \o w
           t == q \o v
           m == Len(p)
           n == Len(q)
<1>1. /\ m \in Nat /\ n \in Nat
      /\ \A a \in 1..m : a \in 1..Len(s) /\ s[a] = p[a]
      /\ \A a \in 1..Len(w) : a + m \in 1..Len(s) /\ s[a + m] = w[a]
  BY Joined
<1>2. \A a \in 1..n : t[a] = q[a]
  BY Joined
<1>3. \A a \in 1..Len(v) : t[a + n] = v[a]
  BY Joined
<1>4. \A a \in 1..Len(t) : a \in 1..n \/ (a > n /\ \E c \in 1..Len(v) : a = c + n)
  BY Joined
<1>5. n <= m
  <2>1. CASE n = 0
    BY <1>1, <2>1
  <2>2. CASE n # 0
    <3>1. n \in 1..n
      BY <1>1, <2>2
    <3>2. PICK b \in 1..m : n <= b
      BY <3>1 DEF Thins
    <3> QED BY <1>1, <3>2
  <2> QED BY <2>1, <2>2
<1> HIDE DEF s, t, m, n
\* Where an entry comes from.
<1>6. ASSUME NEW a \in 1..n
      PROVE  \E b \in 1..m : t[a] = s[b] /\ a <= b /\ b \in 1..Len(s)
  <2>1. PICK b \in 1..m : q[a] = p[b] /\ a <= b
    BY DEF Thins, n, m
  <2> QED BY <1>1, <1>2, <2>1
<1>7. ASSUME NEW c \in 1..Len(v)
      PROVE  \E b \in 1..Len(w) : t[c + n] = s[b + m] /\ c <= b /\ b + m \in 1..Len(s)
  <2>1. PICK b \in 1..Len(w) : v[c] = w[b] /\ c <= b
    BY DEF Thins
  <2> QED BY <1>1, <1>3, <2>1
<1>8. ASSUME NEW a \in 1..Len(t)
      PROVE  \E b \in 1..Len(s) : t[a] = s[b] /\ a <= b
  <2>1. CASE a \in 1..n
    BY <1>6, <2>1
  <2>2. CASE \E c \in 1..Len(v) : a = c + n
    <3>1. PICK c \in 1..Len(v) : a = c + n
      BY <2>2
    <3>2. PICK b \in 1..Len(w) : t[c + n] = s[b + m] /\ c <= b /\ b + m \in 1..Len(s)
      BY <1>7
    <3>3. c + n <= b + m
      BY <1>1, <1>5, <3>2
    <3> QED BY <3>1, <3>2, <3>3
  <2> QED BY <1>4, <2>1, <2>2
<1>9. ASSUME NEW a \in 1..Len(t), NEW d \in 1..Len(t), a < d
      PROVE  \E b, e \in 1..Len(s) : t[a] = s[b] /\ t[d] = s[e] /\ b < e
  <2>1. CASE a \in 1..n /\ d \in 1..n
    <3>1. PICK b \in 1..m, e \in 1..m : q[a] = p[b] /\ q[d] = p[e] /\ b < e
      BY <1>9, <2>1 DEF Thins, n, m
    <3> QED BY <1>1, <1>2, <2>1, <3>1
  <2>2. CASE a \in 1..n /\ \E c \in 1..Len(v) : d = c + n
    <3>1. PICK b \in 1..m : t[a] = s[b] /\ b \in 1..Len(s)
      BY <1>6, <2>2
    <3>2. PICK c \in 1..Len(v) : d = c + n
      BY <2>2
    <3>3. PICK e \in 1..Len(w) : t[d] = s[e + m] /\ e + m \in 1..Len(s)
      BY <1>7, <3>2
    <3>4. b < e + m
      BY <1>1
    <3> QED BY <3>1, <3>3, <3>4
  <2>3. CASE (\E c \in 1..Len(v) : a = c + n) /\ (\E c \in 1..Len(v) : d = c + n)
    <3>1. PICK c \in 1..Len(v), g \in 1..Len(v) : a = c + n /\ d = g + n
      BY <2>3
    <3>2. c < g
      BY <1>1, <1>9, <3>1
    <3>3. PICK b \in 1..Len(w), e \in 1..Len(w) : v[c] = w[b] /\ v[g] = w[e] /\ b < e
      BY <3>2 DEF Thins
    <3>4. b + m < e + m
      BY <1>1, <3>3
    <3> QED BY <1>1, <1>3, <3>1, <3>3, <3>4
  <2>4. a > n => ~ (d \in 1..n)
    BY <1>1, <1>9
  <2> QED BY <1>4, <2>1, <2>2, <2>3, <2>4
<1> QED BY <1>8, <1>9 DEF Thins, s, t

\* Who remains in a thinned list stands no later than before, and in the same order.
LEMMA ThinsOrder ==
  ASSUME NEW S, NEW s \in Seq(S), NEW t \in Seq(S), Unique(s), Thins(t, s)
  PROVE  /\ Unique(t)
         /\ \A a \in 1..Len(t), b \in 1..Len(s) : t[a] = s[b] => a <= b
         /\ \A a, d \in 1..Len(t), b, e \in 1..Len(s) :
              t[a] = s[b] /\ t[d] = s[e] /\ b < e => a < d
<1>1. Unique(t)
  <2> SUFFICES ASSUME NEW a \in 1..Len(t), NEW d \in 1..Len(t), t[a] = t[d], a # d
               PROVE  FALSE
    BY DEF Unique
  <2>1. CASE a < d
    BY <2>1 DEF Thins, Unique
  <2>2. CASE d < a
    BY <2>2 DEF Thins, Unique
  <2> QED BY <2>1, <2>2
<1>2. ASSUME NEW a \in 1..Len(t), NEW b \in 1..Len(s), t[a] = s[b] PROVE a <= b
  BY <1>2 DEF Thins, Unique
<1>3. ASSUME NEW a \in 1..Len(t), NEW d \in 1..Len(t), NEW b \in 1..Len(s),
             NEW e \in 1..Len(s), t[a] = s[b], t[d] = s[e], b < e
      PROVE  a < d
  <2>1. a # d
    BY <1>3 DEF Unique
  <2>2. ~ (d < a)
    <3> SUFFICES ASSUME d < a PROVE FALSE
      OBVIOUS
    <3>1. PICK x \in 1..Len(s), y \in 1..Len(s) : t[d] = s[x] /\ t[a] = s[y] /\ x < y
      BY DEF Thins
    <3>2. x = e /\ y = b
      BY <1>3, <3>1 DEF Unique
    <3> QED BY <1>3, <3>1, <3>2
  <2> QED BY <2>1, <2>2
<1> QED BY <1>1, <1>2, <1>3

Places(p, w) == Range(p) \cup Range(w)

\* ... and in the two lists as one.
LEMMA InPlaces ==
  ASSUME NEW S, NEW p \in Seq(S), NEW w \in Seq(S), NEW x
  PROVE  x \in Places(p, w) <=> \E a \in 1..Len(p \o w) : (p \o w)[a] = x
<1>1. /\ x \in Range(p) <=> \E a \in 1..Len(p) : p[a] = x
      /\ x \in Range(w) <=> \E a \in 1..Len(w) : w[a] = x
  BY InList
<1>2. /\ \A a \in 1..Len(p) : a \in 1..Len(p \o w) /\ (p \o w)[a] = p[a]
      /\ \A a \in 1..Len(w) : a + Len(p) \in 1..Len(p \o w) /\ (p \o w)[a + Len(p)] = w[a]
      /\ \A a \in 1..Len(p \o w) :
           a \in 1..Len(p) \/ (a > Len(p) /\ \E b \in 1..Len(w) : a = b + Len(p))
  BY Joined
<1>3. ASSUME NEW a \in 1..Len(p \o w), (p \o w)[a] = x PROVE x \in Places(p, w)
  <2>1. CASE a \in 1..Len(p)
    BY <1>1, <1>2, <1>3, <2>1 DEF Places
  <2>2. CASE \E b \in 1..Len(w) : a = b + Len(p)
    BY <1>1, <1>2, <1>3, <2>2 DEF Places
  <2> QED BY <1>2, <2>1, <2>2
<1>4. ASSUME x \in Places(p, w) PROVE \E a \in 1..Len(p \o w) : (p \o w)[a] = x
  <2>1. CASE x \in Range(p)
    BY <1>1, <1>2, <2>1
  <2>2. CASE x \in Range(w)
    BY <1>1, <1>2, <2>2
  <2> QED BY <1>4, <2>1, <2>2 DEF Places
<1> QED BY <1>3, <1>4

\* A newcomer is added to who is there.
LEMMA AppendSet ==
  ASSUME NEW S, NEW s \in Seq(S), NEW x \in S
  PROVE  Range(Append(s, x)) = Range(s) \cup {x}
<1>1. /\ Append(s, x) \in Seq(S) /\ Len(Append(s, x)) = Len(s) + 1 /\ Len(s) \in Nat
      /\ Append(s, x)[Len(s) + 1] = x /\ \A a \in 1..Len(s) : Append(s, x)[a] = s[a]
  OBVIOUS
<1>5. \A y : y \in Range(Append(s, x)) <=> \E a \in 1..Len(Append(s, x)) : Append(s, x)[a] = y
  BY <1>1, InList
<1>2. \A y : y \in Range(Append(s, x)) <=> \E a \in 1..(Len(s) + 1) : Append(s, x)[a] = y
  BY <1>1, <1>5
<1>3. \A y : y \in Range(s) <=> \E a \in 1..Len(s) : s[a] = y
  BY InList
<1>4. /\ \A a \in 1..(Len(s) + 1) : a \in 1..Len(s) \/ a = Len(s) + 1
      /\ \A a \in 1..Len(s) : a \in 1..(Len(s) + 1)
      /\ Len(s) + 1 \in 1..(Len(s) + 1)
  BY <1>1
<1> QED BY <1>1, <1>2, <1>3, <1>4

\* findClient() gives the place where the client stands.
LEMMA Slot ==
  ASSUME NEW S, NEW p \in Seq(S), NEW w \in Seq(S), NEW c \in Places(p, w)
  PROVE  /\ FindClient(p, w, c) \in 1..Len(p \o w) /\ FindClient(p, w, c) \in Nat
         /\ (p \o w)[FindClient(p, w, c)] = c
<1>1. \E a \in 1..Len(p \o w) : (p \o w)[a] = c
  BY InPlaces
<1>2. p \o w \in Seq(S) /\ Len(p \o w) \in Nat /\ DOMAIN (p \o w) = 1..Len(p \o w)
  OBVIOUS
<1>3. /\ FindClient(p, w, c) \in 1..Len(p \o w)
      /\ (p \o w)[FindClient(p, w, c)] = c
  BY <1>1, <1>2, Zenon DEF FindClient
<1> QED BY <1>2, <1>3

\* cleanupList() of both lists.
LEMMA CleanBoth ==
  ASSUME NEW S, NEW p \in Seq(S), NEW w \in Seq(S), Unique(p \o w), NEW gone, NEW q, NEW v,
         q = CleanupList(p, gone), v = CleanupList(w, gone)
  PROVE  /\ q \in Seq(S) /\ v \in Seq(S) /\ Unique(q \o v) /\ Thins(q \o v, p \o w)
         /\ Range(q) = Range(p) \ gone /\ Range(v) = Range(w) \ gone
<1>1. q \in Seq(S) /\ Thins(q, p) /\ Range(q) = Range(p) \ gone
  BY CleanupKeeps
<1>2. v \in Seq(S) /\ Thins(v, w) /\ Range(v) = Range(w) \ gone
  BY CleanupKeeps
<1>3. Thins(q \o v, p \o w)
  BY <1>1, <1>2, ThinsBoth
<1>4. p \o w \in Seq(S) /\ q \o v \in Seq(S)
  BY <1>1, <1>2
<1>5. Unique(q \o v)
  BY <1>3, <1>4, ThinsOrder
<1> QED BY <1>1, <1>2, <1>3, <1>5

\* When others leave the lists a client moves up, and nobody passes him.
LEMMA SlotsMoveUp ==
  ASSUME NEW S, NEW p \in Seq(S), NEW w \in Seq(S), NEW q \in Seq(S), NEW v \in Seq(S),
         Unique(p \o w), Thins(q \o v, p \o w), NEW c \in Places(q, v), NEW d \in Places(q, v),
         c \in Places(p, w), d \in Places(p, w)
  PROVE  /\ FindClient(q, v, c) <= FindClient(p, w, c)
         /\ FindClient(p, w, d) < FindClient(p, w, c)
              => FindClient(q, v, d) < FindClient(q, v, c)
<1>1. p \o w \in Seq(S) /\ q \o v \in Seq(S)
  OBVIOUS
<1>2. \A x \in {c, d} :
        /\ FindClient(p, w, x) \in 1..Len(p \o w) /\ (p \o w)[FindClient(p, w, x)] = x
        /\ FindClient(q, v, x) \in 1..Len(q \o v) /\ (q \o v)[FindClient(q, v, x)] = x
  BY Slot
<1> DEFINE s == p \o w
           t == q \o v
<1>3. s \in Seq(S) /\ t \in Seq(S) /\ Unique(s) /\ Thins(t, s)
  BY <1>1
<1> HIDE DEF s, t
<1>4. \A a \in 1..Len(t), b \in 1..Len(s) : t[a] = s[b] => a <= b
  BY <1>3, ThinsOrder
<1>5. \A a, g \in 1..Len(t), b, e \in 1..Len(s) :
        t[a] = s[b] /\ t[g] = s[e] /\ b < e => a < g
  BY <1>3, ThinsOrder
<1> QED BY <1>2, <1>4, <1>5 DEF s, t

\* Who joins a list stands at its end.
LEMMA SlotOfNewcomer ==
  ASSUME NEW S, NEW p \in Seq(S), NEW w \in Seq(S), Unique(p \o w), NEW x \in S,
         x \notin Places(p, w)
  PROVE  /\ Append(p, x) \in Seq(S) /\ Append(w, x) \in Seq(S)
         /\ Unique(Append(p, x) \o w) /\ Unique(p \o Append(w, x))
         /\ FindClient(Append(p, x), w, x) = Len(p) + 1
         /\ FindClient(p, Append(w, x), x) = Len(p) + Len(w) + 1
         /\ Range(Append(p, x)) = Range(p) \cup {x}
         /\ Range(Append(w, x)) = Range(w) \cup {x}
<1> DEFINE k == Len(p) + 1
           n == Len(p) + Len(w)
<1>1. /\ Append(p, x) \in Seq(S) /\ Append(w, x) \in Seq(S) /\ Len(p) \in Nat /\ Len(w) \in Nat
      /\ Len(p \o w) = n /\ Len(Append(p, x) \o w) = n + 1 /\ Len(p \o Append(w, x)) = n + 1
      /\ k \in 1..(n + 1) /\ n \in Nat
  OBVIOUS
<1>2. \A a \in 1..n : (p \o w)[a] # x
  BY <1>1, InPlaces
<1>3. ASSUME NEW u \in Seq(S), Len(u) = n + 1, NEW m \in 1..(n + 1), u[m] = x,
             \A a \in 1..(n + 1) : /\ a < m => u[a] = (p \o w)[a]
                                   /\ a > m => u[a] = (p \o w)[a - 1]
      PROVE  Unique(u) /\ \A a \in 1..Len(u) : u[a] = x => a = m
  <2> HIDE DEF n, k
  <2>1. \A a \in 1..(n + 1) : /\ a < m => a \in 1..n
                              /\ a > m => a - 1 \in 1..n
    BY <1>1
  <2>2. \A a \in 1..(n + 1) : a < m \/ a > m \/ a = m
    BY <1>1
  <2>3. \A a \in 1..(n + 1) : u[a] = x => a = m
    BY <1>2, <1>3, <2>1, <2>2
  <2>4. ASSUME NEW a \in 1..(n + 1), NEW b \in 1..(n + 1), u[a] = u[b] PROVE a = b
    <3>1. CASE a = m \/ b = m
      BY <1>3, <2>3, <2>4, <3>1
    <3>2. CASE a < m /\ b < m
      BY <1>1, <1>3, <2>1, <2>4, <3>2 DEF Unique
    <3>3. CASE a > m /\ b > m
      <4>1. (p \o w)[a - 1] = (p \o w)[b - 1]
        BY <1>3, <2>4, <3>3
      <4>2. a - 1 \in 1..Len(p \o w) /\ b - 1 \in 1..Len(p \o w)
        BY <1>1, <2>1, <3>3
      <4>3. a - 1 = b - 1
        BY <4>1, <4>2 DEF Unique
      <4> QED BY <4>3
    <3>4. CASE a < m /\ b > m
      <4>1. a = b - 1
        BY <1>1, <1>3, <2>1, <2>4, <3>4 DEF Unique
      <4> QED BY <1>1, <3>4, <4>1
    <3>5. CASE a > m /\ b < m
      <4>1. a - 1 = b
        BY <1>1, <1>3, <2>1, <2>4, <3>5 DEF Unique
      <4> QED BY <1>1, <3>5, <4>1
    <3> QED BY <2>2, <3>1, <3>2, <3>3, <3>4, <3>5
  <2> QED BY <1>3, <2>3, <2>4 DEF Unique
<1>4. /\ Unique(Append(p, x) \o w)
      /\ \A a \in 1..Len(Append(p, x) \o w) : (Append(p, x) \o w)[a] = x => a = k
  <2> DEFINE u == Append(p, x) \o w
  <2>1. u \in Seq(S) /\ Len(u) = n + 1 /\ u[k] = x
    OBVIOUS
  <2>2. \A a \in 1..(n + 1) : a < k => u[a] = (p \o w)[a]
    OBVIOUS
  <2>3. \A a \in 1..(n + 1) : a > k => u[a] = (p \o w)[a - 1]
    OBVIOUS
  <2> HIDE DEF u, k, n
  <2>4. Unique(u) /\ \A a \in 1..Len(u) : u[a] = x => a = k
    BY <1>1, <1>3, <2>1, <2>2, <2>3
  <2> QED BY <2>4 DEF u
<1>5. /\ Unique(p \o Append(w, x))
      /\ \A a \in 1..Len(p \o Append(w, x)) : (p \o Append(w, x))[a] = x => a = n + 1
  <2> DEFINE u == p \o Append(w, x)
  <2>1. u \in Seq(S) /\ Len(u) = n + 1 /\ u[n + 1] = x /\ n + 1 \in 1..(n + 1)
    OBVIOUS
  <2>2. \A a \in 1..(n + 1) : a < n + 1 => u[a] = (p \o w)[a]
    OBVIOUS
  <2>3. \A a \in 1..(n + 1) : ~ (a > n + 1)
    BY <1>1
  <2> HIDE DEF u, n
  <2>4. Unique(u) /\ \A a \in 1..Len(u) : u[a] = x => a = n + 1
    BY <1>1, <1>3, <2>1, <2>2, <2>3
  <2> QED BY <2>4 DEF u
<1>6. /\ Range(Append(p, x)) = Range(p) \cup {x}
      /\ Range(Append(w, x)) = Range(w) \cup {x}
  BY AppendSet
<1>7. x \in Places(Append(p, x), w) /\ x \in Places(p, Append(w, x))
  BY <1>6 DEF Places
<1>8. /\ FindClient(Append(p, x), w, x) \in 1..Len(Append(p, x) \o w)
      /\ (Append(p, x) \o w)[FindClient(Append(p, x), w, x)] = x
  BY <1>1, <1>7, Slot
<1>9. /\ FindClient(p, Append(w, x), x) \in 1..Len(p \o Append(w, x))
      /\ (p \o Append(w, x))[FindClient(p, Append(w, x), x)] = x
  BY <1>1, <1>7, Slot
<1>10. FindClient(Append(p, x), w, x) = k /\ FindClient(p, Append(w, x), x) = n + 1
  BY <1>4, <1>5, <1>8, <1>9
<1> QED BY <1>1, <1>4, <1>5, <1>6, <1>10

\* Nobody has two entries, in one list or in both.
EachOnce == Unique(priorityWaitList \o waitList)

\* Who waits, in the words of this section.
LEMMA WaitingIs == Waiting = Places(priorityWaitList, waitList)
BY DEF Waiting, Places

\* getTime() tells between 5 seconds and 2 minutes.
LEMMA TimeOfSlot == \A n \in Nat : GetTime(n) \in 5..120
BY DEF GetTime

\* The entries after a login that leaves q and v as the lists.
LEMMA Remembered ==
  ASSUME WaitingTypeOK, NEW q \in Seq(Client), NEW v \in Seq(Client), NEW c, NEW time,
         priorityWaitList' = q, waitList' = v, Remember(q, v, c, time),
         Places(q, v) \subseteq Waiting \cup {c}, c \in Places(q, v) => time \in 15..135
  PROVE  /\ Waiting' = Places(q, v)
         /\ DOMAIN timeout' = Waiting' /\ DOMAIN retry' = Waiting'
         /\ \A d \in Waiting' : timeout'[d] \in 15..135 /\ retry'[d] \in 0..120
         /\ \A d \in Waiting' \ {c} : timeout'[d] = timeout[d] /\ retry'[d] = retry[d]
         /\ c \in Waiting' =>
              timeout'[c] = time /\ retry'[c] = GetTime(FindClient(q, v, c))
<1>1. Waiting' = Places(q, v)
  BY DEF Waiting, Places
<1>2. /\ timeout' = [d \in Places(q, v) |-> IF d = c THEN time ELSE timeout[d]]
      /\ retry' = [d \in Places(q, v) |->
                     IF d = c THEN GetTime(FindClient(q, v, c)) ELSE retry[d]]
  BY DEF Remember, Places
<1>3. c \in Places(q, v) => GetTime(FindClient(q, v, c)) \in 5..120
  BY Slot, TimeOfSlot
<1>4. \A d \in Places(q, v) : d # c => timeout[d] \in 15..135 /\ retry[d] \in 0..120
  BY DEF WaitingTypeOK
<1>5. \A n \in 5..120 : n \in 0..120
  OBVIOUS
<1> QED BY <1>1, <1>2, <1>3, <1>4, <1>5

\* What the three logins that look at the lists do to them.
LEMMA ListsAfter ==
  ASSUME WaitingTypeOK, EachOnce, NEW c \in Client, NEW expired
  PROVE  LET p == CleanupList(priorityWaitList, expired)
             w == CleanupList(waitList, expired)
         IN /\ p \in Seq(Client) /\ w \in Seq(Client) /\ Unique(p \o w)
            /\ Thins(p \o w, priorityWaitList \o waitList)
            /\ Places(p, w) = Waiting \ expired
            /\ Erase(p, c) \in Seq(Client) /\ Erase(w, c) \in Seq(Client)
            /\ Unique(Erase(p, c) \o Erase(w, c))
            /\ Thins(Erase(p, c) \o Erase(w, c), p \o w)
            /\ Places(Erase(p, c), Erase(w, c)) = Places(p, w) \ {c}
<1> DEFINE p == CleanupList(priorityWaitList, expired)
           w == CleanupList(waitList, expired)
<1>1. priorityWaitList \in Seq(Client) /\ waitList \in Seq(Client)
  BY DEF WaitingTypeOK
<1>2. /\ p \in Seq(Client) /\ w \in Seq(Client) /\ Unique(p \o w)
      /\ Thins(p \o w, priorityWaitList \o waitList)
      /\ Range(p) = Range(priorityWaitList) \ expired
      /\ Range(w) = Range(waitList) \ expired
  BY <1>1, CleanBoth DEF EachOnce
<1> HIDE DEF p, w
<1> DEFINE q == CleanupList(p, {c})
           v == CleanupList(w, {c})
<1>3. /\ q \in Seq(Client) /\ v \in Seq(Client) /\ Unique(q \o v) /\ Thins(q \o v, p \o w)
      /\ Range(q) = Range(p) \ {c} /\ Range(v) = Range(w) \ {c}
  BY <1>2, CleanBoth
<1>4. q = Erase(p, c) /\ v = Erase(w, c)
  BY DEF Erase
<1> HIDE DEF q, v
<1>5. Places(p, w) = Waiting \ expired
  BY <1>2 DEF Places, Waiting
<1>6. Places(q, v) = Places(p, w) \ {c}
  BY <1>3 DEF Places
<1> QED BY <1>2, <1>3, <1>4, <1>5, <1>6 DEF p, w

\* The inductive invariant: a slot says who is ahead only as long as nobody stands in
\* the lists twice.
WaitInv == WaitingTypeOK /\ EachOnce /\ TimeoutOutlivesRetry

\* The invariant is kept by a client who is let in, ...
LEMMA LoginFromListKeeps ==
  ASSUME WaitInv, NEW c \in Client, NEW expired, NEW placed \in BOOLEAN,
         LoginFromList(c, expired, placed)
  PROVE  WaitInv'
<1> DEFINE p == CleanupList(priorityWaitList, expired)
           w == CleanupList(waitList, expired)
           q == Erase(p, c)
           v == Erase(w, c)
<1>1. /\ q \in Seq(Client) /\ v \in Seq(Client) /\ Unique(q \o v)
      /\ Places(q, v) = Places(p, w) \ {c} /\ Places(p, w) = Waiting \ expired
  BY ListsAfter DEF WaitInv
<1>2. /\ priorityWaitList' = q /\ waitList' = v /\ Remember(q, v, c, 0)
      /\ online' \in {online, online \cup {c}}
      /\ slips' = slips \/ (slips < MaxSlips /\ slips' = slips + 1)
  BY DEF LoginFromList, Enter
<1> HIDE DEF p, w, q, v
<1>3. /\ Waiting' = Places(q, v) /\ c \notin Waiting'
      /\ DOMAIN timeout' = Waiting' /\ DOMAIN retry' = Waiting'
      /\ \A d \in Waiting' : timeout'[d] \in 15..135 /\ retry'[d] \in 0..120
      /\ \A d \in Waiting' : timeout'[d] = timeout[d] /\ retry'[d] = retry[d]
  <2>1. Places(q, v) \subseteq Waiting \cup {c} /\ c \notin Places(q, v)
    BY <1>1
  <2>2. /\ Waiting' = Places(q, v)
        /\ DOMAIN timeout' = Waiting' /\ DOMAIN retry' = Waiting'
        /\ \A d \in Waiting' : timeout'[d] \in 15..135 /\ retry'[d] \in 0..120
        /\ \A d \in Waiting' \ {c} : timeout'[d] = timeout[d] /\ retry'[d] = retry[d]
    BY <1>1, <1>2, <2>1, Remembered DEF WaitInv
  <2> QED BY <2>1, <2>2
<1>4. slips \in Nat /\ slips <= MaxSlips /\ online \subseteq Client /\ MaxSlips \in Nat
  BY WaitingAssumption DEF WaitInv, WaitingTypeOK
<1>5. slips' \in 0..MaxSlips /\ (slips' = 0 => slips = 0) /\ online' \subseteq Client
  BY <1>2, <1>4
<1>6. WaitingTypeOK'
  BY <1>1, <1>2, <1>3, <1>5 DEF WaitingTypeOK
<1>7. EachOnce'
  BY <1>1, <1>2 DEF EachOnce
<1>8. TimeoutOutlivesRetry'
  <2>1. Waiting' \subseteq Waiting
    BY <1>1, <1>3
  <2> QED BY <1>3, <1>5, <2>1 DEF WaitInv, TimeoutOutlivesRetry
<1> QED BY <1>6, <1>7, <1>8 DEF WaitInv

\* ... one who is told to wait on, ...
LEMMA WaitLongerKeeps ==
  ASSUME WaitInv, NEW c \in Client, NEW expired, WaitLonger(c, expired)
  PROVE  WaitInv'
<1> DEFINE p == CleanupList(priorityWaitList, expired)
           w == CleanupList(waitList, expired)
<1>1. /\ p \in Seq(Client) /\ w \in Seq(Client) /\ Unique(p \o w)
      /\ Places(p, w) = Waiting \ expired
  BY ListsAfter DEF WaitInv
<1>2. /\ priorityWaitList' = p /\ waitList' = w
      /\ Remember(p, w, c, GetTime(FindClient(p, w, c)) + 15)
      /\ c \in Places(p, w) /\ slips' = slips /\ online' = online
  BY DEF WaitLonger, Places
<1> HIDE DEF p, w
<1>3. GetTime(FindClient(p, w, c)) \in 5..120
  BY <1>1, <1>2, Slot, TimeOfSlot
<1> DEFINE time == GetTime(FindClient(p, w, c)) + 15
<1>4. time \in 15..135 /\ Remember(p, w, c, time)
  BY <1>2, <1>3
<1> HIDE DEF time
<1>5. Places(p, w) \subseteq Waiting \cup {c}
  BY <1>1
<1>6. /\ Waiting' = Places(p, w)
      /\ DOMAIN timeout' = Waiting' /\ DOMAIN retry' = Waiting'
      /\ \A d \in Waiting' : timeout'[d] \in 15..135 /\ retry'[d] \in 0..120
      /\ \A d \in Waiting' \ {c} : timeout'[d] = timeout[d] /\ retry'[d] = retry[d]
      /\ c \in Waiting' =>
           timeout'[c] = time /\ retry'[c] = GetTime(FindClient(p, w, c))
  BY <1>1, <1>2, <1>4, <1>5, Remembered DEF WaitInv
<1>7. WaitingTypeOK'
  BY <1>1, <1>2, <1>6 DEF WaitInv, WaitingTypeOK
<1>8. EachOnce'
  BY <1>1, <1>2 DEF EachOnce
<1>9. TimeoutOutlivesRetry'
  <2>1. c \in Waiting' => timeout'[c] = retry'[c] + 15
    BY <1>6 DEF time
  <2>2. Waiting' \subseteq Waiting
    BY <1>1, <1>6
  <2> QED BY <1>2, <1>6, <2>1, <2>2 DEF WaitInv, TimeoutOutlivesRetry
<1> QED BY <1>7, <1>8, <1>9 DEF WaitInv

\* A newcomer, in either list: q and v are the lists with him, time is his.
LEMMA JoinsKeep ==
  ASSUME WaitInv, NEW c \in Client, NEW q \in Seq(Client), NEW v \in Seq(Client),
         NEW n \in Nat, Unique(q \o v), Places(q, v) \subseteq Waiting \cup {c},
         priorityWaitList' = q, waitList' = v, slips' = slips, online' = online,
         Remember(q, v, c, GetTime(n) + 15),
         slips = 0 => n = FindClient(q, v, c)
  PROVE  WaitInv'
<1> DEFINE time == GetTime(n) + 15
<1>1. time \in 15..135
  <2>1. \A g \in 5..120 : g + 15 \in 15..135
    OBVIOUS
  <2> QED BY <2>1, TimeOfSlot
<1>5. Remember(q, v, c, time)
  OBVIOUS
<1> HIDE DEF time
<1>2. /\ Waiting' = Places(q, v)
      /\ DOMAIN timeout' = Waiting' /\ DOMAIN retry' = Waiting'
      /\ \A d \in Waiting' : timeout'[d] \in 15..135 /\ retry'[d] \in 0..120
      /\ \A d \in Waiting' \ {c} : timeout'[d] = timeout[d] /\ retry'[d] = retry[d]
      /\ c \in Waiting' =>
           timeout'[c] = time /\ retry'[c] = GetTime(FindClient(q, v, c))
  BY <1>1, <1>5, Remembered DEF WaitInv
<1>3. WaitingTypeOK'
  BY <1>2 DEF WaitInv, WaitingTypeOK
<1>4. TimeoutOutlivesRetry'
  <2>1. slips = 0 /\ c \in Waiting' => timeout'[c] = retry'[c] + 15
    BY <1>2 DEF time
  <2>2. Waiting' \subseteq Waiting \cup {c}
    BY <1>2
  <2> QED BY <1>2, <2>1, <2>2 DEF WaitInv, TimeoutOutlivesRetry
<1> QED BY <1>3, <1>4 DEF WaitInv, EachOnce

\* ... and one who comes anew.
LEMMA JoinKeeps ==
  ASSUME WaitInv, NEW c \in Client, NEW expired, Join(c, expired)
  PROVE  WaitInv'
<1> DEFINE p == CleanupList(priorityWaitList, expired)
           w == CleanupList(waitList, expired)
<1>1. /\ p \in Seq(Client) /\ w \in Seq(Client) /\ Unique(p \o w)
      /\ Places(p, w) = Waiting \ expired
  BY ListsAfter DEF WaitInv
<1>2. /\ c \notin Places(p, w) /\ slips' = slips /\ online' = online
      /\ IF c \in Premium
           THEN /\ priorityWaitList' = Append(p, c) /\ waitList' = w
                /\ Remember(Append(p, c), w, c, GetTime(Len(p) + slips + 1) + 15)
           ELSE /\ priorityWaitList' = p /\ waitList' = Append(w, c)
                /\ Remember(p, Append(w, c), c, GetTime(Len(p) + Len(w) + 1) + 15)
  BY DEF Join, Places
<1> HIDE DEF p, w
<1>3. /\ Append(p, c) \in Seq(Client) /\ Append(w, c) \in Seq(Client)
      /\ Unique(Append(p, c) \o w) /\ Unique(p \o Append(w, c))
      /\ FindClient(Append(p, c), w, c) = Len(p) + 1
      /\ FindClient(p, Append(w, c), c) = Len(p) + Len(w) + 1
      /\ Range(Append(p, c)) = Range(p) \cup {c}
      /\ Range(Append(w, c)) = Range(w) \cup {c}
  BY <1>1, <1>2, SlotOfNewcomer
<1>4. /\ Places(Append(p, c), w) \subseteq Waiting \cup {c}
      /\ Places(p, Append(w, c)) \subseteq Waiting \cup {c}
  BY <1>1, <1>3 DEF Places
<1>5. /\ Len(p) + slips + 1 \in Nat /\ Len(p) + Len(w) + 1 \in Nat
      /\ slips = 0 => Len(p) + slips + 1 = Len(p) + 1
  BY <1>1 DEF WaitInv, WaitingTypeOK
<1>6. CASE c \in Premium
  <2> DEFINE q == Append(p, c)
             n == Len(p) + slips + 1
  <2>1. /\ q \in Seq(Client) /\ n \in Nat /\ Unique(q \o w)
        /\ Places(q, w) \subseteq Waiting \cup {c}
        /\ priorityWaitList' = q /\ waitList' = w
        /\ Remember(q, w, c, GetTime(n) + 15)
        /\ slips = 0 => n = FindClient(q, w, c)
    BY <1>2, <1>3, <1>4, <1>5, <1>6
  <2> HIDE DEF q, n
  <2> QED BY <1>1, <1>2, <2>1, JoinsKeep
<1>7. CASE c \notin Premium
  <2> DEFINE v == Append(w, c)
             n == Len(p) + Len(w) + 1
  <2>1. /\ v \in Seq(Client) /\ n \in Nat /\ Unique(p \o v)
        /\ Places(p, v) \subseteq Waiting \cup {c}
        /\ priorityWaitList' = p /\ waitList' = v
        /\ Remember(p, v, c, GetTime(n) + 15)
        /\ slips = 0 => n = FindClient(p, v, c)
    BY <1>2, <1>3, <1>4, <1>5, <1>7
  <2> HIDE DEF v, n
  <2> QED BY <1>1, <1>2, <2>1, JoinsKeep
<1> QED BY <1>6, <1>7

\* The steps of the waiting list, one by one.
LEMMA WaitSteps ==
  ASSUME WaitingNext
  PROVE  \E c \in Client :
           \/ Leave(c)
           \/ \E placed \in BOOLEAN : LoginAtOnce(c, placed)
           \/ \E expired \in SUBSET Waiting :
                \/ \E placed \in BOOLEAN : LoginFromList(c, expired, placed)
                \/ WaitLonger(c, expired)
                \/ Join(c, expired)
BY DEF WaitingNext

\* Every step keeps the invariant.
LEMMA WaitStep == WaitInv /\ [WaitingNext]_waitingVars => WaitInv'
<1> SUFFICES ASSUME WaitInv, [WaitingNext]_waitingVars PROVE WaitInv'
  OBVIOUS
<1>1. ASSUME UNCHANGED <<priorityWaitList, waitList, slips, timeout, retry>>,
             online' \subseteq Client
      PROVE  WaitInv'
  <2>1. Waiting' = Waiting
    BY <1>1 DEF Waiting
  <2>2. WaitingTypeOK'
    BY <1>1, <2>1 DEF WaitInv, WaitingTypeOK
  <2>3. EachOnce'
    BY <1>1 DEF WaitInv, EachOnce
  <2>4. TimeoutOutlivesRetry'
    BY <1>1, <2>1 DEF WaitInv, TimeoutOutlivesRetry
  <2> QED BY <2>2, <2>3, <2>4 DEF WaitInv
<1>2. online \subseteq Client
  BY DEF WaitInv, WaitingTypeOK
<1>3. ASSUME NEW c \in Client, Leave(c) PROVE WaitInv'
  BY <1>1, <1>2, <1>3 DEF Leave
<1>4. ASSUME NEW c \in Client, NEW placed \in BOOLEAN, LoginAtOnce(c, placed) PROVE WaitInv'
  BY <1>1, <1>2, <1>4 DEF LoginAtOnce, Enter
<1>5. CASE UNCHANGED waitingVars
  BY <1>1, <1>2, <1>5 DEF waitingVars
<1>6. CASE WaitingNext
  BY <1>3, <1>4, <1>6, WaitSteps, LoginFromListKeeps, WaitLongerKeeps, JoinKeeps
<1> QED BY <1>5, <1>6

\* It holds at first.
LEMMA WaitInit == WaitingInit => WaitInv
<1> SUFFICES ASSUME WaitingInit PROVE WaitInv
  OBVIOUS
<1>1. priorityWaitList = <<>> /\ waitList = <<>> /\ slips = 0 /\ timeout = <<>>
      /\ retry = <<>> /\ online = {}
  BY DEF WaitingInit
<1>2. Waiting = {}
  BY <1>1 DEF Waiting, Range
<1>3. <<>> \in Seq(Client) /\ DOMAIN <<>> = {} /\ Len(<<>> \o <<>>) = 0
  OBVIOUS
<1>4. WaitingTypeOK
  BY WaitingAssumption, <1>1, <1>2, <1>3 DEF WaitingTypeOK
<1>5. EachOnce
  BY <1>1, <1>3 DEF EachOnce, Unique
<1> QED BY <1>2, <1>4, <1>5 DEF WaitInv, TimeoutOutlivesRetry

\* So it holds for good.
LEMMA WaitAlways == WaitingSpec => []WaitInv
BY WaitInit, WaitStep, PTL DEF WaitingSpec

\* The two lists, their timeouts and what clients were told keep their types, for any
\* number of clients and places.
THEOREM WaitingTypeCorrect == WaitingSpec => []WaitingTypeOK
<1>1. WaitInv => WaitingTypeOK
  BY DEF WaitInv
<1> QED BY <1>1, WaitAlways, PTL

\* An entry outlives the wait its client was told, as long as no erase() has left the
\* size of a list wrong (waitlist.cpp:65): the slot that a newcomer is given is the place
\* where he stands.
THEOREM EntryOutlivesRetry == WaitingSpec => []TimeoutOutlivesRetry
<1>1. WaitInv => TimeoutOutlivesRetry
  BY DEF WaitInv
<1> QED BY <1>1, WaitAlways, PTL

\* Who is let in beside those who may always enter.
Counted == online \ Exempt

\* One player more or less.
LEMMA CountOnline ==
  ASSUME online \subseteq Client
  PROVE  /\ IsFiniteSet(online) /\ IsFiniteSet(Counted)
         /\ Cardinality(online) \in Nat /\ Cardinality(Counted) \in Nat
         /\ Cardinality(Counted) <= Cardinality(online)
         /\ \A c : /\ Cardinality(Counted \cup {c}) <= Cardinality(Counted) + 1
                   /\ Cardinality(online \cup {c}) <= Cardinality(online) + 1
                   /\ Cardinality(Counted \ {c}) <= Cardinality(Counted)
                   /\ Cardinality(Counted \cup {c}) \in Nat /\ Cardinality(Counted \ {c}) \in Nat
                   /\ Cardinality(online \cup {c}) \in Nat
<1>1. IsFiniteSet(online)
  BY WaitingAssumption, FS_Subset
<1>2. Counted \in SUBSET online
  BY DEF Counted
<1>3. IsFiniteSet(Counted) /\ Cardinality(Counted) <= Cardinality(online)
  BY <1>1, <1>2, FS_Subset
<1>4. Cardinality(online) \in Nat /\ Cardinality(Counted) \in Nat
  BY <1>1, <1>3, FS_CardinalityType
<1>5. ASSUME NEW c, NEW T, IsFiniteSet(T), Cardinality(T) \in Nat
      PROVE  /\ Cardinality(T \cup {c}) \in Nat /\ Cardinality(T \cup {c}) <= Cardinality(T) + 1
             /\ Cardinality(T \ {c}) \in Nat /\ Cardinality(T \ {c}) <= Cardinality(T)
  <2>1. /\ IsFiniteSet(T \cup {c}) /\ IsFiniteSet(T \ {c})
        /\ Cardinality(T \cup {c}) = IF c \in T THEN Cardinality(T) ELSE Cardinality(T) + 1
        /\ Cardinality(T \ {c}) = IF c \in T THEN Cardinality(T) - 1 ELSE Cardinality(T)
    BY <1>5, FS_AddElement, FS_RemoveElement
  <2>2. Cardinality(T \ {c}) \in Nat
    BY <2>1, FS_CardinalityType
  <2> QED BY <1>5, <2>1, <2>2
<1> QED BY <1>1, <1>3, <1>4, <1>5

\* Whoever is let in finds room: his slot is 1 at least.
LEMMA OverfullStep ==
  WaitInv /\ NeverOverfull /\ [WaitingNext]_waitingVars => NeverOverfull'
<1> SUFFICES ASSUME WaitInv, NeverOverfull, [WaitingNext]_waitingVars
             PROVE  Cardinality(Counted') <= MaxPlayers
  BY DEF NeverOverfull, Counted
<1>1. Cardinality(Counted) <= MaxPlayers /\ MaxPlayers \in Nat
  BY WaitingAssumption DEF NeverOverfull, Counted
<1>2. /\ Cardinality(online) \in Nat /\ Cardinality(Counted) \in Nat
      /\ Cardinality(Counted) <= Cardinality(online)
      /\ \A c : /\ Cardinality(Counted \cup {c}) <= Cardinality(Counted) + 1
                /\ Cardinality(Counted \ {c}) <= Cardinality(Counted)
                /\ Cardinality(Counted \cup {c}) \in Nat /\ Cardinality(Counted \ {c}) \in Nat
  BY CountOnline DEF WaitInv, WaitingTypeOK
<1>3. CASE online' = online
  BY <1>1, <1>3 DEF Counted
<1>4. ASSUME NEW c \in Client, c \in Exempt \/ Cardinality(online) < MaxPlayers,
             online' = online \cup {c}
      PROVE  Cardinality(Counted') <= MaxPlayers
  <2>1. CASE c \in Exempt
    <3>1. Counted' = Counted
      BY <1>4, <2>1 DEF Counted
    <3> QED BY <1>1, <3>1
  <2>2. CASE c \notin Exempt
    <3>1. Counted' = Counted \cup {c}
      BY <1>4, <2>2 DEF Counted
    <3>2. Cardinality(Counted \cup {c}) <= Cardinality(Counted) + 1
      BY <1>2
    <3>3. Cardinality(Counted) + 1 <= MaxPlayers
      BY <1>1, <1>2, <1>4, <2>2
    <3>4. Cardinality(Counted \cup {c}) \in Nat
      BY <1>2
    <3> QED BY <1>1, <1>2, <3>1, <3>2, <3>3, <3>4
  <2> QED BY <2>1, <2>2
<1>5. ASSUME NEW c \in Client, Leave(c) PROVE Cardinality(Counted') <= MaxPlayers
  <2>1. Counted' = Counted \ {c}
    BY <1>5 DEF Leave, Counted
  <2> QED BY <1>1, <1>2, <2>1
<1>6. ASSUME NEW c \in Client, NEW placed \in BOOLEAN, LoginAtOnce(c, placed)
      PROVE  Cardinality(Counted') <= MaxPlayers
  <2>1. c \in Exempt \/ Cardinality(online) < MaxPlayers
    BY <1>6 DEF LoginAtOnce
  <2>2. online' = online \cup {c} \/ online' = online
    BY <1>6 DEF LoginAtOnce, Enter
  <2> QED BY <1>3, <1>4, <2>1, <2>2
<1>7. ASSUME NEW c \in Client, NEW expired, NEW placed \in BOOLEAN,
             LoginFromList(c, expired, placed)
      PROVE  Cardinality(Counted') <= MaxPlayers
  <2> DEFINE p == CleanupList(priorityWaitList, expired)
             w == CleanupList(waitList, expired)
  <2>1. p \in Seq(Client) /\ w \in Seq(Client)
    BY ListsAfter DEF WaitInv
  <2>2. /\ c \in Places(p, w) /\ Cardinality(online) + FindClient(p, w, c) <= MaxPlayers
        /\ online' = online \cup {c} \/ online' = online
    BY <1>7 DEF LoginFromList, Enter, Places
  <2> HIDE DEF p, w
  <2>3. FindClient(p, w, c) \in Nat /\ FindClient(p, w, c) >= 1
    BY <2>1, <2>2, Slot
  <2>4. Cardinality(online) < MaxPlayers
    BY <1>1, <1>2, <2>2, <2>3
  <2> QED BY <1>3, <1>4, <2>2, <2>4
<1>8. ASSUME NEW c \in Client, NEW expired, WaitLonger(c, expired) \/ Join(c, expired)
      PROVE  Cardinality(Counted') <= MaxPlayers
  BY <1>3, <1>8 DEF WaitLonger, Join
<1>9. CASE UNCHANGED waitingVars
  BY <1>3, <1>9 DEF waitingVars
<1>10. CASE WaitingNext
  BY <1>5, <1>6, <1>7, <1>8, <1>10, WaitSteps
<1> QED BY <1>9, <1>10

\* The server never takes more players than the option allows, but for those who may
\* always enter (clientLogin, waitlist.cpp:69-91).
THEOREM ServerNeverOverfull == WaitingSpec => []NeverOverfull
<1>1. WaitingInit => NeverOverfull
  <2> SUFFICES ASSUME WaitingInit PROVE Cardinality(Counted) <= MaxPlayers
    BY DEF NeverOverfull, Counted
  <2>1. Counted = {}
    BY DEF WaitingInit, Counted
  <2> QED BY WaitingAssumption, <2>1, FS_EmptySet
<1> QED BY <1>1, OverfullStep, WaitAlways, PTL DEF WaitingSpec

\* Who is let in leaves room for all who wait ahead.
LeavesRoom ==
  \A c \in Waiting \ Exempt :
    c \in online' \ online => RoomAhead(priorityWaitList, waitList, c)

\* Those ahead of a client keep their distance to him when the lists are cleaned up, and
\* move up at most when he leaves.
LEMMA NobodyPasses ==
  ASSUME WaitInv, NEW c \in Client, NEW expired, NEW placed \in BOOLEAN,
         LoginFromList(c, expired, placed)
  PROVE  RoomAhead(priorityWaitList, waitList, c)
<1> DEFINE p == CleanupList(priorityWaitList, expired)
           w == CleanupList(waitList, expired)
           q == Erase(p, c)
           v == Erase(w, c)
<1>1. /\ p \in Seq(Client) /\ w \in Seq(Client) /\ Unique(p \o w)
      /\ Thins(p \o w, priorityWaitList \o waitList) /\ Places(p, w) = Waiting \ expired
      /\ q \in Seq(Client) /\ v \in Seq(Client) /\ Thins(q \o v, p \o w)
      /\ Places(q, v) = Places(p, w) \ {c}
  BY ListsAfter DEF WaitInv
<1>2. /\ c \in Places(p, w) /\ Cardinality(online) + FindClient(p, w, c) <= MaxPlayers
      /\ priorityWaitList' = q /\ waitList' = v
      /\ online' = online \cup {c} \/ online' = online
  BY DEF LoginFromList, Enter, Places
<1> HIDE DEF p, w, q, v
<1>3. /\ priorityWaitList \in Seq(Client) /\ waitList \in Seq(Client)
      /\ Unique(priorityWaitList \o waitList) /\ online \subseteq Client
  BY DEF WaitInv, WaitingTypeOK, EachOnce
<1> SUFFICES ASSUME NEW d \in Places(priorityWaitList, waitList),
                    FindClient(priorityWaitList, waitList, d)
                      < FindClient(priorityWaitList, waitList, c),
                    d \in Places(q, v)
             PROVE  Cardinality(online') + FindClient(q, v, d) <= MaxPlayers
  BY <1>2, WaitingIs DEF RoomAhead, Places, Waiting
<1>4. d \in Places(p, w) /\ c \in Places(priorityWaitList, waitList)
  BY <1>1, <1>2, WaitingIs
<1>5. FindClient(p, w, d) < FindClient(p, w, c)
  BY <1>1, <1>2, <1>3, <1>4, SlotsMoveUp
<1>6. FindClient(q, v, d) <= FindClient(p, w, d)
  BY <1>1, <1>4, SlotsMoveUp
<1>7. /\ FindClient(p, w, c) \in Nat /\ FindClient(p, w, d) \in Nat
      /\ FindClient(q, v, d) \in Nat
  BY <1>1, <1>2, <1>4, Slot
<1>8. /\ Cardinality(online) \in Nat /\ Cardinality(online') \in Nat
      /\ Cardinality(online') <= Cardinality(online) + 1
  <2>1. /\ Cardinality(online) \in Nat /\ Cardinality(online \cup {c}) \in Nat
        /\ Cardinality(online \cup {c}) <= Cardinality(online) + 1
    BY <1>3, CountOnline
  <2>2. Cardinality(online) <= Cardinality(online) + 1
    BY <2>1
  <2> QED BY <1>2, <2>1, <2>2
<1>9. MaxPlayers \in Nat
  BY WaitingAssumption
<1> QED BY <1>2, <1>5, <1>6, <1>7, <1>8, <1>9

\* No step lets a client in whom one of those ahead could miss the room of.
LEMMA RoomStep == WaitInv /\ [WaitingNext]_waitingVars => LeavesRoom
<1> SUFFICES ASSUME WaitInv, [WaitingNext]_waitingVars,
                    NEW c \in Waiting \ Exempt, c \in online' \ online
             PROVE  RoomAhead(priorityWaitList, waitList, c)
  BY DEF LeavesRoom
<1>1. CASE UNCHANGED waitingVars
  BY <1>1 DEF waitingVars
<1>2. ASSUME NEW e \in Client, Leave(e) PROVE FALSE
  BY <1>2 DEF Leave
<1>3. ASSUME NEW e \in Client, NEW placed \in BOOLEAN, LoginAtOnce(e, placed) PROVE FALSE
  <2>1. e = c
    BY <1>3 DEF LoginAtOnce, Enter
  <2> QED BY <1>3, <2>1 DEF LoginAtOnce
<1>4. ASSUME NEW e \in Client, NEW expired, NEW placed \in BOOLEAN,
             LoginFromList(e, expired, placed)
      PROVE  RoomAhead(priorityWaitList, waitList, c)
  <2>1. e = c
    BY <1>4 DEF LoginFromList, Enter
  <2> QED BY <1>4, <2>1, NobodyPasses
<1>5. ASSUME NEW e \in Client, NEW expired, WaitLonger(e, expired) \/ Join(e, expired)
      PROVE  FALSE
  BY <1>5 DEF WaitLonger, Join
<1>6. CASE WaitingNext
  BY <1>2, <1>3, <1>4, <1>5, <1>6, WaitSteps
<1> QED BY <1>1, <1>6

\* Letting a client in never takes the room of one who waits before him: who had a place
\* when he came still finds it (clientLogin, waitlist.cpp:80-91).
THEOREM NobodyOvertakes == WaitingSpec => NoOvertaking
<1>1. WaitInv /\ [WaitingNext]_waitingVars => [LeavesRoom]_waitingVars
  BY RoomStep
<1>2. NoOvertaking <=> [][LeavesRoom]_waitingVars
  BY DEF NoOvertaking, LeavesRoom
<1> QED BY <1>1, <1>2, WaitAlways, PTL DEF WaitingSpec
=============================================================================
