-------------------------- MODULE ConnectionProofs --------------------------
(* Proofs about the life of a connection for any finite set of messages: no *)
(* order of completions, timeouts, tasks and retries reaches a deleted      *)
(* object before the server goes down.                                      *)
EXTENDS Connection, SequenceTheorems, FiniteSetTheorems, TLAPS

Out == {m \in Msg : place[m] # "Free"}
Has(q, op) == \E i \in DOMAIN q : q[i].op = op
Ops == ReadOps \cup {"Write"}

\* A queue q agrees with the write w under way and the places p: at most one
\* write is under way or completed, and it belongs to a message being written.
WriteQ(q, w, p) ==
  /\ w # NoMsg => p[w] = "Writing" /\ ~Has(q, "Write")
  /\ \A i \in DOMAIN q : q[i].op = "Write" => q[i].msg \in Msg /\ p[q[i].msg] = "Writing"
  /\ \A i, j \in DOMAIN q : q[i].op = "Write" /\ q[j].op = "Write" => i = j

\* In a queue q the stop comes once, after every completion.
StopQ(q) ==
  /\ \A i, j \in DOMAIN q : q[i].op = "Stop" /\ q[j].op \in Ops => j < i
  /\ \A i, j \in DOMAIN q : q[i].op = "Stop" /\ q[j].op = "Stop" => i = j

QueueInv == WriteQ(ioQueue, writing, place) /\ StopQ(ioQueue)

OneWriting == \A m, n \in Msg : place[m] = "Writing" /\ place[n] = "Writing" => m = n

\* The counts are exact: one for every message out of the pool.
CountInv == refs = Cardinality(Out)

\* The tasks ts are distinct; a release belongs to a message given back, the
\* close to a connection that waits for it.
TaskQ(ts, st, p, ph) ==
  /\ \A i, j \in DOMAIN ts : ts[i] = ts[j] => i = j
  /\ \A i \in DOMAIN ts : ts[i] \in Msg => p[ts[i]] = "Releasing"
  /\ \A i \in DOMAIN ts : ts[i] = "Close" => st = "REQUEST_CLOSE"
  /\ ph = "running" /\ st = "REQUEST_CLOSE" => \E i \in DOMAIN ts : ts[i] = "Close"

TaskInv == TaskQ(tasks, state, place, phase)

OpenInv ==
  /\ state = "OPEN" => ~writeError /\ (pendingWrite = 1 <=> \E m \in Msg : place[m] = "Writing")
  /\ state = "OPEN" /\ phase # "down" => socket = "open" /\ managed

ProtocolInv ==
  /\ protocol = "Attached" => state \in {"OPEN", "REQUEST_CLOSE"}
  /\ protocol \in {"Releasing", "Deleted"} => state \in {"CLOSING", "CLOSED"}
  /\ protocol \in {"None", "Deleted"} => Out = {}
  /\ "protocol" \in retry => protocol = "Releasing"

\* The stop is posted for a closed connection that no message refers to.
StopInv ==
  /\ state = "CLOSED" => socket # "open"
  /\ socket # "open" => reading = "None" /\ writing = NoMsg
  /\ Has(ioQueue, "Stop") => state = "CLOSED" /\ Out = {} /\ socket = "closed"
  /\ "connection" \in retry => state = "CLOSED" /\ ~Has(ioQueue, "Stop") /\ socket = "closed"
  /\ socket = "deleted" =>
       /\ state = "CLOSED" /\ Out = {}
       /\ \A i \in DOMAIN ioQueue : ioQueue[i].op \notin Ops

ManagedInv ==
  /\ stopping => socket = "deleted"
  /\ phase # "down" => (managed <=> (socket # "deleted" \/ stopping))
  /\ phase # "down" => ~fault

IInv ==
  /\ TypeOK /\ CountInv /\ QueueInv /\ OneWriting /\ TaskInv /\ OpenInv
  /\ BufferNotInFlight /\ ProtocolInv /\ StopInv /\ ManagedInv

-----------------------------------------------------------------------------
(* The handler queue.                                                       *)

\* What io_service queues is a handler.
LEMMA HandlerType ==
  /\ \A op \in ReadOps \cup {"ReadTimeout", "WriteTimeout", "Stop"},
        e \in {"none", "aborted", "failed"} :
       Ready(op, e) \in Handler /\ Ready(op, e).op = op
  /\ \A m \in Msg, e \in {"none", "aborted", "failed"} :
       /\ Written(m, e) \in Handler
       /\ Written(m, e).op = "Write" /\ Written(m, e).msg = m
  BY DEF Handler, Ready, Written, ReadOps

\* Running the first handler leaves a queue in order, one place further.
LEMMA QueueTail ==
  ASSUME NEW q \in Seq(Handler), q # <<>>, NEW w, NEW p, WriteQ(q, w, p), StopQ(q)
  PROVE  /\ Head(q) \in Handler /\ Head(q) = q[1] /\ 1 \in DOMAIN q
         /\ Tail(q) \in Seq(Handler)
         /\ WriteQ(Tail(q), w, p) /\ StopQ(Tail(q))
         /\ \A i \in DOMAIN Tail(q) : i + 1 \in DOMAIN q /\ Tail(q)[i] = q[i + 1]
  <1>1. /\ Head(q) \in Handler /\ Head(q) = q[1] /\ 1 \in DOMAIN q
        /\ Tail(q) \in Seq(Handler)
        /\ \A i \in DOMAIN Tail(q) : /\ i \in Nat /\ i + 1 \in DOMAIN q
                                     /\ Tail(q)[i] = q[i + 1]
    BY HeadTailProperties
  <1>2. WriteQ(Tail(q), w, p)
    BY <1>1 DEF WriteQ, Has
  <1>3. StopQ(Tail(q))
    <2>1. ASSUME NEW i \in DOMAIN Tail(q), NEW j \in DOMAIN Tail(q),
                 Tail(q)[i].op = "Stop"
          PROVE  /\ Tail(q)[j].op \in Ops => j < i
                 /\ Tail(q)[j].op = "Stop" => i = j
      <3>1. /\ i + 1 \in DOMAIN q /\ j + 1 \in DOMAIN q /\ i \in Nat /\ j \in Nat
            /\ q[i + 1].op = "Stop" /\ q[j + 1].op = Tail(q)[j].op
        BY <1>1, <2>1
      <3>2. /\ q[j + 1].op \in Ops => j + 1 < i + 1
            /\ q[j + 1].op = "Stop" => i + 1 = j + 1
        BY <3>1 DEF StopQ
      <3> QED BY <3>1, <3>2
    <2> QED BY <2>1 DEF StopQ
  <1> QED BY <1>1, <1>2, <1>3

\* So does queueing a handler, if it is no second write and nothing behind the stop.
LEMMA QueueAppend ==
  ASSUME NEW q \in Seq(Handler), NEW w, NEW p, NEW h \in Handler,
         WriteQ(q, w, p), StopQ(q),
         h.op = "Write" => /\ ~Has(q, "Write") /\ w = NoMsg
                           /\ h.msg \in Msg /\ p[h.msg] = "Writing",
         h.op \in Ops \cup {"Stop"} => ~Has(q, "Stop")
  PROVE  /\ Append(q, h) \in Seq(Handler)
         /\ WriteQ(Append(q, h), w, p) /\ StopQ(Append(q, h))
         /\ \A op : Has(Append(q, h), op) <=> Has(q, op) \/ h.op = op
  <1> DEFINE r == Append(q, h)
  <1>1. /\ r \in Seq(Handler) /\ Len(q) \in Nat /\ DOMAIN q = 1..Len(q)
        /\ DOMAIN r = 1..(Len(q) + 1)
        /\ \A i \in DOMAIN q : r[i] = q[i]
        /\ r[Len(q) + 1] = h
    BY AppendProperties
  <1> HIDE DEF r
  <1>2. /\ \A i \in DOMAIN r : i \in DOMAIN q \/ i = Len(q) + 1
        /\ \A i \in DOMAIN q : i \in DOMAIN r /\ i < Len(q) + 1 /\ i \in Nat
        /\ Len(q) + 1 \in DOMAIN r
    BY <1>1
  <1>3. \A op : Has(r, op) <=> Has(q, op) \/ h.op = op
    BY <1>1, <1>2 DEF Has
  <1>4. WriteQ(r, w, p)
    BY <1>1, <1>2, <1>3 DEF WriteQ, Has, Ops
  <1>5. StopQ(r)
    <2>1. ASSUME NEW i \in DOMAIN r, NEW j \in DOMAIN r, r[i].op = "Stop"
          PROVE  /\ r[j].op \in Ops => j < i
                 /\ r[j].op = "Stop" => i = j
      <3>1. CASE i \in DOMAIN q /\ j \in DOMAIN q
        BY <1>1, <2>1, <3>1 DEF StopQ
      <3>2. CASE i \in DOMAIN q /\ j = Len(q) + 1
        BY <1>1, <2>1, <3>2 DEF Has
      <3>3. CASE i = Len(q) + 1 /\ j \in DOMAIN q
        <4>1. h.op = "Stop" /\ ~Has(q, "Stop") /\ r[j] = q[j] /\ j < i
          BY <1>1, <1>2, <2>1, <3>3
        <4> QED BY <3>3, <4>1 DEF Has
      <3>4. CASE i = Len(q) + 1 /\ j = Len(q) + 1
        BY <1>1, <2>1, <3>4 DEF Ops, ReadOps
      <3> QED BY <1>2, <3>1, <3>2, <3>3, <3>4
    <2> QED BY <2>1 DEF StopQ
  <1> QED BY <1>1, <1>3, <1>4, <1>5 DEF r

\* The code's concatenation appends.
LEMMA OneMore ==
  ASSUME NEW q \in Seq(Handler), NEW h \in Handler
  PROVE  q \o <<h>> = Append(q, h)
  OBVIOUS

\* What closing a socket adds to the queue.
LEMMA QueueAborted ==
  ASSUME NEW q \in Seq(Handler), NEW p,
         reading \in ReadOps \cup {"None"}, writing \in Msg \cup {NoMsg},
         WriteQ(q, writing, p), StopQ(q), ~Has(q, "Stop")
  PROVE  /\ q \o Aborted \in Seq(Handler)
         /\ WriteQ(q \o Aborted, NoMsg, p) /\ StopQ(q \o Aborted)
         /\ ~Has(q \o Aborted, "Stop")
  <1> USE ConnectionAssumption
  <1> DEFINE s == IF reading = "None" THEN q ELSE Append(q, Ready(reading, "aborted"))
  <1> DEFINE r == IF writing = NoMsg THEN s ELSE Append(s, Written(writing, "aborted"))
  <1>1. q \o Aborted = r
    <2> DEFINE a == IF reading = "None" THEN <<>> ELSE <<Ready(reading, "aborted")>>
    <2> DEFINE b == IF writing = NoMsg THEN <<>> ELSE <<Written(writing, "aborted")>>
    <2>1. a \in Seq(Handler) /\ b \in Seq(Handler)
      BY HandlerType
    <2>2. q \o a = s
      BY HandlerType, OneMore, ConcatEmptySeq
    <2>3. s \in Seq(Handler)
      BY <2>1, <2>2, ConcatProperties
    <2> HIDE DEF s
    <2>4. s \o b = r
      BY <2>3, HandlerType, OneMore, ConcatEmptySeq
    <2> HIDE DEF a, b, r
    <2>5. (q \o a) \o b = q \o (a \o b)
      BY <2>1, ConcatAssociative
    <2>6. Aborted = a \o b
      BY DEF Aborted, a, b
    <2> QED BY <2>2, <2>4, <2>5, <2>6
  <1>2. /\ s \in Seq(Handler) /\ WriteQ(s, writing, p) /\ StopQ(s) /\ ~Has(s, "Stop")
        /\ Has(s, "Write") <=> Has(q, "Write")
    <2>1. CASE reading = "None"
      BY <2>1
    <2>2. CASE reading # "None"
      <3>1. /\ reading \in ReadOps /\ Ready(reading, "aborted") \in Handler
            /\ Ready(reading, "aborted").op = reading
            /\ reading # "Write" /\ reading # "Stop"
        BY <2>2, HandlerType DEF ReadOps
      <3> QED BY <2>2, <3>1, QueueAppend
    <2> QED BY <2>1, <2>2
  <1> HIDE DEF s
  <1>3. /\ r \in Seq(Handler) /\ WriteQ(r, NoMsg, p) /\ StopQ(r) /\ ~Has(r, "Stop")
    <2>1. CASE writing = NoMsg
      BY <1>2, <2>1
    <2>2. CASE writing # NoMsg
      <3>1. /\ writing \in Msg /\ p[writing] = "Writing" /\ ~Has(s, "Write")
        BY <1>2, <2>2 DEF WriteQ
      <3>2. WriteQ(s, NoMsg, p)
        BY <1>2 DEF WriteQ
      <3>3. /\ Written(writing, "aborted") \in Handler
            /\ Written(writing, "aborted").op = "Write"
            /\ Written(writing, "aborted").msg = writing
        BY <3>1, HandlerType
      <3> QED BY <1>2, <2>2, <3>1, <3>2, <3>3, QueueAppend
    <2> QED BY <2>1, <2>2
  <1> QED BY <1>1, <1>3

-----------------------------------------------------------------------------
(* The task list.                                                           *)

Tasks == Msg \cup {"Close"}

\* Adding a task leaves those before it where they are.
LEMMA TaskAppended ==
  ASSUME NEW ts \in Seq(Tasks), NEW t \in Tasks
  PROVE  /\ Append(ts, t) \in Seq(Tasks)
         /\ \A i \in DOMAIN ts : i \in DOMAIN Append(ts, t) /\ Append(ts, t)[i] = ts[i]
         /\ \A i \in DOMAIN Append(ts, t) : i \in DOMAIN ts \/ i = Len(ts) + 1
         /\ Len(ts) + 1 \in DOMAIN Append(ts, t) /\ Append(ts, t)[Len(ts) + 1] = t
  BY AppendProperties

\* Connection::close() adds one close task, and only to an open connection.
LEMMA CloseKeeps ==
  ASSUME NEW ts \in Seq(Tasks), NEW p, TaskQ(ts, state, p, phase), Close(ts),
         state \in {"OPEN", "REQUEST_CLOSE", "CLOSING", "CLOSED"}
  PROVE  /\ tasks' \in Seq(Tasks) /\ TaskQ(tasks', state', p, phase)
         /\ state' = IF state = "OPEN" THEN "REQUEST_CLOSE" ELSE state
  <1>1. CASE state = "OPEN" /\ phase = "running"
    <2>1. tasks' = Append(ts, "Close") /\ state' = "REQUEST_CLOSE" /\ "Close" \in Tasks
      BY <1>1 DEF Close, AddTask, Tasks
    <2>2. \A i \in DOMAIN ts : ts[i] # "Close"
      BY <1>1 DEF TaskQ
    <2> QED BY <1>1, <2>1, <2>2, TaskAppended, ConnectionAssumption DEF TaskQ
  <1>2. CASE ~(state = "OPEN" /\ phase = "running")
    BY <1>2 DEF Close, AddTask, TaskQ
  <1> QED BY <1>1, <1>2

\* Posting the release of a message that is not on its way back yet.
LEMMA ReleaseKeeps ==
  ASSUME TypeOK, NEW m \in Msg, NEW p, TaskQ(tasks, state, place, phase),
         place[m] # "Releasing", p = [place EXCEPT ![m] = "Releasing"]
  PROVE  /\ AddTask(tasks, m) \in Seq(Tasks)
         /\ TaskQ(AddTask(tasks, m), state, p, phase)
  <1>0. /\ tasks \in Seq(Tasks) /\ m \in Tasks /\ m # "Close"
        /\ p[m] = "Releasing" /\ \A n \in Msg : n # m => p[n] = place[n]
        /\ \A i \in DOMAIN tasks : tasks[i] # m
    BY ConnectionAssumption DEF TypeOK, Tasks, TaskQ
  <1>1. CASE phase = "running"
    BY <1>0, <1>1, TaskAppended DEF TaskQ, AddTask
  <1>2. CASE phase # "running"
    BY <1>0, <1>2 DEF TaskQ, AddTask
  <1> QED BY <1>1, <1>2

\* Taking the first task: it is not among the others, which all stay.
LEMMA TaskPopped ==
  ASSUME TypeOK, TaskInv, tasks # <<>>
  PROVE  /\ Head(tasks) \in Tasks /\ Tail(tasks) \in Seq(Tasks)
         /\ Head(tasks) = tasks[1] /\ 1 \in DOMAIN tasks
         /\ \A i \in DOMAIN Tail(tasks) : /\ i \in Nat /\ i + 1 \in DOMAIN tasks
                                           /\ Tail(tasks)[i] = tasks[i + 1]
                                           /\ Tail(tasks)[i] # Head(tasks)
         /\ \A i, j \in DOMAIN Tail(tasks) : Tail(tasks)[i] = Tail(tasks)[j] => i = j
         /\ \A i \in DOMAIN tasks : i # 1 => \E j \in DOMAIN Tail(tasks) :
                                                Tail(tasks)[j] = tasks[i]
  <1>1. /\ tasks \in Seq(Tasks) /\ Len(tasks) \in Nat \ {0} /\ DOMAIN tasks = 1..Len(tasks)
        /\ DOMAIN Tail(tasks) = 1..(Len(tasks) - 1)
        /\ \A i \in DOMAIN Tail(tasks) : Tail(tasks)[i] = tasks[i + 1]
        /\ Head(tasks) \in Tasks /\ Tail(tasks) \in Seq(Tasks) /\ Head(tasks) = tasks[1]
    BY HeadTailProperties, LenProperties, EmptySeq DEF TypeOK, Tasks
  <1>2. \A i \in DOMAIN Tail(tasks) : i \in Nat /\ i + 1 \in DOMAIN tasks /\ i + 1 # 1
    BY <1>1
  <1>3. \A i \in DOMAIN tasks : i # 1 => i - 1 \in DOMAIN Tail(tasks) /\ (i - 1) + 1 = i
    BY <1>1
  <1>4. /\ \A i \in DOMAIN Tail(tasks) : Tail(tasks)[i] # Head(tasks)
        /\ \A i, j \in DOMAIN Tail(tasks) : Tail(tasks)[i] = Tail(tasks)[j] => i + 1 = j + 1
    BY <1>1, <1>2 DEF TaskInv, TaskQ
  <1>5. \A i, j \in DOMAIN Tail(tasks) : i + 1 = j + 1 => i = j
    BY <1>2
  <1>6. 1 \in DOMAIN tasks
    BY <1>1
  <1>7. \A i \in DOMAIN tasks : i # 1 => \E j \in DOMAIN Tail(tasks) :
                                            Tail(tasks)[j] = tasks[i]
    BY <1>1, <1>3
  <1> QED BY <1>1, <1>2, <1>4, <1>5, <1>6, <1>7

-----------------------------------------------------------------------------
(* Closing the socket.                                                      *)

\* closeSocket() ends what is under way, and faults only on what was deleted.
LEMMA CloseSocketKeeps ==
  ASSUME TypeOK, NEW q \in Seq(Handler), NEW p, WriteQ(q, writing, p), StopQ(q),
         Has(q, "Stop") => socket # "open",
         socket # "open" => reading = "None" /\ writing = NoMsg,
         CloseSocket(q, <<>>)
  PROVE  /\ ioQueue' \in Seq(Handler)
         /\ WriteQ(ioQueue', writing', p) /\ StopQ(ioQueue')
         /\ Has(ioQueue', "Stop") <=> Has(q, "Stop")
         /\ reading' = "None" /\ writing' = NoMsg
         /\ socket' = IF socket = "deleted" THEN "deleted" ELSE "closed"
         /\ pendingRead' \in 0..1 /\ pendingWrite' \in 0..1
         /\ socket = "deleted" => ioQueue' = q
         /\ fault' = (fault \/ socket = "deleted")
  <1>1. CASE socket = "open"
    <2>1. ioQueue' = q \o Aborted
      <3>1. ioQueue' = (q \o Aborted) \o <<>>
        BY <1>1 DEF CloseSocket
      <3> QED BY <1>1, <3>1, QueueAborted, ConcatEmptySeq DEF TypeOK
    <2>2. /\ reading' = "None" /\ writing' = NoMsg /\ socket' = "closed"
          /\ pendingRead' = 0 /\ pendingWrite' = 0 /\ fault' = fault
      BY <1>1 DEF CloseSocket
    <2> QED BY <1>1, <2>1, <2>2, QueueAborted DEF TypeOK
  <1>2. CASE socket # "open"
    <2>1. ioQueue' = q
      <3>1. ioQueue' = q \o <<>>
        BY <1>2 DEF CloseSocket
      <3> QED BY <3>1, ConcatEmptySeq
    <2> QED BY <1>2, <2>1 DEF CloseSocket, ioVars, TypeOK
  <1> QED BY <1>1, <1>2

\* The same with onStopOperation queued behind it.
LEMMA CloseSocketStops ==
  ASSUME TypeOK, QueueInv, ~Has(ioQueue, "Stop"), socket # "deleted",
         socket # "open" => reading = "None" /\ writing = NoMsg,
         CloseSocket(ioQueue, <<Ready("Stop", "none")>>)
  PROVE  /\ ioQueue' \in Seq(Handler)
         /\ WriteQ(ioQueue', NoMsg, place) /\ StopQ(ioQueue')
         /\ reading' = "None" /\ writing' = NoMsg /\ socket' = "closed"
         /\ pendingRead' \in 0..1 /\ pendingWrite' \in 0..1
         /\ fault' = fault
  <1> DEFINE h == Ready("Stop", "none")
  <1> DEFINE q == IF socket = "open" THEN ioQueue \o Aborted ELSE ioQueue
  <1>1. h \in Handler /\ h.op = "Stop"
    BY HandlerType
  <1> HIDE DEF h
  <1>2. /\ q \in Seq(Handler) /\ WriteQ(q, NoMsg, place) /\ StopQ(q) /\ ~Has(q, "Stop")
    BY QueueAborted DEF TypeOK, QueueInv
  <1>3. ioQueue' = q \o <<h>>
    <2>1. CASE socket = "open"
      BY <2>1 DEF CloseSocket, h
    <2>2. CASE socket # "open"
      BY <2>2 DEF CloseSocket, h
    <2> QED BY <2>1, <2>2
  <1>4. /\ reading' = "None" /\ writing' = NoMsg /\ socket' = "closed"
        /\ pendingRead' \in 0..1 /\ pendingWrite' \in 0..1
    BY DEF CloseSocket, TypeOK, ioVars
  <1>5. fault' = fault
    BY DEF CloseSocket, TypeOK
  <1> HIDE DEF q
  <1>6. /\ ioQueue' = Append(q, h)
    BY <1>1, <1>2, <1>3, OneMore
  <1> QED BY <1>1, <1>2, <1>4, <1>5, <1>6, QueueAppend

\* The peer sent something: a read completes.
LEMMA ReadCompletesStep ==
  ASSUME IInv, NEW error \in {"none", "failed"}, ReadCompletes(error)
  PROVE  IInv'
  <1> USE ConnectionAssumption
  <1>0. /\ TypeOK /\ CountInv /\ QueueInv /\ OneWriting /\ TaskInv /\ OpenInv
        /\ BufferNotInFlight /\ ProtocolInv /\ StopInv /\ ManagedInv
    BY DEF IInv
  <1>a. /\ Ready(reading, error) \in Handler /\ Ready(reading, error).op \in ReadOps
        /\ reading # "None" /\ socket = "open" /\ ~Has(ioQueue, "Stop")
    BY <1>0, HandlerType DEF ReadCompletes, TypeOK, StopInv
  <1>b. /\ ioQueue' \in Seq(Handler) /\ WriteQ(ioQueue', writing, place) /\ StopQ(ioQueue')
        /\ ~Has(ioQueue', "Stop")
    BY <1>0, <1>a, QueueAppend DEF ReadCompletes, QueueInv, TypeOK, ReadOps
  <1>1. TypeOK'
    <2>1. TypeOK
      BY <1>0
    <2>2. ioQueue' \in Seq(Handler)
      BY <1>b
    <2> QED BY <2>1, <2>2 DEF TypeOK, ReadOps, ReadCompletes, connVars, ioVars, timerVars,
               msgVars
  <1>2. CountInv'
    BY <1>0, <1>a, <1>b DEF CountInv, Out, ReadCompletes, connVars, ioVars, timerVars,
       msgVars
  <1>3. QueueInv'
    BY <1>0, <1>a, <1>b DEF QueueInv, ReadCompletes, connVars, ioVars, timerVars, msgVars
  <1>4. OneWriting'
    BY <1>0, <1>a, <1>b DEF OneWriting, ReadCompletes, connVars, ioVars, timerVars, msgVars
  <1>5. TaskInv'
    BY <1>0, <1>a, <1>b DEF TaskInv, ReadCompletes, connVars, ioVars, timerVars, msgVars
  <1>6. OpenInv'
    BY <1>0, <1>a, <1>b DEF OpenInv, ReadCompletes, connVars, ioVars, timerVars, msgVars
  <1>7. BufferNotInFlight'
    BY <1>0, <1>a, <1>b DEF BufferNotInFlight, ReadCompletes, connVars, ioVars, timerVars,
       msgVars
  <1>8. ProtocolInv'
    BY <1>0, <1>a, <1>b DEF ProtocolInv, Out, ReadCompletes, connVars, ioVars, timerVars,
       msgVars
  <1>9. StopInv'
    BY <1>0, <1>a, <1>b DEF StopInv, Out, ReadCompletes, connVars, ioVars, timerVars,
       msgVars
  <1>10. ManagedInv'
    BY <1>0, <1>a, <1>b DEF ManagedInv, ReadCompletes, connVars, ioVars, timerVars, msgVars
  <1> QED BY <1>1, <1>2, <1>3, <1>4, <1>5, <1>6, <1>7, <1>8, <1>9, <1>10 DEF IInv

\* The peer took a message: the write completes.
LEMMA WriteCompletesStep ==
  ASSUME IInv, NEW error \in {"none", "failed"}, WriteCompletes(error)
  PROVE  IInv'
  <1> USE ConnectionAssumption
  <1>0. /\ TypeOK /\ CountInv /\ QueueInv /\ OneWriting /\ TaskInv /\ OpenInv
        /\ BufferNotInFlight /\ ProtocolInv /\ StopInv /\ ManagedInv
    BY DEF IInv
  <1>a. /\ writing \in Msg /\ place[writing] = "Writing" /\ ~Has(ioQueue, "Write")
        /\ socket = "open" /\ ~Has(ioQueue, "Stop") /\ WriteQ(ioQueue, NoMsg, place)
    BY <1>0 DEF WriteCompletes, TypeOK, StopInv, QueueInv, WriteQ
  <1>b. /\ ioQueue' \in Seq(Handler) /\ WriteQ(ioQueue', NoMsg, place) /\ StopQ(ioQueue')
        /\ ~Has(ioQueue', "Stop")
    <2> DEFINE h == Written(writing, error)
    <2>1. h \in Handler /\ h.op = "Write" /\ h.msg = writing
      BY <1>a, HandlerType
    <2> HIDE DEF h
    <2>2. ioQueue \in Seq(Handler) /\ StopQ(ioQueue) /\ ioQueue' = Append(ioQueue, h)
      BY <1>0 DEF WriteCompletes, QueueInv, TypeOK, h
    <2> QED BY <1>a, <2>1, <2>2, QueueAppend
  <1>1. TypeOK'
    <2>1. TypeOK
      BY <1>0
    <2>2. ioQueue' \in Seq(Handler)
      BY <1>b
    <2> QED BY <2>1, <2>2 DEF TypeOK, ReadOps, WriteCompletes, connVars, ioVars, timerVars,
               msgVars
  <1>2. CountInv'
    BY <1>0, <1>a, <1>b DEF CountInv, Out, WriteCompletes, connVars, ioVars, timerVars,
       msgVars
  <1>3. QueueInv'
    BY <1>0, <1>a, <1>b DEF QueueInv, WriteCompletes, connVars, ioVars, timerVars, msgVars
  <1>4. OneWriting'
    BY <1>0, <1>a, <1>b DEF OneWriting, WriteCompletes, connVars, ioVars, timerVars, msgVars
  <1>5. TaskInv'
    BY <1>0, <1>a, <1>b DEF TaskInv, WriteCompletes, connVars, ioVars, timerVars, msgVars
  <1>6. OpenInv'
    BY <1>0, <1>a, <1>b DEF OpenInv, WriteCompletes, connVars, ioVars, timerVars, msgVars
  <1>7. BufferNotInFlight'
    BY <1>0, <1>a, <1>b DEF BufferNotInFlight, WriteCompletes, connVars, ioVars, timerVars,
       msgVars
  <1>8. ProtocolInv'
    BY <1>0, <1>a, <1>b DEF ProtocolInv, Out, WriteCompletes, connVars, ioVars, timerVars,
       msgVars
  <1>9. StopInv'
    BY <1>0, <1>a, <1>b DEF StopInv, Out, WriteCompletes, connVars, ioVars, timerVars,
       msgVars
  <1>10. ManagedInv'
    BY <1>0, <1>a, <1>b DEF ManagedInv, WriteCompletes, connVars, ioVars, timerVars, msgVars
  <1> QED BY <1>1, <1>2, <1>3, <1>4, <1>5, <1>6, <1>7, <1>8, <1>9, <1>10 DEF IInv

\* A timer runs out, and its handler is queued.
LEMMA ReadTimerExpiresStep ==
  ASSUME IInv, ReadTimerExpires
  PROVE  IInv'
  <1> USE ConnectionAssumption
  <1>0. /\ TypeOK /\ CountInv /\ QueueInv /\ OneWriting /\ TaskInv /\ OpenInv
        /\ BufferNotInFlight /\ ProtocolInv /\ StopInv /\ ManagedInv
    BY DEF IInv
  <1>a. /\ ioQueue' \in Seq(Handler) /\ WriteQ(ioQueue', writing, place) /\ StopQ(ioQueue')
        /\ \A op \in Ops \cup {"Stop"} : Has(ioQueue', op) <=> Has(ioQueue, op)
    <2> DEFINE h == Ready("ReadTimeout", "none")
    <2>1. h \in Handler /\ h.op = "ReadTimeout"
      BY HandlerType
    <2> HIDE DEF h
    <2>2. /\ ioQueue \in Seq(Handler) /\ WriteQ(ioQueue, writing, place) /\ StopQ(ioQueue)
          /\ ioQueue' = Append(ioQueue, h)
      BY <1>0 DEF ReadTimerExpires, QueueInv, TypeOK, h
    <2>3. h.op \notin Ops \cup {"Stop"}
      BY <2>1 DEF Ops, ReadOps
    <2>4. /\ Append(ioQueue, h) \in Seq(Handler)
          /\ WriteQ(Append(ioQueue, h), writing, place) /\ StopQ(Append(ioQueue, h))
          /\ \A op : Has(Append(ioQueue, h), op) <=> Has(ioQueue, op) \/ h.op = op
      BY <2>1, <2>2, <2>3, QueueAppend DEF Ops
    <2> QED BY <2>2, <2>3, <2>4
  <1>b. (\A i \in DOMAIN ioQueue : ioQueue[i].op \notin Ops) =>
          \A i \in DOMAIN ioQueue' : ioQueue'[i].op \notin Ops
    BY <1>a DEF Has
  <1>c. Has(ioQueue', "Stop") <=> Has(ioQueue, "Stop")
    BY <1>a DEF Ops
  <1>1. TypeOK'
    <2>1. TypeOK
      BY <1>0
    <2>2. ioQueue' \in Seq(Handler)
      BY <1>a
    <2>3. /\ readTimer' \in BOOLEAN
          /\ UNCHANGED <<state, protocol, readError, writeError, managed, socket, reading,
                         writing, pendingRead, pendingWrite, writeTimer, stopping, place,
                         buffer, refs, tasks, retry, phase, fault>>
      BY <1>0, <1>a, <1>b, <1>c DEF TypeOK, ReadOps, ReadTimerExpires, connVars, ioVars,
         timerVars, msgVars
    <2> QED BY <2>1, <2>2, <2>3 DEF TypeOK, Tasks
  <1>2. CountInv'
    BY <1>0, <1>a, <1>b, <1>c DEF CountInv, Out, ReadTimerExpires, connVars, ioVars,
       timerVars, msgVars
  <1>3. QueueInv'
    BY <1>0, <1>a, <1>b, <1>c DEF QueueInv, ReadTimerExpires, connVars, ioVars, timerVars,
       msgVars
  <1>4. OneWriting'
    BY <1>0, <1>a, <1>b, <1>c DEF OneWriting, ReadTimerExpires, connVars, ioVars, timerVars,
       msgVars
  <1>5. TaskInv'
    BY <1>0, <1>a, <1>b, <1>c DEF TaskInv, ReadTimerExpires, connVars, ioVars, timerVars,
       msgVars
  <1>6. OpenInv'
    BY <1>0, <1>a, <1>b, <1>c DEF OpenInv, ReadTimerExpires, connVars, ioVars, timerVars,
       msgVars
  <1>7. BufferNotInFlight'
    BY <1>0, <1>a, <1>b, <1>c DEF BufferNotInFlight, ReadTimerExpires, connVars, ioVars,
       timerVars, msgVars
  <1>8. ProtocolInv'
    BY <1>0, <1>a, <1>b, <1>c DEF ProtocolInv, Out, ReadTimerExpires, connVars, ioVars,
       timerVars, msgVars
  <1>9. StopInv'
    BY <1>0, <1>a, <1>b, <1>c DEF StopInv, Out, ReadTimerExpires, connVars, ioVars,
       timerVars, msgVars
  <1>10. ManagedInv'
    BY <1>0, <1>a, <1>b, <1>c DEF ManagedInv, ReadTimerExpires, connVars, ioVars, timerVars,
       msgVars
  <1> QED BY <1>1, <1>2, <1>3, <1>4, <1>5, <1>6, <1>7, <1>8, <1>9, <1>10 DEF IInv

\* As for reading.
LEMMA WriteTimerExpiresStep ==
  ASSUME IInv, WriteTimerExpires
  PROVE  IInv'
  <1> USE ConnectionAssumption
  <1>0. /\ TypeOK /\ CountInv /\ QueueInv /\ OneWriting /\ TaskInv /\ OpenInv
        /\ BufferNotInFlight /\ ProtocolInv /\ StopInv /\ ManagedInv
    BY DEF IInv
  <1>a. /\ ioQueue' \in Seq(Handler) /\ WriteQ(ioQueue', writing, place) /\ StopQ(ioQueue')
        /\ \A op \in Ops \cup {"Stop"} : Has(ioQueue', op) <=> Has(ioQueue, op)
    <2> DEFINE h == Ready("WriteTimeout", "none")
    <2>1. h \in Handler /\ h.op = "WriteTimeout"
      BY HandlerType
    <2> HIDE DEF h
    <2>2. /\ ioQueue \in Seq(Handler) /\ WriteQ(ioQueue, writing, place) /\ StopQ(ioQueue)
          /\ ioQueue' = Append(ioQueue, h)
      BY <1>0 DEF WriteTimerExpires, QueueInv, TypeOK, h
    <2>3. h.op \notin Ops \cup {"Stop"}
      BY <2>1 DEF Ops, ReadOps
    <2>4. /\ Append(ioQueue, h) \in Seq(Handler)
          /\ WriteQ(Append(ioQueue, h), writing, place) /\ StopQ(Append(ioQueue, h))
          /\ \A op : Has(Append(ioQueue, h), op) <=> Has(ioQueue, op) \/ h.op = op
      BY <2>1, <2>2, <2>3, QueueAppend DEF Ops
    <2> QED BY <2>2, <2>3, <2>4
  <1>b. (\A i \in DOMAIN ioQueue : ioQueue[i].op \notin Ops) =>
          \A i \in DOMAIN ioQueue' : ioQueue'[i].op \notin Ops
    BY <1>a DEF Has
  <1>c. Has(ioQueue', "Stop") <=> Has(ioQueue, "Stop")
    BY <1>a DEF Ops
  <1>1. TypeOK'
    <2>1. TypeOK
      BY <1>0
    <2>2. ioQueue' \in Seq(Handler)
      BY <1>a
    <2>3. /\ writeTimer' \in BOOLEAN
          /\ UNCHANGED <<state, protocol, readError, writeError, managed, socket, reading,
                         writing, pendingRead, pendingWrite, readTimer, stopping, place,
                         buffer, refs, tasks, retry, phase, fault>>
      BY <1>0, <1>a, <1>b, <1>c DEF TypeOK, ReadOps, WriteTimerExpires, connVars, ioVars,
         timerVars, msgVars
    <2> QED BY <2>1, <2>2, <2>3 DEF TypeOK, Tasks
  <1>2. CountInv'
    BY <1>0, <1>a, <1>b, <1>c DEF CountInv, Out, WriteTimerExpires, connVars, ioVars,
       timerVars, msgVars
  <1>3. QueueInv'
    BY <1>0, <1>a, <1>b, <1>c DEF QueueInv, WriteTimerExpires, connVars, ioVars, timerVars,
       msgVars
  <1>4. OneWriting'
    BY <1>0, <1>a, <1>b, <1>c DEF OneWriting, WriteTimerExpires, connVars, ioVars,
       timerVars, msgVars
  <1>5. TaskInv'
    BY <1>0, <1>a, <1>b, <1>c DEF TaskInv, WriteTimerExpires, connVars, ioVars, timerVars,
       msgVars
  <1>6. OpenInv'
    BY <1>0, <1>a, <1>b, <1>c DEF OpenInv, WriteTimerExpires, connVars, ioVars, timerVars,
       msgVars
  <1>7. BufferNotInFlight'
    BY <1>0, <1>a, <1>b, <1>c DEF BufferNotInFlight, WriteTimerExpires, connVars, ioVars,
       timerVars, msgVars
  <1>8. ProtocolInv'
    BY <1>0, <1>a, <1>b, <1>c DEF ProtocolInv, Out, WriteTimerExpires, connVars, ioVars,
       timerVars, msgVars
  <1>9. StopInv'
    BY <1>0, <1>a, <1>b, <1>c DEF StopInv, Out, WriteTimerExpires, connVars, ioVars,
       timerVars, msgVars
  <1>10. ManagedInv'
    BY <1>0, <1>a, <1>b, <1>c DEF ManagedInv, WriteTimerExpires, connVars, ioVars,
       timerVars, msgVars
  <1> QED BY <1>1, <1>2, <1>3, <1>4, <1>5, <1>6, <1>7, <1>8, <1>9, <1>10 DEF IInv

\* A read came back with an error.
LEMMA ReadFailsStep ==
  ASSUME IInv, NEW op \in ReadOps, ReadFails(op)
  PROVE  IInv'
  <1> USE ConnectionAssumption
  <1>0. /\ TypeOK /\ CountInv /\ QueueInv /\ OneWriting /\ TaskInv /\ OpenInv
        /\ BufferNotInFlight /\ ProtocolInv /\ StopInv /\ ManagedInv
    BY DEF IInv
  <1>a. /\ ioQueue' \in Seq(Handler)
        /\ WriteQ(ioQueue', writing, place) /\ StopQ(ioQueue')
        /\ Has(ioQueue', "Stop") => Has(ioQueue, "Stop")
        /\ \A i \in DOMAIN ioQueue' : ioQueue'[i].op \notin Ops
             \/ \E j \in DOMAIN ioQueue : ioQueue[j].op \in Ops
    BY <1>0, QueueTail DEF Runs, QueueInv, TypeOK, Has, ReadFails
  <1>b. /\ tasks' \in Seq(Tasks) /\ TaskQ(tasks', state', place, phase)
        /\ state' = IF state = "OPEN" THEN "REQUEST_CLOSE" ELSE state
    BY <1>0, CloseKeeps DEF ReadFails, TaskInv, TypeOK, Tasks
  <1>1. TypeOK'
    <2>1. TypeOK
      BY <1>0
    <2>2. ioQueue' \in Seq(Handler)
      BY <1>a
    <2>3. tasks' \in Seq(Tasks)
      BY <1>b
    <2>4. /\ state' \in {"OPEN", "REQUEST_CLOSE", "CLOSING", "CLOSED"}
          /\ readError' \in BOOLEAN
          /\ readTimer' \in BOOLEAN
          /\ UNCHANGED <<protocol, writeError, managed, socket, reading, writing,
                         pendingRead, pendingWrite, writeTimer, stopping, place, buffer,
                         refs, retry, phase, fault>>
      BY <1>0, <1>a, <1>b DEF TypeOK, ReadOps, ReadFails, Tasks, connVars, ioVars,
         timerVars, msgVars
    <2> QED BY <2>1, <2>2, <2>3, <2>4 DEF TypeOK, Tasks
  <1>2. CountInv'
    BY <1>0, <1>a, <1>b DEF CountInv, Out, ReadFails, Tasks, connVars, ioVars, timerVars,
       msgVars
  <1>3. QueueInv'
    BY <1>0, <1>a, <1>b DEF QueueInv, ReadFails, Tasks, connVars, ioVars, timerVars, msgVars
  <1>4. OneWriting'
    BY <1>0, <1>a, <1>b DEF OneWriting, ReadFails, Tasks, connVars, ioVars, timerVars,
       msgVars
  <1>5. TaskInv'
    BY <1>0, <1>a, <1>b DEF TaskInv, ReadFails, Tasks, connVars, ioVars, timerVars, msgVars
  <1>6. OpenInv'
    BY <1>0, <1>a, <1>b DEF OpenInv, ReadFails, Tasks, connVars, ioVars, timerVars, msgVars
  <1>7. BufferNotInFlight'
    BY <1>0, <1>a, <1>b DEF BufferNotInFlight, ReadFails, Tasks, connVars, ioVars,
       timerVars, msgVars
  <1>8. ProtocolInv'
    BY <1>0, <1>a, <1>b DEF ProtocolInv, Out, ReadFails, Tasks, connVars, ioVars, timerVars,
       msgVars
  <1>9. StopInv'
    BY <1>0, <1>a, <1>b DEF StopInv, Out, ReadFails, Tasks, connVars, ioVars, timerVars,
       msgVars
  <1>10. ManagedInv'
    BY <1>0, <1>a, <1>b DEF ManagedInv, ReadFails, Tasks, connVars, ioVars, timerVars,
       msgVars
  <1> QED BY <1>1, <1>2, <1>3, <1>4, <1>5, <1>6, <1>7, <1>8, <1>9, <1>10 DEF IInv

\* A packet too many, or for no protocol, or on a closing connection: it is closed.
LEMMA ReadRefusedStep ==
  ASSUME IInv, NEW op \in ReadOps, ReadRefused(op)
  PROVE  IInv'
  <1> USE ConnectionAssumption
  <1>0. /\ TypeOK /\ CountInv /\ QueueInv /\ OneWriting /\ TaskInv /\ OpenInv
        /\ BufferNotInFlight /\ ProtocolInv /\ StopInv /\ ManagedInv
    BY DEF IInv
  <1>a. /\ ioQueue' \in Seq(Handler)
        /\ WriteQ(ioQueue', writing, place) /\ StopQ(ioQueue')
        /\ Has(ioQueue', "Stop") => Has(ioQueue, "Stop")
        /\ \A i \in DOMAIN ioQueue' : ioQueue'[i].op \notin Ops
             \/ \E j \in DOMAIN ioQueue : ioQueue[j].op \in Ops
    BY <1>0, QueueTail DEF Runs, QueueInv, TypeOK, Has, ReadRefused
  <1>b. /\ tasks' \in Seq(Tasks) /\ TaskQ(tasks', state', place, phase)
        /\ state' = IF state = "OPEN" THEN "REQUEST_CLOSE" ELSE state
    BY <1>0, CloseKeeps DEF ReadRefused, TaskInv, TypeOK, Tasks
  <1>1. TypeOK'
    <2>1. TypeOK
      BY <1>0
    <2>2. ioQueue' \in Seq(Handler)
      BY <1>a
    <2>3. tasks' \in Seq(Tasks)
      BY <1>b
    <2>4. /\ state' \in {"OPEN", "REQUEST_CLOSE", "CLOSING", "CLOSED"}
          /\ readError' \in BOOLEAN
          /\ readTimer' \in BOOLEAN
          /\ UNCHANGED <<protocol, writeError, managed, socket, reading, writing,
                         pendingRead, pendingWrite, writeTimer, stopping, place, buffer,
                         refs, retry, phase, fault>>
      BY <1>0, <1>a, <1>b DEF TypeOK, ReadOps, ReadRefused, Tasks, connVars, ioVars,
         timerVars, msgVars
    <2> QED BY <2>1, <2>2, <2>3, <2>4 DEF TypeOK, Tasks
  <1>2. CountInv'
    BY <1>0, <1>a, <1>b DEF CountInv, Out, ReadRefused, Tasks, connVars, ioVars, timerVars,
       msgVars
  <1>3. QueueInv'
    BY <1>0, <1>a, <1>b DEF QueueInv, ReadRefused, Tasks, connVars, ioVars, timerVars,
       msgVars
  <1>4. OneWriting'
    BY <1>0, <1>a, <1>b DEF OneWriting, ReadRefused, Tasks, connVars, ioVars, timerVars,
       msgVars
  <1>5. TaskInv'
    BY <1>0, <1>a, <1>b DEF TaskInv, ReadRefused, Tasks, connVars, ioVars, timerVars,
       msgVars
  <1>6. OpenInv'
    BY <1>0, <1>a, <1>b DEF OpenInv, ReadRefused, Tasks, connVars, ioVars, timerVars,
       msgVars
  <1>7. BufferNotInFlight'
    BY <1>0, <1>a, <1>b DEF BufferNotInFlight, ReadRefused, Tasks, connVars, ioVars,
       timerVars, msgVars
  <1>8. ProtocolInv'
    BY <1>0, <1>a, <1>b DEF ProtocolInv, Out, ReadRefused, Tasks, connVars, ioVars,
       timerVars, msgVars
  <1>9. StopInv'
    BY <1>0, <1>a, <1>b DEF StopInv, Out, ReadRefused, Tasks, connVars, ioVars, timerVars,
       msgVars
  <1>10. ManagedInv'
    BY <1>0, <1>a, <1>b DEF ManagedInv, ReadRefused, Tasks, connVars, ioVars, timerVars,
       msgVars
  <1> QED BY <1>1, <1>2, <1>3, <1>4, <1>5, <1>6, <1>7, <1>8, <1>9, <1>10 DEF IInv

\* Asking for the next header or body.
LEMMA StartReadKeeps ==
  ASSUME TypeOK, NEW q \in Seq(Handler), WriteQ(q, writing, place), StopQ(q),
         ~Has(q, "Stop"), NEW op \in ReadOps, StartRead(q, op)
  PROVE  /\ ioQueue' \in Seq(Handler)
         /\ WriteQ(ioQueue', writing, place) /\ StopQ(ioQueue')
         /\ ~Has(ioQueue', "Stop")
         /\ reading' \in ReadOps \cup {"None"}
         /\ socket # "open" => reading' = reading
         /\ UNCHANGED <<socket, writing, pendingRead, pendingWrite>>
         /\ fault' = (fault \/ socket = "deleted")
  <1>1. /\ Ready(op, "failed") \in Handler /\ Ready(op, "failed").op = op
        /\ op # "Write" /\ op # "Stop"
    BY HandlerType DEF ReadOps
  <1>2. CASE socket = "open"
    BY <1>2 DEF StartRead
  <1>3. CASE socket # "open"
    <2>1. ioQueue' = Append(q, Ready(op, "failed")) /\ reading' = reading
      BY <1>3 DEF StartRead
    <2>2. /\ ioQueue' \in Seq(Handler)
          /\ WriteQ(ioQueue', writing, place) /\ StopQ(ioQueue')
          /\ ~Has(ioQueue', "Stop")
      BY <1>1, <2>1, QueueAppend
    <2> QED BY <1>3, <2>1, <2>2 DEF StartRead, TypeOK
  <1> QED BY <1>2, <1>3

\* A header arrived: the body is asked for.
LEMMA ParseHeaderStep ==
  ASSUME IInv, ParseHeader
  PROVE  IInv'
  <1> USE ConnectionAssumption
  <1>0. /\ TypeOK /\ CountInv /\ QueueInv /\ OneWriting /\ TaskInv /\ OpenInv
        /\ BufferNotInFlight /\ ProtocolInv /\ StopInv /\ ManagedInv
    BY DEF IInv
  <1>a. /\ state = "OPEN" /\ socket # "deleted" /\ ~Has(ioQueue, "Stop")
    BY <1>0 DEF ParseHeader, StopInv
  <1>b. /\ ioQueue # <<>> /\ Tail(ioQueue) \in Seq(Handler)
        /\ WriteQ(Tail(ioQueue), writing, place) /\ StopQ(Tail(ioQueue))
        /\ Has(Tail(ioQueue), "Stop") => Has(ioQueue, "Stop")
        /\ \A i \in DOMAIN Tail(ioQueue) : Tail(ioQueue)[i].op \notin Ops
             \/ \E j \in DOMAIN ioQueue : ioQueue[j].op \in Ops
    BY <1>0, QueueTail DEF Runs, QueueInv, TypeOK, Has, ParseHeader
  <1>c. /\ ioQueue' \in Seq(Handler)
        /\ WriteQ(ioQueue', writing, place) /\ StopQ(ioQueue')
        /\ ~Has(ioQueue', "Stop")
        /\ reading' \in ReadOps \cup {"None"}
        /\ socket # "open" => reading' = reading
        /\ UNCHANGED <<socket, writing, pendingRead, pendingWrite>>
        /\ fault' = (fault \/ socket = "deleted")
    BY <1>0, <1>a, <1>b, StartReadKeeps DEF ParseHeader, ReadOps
  <1>1. TypeOK'
    <2>1. TypeOK
      BY <1>0
    <2>2. ioQueue' \in Seq(Handler)
      BY <1>c
    <2>3. /\ reading' \in ReadOps \cup {"None"}
          /\ readTimer' \in BOOLEAN
          /\ fault' \in BOOLEAN
          /\ UNCHANGED <<state, protocol, readError, writeError, managed, socket, writing,
                         pendingRead, pendingWrite, writeTimer, stopping, place, buffer,
                         refs, tasks, retry, phase>>
      BY <1>0, <1>a, <1>b, <1>c DEF TypeOK, ReadOps, ParseHeader, Tasks, connVars,
         timerVars, msgVars
    <2> QED BY <2>1, <2>2, <2>3 DEF TypeOK, Tasks
  <1>2. CountInv'
    BY <1>0, <1>a, <1>b, <1>c DEF CountInv, Out, ParseHeader, Tasks, connVars, timerVars,
       msgVars
  <1>3. QueueInv'
    BY <1>0, <1>a, <1>b, <1>c DEF QueueInv, ParseHeader, Tasks, connVars, timerVars, msgVars
  <1>4. OneWriting'
    BY <1>0, <1>a, <1>b, <1>c DEF OneWriting, ParseHeader, Tasks, connVars, timerVars,
       msgVars
  <1>5. TaskInv'
    BY <1>0, <1>a, <1>b, <1>c DEF TaskInv, ParseHeader, Tasks, connVars, timerVars, msgVars
  <1>6. OpenInv'
    BY <1>0, <1>a, <1>b, <1>c DEF OpenInv, ParseHeader, Tasks, connVars, timerVars, msgVars
  <1>7. BufferNotInFlight'
    BY <1>0, <1>a, <1>b, <1>c DEF BufferNotInFlight, ParseHeader, Tasks, connVars,
       timerVars, msgVars
  <1>8. ProtocolInv'
    BY <1>0, <1>a, <1>b, <1>c DEF ProtocolInv, Out, ParseHeader, Tasks, connVars, timerVars,
       msgVars
  <1>9. StopInv'
    BY <1>0, <1>a, <1>b, <1>c DEF StopInv, Out, ParseHeader, Tasks, connVars, timerVars,
       msgVars
  <1>10. ManagedInv'
    BY <1>0, <1>a, <1>b, <1>c DEF ManagedInv, ParseHeader, Tasks, connVars, timerVars,
       msgVars
  <1> QED BY <1>1, <1>2, <1>3, <1>4, <1>5, <1>6, <1>7, <1>8, <1>9, <1>10 DEF IInv

\* A packet arrived: it is handed to the protocol, and the next header asked for.
LEMMA ParsePacketStep ==
  ASSUME IInv, NEW closes \in BOOLEAN, ParsePacket(closes)
  PROVE  IInv'
  <1> USE ConnectionAssumption
  <1>0. /\ TypeOK /\ CountInv /\ QueueInv /\ OneWriting /\ TaskInv /\ OpenInv
        /\ BufferNotInFlight /\ ProtocolInv /\ StopInv /\ ManagedInv
    BY DEF IInv
  <1>a. /\ state = "OPEN" /\ socket # "deleted" /\ ~Has(ioQueue, "Stop")
    BY <1>0 DEF ParsePacket, StopInv
  <1>b. /\ ioQueue # <<>> /\ Tail(ioQueue) \in Seq(Handler)
        /\ WriteQ(Tail(ioQueue), writing, place) /\ StopQ(Tail(ioQueue))
        /\ Has(Tail(ioQueue), "Stop") => Has(ioQueue, "Stop")
        /\ \A i \in DOMAIN Tail(ioQueue) : Tail(ioQueue)[i].op \notin Ops
             \/ \E j \in DOMAIN ioQueue : ioQueue[j].op \in Ops
    BY <1>0, QueueTail DEF Runs, QueueInv, TypeOK, Has, ParsePacket
  <1>c. /\ ioQueue' \in Seq(Handler)
        /\ WriteQ(ioQueue', writing, place) /\ StopQ(ioQueue')
        /\ ~Has(ioQueue', "Stop")
        /\ reading' \in ReadOps \cup {"None"}
        /\ socket # "open" => reading' = reading
        /\ UNCHANGED <<socket, writing, pendingRead, pendingWrite>>
        /\ fault' = (fault \/ socket = "deleted")
    BY <1>0, <1>a, <1>b, StartReadKeeps DEF ParsePacket, ReadOps
  <1>d. /\ tasks' \in Seq(Tasks) /\ TaskQ(tasks', state', place, phase)
        /\ state' \in {"OPEN", "REQUEST_CLOSE"}
    <2>1. CASE closes
      BY <1>0, <1>a, <2>1, CloseKeeps DEF ParsePacket, TaskInv, TypeOK, Tasks
    <2>2. CASE ~closes
      BY <1>0, <1>a, <2>2 DEF ParsePacket, TaskInv, TypeOK, Tasks
    <2> QED BY <2>1, <2>2
  <1>1. TypeOK'
    <2>1. TypeOK
      BY <1>0
    <2>2. ioQueue' \in Seq(Handler)
      BY <1>c
    <2>3. tasks' \in Seq(Tasks)
      BY <1>d
    <2>4. /\ state' \in {"OPEN", "REQUEST_CLOSE", "CLOSING", "CLOSED"}
          /\ protocol' \in {"None", "Attached", "Releasing", "Deleted"}
          /\ reading' \in ReadOps \cup {"None"}
          /\ readTimer' \in BOOLEAN
          /\ fault' \in BOOLEAN
          /\ UNCHANGED <<readError, writeError, managed, socket, writing, pendingRead,
                         pendingWrite, writeTimer, stopping, place, buffer, refs, retry,
                         phase>>
      BY <1>0, <1>a, <1>b, <1>c, <1>d DEF TypeOK, ReadOps, ParsePacket, Tasks, connVars,
         timerVars, msgVars
    <2> QED BY <2>1, <2>2, <2>3, <2>4 DEF TypeOK, Tasks
  <1>2. CountInv'
    BY <1>0, <1>a, <1>b, <1>c, <1>d DEF CountInv, Out, ParsePacket, Tasks, connVars,
       timerVars, msgVars
  <1>3. QueueInv'
    BY <1>0, <1>a, <1>b, <1>c, <1>d DEF QueueInv, ParsePacket, Tasks, connVars, timerVars,
       msgVars
  <1>4. OneWriting'
    BY <1>0, <1>a, <1>b, <1>c, <1>d DEF OneWriting, ParsePacket, Tasks, connVars, timerVars,
       msgVars
  <1>5. TaskInv'
    BY <1>0, <1>a, <1>b, <1>c, <1>d DEF TaskInv, ParsePacket, Tasks, connVars, timerVars,
       msgVars
  <1>6. OpenInv'
    BY <1>0, <1>a, <1>b, <1>c, <1>d DEF OpenInv, ParsePacket, Tasks, connVars, timerVars,
       msgVars
  <1>7. BufferNotInFlight'
    BY <1>0, <1>a, <1>b, <1>c, <1>d DEF BufferNotInFlight, ParsePacket, Tasks, connVars,
       timerVars, msgVars
  <1>8. ProtocolInv'
    BY <1>0, <1>a, <1>b, <1>c, <1>d DEF ProtocolInv, Out, ParsePacket, Tasks, connVars,
       timerVars, msgVars
  <1>9. StopInv'
    BY <1>0, <1>a, <1>b, <1>c, <1>d DEF StopInv, Out, ParsePacket, Tasks, connVars,
       timerVars, msgVars
  <1>10. ManagedInv'
    BY <1>0, <1>a, <1>b, <1>c, <1>d DEF ManagedInv, ParsePacket, Tasks, connVars, timerVars,
       msgVars
  <1> QED BY <1>1, <1>2, <1>3, <1>4, <1>5, <1>6, <1>7, <1>8, <1>9, <1>10 DEF IInv

\* The read timer was due: if a read is still pending the connection is closed.
LEMMA ReadTimeoutStep ==
  ASSUME IInv, ReadTimeout
  PROVE  IInv'
  <1> USE ConnectionAssumption
  <1>0. /\ TypeOK /\ CountInv /\ QueueInv /\ OneWriting /\ TaskInv /\ OpenInv
        /\ BufferNotInFlight /\ ProtocolInv /\ StopInv /\ ManagedInv
    BY DEF IInv
  <1>a. /\ ioQueue # <<>> /\ Tail(ioQueue) \in Seq(Handler)
        /\ WriteQ(Tail(ioQueue), writing, place) /\ StopQ(Tail(ioQueue))
        /\ Has(Tail(ioQueue), "Stop") => Has(ioQueue, "Stop")
        /\ \A i \in DOMAIN Tail(ioQueue) : Tail(ioQueue)[i].op \notin Ops
             \/ \E j \in DOMAIN ioQueue : ioQueue[j].op \in Ops
    BY <1>0, QueueTail DEF Runs, QueueInv, TypeOK, Has, ReadTimeout
  <1>b. socket = "deleted" /\ phase # "down" => ~Alive
    BY <1>0 DEF ReadTimeout, Runs, Alive, StopInv, ManagedInv, ProtocolInv, Out, Ops
  <1>c. /\ ioQueue' \in Seq(Handler)
        /\ WriteQ(ioQueue', writing', place) /\ StopQ(ioQueue')
        /\ Has(ioQueue', "Stop") => Has(ioQueue, "Stop")
        /\ socket # "open" => UNCHANGED <<socket, reading, writing>>
        /\ \/ UNCHANGED <<socket, reading, writing>>
           \/ socket = "open" /\ socket' = "closed" /\ reading' = "None" /\ writing' = NoMsg
        /\ socket = "deleted" => ioQueue' = Tail(ioQueue)
        /\ pendingRead' \in 0..1 /\ pendingWrite' \in 0..1 /\ fault' \in BOOLEAN
        /\ phase # "down" => fault' = fault
    <2>1. CASE Alive /\ (pendingRead > 0 \/ readError)
      <3>1. CloseSocket(Tail(ioQueue), <<>>)
        BY <2>1 DEF ReadTimeout
      <3>2. /\ Has(Tail(ioQueue), "Stop") => socket # "open"
            /\ socket # "open" => reading = "None" /\ writing = NoMsg
        BY <1>0, <1>a DEF StopInv
      <3> HIDE DEF ReadTimeout
      <3> QED BY <1>0, <1>a, <1>b, <2>1, <3>1, <3>2, CloseSocketKeeps DEF TypeOK
    <2>2. CASE ~(Alive /\ (pendingRead > 0 \/ readError))
      BY <1>0, <1>a, <2>2 DEF ReadTimeout, ioVars, TypeOK
    <2> QED BY <2>1, <2>2
  <1>d. /\ tasks' \in Seq(Tasks) /\ TaskQ(tasks', state', place, phase)
        /\ \/ state' = state /\ socket' = socket /\ UNCHANGED pendingWrite
           \/ state' = IF state = "OPEN" THEN "REQUEST_CLOSE" ELSE state
    BY <1>0, CloseKeeps DEF ReadTimeout, ioVars, TaskInv, TypeOK, Tasks
  <1>1. TypeOK'
    <2>1. TypeOK
      BY <1>0
    <2>2. ioQueue' \in Seq(Handler)
      BY <1>c
    <2>3. tasks' \in Seq(Tasks)
      BY <1>d
    <2>4. /\ state' \in {"OPEN", "REQUEST_CLOSE", "CLOSING", "CLOSED"}
          /\ socket' \in {"open", "closed", "deleted"}
          /\ reading' \in ReadOps \cup {"None"}
          /\ writing' \in Msg \cup {NoMsg}
          /\ pendingRead' \in 0..1
          /\ pendingWrite' \in 0..1
          /\ fault' \in BOOLEAN
          /\ UNCHANGED <<protocol, readError, writeError, managed, readTimer, writeTimer,
                         stopping, place, buffer, refs, retry, phase>>
      BY <1>0, <1>a, <1>b, <1>c, <1>d DEF TypeOK, ReadOps, ReadTimeout, Runs, Tasks,
         connVars, ioVars, timerVars, msgVars
    <2> QED BY <2>1, <2>2, <2>3, <2>4 DEF TypeOK, Tasks
  <1>2. CountInv'
    BY <1>0, <1>a, <1>b, <1>c, <1>d DEF CountInv, Out, ReadTimeout, Runs, Tasks, connVars,
       ioVars, timerVars, msgVars
  <1>3. QueueInv'
    BY <1>0, <1>a, <1>b, <1>c, <1>d DEF QueueInv, ReadTimeout, Runs, Tasks, connVars,
       ioVars, timerVars, msgVars
  <1>4. OneWriting'
    BY <1>0, <1>a, <1>b, <1>c, <1>d DEF OneWriting, ReadTimeout, Runs, Tasks, connVars,
       ioVars, timerVars, msgVars
  <1>5. TaskInv'
    BY <1>0, <1>a, <1>b, <1>c, <1>d DEF TaskInv, ReadTimeout, Runs, Tasks, connVars, ioVars,
       timerVars, msgVars
  <1>6. OpenInv'
    BY <1>0, <1>a, <1>b, <1>c, <1>d DEF OpenInv, ReadTimeout, Runs, Tasks, connVars, ioVars,
       timerVars, msgVars
  <1>7. BufferNotInFlight'
    BY <1>0, <1>a, <1>b, <1>c, <1>d DEF BufferNotInFlight, ReadTimeout, Runs, Tasks,
       connVars, ioVars, timerVars, msgVars
  <1>8. ProtocolInv'
    BY <1>0, <1>a, <1>b, <1>c, <1>d DEF ProtocolInv, Out, ReadTimeout, Runs, Tasks,
       connVars, ioVars, timerVars, msgVars
  <1>9. StopInv'
    BY <1>0, <1>a, <1>b, <1>c, <1>d DEF StopInv, Out, ReadTimeout, Runs, Tasks, connVars,
       ioVars, timerVars, msgVars
  <1>10. ManagedInv'
    BY <1>0, <1>a, <1>b, <1>c, <1>d DEF ManagedInv, ReadTimeout, Runs, Tasks, connVars,
       ioVars, timerVars, msgVars
  <1> QED BY <1>1, <1>2, <1>3, <1>4, <1>5, <1>6, <1>7, <1>8, <1>9, <1>10 DEF IInv

\* The write timer was due: the same for a write.
LEMMA WriteTimeoutStep ==
  ASSUME IInv, WriteTimeout
  PROVE  IInv'
  <1> USE ConnectionAssumption
  <1>0. /\ TypeOK /\ CountInv /\ QueueInv /\ OneWriting /\ TaskInv /\ OpenInv
        /\ BufferNotInFlight /\ ProtocolInv /\ StopInv /\ ManagedInv
    BY DEF IInv
  <1>a. /\ ioQueue # <<>> /\ Tail(ioQueue) \in Seq(Handler)
        /\ WriteQ(Tail(ioQueue), writing, place) /\ StopQ(Tail(ioQueue))
        /\ Has(Tail(ioQueue), "Stop") => Has(ioQueue, "Stop")
        /\ \A i \in DOMAIN Tail(ioQueue) : Tail(ioQueue)[i].op \notin Ops
             \/ \E j \in DOMAIN ioQueue : ioQueue[j].op \in Ops
    BY <1>0, QueueTail DEF Runs, QueueInv, TypeOK, Has, WriteTimeout
  <1>b. socket = "deleted" /\ phase # "down" => ~Alive
    BY <1>0 DEF WriteTimeout, Runs, Alive, StopInv, ManagedInv, ProtocolInv, Out, Ops
  <1>c. /\ ioQueue' \in Seq(Handler)
        /\ WriteQ(ioQueue', writing', place) /\ StopQ(ioQueue')
        /\ Has(ioQueue', "Stop") => Has(ioQueue, "Stop")
        /\ socket # "open" => UNCHANGED <<socket, reading, writing>>
        /\ \/ UNCHANGED <<socket, reading, writing>>
           \/ socket = "open" /\ socket' = "closed" /\ reading' = "None" /\ writing' = NoMsg
        /\ socket = "deleted" => ioQueue' = Tail(ioQueue)
        /\ pendingRead' \in 0..1 /\ pendingWrite' \in 0..1 /\ fault' \in BOOLEAN
        /\ phase # "down" => fault' = fault
    <2>1. CASE Alive /\ (pendingWrite > 0 \/ writeError)
      <3>1. CloseSocket(Tail(ioQueue), <<>>)
        BY <2>1 DEF WriteTimeout
      <3>2. /\ Has(Tail(ioQueue), "Stop") => socket # "open"
            /\ socket # "open" => reading = "None" /\ writing = NoMsg
        BY <1>0, <1>a DEF StopInv
      <3> HIDE DEF WriteTimeout
      <3> QED BY <1>0, <1>a, <1>b, <2>1, <3>1, <3>2, CloseSocketKeeps DEF TypeOK
    <2>2. CASE ~(Alive /\ (pendingWrite > 0 \/ writeError))
      BY <1>0, <1>a, <2>2 DEF WriteTimeout, ioVars, TypeOK
    <2> QED BY <2>1, <2>2
  <1>d. /\ tasks' \in Seq(Tasks) /\ TaskQ(tasks', state', place, phase)
        /\ \/ state' = state /\ socket' = socket /\ UNCHANGED pendingWrite
           \/ state' = IF state = "OPEN" THEN "REQUEST_CLOSE" ELSE state
    BY <1>0, CloseKeeps DEF WriteTimeout, ioVars, TaskInv, TypeOK, Tasks
  <1>1. TypeOK'
    <2>1. TypeOK
      BY <1>0
    <2>2. ioQueue' \in Seq(Handler)
      BY <1>c
    <2>3. tasks' \in Seq(Tasks)
      BY <1>d
    <2>4. /\ state' \in {"OPEN", "REQUEST_CLOSE", "CLOSING", "CLOSED"}
          /\ socket' \in {"open", "closed", "deleted"}
          /\ reading' \in ReadOps \cup {"None"}
          /\ writing' \in Msg \cup {NoMsg}
          /\ pendingRead' \in 0..1
          /\ pendingWrite' \in 0..1
          /\ fault' \in BOOLEAN
          /\ UNCHANGED <<protocol, readError, writeError, managed, readTimer, writeTimer,
                         stopping, place, buffer, refs, retry, phase>>
      BY <1>0, <1>a, <1>b, <1>c, <1>d DEF TypeOK, ReadOps, WriteTimeout, Runs, Tasks,
         connVars, ioVars, timerVars, msgVars
    <2> QED BY <2>1, <2>2, <2>3, <2>4 DEF TypeOK, Tasks
  <1>2. CountInv'
    BY <1>0, <1>a, <1>b, <1>c, <1>d DEF CountInv, Out, WriteTimeout, Runs, Tasks, connVars,
       ioVars, timerVars, msgVars
  <1>3. QueueInv'
    BY <1>0, <1>a, <1>b, <1>c, <1>d DEF QueueInv, WriteTimeout, Runs, Tasks, connVars,
       ioVars, timerVars, msgVars
  <1>4. OneWriting'
    BY <1>0, <1>a, <1>b, <1>c, <1>d DEF OneWriting, WriteTimeout, Runs, Tasks, connVars,
       ioVars, timerVars, msgVars
  <1>5. TaskInv'
    BY <1>0, <1>a, <1>b, <1>c, <1>d DEF TaskInv, WriteTimeout, Runs, Tasks, connVars,
       ioVars, timerVars, msgVars
  <1>6. OpenInv'
    BY <1>0, <1>a, <1>b, <1>c, <1>d DEF OpenInv, WriteTimeout, Runs, Tasks, connVars,
       ioVars, timerVars, msgVars
  <1>7. BufferNotInFlight'
    BY <1>0, <1>a, <1>b, <1>c, <1>d DEF BufferNotInFlight, WriteTimeout, Runs, Tasks,
       connVars, ioVars, timerVars, msgVars
  <1>8. ProtocolInv'
    BY <1>0, <1>a, <1>b, <1>c, <1>d DEF ProtocolInv, Out, WriteTimeout, Runs, Tasks,
       connVars, ioVars, timerVars, msgVars
  <1>9. StopInv'
    BY <1>0, <1>a, <1>b, <1>c, <1>d DEF StopInv, Out, WriteTimeout, Runs, Tasks, connVars,
       ioVars, timerVars, msgVars
  <1>10. ManagedInv'
    BY <1>0, <1>a, <1>b, <1>c, <1>d DEF ManagedInv, WriteTimeout, Runs, Tasks, connVars,
       ioVars, timerVars, msgVars
  <1> QED BY <1>1, <1>2, <1>3, <1>4, <1>5, <1>6, <1>7, <1>8, <1>9, <1>10 DEF IInv

\* The manager lets go of the connection.
LEMMA ReleaseFromManagerStep ==
  ASSUME IInv, ReleaseFromManager
  PROVE  IInv'
  <1> USE ConnectionAssumption
  <1>0. /\ TypeOK /\ CountInv /\ QueueInv /\ OneWriting /\ TaskInv /\ OpenInv
        /\ BufferNotInFlight /\ ProtocolInv /\ StopInv /\ ManagedInv
    BY DEF IInv
  <1>a. state = "CLOSED" /\ socket = "deleted" /\ ioQueue' = ioQueue /\ tasks' = tasks
    BY <1>0 DEF ReleaseFromManager, StopInv, ManagedInv
  <1>1. TypeOK'
    <2>1. TypeOK
      BY <1>0
    <2>2. /\ managed' \in BOOLEAN
          /\ stopping' \in BOOLEAN
          /\ UNCHANGED <<state, protocol, readError, writeError, socket, reading, writing,
                         pendingRead, pendingWrite, readTimer, writeTimer, ioQueue, place,
                         buffer, refs, tasks, retry, phase, fault>>
      BY <1>0, <1>a DEF TypeOK, ReadOps, ReleaseFromManager, Tasks, connVars, ioVars,
         timerVars, msgVars
    <2> QED BY <2>1, <2>2 DEF TypeOK, Tasks
  <1>2. CountInv'
    BY <1>0, <1>a DEF CountInv, Out, ReleaseFromManager, Tasks, connVars, ioVars, timerVars,
       msgVars
  <1>3. QueueInv'
    BY <1>0, <1>a DEF QueueInv, ReleaseFromManager, Tasks, connVars, ioVars, timerVars,
       msgVars
  <1>4. OneWriting'
    BY <1>0, <1>a DEF OneWriting, ReleaseFromManager, Tasks, connVars, ioVars, timerVars,
       msgVars
  <1>5. TaskInv'
    BY <1>0, <1>a DEF TaskInv, ReleaseFromManager, Tasks, connVars, ioVars, timerVars,
       msgVars
  <1>6. OpenInv'
    BY <1>0, <1>a DEF OpenInv, ReleaseFromManager, Tasks, connVars, ioVars, timerVars,
       msgVars
  <1>7. BufferNotInFlight'
    BY <1>0, <1>a DEF BufferNotInFlight, ReleaseFromManager, Tasks, connVars, ioVars,
       timerVars, msgVars
  <1>8. ProtocolInv'
    BY <1>0, <1>a DEF ProtocolInv, Out, ReleaseFromManager, Tasks, connVars, ioVars,
       timerVars, msgVars
  <1>9. StopInv'
    BY <1>0, <1>a DEF StopInv, Out, ReleaseFromManager, Tasks, connVars, ioVars, timerVars,
       msgVars
  <1>10. ManagedInv'
    BY <1>0, <1>a DEF ManagedInv, ReleaseFromManager, Tasks, connVars, ioVars, timerVars,
       msgVars
  <1> QED BY <1>1, <1>2, <1>3, <1>4, <1>5, <1>6, <1>7, <1>8, <1>9, <1>10 DEF IInv

\* A write came back: one write less is pending, or the socket is closed.
LEMMA OnWriteOperationStep ==
  ASSUME IInv, OnWriteOperation
  PROVE  IInv'
  <1> USE ConnectionAssumption
  <1>0. /\ TypeOK /\ CountInv /\ QueueInv /\ OneWriting /\ TaskInv /\ OpenInv
        /\ BufferNotInFlight /\ ProtocolInv /\ StopInv /\ ManagedInv
    BY DEF IInv
  <1>a. /\ ioQueue # <<>> /\ Head(ioQueue) = ioQueue[1] /\ 1 \in DOMAIN ioQueue
        /\ Head(ioQueue).op = "Write" /\ Head(ioQueue).error \in {"none", "aborted", "failed"}
        /\ Head(ioQueue).msg \in Msg /\ place[Head(ioQueue).msg] = "Writing" /\ writing = NoMsg
    <2>1. /\ ioQueue # <<>> /\ Head(ioQueue) = ioQueue[1] /\ 1 \in DOMAIN ioQueue
          /\ Head(ioQueue).op = "Write" /\ Head(ioQueue) \in Handler
      BY <1>0, QueueTail DEF OnWriteOperation, Runs, QueueInv, TypeOK
    <2>2. Head(ioQueue).error \in {"none", "aborted", "failed"}
      BY <2>1 DEF Handler
    <2> QED BY <1>0, <2>1, <2>2 DEF QueueInv, WriteQ, Has, TypeOK
  <1>b. /\ socket # "deleted" /\ ~Has(ioQueue, "Stop")
        /\ \A n \in Msg : n # Head(ioQueue).msg => place[n] # "Writing"
        /\ place' = [place EXCEPT ![Head(ioQueue).msg] = "Written"]
        /\ buffer' = buffer /\ buffer # Head(ioQueue).msg
        /\ writeError' = (writeError \/ Head(ioQueue).error # "none")
    BY <1>0, <1>a DEF OnWriteOperation, StopInv, OneWriting, Ops, Out, BufferNotInFlight
  <1>c. /\ Tail(ioQueue) \in Seq(Handler) /\ StopQ(Tail(ioQueue)) /\ ~Has(Tail(ioQueue), "Stop")
        /\ ~Has(Tail(ioQueue), "Write") /\ WriteQ(Tail(ioQueue), writing, place')
    <2>1. /\ Tail(ioQueue) \in Seq(Handler) /\ StopQ(Tail(ioQueue))
          /\ \A i \in DOMAIN Tail(ioQueue) : i + 1 \in DOMAIN ioQueue
               /\ Tail(ioQueue)[i] = ioQueue[i + 1]
      BY <1>0, <1>a, QueueTail DEF QueueInv, TypeOK
    <2>2. \A i \in DOMAIN Tail(ioQueue) : i \in Nat /\ i > 0 /\ i + 1 # 1
      BY <2>1, LenProperties
    <2>3. ~Has(Tail(ioQueue), "Stop") /\ ~Has(Tail(ioQueue), "Write")
      BY <1>0, <1>a, <1>b, <2>1, <2>2 DEF Has, QueueInv, WriteQ
    <2>4. WriteQ(Tail(ioQueue), writing, place')
      BY <1>a, <2>3 DEF WriteQ, Has
    <2> QED BY <2>1, <2>3, <2>4
  <1>d. tasks \in Seq(Tasks) /\ TaskQ(tasks, state, place', phase)
    BY <1>0, <1>a, <1>b DEF TaskInv, TaskQ, TypeOK, Tasks
  <1>e. \/ /\ state # "OPEN" \/ writeError'
           /\ CloseSocket(Tail(ioQueue), <<>>) /\ Close(tasks)
        \/ /\ state = "OPEN" /\ ~writeError'
           /\ ioQueue' = Tail(ioQueue) /\ pendingWrite' = pendingWrite - 1
           /\ tasks' = tasks
           /\ UNCHANGED <<state, socket, reading, writing, pendingRead, fault>>
    BY DEF OnWriteOperation
  <1>f. state = "OPEN" => pendingWrite = 1 /\ ~writeError
    BY <1>0, <1>a DEF OpenInv
  <1>g. /\ tasks' \in Seq(Tasks) /\ TaskQ(tasks', state', place', phase)
        /\ state' = IF state = "OPEN" /\ writeError' THEN "REQUEST_CLOSE" ELSE state
    <2>1. CASE state # "OPEN" \/ writeError'
      BY <1>0, <1>d, <1>e, <2>1, CloseKeeps DEF TypeOK
    <2>2. CASE ~(state # "OPEN" \/ writeError')
      BY <1>d, <1>e, <2>2
    <2> QED BY <2>1, <2>2
  <1>h. /\ ioQueue' \in Seq(Handler)
        /\ WriteQ(ioQueue', writing', place') /\ StopQ(ioQueue') /\ ~Has(ioQueue', "Stop")
        /\ reading' \in {reading, "None"} /\ writing' = NoMsg
        /\ socket' \in {socket, "closed"}
        /\ socket # "open" => socket' = socket
        /\ socket' # "open" => reading' = "None"
        /\ pendingRead' \in 0..1 /\ pendingWrite' \in 0..1 /\ fault' = fault
        /\ state = "OPEN" /\ ~writeError' => socket' = socket /\ pendingWrite' = 0
    <2>1. CASE state # "OPEN" \/ writeError'
      <3>1. CloseSocket(Tail(ioQueue), <<>>)
        BY <1>e, <2>1
      <3>2. socket # "open" => reading = "None" /\ writing = NoMsg
        BY <1>0 DEF StopInv
      <3>3. /\ ioQueue' \in Seq(Handler)
            /\ WriteQ(ioQueue', writing', place') /\ StopQ(ioQueue')
            /\ Has(ioQueue', "Stop") <=> Has(Tail(ioQueue), "Stop")
            /\ reading' = "None" /\ writing' = NoMsg
            /\ socket' = IF socket = "deleted" THEN "deleted" ELSE "closed"
            /\ pendingRead' \in 0..1 /\ pendingWrite' \in 0..1
            /\ fault' = (fault \/ socket = "deleted")
        BY <1>0, <1>c, <3>1, <3>2, CloseSocketKeeps
      <3>4. fault' = fault
        BY <1>0, <1>b, <3>3 DEF TypeOK
      <3>5. socket' \in {socket, "closed"} /\ (socket # "open" => socket' = socket)
        BY <1>0, <1>b, <3>3 DEF TypeOK
      <3> QED BY <1>c, <2>1, <3>3, <3>4, <3>5
    <2>2. CASE ~(state # "OPEN" \/ writeError')
      <3>1. /\ ioQueue' = Tail(ioQueue) /\ pendingWrite' = pendingWrite - 1
            /\ UNCHANGED <<socket, reading, writing, pendingRead, fault>>
        BY <1>e, <2>2
      <3>2. pendingWrite' = 0 /\ pendingRead' \in 0..1
        BY <1>0, <1>f, <2>2, <3>1 DEF TypeOK
      <3>3. socket # "open" => reading = "None"
        BY <1>0 DEF StopInv
      <3>4. /\ ioQueue' \in Seq(Handler) /\ WriteQ(ioQueue', writing', place')
            /\ StopQ(ioQueue') /\ ~Has(ioQueue', "Stop") /\ writing' = NoMsg
        BY <1>a, <1>c, <3>1
      <3>5. /\ reading' \in {reading, "None"} /\ socket' \in {socket, "closed"}
            /\ socket # "open" => socket' = socket
            /\ socket' # "open" => reading' = "None"
        BY <3>1, <3>3
      <3>6. fault' = fault
        BY <3>1
      <3>7. pendingWrite' \in 0..1
        BY <3>2
      <3> QED BY <3>1, <3>2, <3>4, <3>5, <3>6, <3>7
    <2> QED BY <2>1, <2>2
  <1>i. UNCHANGED <<protocol, readError, managed, readTimer, stopping, buffer, refs, retry,
                    phase>>
        /\ writeTimer' = FALSE
    BY DEF OnWriteOperation
  <1>j. /\ Out' = Out
        /\ \A n \in Msg : place'[n] # "Writing"
    BY <1>0, <1>a, <1>b DEF Out, TypeOK
  <1>1. TypeOK'
    <2>1. TypeOK
      BY <1>0
    <2>2. ioQueue' \in Seq(Handler)
      BY <1>h
    <2>3. tasks' \in Seq(Tasks)
      BY <1>g
    <2>4. /\ state' \in {"OPEN", "REQUEST_CLOSE", "CLOSING", "CLOSED"}
          /\ writeError' \in BOOLEAN
          /\ socket' \in {"open", "closed", "deleted"}
          /\ reading' \in ReadOps \cup {"None"}
          /\ writing' \in Msg \cup {NoMsg}
          /\ pendingRead' \in 0..1
          /\ pendingWrite' \in 0..1
          /\ writeTimer' \in BOOLEAN
          /\ place' \in [Msg -> {"Free", "Auto", "ToAdd", "Writing", "Written", "Releasing"}]
          /\ buffer' \in Msg \cup {NoMsg}
          /\ fault' \in BOOLEAN
          /\ UNCHANGED <<protocol, readError, managed, readTimer, stopping, refs, retry,
                         phase>>
      BY <1>0, <1>a, <1>b, <1>c, <1>d, <1>e, <1>f, <1>g, <1>h, <1>i, <1>j DEF TypeOK,
         ReadOps, Tasks
    <2> QED BY <2>1, <2>2, <2>3, <2>4 DEF TypeOK, Tasks
  <1>2. CountInv'
    BY <1>0, <1>a, <1>b, <1>c, <1>d, <1>e, <1>f, <1>g, <1>h, <1>i, <1>j DEF CountInv, Out,
       Tasks
  <1>3. QueueInv'
    BY <1>0, <1>a, <1>b, <1>c, <1>d, <1>e, <1>f, <1>g, <1>h, <1>i, <1>j DEF QueueInv, Tasks
  <1>4. OneWriting'
    BY <1>0, <1>a, <1>b, <1>c, <1>d, <1>e, <1>f, <1>g, <1>h, <1>i, <1>j DEF OneWriting,
       Tasks
  <1>5. TaskInv'
    BY <1>0, <1>a, <1>b, <1>c, <1>d, <1>e, <1>f, <1>g, <1>h, <1>i, <1>j DEF TaskInv, Tasks
  <1>6. OpenInv'
    <2>1. state' = "OPEN" => state = "OPEN" /\ ~writeError'
      BY <1>g
    <2>2. state' = "OPEN" => pendingWrite' = 0 /\ socket' = socket
      BY <1>h, <2>1
    <2>3. state' = "OPEN" /\ phase' # "down" => socket' = "open" /\ managed'
      BY <1>0, <1>i, <2>1, <2>2 DEF OpenInv
    <2> QED BY <1>j, <2>1, <2>2, <2>3 DEF OpenInv
  <1>7. BufferNotInFlight'
    BY <1>0, <1>a, <1>b, <1>c, <1>d, <1>e, <1>f, <1>g, <1>h, <1>i, <1>j DEF
       BufferNotInFlight, Tasks
  <1>8. ProtocolInv'
    BY <1>0, <1>a, <1>b, <1>c, <1>d, <1>e, <1>f, <1>g, <1>h, <1>i, <1>j DEF ProtocolInv,
       Out, Tasks
  <1>9. StopInv'
    BY <1>0, <1>a, <1>b, <1>c, <1>d, <1>e, <1>f, <1>g, <1>h, <1>i, <1>j DEF StopInv, Out,
       Tasks
  <1>10. ManagedInv'
    BY <1>0, <1>a, <1>b, <1>c, <1>d, <1>e, <1>f, <1>g, <1>h, <1>i, <1>j DEF ManagedInv,
       Tasks
  <1> QED BY <1>1, <1>2, <1>3, <1>4, <1>5, <1>6, <1>7, <1>8, <1>9, <1>10 DEF IInv

\* onStopOperation deletes the socket, which cuts off what is under way.
LEMMA StopOperationStep ==
  ASSUME IInv, StopOperation
  PROVE  IInv'
  <1> USE ConnectionAssumption
  <1>0. /\ TypeOK /\ CountInv /\ QueueInv /\ OneWriting /\ TaskInv /\ OpenInv
        /\ BufferNotInFlight /\ ProtocolInv /\ StopInv /\ ManagedInv
    BY DEF IInv
  <1>a. /\ ioQueue # <<>> /\ Head(ioQueue) = ioQueue[1] /\ 1 \in DOMAIN ioQueue
        /\ Head(ioQueue).op = "Stop" /\ ~stopping /\ Has(ioQueue, "Stop")
    BY <1>0, QueueTail DEF StopOperation, Runs, QueueInv, TypeOK, Has
  <1>b. /\ state = "CLOSED" /\ Out = {} /\ socket = "closed"
        /\ reading = "None" /\ writing = NoMsg /\ "connection" \notin retry
        /\ phase # "down" => managed
    BY <1>0, <1>a DEF StopInv, ManagedInv
  <1>c. /\ ioQueue' \in Seq(Handler) /\ WriteQ(ioQueue', NoMsg, place) /\ StopQ(ioQueue')
        /\ \A i \in DOMAIN ioQueue' : ioQueue'[i].op \notin Ops \cup {"Stop"}
    <2>1. /\ Tail(ioQueue) \in Seq(Handler) /\ StopQ(Tail(ioQueue))
          /\ WriteQ(Tail(ioQueue), NoMsg, place)
          /\ \A i \in DOMAIN Tail(ioQueue) : i + 1 \in DOMAIN ioQueue
               /\ Tail(ioQueue)[i] = ioQueue[i + 1]
      BY <1>0, <1>a, <1>b, QueueTail DEF QueueInv, TypeOK
    <2>2. \A i \in DOMAIN Tail(ioQueue) : i \in Nat /\ i > 0 /\ i + 1 # 1 /\ ~(i + 1 < 1)
      BY <2>1, LenProperties
    <2>3. \A i \in DOMAIN Tail(ioQueue) : Tail(ioQueue)[i].op \notin Ops \cup {"Stop"}
      BY <1>0, <1>a, <2>1, <2>2 DEF QueueInv, StopQ
    <2>4. ioQueue' = Tail(ioQueue)
      <3>1. ioQueue' = Tail(ioQueue) \o <<>>
        BY <1>b DEF StopOperation
      <3> QED BY <2>1, <3>1, ConcatEmptySeq
    <2> QED BY <2>1, <2>3, <2>4
  <1>d. Alive \/ phase = "down"
    BY <1>b DEF Alive
  <1>e. fault' \in BOOLEAN /\ (phase # "down" => fault' = fault)
    BY <1>0, <1>d DEF StopOperation, TypeOK
  <1>f. ~Has(ioQueue', "Stop")
    BY <1>c DEF Has
  <1>1. TypeOK'
    <2>1. TypeOK
      BY <1>0
    <2>2. ioQueue' \in Seq(Handler)
      BY <1>c
    <2>3. /\ socket' \in {"open", "closed", "deleted"}
          /\ reading' \in ReadOps \cup {"None"}
          /\ writing' \in Msg \cup {NoMsg}
          /\ readTimer' \in BOOLEAN
          /\ writeTimer' \in BOOLEAN
          /\ stopping' \in BOOLEAN
          /\ fault' \in BOOLEAN
          /\ UNCHANGED <<state, protocol, readError, writeError, managed, pendingRead,
                         pendingWrite, place, buffer, refs, tasks, retry, phase>>
      BY <1>0, <1>a, <1>b, <1>c, <1>d, <1>e, <1>f DEF TypeOK, ReadOps, StopOperation, Runs,
         Tasks, connVars, ioVars, timerVars, msgVars
    <2> QED BY <2>1, <2>2, <2>3 DEF TypeOK, Tasks
  <1>2. CountInv'
    BY <1>0, <1>a, <1>b, <1>c, <1>d, <1>e, <1>f DEF CountInv, Out, StopOperation, Runs,
       Tasks, connVars, ioVars, timerVars, msgVars
  <1>3. QueueInv'
    BY <1>0, <1>a, <1>b, <1>c, <1>d, <1>e, <1>f DEF QueueInv, StopOperation, Runs, Tasks,
       connVars, ioVars, timerVars, msgVars
  <1>4. OneWriting'
    BY <1>0, <1>a, <1>b, <1>c, <1>d, <1>e, <1>f DEF OneWriting, StopOperation, Runs, Tasks,
       connVars, ioVars, timerVars, msgVars
  <1>5. TaskInv'
    BY <1>0, <1>a, <1>b, <1>c, <1>d, <1>e, <1>f DEF TaskInv, StopOperation, Runs, Tasks,
       connVars, ioVars, timerVars, msgVars
  <1>6. OpenInv'
    BY <1>0, <1>a, <1>b, <1>c, <1>d, <1>e, <1>f DEF OpenInv, StopOperation, Runs, Tasks,
       connVars, ioVars, timerVars, msgVars
  <1>7. BufferNotInFlight'
    BY <1>0, <1>a, <1>b, <1>c, <1>d, <1>e, <1>f DEF BufferNotInFlight, StopOperation, Runs,
       Tasks, connVars, ioVars, timerVars, msgVars
  <1>8. ProtocolInv'
    BY <1>0, <1>a, <1>b, <1>c, <1>d, <1>e, <1>f DEF ProtocolInv, Out, StopOperation, Runs,
       Tasks, connVars, ioVars, timerVars, msgVars
  <1>9. StopInv'
    BY <1>0, <1>a, <1>b, <1>c, <1>d, <1>e, <1>f DEF StopInv, Out, StopOperation, Runs,
       Tasks, connVars, ioVars, timerVars, msgVars
  <1>10. ManagedInv'
    BY <1>0, <1>a, <1>b, <1>c, <1>d, <1>e, <1>f DEF ManagedInv, StopOperation, Runs, Tasks,
       connVars, ioVars, timerVars, msgVars
  <1> QED BY <1>1, <1>2, <1>3, <1>4, <1>5, <1>6, <1>7, <1>8, <1>9, <1>10 DEF IInv

\* Connection::send(): the message is written, put aside or given up.
LEMMA SendKeeps ==
  ASSUME IInv, NEW m \in Msg, phase # "down", Send(m),
         place[m] \in {"Free", "Auto"}, place[m] = "Free" => protocol = "Attached"
  PROVE  /\ socket # "deleted" /\ ~Has(ioQueue, "Stop")
         /\ protocol \in {"Attached", "Releasing"}
         /\ place' \in [Msg -> {"Free", "Auto", "ToAdd", "Writing", "Written", "Releasing"}]
         /\ place'[m] # "Free" /\ \A n \in Msg : n # m => place'[n] = place[n]
         /\ ioQueue' \in Seq(Handler) /\ ~Has(ioQueue', "Stop")
         /\ WriteQ(ioQueue', writing', place') /\ StopQ(ioQueue')
         /\ \A n, o \in Msg : place'[n] = "Writing" /\ place'[o] = "Writing" => n = o
         /\ tasks' \in Seq(Tasks) /\ TaskQ(tasks', state, place', phase)
         /\ state = "OPEN" => (pendingWrite' = 1 <=> \E n \in Msg : place'[n] = "Writing")
         /\ pendingWrite' \in 0..1 /\ writing' \in Msg \cup {NoMsg}
         /\ buffer' \in Msg \cup {NoMsg}
         /\ buffer' # NoMsg => place'[buffer'] \in {"Auto", "ToAdd"}
         /\ socket # "open" => writing' = NoMsg
         /\ fault' = fault /\ writeTimer' \in BOOLEAN
  <1> USE ConnectionAssumption
  <1>0. /\ TypeOK /\ CountInv /\ QueueInv /\ OneWriting /\ TaskInv /\ OpenInv
        /\ BufferNotInFlight /\ ProtocolInv /\ StopInv /\ ManagedInv
    BY DEF IInv
  <1>1. /\ socket # "deleted" /\ ~Has(ioQueue, "Stop")
        /\ protocol \in {"Attached", "Releasing"}
    <2>1. CASE place[m] = "Free"
      BY <1>0, <2>1 DEF StopInv, ProtocolInv
    <2>2. CASE place[m] # "Free"
      <3>1. Out # {}
        BY <2>2 DEF Out
      <3> QED BY <1>0, <3>1 DEF StopInv, ProtocolInv, TypeOK
    <2> QED BY <2>1, <2>2
  <1>2. ASSUME Release(m)
        PROVE  /\ place' = [place EXCEPT ![m] = "Releasing"]
               /\ buffer' = IF buffer = m THEN NoMsg ELSE buffer
    BY <1>2 DEF Release
  <1>3. CASE state # "OPEN" \/ writeError
    <2>1. /\ Release(m) /\ tasks' = AddTask(tasks, m)
          /\ UNCHANGED <<ioQueue, writing, pendingWrite, writeTimer, fault>>
      BY <1>3 DEF Send
    <2>2. /\ place' = [place EXCEPT ![m] = "Releasing"]
          /\ buffer' = IF buffer = m THEN NoMsg ELSE buffer
      BY <1>2, <2>1
    <2>3. /\ place' \in [Msg -> {"Free", "Auto", "ToAdd", "Writing", "Written", "Releasing"}]
          /\ place'[m] = "Releasing" /\ \A n \in Msg : n # m => place'[n] = place[n]
      BY <1>0, <2>2 DEF TypeOK
    <2>4. tasks' \in Seq(Tasks) /\ TaskQ(tasks', state, place', phase)
      BY <1>0, <2>1, <2>2, ReleaseKeeps DEF TaskInv
    <2>5. WriteQ(ioQueue, writing, place')
      BY <1>0, <2>3 DEF QueueInv, WriteQ, TypeOK
    <2>6. state # "OPEN"
      BY <1>0, <1>3 DEF OpenInv
    <2>7. /\ buffer' \in Msg \cup {NoMsg}
          /\ buffer' # NoMsg => place'[buffer'] \in {"Auto", "ToAdd"}
      BY <1>0, <2>2, <2>3 DEF BufferNotInFlight, TypeOK
    <2>8. \A n, o \in Msg : place'[n] = "Writing" /\ place'[o] = "Writing" => n = o
      BY <1>0, <2>3 DEF OneWriting
    <2>9. /\ pendingWrite' \in 0..1 /\ writing' \in Msg \cup {NoMsg} /\ fault' = fault
          /\ socket # "open" => writing' = NoMsg
      BY <1>0, <2>1 DEF TypeOK, StopInv
    <2>10. writeTimer' \in BOOLEAN
      BY <1>0, <2>1 DEF TypeOK
    <2>11. /\ ioQueue' \in Seq(Handler) /\ ~Has(ioQueue', "Stop")
           /\ WriteQ(ioQueue', writing', place') /\ StopQ(ioQueue')
      BY <1>0, <1>1, <2>1, <2>5 DEF QueueInv, TypeOK
    <2> QED BY <1>1, <2>3, <2>4, <2>6, <2>7, <2>8, <2>9, <2>10, <2>11
  <1>4. CASE ~(state # "OPEN" \/ writeError) /\ pendingWrite = 0
    <2>1. socket = "open" /\ \A n \in Msg : place[n] # "Writing"
      BY <1>0, <1>4 DEF OpenInv
    <2>2. /\ place' = [place EXCEPT ![m] = "Writing"]
          /\ buffer' = IF buffer = m THEN NoMsg ELSE buffer
          /\ pendingWrite' = 1 /\ writing' = m
          /\ UNCHANGED <<ioQueue, tasks>>
      BY <1>4, <2>1 DEF Send
    <2>3. writeTimer' = TRUE /\ fault' = (fault \/ socket = "deleted")
      BY <1>4 DEF Send
    <2>4. /\ place' \in [Msg -> {"Free", "Auto", "ToAdd", "Writing", "Written", "Releasing"}]
          /\ place'[m] = "Writing" /\ \A n \in Msg : n # m => place'[n] = place[n]
      BY <1>0, <2>2 DEF TypeOK
    <2>5. ~Has(ioQueue, "Write")
      BY <1>0, <2>1 DEF QueueInv, WriteQ, Has
    <2>6. WriteQ(ioQueue', writing', place')
      BY <2>2, <2>4, <2>5 DEF WriteQ, Has
    <2>7. TaskQ(tasks', state, place', phase)
      BY <1>0, <2>2, <2>4 DEF TaskInv, TaskQ, TypeOK
    <2>8. /\ buffer' \in Msg \cup {NoMsg}
          /\ buffer' # NoMsg => place'[buffer'] \in {"Auto", "ToAdd"}
      BY <1>0, <2>2, <2>4 DEF BufferNotInFlight, TypeOK
    <2>9. \A n, o \in Msg : place'[n] = "Writing" /\ place'[o] = "Writing" => n = o
      BY <2>1, <2>4
    <2>10. fault' = fault
      BY <1>0, <2>1, <2>3 DEF TypeOK
    <2>11. tasks' \in Seq(Tasks) /\ ioQueue' \in Seq(Handler) /\ StopQ(ioQueue')
      BY <1>0, <2>2 DEF TypeOK, Tasks, QueueInv
    <2>12. /\ pendingWrite' \in 0..1 /\ (pendingWrite' = 1 <=> \E n \in Msg : place'[n] = "Writing")
      BY <2>2, <2>4
    <2> QED BY <1>1, <2>1, <2>2, <2>3, <2>4, <2>6, <2>7, <2>8, <2>9, <2>10, <2>11, <2>12
  <1>5. CASE ~(state # "OPEN" \/ writeError) /\ pendingWrite # 0
    <2>1. /\ place' = [place EXCEPT ![m] = "ToAdd"]
          /\ UNCHANGED <<buffer, tasks, ioQueue, writing, pendingWrite, writeTimer, fault>>
      BY <1>5 DEF Send
    <2>2. /\ place' \in [Msg -> {"Free", "Auto", "ToAdd", "Writing", "Written", "Releasing"}]
          /\ place'[m] = "ToAdd" /\ \A n \in Msg : n # m => place'[n] = place[n]
      BY <1>0, <2>1 DEF TypeOK
    <2>3. WriteQ(ioQueue', writing', place')
      BY <1>0, <2>1, <2>2 DEF QueueInv, WriteQ, TypeOK
    <2>4. TaskQ(tasks', state, place', phase)
      BY <1>0, <2>1, <2>2 DEF TaskInv, TaskQ, TypeOK
    <2>5. /\ buffer' \in Msg \cup {NoMsg}
          /\ buffer' # NoMsg => place'[buffer'] \in {"Auto", "ToAdd"}
      BY <1>0, <2>1, <2>2 DEF BufferNotInFlight, TypeOK
    <2>6. \A n, o \in Msg : place'[n] = "Writing" /\ place'[o] = "Writing" => n = o
      BY <1>0, <2>2 DEF OneWriting
    <2>7. /\ tasks' \in Seq(Tasks) /\ ioQueue' \in Seq(Handler) /\ StopQ(ioQueue')
          /\ pendingWrite' \in 0..1 /\ writing' \in Msg \cup {NoMsg} /\ fault' = fault
          /\ socket # "open" => writing' = NoMsg
      BY <1>0, <2>1 DEF TypeOK, Tasks, QueueInv, StopInv
    <2>8. writeTimer' \in BOOLEAN
      BY <1>0, <2>1 DEF TypeOK
    <2>9. state = "OPEN" => (pendingWrite' = 1 <=> \E n \in Msg : place'[n] = "Writing")
      BY <1>0, <2>1, <2>2 DEF OpenInv
    <2> QED BY <1>1, <2>1, <2>2, <2>3, <2>4, <2>5, <2>6, <2>7, <2>8, <2>9
  <1> QED BY <1>3, <1>4, <1>5

\* sendAll() sends what the pool holds for the connection.
LEMMA SendAutoStep ==
  ASSUME IInv, NEW m \in Msg, SendAuto(m)
  PROVE  IInv'
  <1> USE ConnectionAssumption
  <1>0. /\ TypeOK /\ CountInv /\ QueueInv /\ OneWriting /\ TaskInv /\ OpenInv
        /\ BufferNotInFlight /\ ProtocolInv /\ StopInv /\ ManagedInv
    BY DEF IInv
  <1>a. /\ socket # "deleted" /\ ~Has(ioQueue, "Stop")
        /\ protocol \in {"Attached", "Releasing"}
        /\ place' \in [Msg -> {"Free", "Auto", "ToAdd", "Writing", "Written", "Releasing"}]
        /\ place'[m] # "Free" /\ \A n \in Msg : n # m => place'[n] = place[n]
        /\ ioQueue' \in Seq(Handler) /\ ~Has(ioQueue', "Stop")
        /\ WriteQ(ioQueue', writing', place') /\ StopQ(ioQueue')
        /\ \A n, o \in Msg : place'[n] = "Writing" /\ place'[o] = "Writing" => n = o
        /\ tasks' \in Seq(Tasks) /\ TaskQ(tasks', state, place', phase)
        /\ state = "OPEN" => (pendingWrite' = 1 <=> \E n \in Msg : place'[n] = "Writing")
        /\ pendingWrite' \in 0..1 /\ writing' \in Msg \cup {NoMsg}
        /\ buffer' \in Msg \cup {NoMsg}
        /\ buffer' # NoMsg => place'[buffer'] \in {"Auto", "ToAdd"}
        /\ socket # "open" => writing' = NoMsg
        /\ fault' = fault /\ writeTimer' \in BOOLEAN
    BY <1>0, SendKeeps DEF SendAuto
  <1>b. UNCHANGED <<connVars, socket, reading, pendingRead, readTimer, stopping, retry,
                    phase>>
    BY DEF SendAuto
  <1>c. refs' = refs /\ place[m] = "Auto" /\ Out' = Out
    BY <1>a DEF SendAuto, Out
  <1>d. state # "CLOSED" \/ Out # {}
    BY <1>0, <1>c DEF Out, ProtocolInv
  <1>1. TypeOK'
    <2>1. TypeOK
      BY <1>0
    <2>2. ioQueue' \in Seq(Handler)
      BY <1>a
    <2>3. tasks' \in Seq(Tasks)
      BY <1>a
    <2>4. /\ writing' \in Msg \cup {NoMsg}
          /\ pendingWrite' \in 0..1
          /\ writeTimer' \in BOOLEAN
          /\ place' \in [Msg -> {"Free", "Auto", "ToAdd", "Writing", "Written", "Releasing"}]
          /\ buffer' \in Msg \cup {NoMsg}
          /\ refs' \in Nat
          /\ fault' \in BOOLEAN
          /\ UNCHANGED <<state, protocol, readError, writeError, managed, socket, reading,
                         pendingRead, readTimer, stopping, retry, phase>>
      BY <1>0, <1>a, <1>b, <1>c, <1>d DEF TypeOK, ReadOps, Tasks, connVars
    <2> QED BY <2>1, <2>2, <2>3, <2>4 DEF TypeOK, Tasks
  <1>2. CountInv'
    BY <1>0, <1>a, <1>b, <1>c, <1>d DEF CountInv, Out, Tasks, connVars
  <1>3. QueueInv'
    BY <1>0, <1>a, <1>b, <1>c, <1>d DEF QueueInv, Tasks, connVars
  <1>4. OneWriting'
    BY <1>0, <1>a, <1>b, <1>c, <1>d DEF OneWriting, Tasks, connVars
  <1>5. TaskInv'
    BY <1>0, <1>a, <1>b, <1>c, <1>d DEF TaskInv, Tasks, connVars
  <1>6. OpenInv'
    BY <1>0, <1>a, <1>b, <1>c, <1>d DEF OpenInv, Tasks, connVars
  <1>7. BufferNotInFlight'
    BY <1>0, <1>a, <1>b, <1>c, <1>d DEF BufferNotInFlight, Tasks, connVars
  <1>8. ProtocolInv'
    BY <1>0, <1>a, <1>b, <1>c, <1>d DEF ProtocolInv, Out, Tasks, connVars
  <1>9. StopInv'
    BY <1>0, <1>a, <1>b, <1>c, <1>d DEF StopInv, Out, Tasks, connVars
  <1>10. ManagedInv'
    BY <1>0, <1>a, <1>b, <1>c, <1>d DEF ManagedInv, Tasks, connVars
  <1> QED BY <1>1, <1>2, <1>3, <1>4, <1>5, <1>6, <1>7, <1>8, <1>9, <1>10 DEF IInv

\* The protocol sends a message itself.
LEMMA SendDirectStep ==
  ASSUME IInv, NEW m \in Msg, SendDirect(m)
  PROVE  IInv'
  <1> USE ConnectionAssumption
  <1>0. /\ TypeOK /\ CountInv /\ QueueInv /\ OneWriting /\ TaskInv /\ OpenInv
        /\ BufferNotInFlight /\ ProtocolInv /\ StopInv /\ ManagedInv
    BY DEF IInv
  <1>a. /\ socket # "deleted" /\ ~Has(ioQueue, "Stop")
        /\ protocol \in {"Attached", "Releasing"}
        /\ place' \in [Msg -> {"Free", "Auto", "ToAdd", "Writing", "Written", "Releasing"}]
        /\ place'[m] # "Free" /\ \A n \in Msg : n # m => place'[n] = place[n]
        /\ ioQueue' \in Seq(Handler) /\ ~Has(ioQueue', "Stop")
        /\ WriteQ(ioQueue', writing', place') /\ StopQ(ioQueue')
        /\ \A n, o \in Msg : place'[n] = "Writing" /\ place'[o] = "Writing" => n = o
        /\ tasks' \in Seq(Tasks) /\ TaskQ(tasks', state, place', phase)
        /\ state = "OPEN" => (pendingWrite' = 1 <=> \E n \in Msg : place'[n] = "Writing")
        /\ pendingWrite' \in 0..1 /\ writing' \in Msg \cup {NoMsg}
        /\ buffer' \in Msg \cup {NoMsg}
        /\ buffer' # NoMsg => place'[buffer'] \in {"Auto", "ToAdd"}
        /\ socket # "open" => writing' = NoMsg
        /\ fault' = fault /\ writeTimer' \in BOOLEAN
    BY <1>0, SendKeeps DEF SendDirect
  <1>b. UNCHANGED <<connVars, socket, reading, pendingRead, readTimer, stopping, retry,
                    phase>>
    BY DEF SendDirect
  <1>c. refs' = refs + 1 /\ place[m] = "Free" /\ Out' = Out \cup {m} /\ protocol = "Attached"
    BY <1>a DEF SendDirect, Out
  <1>d. state # "CLOSED" \/ Out # {}
    BY <1>0, <1>c DEF Out, ProtocolInv
  <1>1. TypeOK'
    <2>1. TypeOK
      BY <1>0
    <2>2. ioQueue' \in Seq(Handler)
      BY <1>a
    <2>3. tasks' \in Seq(Tasks)
      BY <1>a
    <2>4. /\ writing' \in Msg \cup {NoMsg}
          /\ pendingWrite' \in 0..1
          /\ writeTimer' \in BOOLEAN
          /\ place' \in [Msg -> {"Free", "Auto", "ToAdd", "Writing", "Written", "Releasing"}]
          /\ buffer' \in Msg \cup {NoMsg}
          /\ refs' \in Nat
          /\ fault' \in BOOLEAN
          /\ UNCHANGED <<state, protocol, readError, writeError, managed, socket, reading,
                         pendingRead, readTimer, stopping, retry, phase>>
      BY <1>0, <1>a, <1>b, <1>c, <1>d DEF TypeOK, ReadOps, Tasks, connVars
    <2> QED BY <2>1, <2>2, <2>3, <2>4 DEF TypeOK, Tasks
  <1>2. CountInv'
    <2>1. IsFiniteSet(Out)
      BY FS_Subset DEF Out
    <2> QED BY <1>0, <1>c, <2>1, FS_AddElement, FS_CardinalityType DEF CountInv, Out
  <1>3. QueueInv'
    BY <1>0, <1>a, <1>b, <1>c, <1>d DEF QueueInv, Tasks, connVars
  <1>4. OneWriting'
    BY <1>0, <1>a, <1>b, <1>c, <1>d DEF OneWriting, Tasks, connVars
  <1>5. TaskInv'
    BY <1>0, <1>a, <1>b, <1>c, <1>d DEF TaskInv, Tasks, connVars
  <1>6. OpenInv'
    BY <1>0, <1>a, <1>b, <1>c, <1>d DEF OpenInv, Tasks, connVars
  <1>7. BufferNotInFlight'
    BY <1>0, <1>a, <1>b, <1>c, <1>d DEF BufferNotInFlight, Tasks, connVars
  <1>8. ProtocolInv'
    BY <1>0, <1>a, <1>b, <1>c, <1>d DEF ProtocolInv, Out, Tasks, connVars
  <1>9. StopInv'
    BY <1>0, <1>a, <1>b, <1>c, <1>d DEF StopInv, Out, Tasks, connVars
  <1>10. ManagedInv'
    BY <1>0, <1>a, <1>b, <1>c, <1>d DEF ManagedInv, Tasks, connVars
  <1> QED BY <1>1, <1>2, <1>3, <1>4, <1>5, <1>6, <1>7, <1>8, <1>9, <1>10 DEF IInv

\* The protocol takes a message out of the pool.
LEMMA GetOutputBufferStep ==
  ASSUME IInv, NEW m \in Msg, GetOutputBuffer(m)
  PROVE  IInv'
  <1> USE ConnectionAssumption
  <1>0. /\ TypeOK /\ CountInv /\ QueueInv /\ OneWriting /\ TaskInv /\ OpenInv
        /\ BufferNotInFlight /\ ProtocolInv /\ StopInv /\ ManagedInv
    BY DEF IInv
  <1>a. phase # "down" /\ protocol = "Attached" /\ place[m] = "Free"
    BY DEF GetOutputBuffer
  <1>b. /\ place' = [place EXCEPT ![m] = "Auto"]
        /\ place' \in [Msg -> {"Free", "Auto", "ToAdd", "Writing", "Written", "Releasing"}]
        /\ place'[m] = "Auto" /\ \A n \in Msg : n # m => place'[n] = place[n]
    BY <1>0 DEF GetOutputBuffer, TypeOK
  <1>c. WriteQ(ioQueue, writing, place')
    BY <1>0, <1>a, <1>b DEF QueueInv, WriteQ, TypeOK
  <1>d. /\ tasks' \in Seq(Tasks) /\ TaskQ(tasks', state, place', phase)
    BY <1>0, <1>a, <1>b DEF GetOutputBuffer, TaskInv, TaskQ, TypeOK, Tasks
  <1>e. buffer' = m /\ refs' = refs + 1 /\ Out' = Out \cup {m}
    BY <1>a, <1>b DEF GetOutputBuffer, Out
  <1>f. state # "CLOSED" /\ socket # "deleted" /\ ~Has(ioQueue, "Stop")
    BY <1>0, <1>a DEF ProtocolInv, StopInv
  <1>g. UNCHANGED <<connVars, ioVars, timerVars, ioQueue, stopping, retry, phase, fault>>
    BY DEF GetOutputBuffer, ioVars, timerVars
  <1>1. TypeOK'
    <2>1. TypeOK
      BY <1>0
    <2>2. tasks' \in Seq(Tasks)
      BY <1>d
    <2>3. /\ place' \in [Msg -> {"Free", "Auto", "ToAdd", "Writing", "Written", "Releasing"}]
          /\ buffer' \in Msg \cup {NoMsg}
          /\ refs' \in Nat
          /\ UNCHANGED <<state, protocol, readError, writeError, managed, socket, reading,
                         writing, pendingRead, pendingWrite, readTimer, writeTimer, ioQueue,
                         stopping, retry, phase, fault>>
      BY <1>0, <1>a, <1>b, <1>c, <1>d, <1>e, <1>f, <1>g DEF TypeOK, ReadOps, Tasks,
         connVars, ioVars, timerVars, msgVars
    <2> QED BY <2>1, <2>2, <2>3 DEF TypeOK, Tasks
  <1>2. CountInv'
    <2>1. IsFiniteSet(Out)
      BY FS_Subset DEF Out
    <2> QED BY <1>0, <1>a, <1>e, <2>1, FS_AddElement, FS_CardinalityType DEF CountInv, Out
  <1>3. QueueInv'
    BY <1>0, <1>a, <1>b, <1>c, <1>d, <1>e, <1>f, <1>g DEF QueueInv, Tasks, connVars, ioVars,
       timerVars, msgVars
  <1>4. OneWriting'
    BY <1>0, <1>a, <1>b, <1>c, <1>d, <1>e, <1>f, <1>g DEF OneWriting, Tasks, connVars,
       ioVars, timerVars, msgVars
  <1>5. TaskInv'
    BY <1>0, <1>a, <1>b, <1>c, <1>d, <1>e, <1>f, <1>g DEF TaskInv, Tasks, connVars, ioVars,
       timerVars, msgVars
  <1>6. OpenInv'
    BY <1>0, <1>a, <1>b, <1>c, <1>d, <1>e, <1>f, <1>g DEF OpenInv, Tasks, connVars, ioVars,
       timerVars, msgVars
  <1>7. BufferNotInFlight'
    BY <1>0, <1>a, <1>b, <1>c, <1>d, <1>e, <1>f, <1>g DEF BufferNotInFlight, Tasks,
       connVars, ioVars, timerVars, msgVars
  <1>8. ProtocolInv'
    BY <1>0, <1>a, <1>b, <1>c, <1>d, <1>e, <1>f, <1>g DEF ProtocolInv, Out, Tasks, connVars,
       ioVars, timerVars, msgVars
  <1>9. StopInv'
    BY <1>0, <1>a, <1>b, <1>c, <1>d, <1>e, <1>f, <1>g DEF StopInv, Out, Tasks, connVars,
       ioVars, timerVars, msgVars
  <1>10. ManagedInv'
    BY <1>0, <1>a, <1>b, <1>c, <1>d, <1>e, <1>f, <1>g DEF ManagedInv, Tasks, connVars,
       ioVars, timerVars, msgVars
  <1> QED BY <1>1, <1>2, <1>3, <1>4, <1>5, <1>6, <1>7, <1>8, <1>9, <1>10 DEF IInv

\* A message put aside is taken back among those to send.
LEMMA RequeueStep ==
  ASSUME IInv, NEW m \in Msg, Requeue(m)
  PROVE  IInv'
  <1> USE ConnectionAssumption
  <1>0. /\ TypeOK /\ CountInv /\ QueueInv /\ OneWriting /\ TaskInv /\ OpenInv
        /\ BufferNotInFlight /\ ProtocolInv /\ StopInv /\ ManagedInv
    BY DEF IInv
  <1>a. phase # "down" /\ place[m] = "ToAdd"
    BY DEF Requeue
  <1>b. /\ place' = [place EXCEPT ![m] = "Auto"]
        /\ place' \in [Msg -> {"Free", "Auto", "ToAdd", "Writing", "Written", "Releasing"}]
        /\ place'[m] = "Auto" /\ \A n \in Msg : n # m => place'[n] = place[n]
    BY <1>0 DEF Requeue, TypeOK
  <1>c. WriteQ(ioQueue, writing, place')
    BY <1>0, <1>a, <1>b DEF QueueInv, WriteQ, TypeOK
  <1>d. /\ tasks' \in Seq(Tasks) /\ TaskQ(tasks', state, place', phase)
    BY <1>0, <1>a, <1>b DEF Requeue, TaskInv, TaskQ, TypeOK, Tasks
  <1>e. UNCHANGED <<buffer, refs>> /\ Out' = Out
    BY <1>a, <1>b DEF Requeue, Out
  <1>f. UNCHANGED <<connVars, ioVars, timerVars, ioQueue, stopping, retry, phase, fault>>
    BY DEF Requeue, ioVars, timerVars
  <1>1. TypeOK'
    <2>1. TypeOK
      BY <1>0
    <2>2. tasks' \in Seq(Tasks)
      BY <1>d
    <2>3. /\ place' \in [Msg -> {"Free", "Auto", "ToAdd", "Writing", "Written", "Releasing"}]
          /\ UNCHANGED <<state, protocol, readError, writeError, managed, socket, reading,
                         writing, pendingRead, pendingWrite, readTimer, writeTimer, ioQueue,
                         stopping, buffer, refs, retry, phase, fault>>
      BY <1>0, <1>a, <1>b, <1>c, <1>d, <1>e, <1>f DEF TypeOK, ReadOps, Tasks, connVars,
         ioVars, timerVars, msgVars
    <2> QED BY <2>1, <2>2, <2>3 DEF TypeOK, Tasks
  <1>2. CountInv'
    BY <1>0, <1>a, <1>b, <1>c, <1>d, <1>e, <1>f DEF CountInv, Out, Tasks, connVars, ioVars,
       timerVars, msgVars
  <1>3. QueueInv'
    BY <1>0, <1>a, <1>b, <1>c, <1>d, <1>e, <1>f DEF QueueInv, Tasks, connVars, ioVars,
       timerVars, msgVars
  <1>4. OneWriting'
    BY <1>0, <1>a, <1>b, <1>c, <1>d, <1>e, <1>f DEF OneWriting, Tasks, connVars, ioVars,
       timerVars, msgVars
  <1>5. TaskInv'
    BY <1>0, <1>a, <1>b, <1>c, <1>d, <1>e, <1>f DEF TaskInv, Tasks, connVars, ioVars,
       timerVars, msgVars
  <1>6. OpenInv'
    BY <1>0, <1>a, <1>b, <1>c, <1>d, <1>e, <1>f DEF OpenInv, Tasks, connVars, ioVars,
       timerVars, msgVars
  <1>7. BufferNotInFlight'
    BY <1>0, <1>a, <1>b, <1>c, <1>d, <1>e, <1>f DEF BufferNotInFlight, Tasks, connVars,
       ioVars, timerVars, msgVars
  <1>8. ProtocolInv'
    BY <1>0, <1>a, <1>b, <1>c, <1>d, <1>e, <1>f DEF ProtocolInv, Out, Tasks, connVars,
       ioVars, timerVars, msgVars
  <1>9. StopInv'
    BY <1>0, <1>a, <1>b, <1>c, <1>d, <1>e, <1>f DEF StopInv, Out, Tasks, connVars, ioVars,
       timerVars, msgVars
  <1>10. ManagedInv'
    BY <1>0, <1>a, <1>b, <1>c, <1>d, <1>e, <1>f DEF ManagedInv, Tasks, connVars, ioVars,
       timerVars, msgVars
  <1> QED BY <1>1, <1>2, <1>3, <1>4, <1>5, <1>6, <1>7, <1>8, <1>9, <1>10 DEF IInv

\* A message put aside for ten seconds is given up.
LEMMA DropStep ==
  ASSUME IInv, NEW m \in Msg, Drop(m)
  PROVE  IInv'
  <1> USE ConnectionAssumption
  <1>0. /\ TypeOK /\ CountInv /\ QueueInv /\ OneWriting /\ TaskInv /\ OpenInv
        /\ BufferNotInFlight /\ ProtocolInv /\ StopInv /\ ManagedInv
    BY DEF IInv
  <1>a. phase # "down" /\ place[m] = "ToAdd"
    BY DEF Drop
  <1>b. /\ place' = [place EXCEPT ![m] = "Releasing"]
        /\ place' \in [Msg -> {"Free", "Auto", "ToAdd", "Writing", "Written", "Releasing"}]
        /\ place'[m] = "Releasing" /\ \A n \in Msg : n # m => place'[n] = place[n]
        /\ buffer' = IF buffer = m THEN NoMsg ELSE buffer
    BY <1>0 DEF Drop, Release, TypeOK
  <1>c. WriteQ(ioQueue, writing, place')
    BY <1>0, <1>a, <1>b DEF QueueInv, WriteQ, TypeOK
  <1>d. /\ tasks' \in Seq(Tasks) /\ TaskQ(tasks', state, place', phase)
    BY <1>0, <1>a, <1>b, ReleaseKeeps DEF Drop, TaskInv
  <1>e. refs' = refs /\ Out' = Out
    BY <1>a, <1>b DEF Drop, Out
  <1>f. UNCHANGED <<connVars, ioVars, timerVars, ioQueue, stopping, retry, phase, fault>>
    BY DEF Drop, ioVars, timerVars
  <1>1. TypeOK'
    <2>1. TypeOK
      BY <1>0
    <2>2. tasks' \in Seq(Tasks)
      BY <1>d
    <2>3. /\ place' \in [Msg -> {"Free", "Auto", "ToAdd", "Writing", "Written", "Releasing"}]
          /\ buffer' \in Msg \cup {NoMsg}
          /\ UNCHANGED <<state, protocol, readError, writeError, managed, socket, reading,
                         writing, pendingRead, pendingWrite, readTimer, writeTimer, ioQueue,
                         stopping, refs, retry, phase, fault>>
      BY <1>0, <1>a, <1>b, <1>c, <1>d, <1>e, <1>f DEF TypeOK, ReadOps, Tasks, connVars,
         ioVars, timerVars, msgVars
    <2> QED BY <2>1, <2>2, <2>3 DEF TypeOK, Tasks
  <1>2. CountInv'
    BY <1>0, <1>a, <1>b, <1>c, <1>d, <1>e, <1>f DEF CountInv, Out, Tasks, connVars, ioVars,
       timerVars, msgVars
  <1>3. QueueInv'
    BY <1>0, <1>a, <1>b, <1>c, <1>d, <1>e, <1>f DEF QueueInv, Tasks, connVars, ioVars,
       timerVars, msgVars
  <1>4. OneWriting'
    BY <1>0, <1>a, <1>b, <1>c, <1>d, <1>e, <1>f DEF OneWriting, Tasks, connVars, ioVars,
       timerVars, msgVars
  <1>5. TaskInv'
    BY <1>0, <1>a, <1>b, <1>c, <1>d, <1>e, <1>f DEF TaskInv, Tasks, connVars, ioVars,
       timerVars, msgVars
  <1>6. OpenInv'
    BY <1>0, <1>a, <1>b, <1>c, <1>d, <1>e, <1>f DEF OpenInv, Tasks, connVars, ioVars,
       timerVars, msgVars
  <1>7. BufferNotInFlight'
    BY <1>0, <1>a, <1>b, <1>c, <1>d, <1>e, <1>f DEF BufferNotInFlight, Tasks, connVars,
       ioVars, timerVars, msgVars
  <1>8. ProtocolInv'
    BY <1>0, <1>a, <1>b, <1>c, <1>d, <1>e, <1>f DEF ProtocolInv, Out, Tasks, connVars,
       ioVars, timerVars, msgVars
  <1>9. StopInv'
    BY <1>0, <1>a, <1>b, <1>c, <1>d, <1>e, <1>f DEF StopInv, Out, Tasks, connVars, ioVars,
       timerVars, msgVars
  <1>10. ManagedInv'
    BY <1>0, <1>a, <1>b, <1>c, <1>d, <1>e, <1>f DEF ManagedInv, Tasks, connVars, ioVars,
       timerVars, msgVars
  <1> QED BY <1>1, <1>2, <1>3, <1>4, <1>5, <1>6, <1>7, <1>8, <1>9, <1>10 DEF IInv

\* The handler of a write ends and lets its message go.
LEMMA DropWrittenStep ==
  ASSUME IInv, NEW m \in Msg, DropWritten(m)
  PROVE  IInv'
  <1> USE ConnectionAssumption
  <1>0. /\ TypeOK /\ CountInv /\ QueueInv /\ OneWriting /\ TaskInv /\ OpenInv
        /\ BufferNotInFlight /\ ProtocolInv /\ StopInv /\ ManagedInv
    BY DEF IInv
  <1>a. place[m] = "Written" /\ buffer # m
    BY <1>0 DEF BufferNotInFlight, DropWritten
  <1>b. /\ place' = [place EXCEPT ![m] = "Releasing"]
        /\ place' \in [Msg -> {"Free", "Auto", "ToAdd", "Writing", "Written", "Releasing"}]
        /\ place'[m] = "Releasing" /\ \A n \in Msg : n # m => place'[n] = place[n]
    BY <1>0 DEF DropWritten, TypeOK
  <1>c. WriteQ(ioQueue, writing, place')
    BY <1>0, <1>a, <1>b DEF QueueInv, WriteQ, TypeOK
  <1>d. /\ tasks' \in Seq(Tasks) /\ TaskQ(tasks', state, place', phase)
    BY <1>0, <1>a, <1>b, ReleaseKeeps DEF DropWritten, TaskInv
  <1>e. UNCHANGED <<buffer, refs>> /\ Out' = Out
    BY <1>a, <1>b DEF DropWritten, Out
  <1>f. UNCHANGED <<connVars, ioVars, timerVars, ioQueue, stopping, retry, phase, fault>>
    BY DEF DropWritten, ioVars, timerVars
  <1>1. TypeOK'
    <2>1. TypeOK
      BY <1>0
    <2>2. tasks' \in Seq(Tasks)
      BY <1>d
    <2>3. /\ place' \in [Msg -> {"Free", "Auto", "ToAdd", "Writing", "Written", "Releasing"}]
          /\ UNCHANGED <<state, protocol, readError, writeError, managed, socket, reading,
                         writing, pendingRead, pendingWrite, readTimer, writeTimer, ioQueue,
                         stopping, buffer, refs, retry, phase, fault>>
      BY <1>0, <1>a, <1>b, <1>c, <1>d, <1>e, <1>f DEF TypeOK, ReadOps, Tasks, connVars,
         ioVars, timerVars, msgVars
    <2> QED BY <2>1, <2>2, <2>3 DEF TypeOK, Tasks
  <1>2. CountInv'
    BY <1>0, <1>a, <1>b, <1>c, <1>d, <1>e, <1>f DEF CountInv, Out, Tasks, connVars, ioVars,
       timerVars, msgVars
  <1>3. QueueInv'
    BY <1>0, <1>a, <1>b, <1>c, <1>d, <1>e, <1>f DEF QueueInv, Tasks, connVars, ioVars,
       timerVars, msgVars
  <1>4. OneWriting'
    BY <1>0, <1>a, <1>b, <1>c, <1>d, <1>e, <1>f DEF OneWriting, Tasks, connVars, ioVars,
       timerVars, msgVars
  <1>5. TaskInv'
    BY <1>0, <1>a, <1>b, <1>c, <1>d, <1>e, <1>f DEF TaskInv, Tasks, connVars, ioVars,
       timerVars, msgVars
  <1>6. OpenInv'
    BY <1>0, <1>a, <1>b, <1>c, <1>d, <1>e, <1>f DEF OpenInv, Tasks, connVars, ioVars,
       timerVars, msgVars
  <1>7. BufferNotInFlight'
    BY <1>0, <1>a, <1>b, <1>c, <1>d, <1>e, <1>f DEF BufferNotInFlight, Tasks, connVars,
       ioVars, timerVars, msgVars
  <1>8. ProtocolInv'
    BY <1>0, <1>a, <1>b, <1>c, <1>d, <1>e, <1>f DEF ProtocolInv, Out, Tasks, connVars,
       ioVars, timerVars, msgVars
  <1>9. StopInv'
    BY <1>0, <1>a, <1>b, <1>c, <1>d, <1>e, <1>f DEF StopInv, Out, Tasks, connVars, ioVars,
       timerVars, msgVars
  <1>10. ManagedInv'
    BY <1>0, <1>a, <1>b, <1>c, <1>d, <1>e, <1>f DEF ManagedInv, Tasks, connVars, ioVars,
       timerVars, msgVars
  <1> QED BY <1>1, <1>2, <1>3, <1>4, <1>5, <1>6, <1>7, <1>8, <1>9, <1>10 DEF IInv

\* The protocol closes its connection.
LEMMA DisconnectStep ==
  ASSUME IInv, Disconnect
  PROVE  IInv'
  <1> USE ConnectionAssumption
  <1>0. /\ TypeOK /\ CountInv /\ QueueInv /\ OneWriting /\ TaskInv /\ OpenInv
        /\ BufferNotInFlight /\ ProtocolInv /\ StopInv /\ ManagedInv
    BY DEF IInv
  <1>a. /\ tasks' \in Seq(Tasks) /\ TaskQ(tasks', state', place, phase)
        /\ state' = IF state = "OPEN" THEN "REQUEST_CLOSE" ELSE state
    BY <1>0, CloseKeeps DEF Disconnect, TaskInv, TypeOK, Tasks
  <1>b. UNCHANGED <<protocol, readError, writeError, managed, ioVars, timerVars, ioQueue,
                  stopping, msgVars, retry, phase, fault>>
    BY DEF Disconnect, ioVars, timerVars, msgVars
  <1>1. TypeOK'
    <2>1. TypeOK
      BY <1>0
    <2>2. tasks' \in Seq(Tasks)
      BY <1>a
    <2>3. /\ state' \in {"OPEN", "REQUEST_CLOSE", "CLOSING", "CLOSED"}
          /\ UNCHANGED <<protocol, readError, writeError, managed, socket, reading, writing,
                         pendingRead, pendingWrite, readTimer, writeTimer, ioQueue,
                         stopping, place, buffer, refs, retry, phase, fault>>
      BY <1>0, <1>a, <1>b DEF TypeOK, ReadOps, Tasks, connVars, ioVars, timerVars, msgVars
    <2> QED BY <2>1, <2>2, <2>3 DEF TypeOK, Tasks
  <1>2. CountInv'
    BY <1>0, <1>a, <1>b DEF CountInv, Out, Tasks, connVars, ioVars, timerVars, msgVars
  <1>3. QueueInv'
    BY <1>0, <1>a, <1>b DEF QueueInv, Tasks, connVars, ioVars, timerVars, msgVars
  <1>4. OneWriting'
    BY <1>0, <1>a, <1>b DEF OneWriting, Tasks, connVars, ioVars, timerVars, msgVars
  <1>5. TaskInv'
    BY <1>0, <1>a, <1>b DEF TaskInv, Tasks, connVars, ioVars, timerVars, msgVars
  <1>6. OpenInv'
    BY <1>0, <1>a, <1>b DEF OpenInv, Tasks, connVars, ioVars, timerVars, msgVars
  <1>7. BufferNotInFlight'
    BY <1>0, <1>a, <1>b DEF BufferNotInFlight, Tasks, connVars, ioVars, timerVars, msgVars
  <1>8. ProtocolInv'
    BY <1>0, <1>a, <1>b DEF ProtocolInv, Out, Tasks, connVars, ioVars, timerVars, msgVars
  <1>9. StopInv'
    BY <1>0, <1>a, <1>b DEF StopInv, Out, Tasks, connVars, ioVars, timerVars, msgVars
  <1>10. ManagedInv'
    BY <1>0, <1>a, <1>b DEF ManagedInv, Tasks, connVars, ioVars, timerVars, msgVars
  <1> QED BY <1>1, <1>2, <1>3, <1>4, <1>5, <1>6, <1>7, <1>8, <1>9, <1>10 DEF IInv

\* The release of the protocol is tried again after 50 ms.
LEMMA RetryReleaseProtocolStep ==
  ASSUME IInv, RetryReleaseProtocol
  PROVE  IInv'
  <1> USE ConnectionAssumption
  <1>0. /\ TypeOK /\ CountInv /\ QueueInv /\ OneWriting /\ TaskInv /\ OpenInv
        /\ BufferNotInFlight /\ ProtocolInv /\ StopInv /\ ManagedInv
    BY DEF IInv
  <1>a. Out = {}
    <2>1. IsFiniteSet(Out)
      BY FS_Subset DEF Out
    <2> QED BY <1>0, <2>1, FS_EmptySet DEF RetryReleaseProtocol, CountInv
  <1>b. /\ protocol = "Releasing" /\ protocol' = "Deleted" /\ retry' = retry \ {"protocol"}
        /\ phase # "down" /\ fault' = (fault \/ protocol = "Deleted")
    BY <1>0 DEF RetryReleaseProtocol, ProtocolInv
  <1>c. fault' = fault
    BY <1>0, <1>b DEF TypeOK
  <1>d. UNCHANGED <<state, readError, writeError, managed, ioVars, timerVars, ioQueue,
                    stopping,
                  msgVars, tasks, phase>>
    BY DEF RetryReleaseProtocol, ioVars, timerVars, msgVars
  <1>1. TypeOK'
    <2>1. TypeOK
      BY <1>0
    <2>2. /\ protocol' \in {"None", "Attached", "Releasing", "Deleted"}
          /\ retry' \in SUBSET {"connection", "protocol"}
          /\ UNCHANGED <<state, readError, writeError, managed, socket, reading, writing,
                         pendingRead, pendingWrite, readTimer, writeTimer, ioQueue,
                         stopping, place, buffer, refs, tasks, phase, fault>>
      BY <1>0, <1>a, <1>b, <1>c, <1>d DEF TypeOK, ReadOps, Tasks, connVars, ioVars,
         timerVars, msgVars
    <2> QED BY <2>1, <2>2 DEF TypeOK, Tasks
  <1>2. CountInv'
    BY <1>0, <1>a, <1>b, <1>c, <1>d DEF CountInv, Out, Tasks, connVars, ioVars, timerVars,
       msgVars
  <1>3. QueueInv'
    BY <1>0, <1>a, <1>b, <1>c, <1>d DEF QueueInv, Tasks, connVars, ioVars, timerVars,
       msgVars
  <1>4. OneWriting'
    BY <1>0, <1>a, <1>b, <1>c, <1>d DEF OneWriting, Tasks, connVars, ioVars, timerVars,
       msgVars
  <1>5. TaskInv'
    BY <1>0, <1>a, <1>b, <1>c, <1>d DEF TaskInv, Tasks, connVars, ioVars, timerVars, msgVars
  <1>6. OpenInv'
    BY <1>0, <1>a, <1>b, <1>c, <1>d DEF OpenInv, Tasks, connVars, ioVars, timerVars, msgVars
  <1>7. BufferNotInFlight'
    BY <1>0, <1>a, <1>b, <1>c, <1>d DEF BufferNotInFlight, Tasks, connVars, ioVars,
       timerVars, msgVars
  <1>8. ProtocolInv'
    BY <1>0, <1>a, <1>b, <1>c, <1>d DEF ProtocolInv, Out, Tasks, connVars, ioVars,
       timerVars, msgVars
  <1>9. StopInv'
    BY <1>0, <1>a, <1>b, <1>c, <1>d DEF StopInv, Out, Tasks, connVars, ioVars, timerVars,
       msgVars
  <1>10. ManagedInv'
    BY <1>0, <1>a, <1>b, <1>c, <1>d DEF ManagedInv, Tasks, connVars, ioVars, timerVars,
       msgVars
  <1> QED BY <1>1, <1>2, <1>3, <1>4, <1>5, <1>6, <1>7, <1>8, <1>9, <1>10 DEF IInv

\* So is that of the connection.
LEMMA RetryReleaseConnectionStep ==
  ASSUME IInv, RetryReleaseConnection
  PROVE  IInv'
  <1> USE ConnectionAssumption
  <1>0. /\ TypeOK /\ CountInv /\ QueueInv /\ OneWriting /\ TaskInv /\ OpenInv
        /\ BufferNotInFlight /\ ProtocolInv /\ StopInv /\ ManagedInv
    BY DEF IInv
  <1>a. Out = {}
    <2>1. IsFiniteSet(Out)
      BY FS_Subset DEF Out
    <2> QED BY <1>0, <2>1, FS_EmptySet DEF RetryReleaseConnection, CountInv
  <1>b. /\ phase # "down" /\ retry' = retry \ {"connection"} /\ state = "CLOSED" /\ socket = "closed"
        /\ ~Has(ioQueue, "Stop") /\ managed
    BY <1>0 DEF RetryReleaseConnection, StopInv, ManagedInv
  <1>c. /\ ioQueue' \in Seq(Handler) /\ WriteQ(ioQueue', writing, place) /\ StopQ(ioQueue')
    <2> DEFINE h == Ready("Stop", "none")
    <2>1. h \in Handler /\ h.op = "Stop"
      BY HandlerType
    <2> HIDE DEF h
    <2>2. /\ ioQueue \in Seq(Handler) /\ WriteQ(ioQueue, writing, place) /\ StopQ(ioQueue)
          /\ ioQueue' = Append(ioQueue, h)
      BY <1>0 DEF RetryReleaseConnection, QueueInv, TypeOK, h
    <2> QED BY <1>b, <2>1, <2>2, QueueAppend
  <1>d. fault' = fault
    BY <1>0, <1>b DEF RetryReleaseConnection, Alive, TypeOK
  <1>e. UNCHANGED <<connVars, ioVars, timerVars, stopping, msgVars, tasks, phase>>
    BY DEF RetryReleaseConnection, ioVars, timerVars, msgVars
  <1>1. TypeOK'
    <2>1. TypeOK
      BY <1>0
    <2>2. ioQueue' \in Seq(Handler)
      BY <1>c
    <2>3. /\ retry' \in SUBSET {"connection", "protocol"}
          /\ UNCHANGED <<state, protocol, readError, writeError, managed, socket, reading,
                         writing, pendingRead, pendingWrite, readTimer, writeTimer,
                         stopping, place, buffer, refs, tasks, phase, fault>>
      BY <1>0, <1>a, <1>b, <1>c, <1>d, <1>e DEF TypeOK, ReadOps, Tasks, connVars, ioVars,
         timerVars, msgVars
    <2> QED BY <2>1, <2>2, <2>3 DEF TypeOK, Tasks
  <1>2. CountInv'
    BY <1>0, <1>a, <1>b, <1>c, <1>d, <1>e DEF CountInv, Out, Tasks, connVars, ioVars,
       timerVars, msgVars
  <1>3. QueueInv'
    BY <1>0, <1>a, <1>b, <1>c, <1>d, <1>e DEF QueueInv, Tasks, connVars, ioVars, timerVars,
       msgVars
  <1>4. OneWriting'
    BY <1>0, <1>a, <1>b, <1>c, <1>d, <1>e DEF OneWriting, Tasks, connVars, ioVars,
       timerVars, msgVars
  <1>5. TaskInv'
    BY <1>0, <1>a, <1>b, <1>c, <1>d, <1>e DEF TaskInv, Tasks, connVars, ioVars, timerVars,
       msgVars
  <1>6. OpenInv'
    BY <1>0, <1>a, <1>b, <1>c, <1>d, <1>e DEF OpenInv, Tasks, connVars, ioVars, timerVars,
       msgVars
  <1>7. BufferNotInFlight'
    BY <1>0, <1>a, <1>b, <1>c, <1>d, <1>e DEF BufferNotInFlight, Tasks, connVars, ioVars,
       timerVars, msgVars
  <1>8. ProtocolInv'
    BY <1>0, <1>a, <1>b, <1>c, <1>d, <1>e DEF ProtocolInv, Out, Tasks, connVars, ioVars,
       timerVars, msgVars
  <1>9. StopInv'
    BY <1>0, <1>a, <1>b, <1>c, <1>d, <1>e DEF StopInv, Out, Tasks, connVars, ioVars,
       timerVars, msgVars
  <1>10. ManagedInv'
    BY <1>0, <1>a, <1>b, <1>c, <1>d, <1>e DEF ManagedInv, Tasks, connVars, ioVars,
       timerVars, msgVars
  <1> QED BY <1>1, <1>2, <1>3, <1>4, <1>5, <1>6, <1>7, <1>8, <1>9, <1>10 DEF IInv

\* A message is back in the pool, and counts no more.
LEMMA InternalReleaseMessageStep ==
  ASSUME IInv, NEW m \in Msg, InternalReleaseMessage(m)
  PROVE  IInv'
  <1> USE ConnectionAssumption
  <1>0. /\ TypeOK /\ CountInv /\ QueueInv /\ OneWriting /\ TaskInv /\ OpenInv
        /\ BufferNotInFlight /\ ProtocolInv /\ StopInv /\ ManagedInv
    BY DEF IInv
  <1>a. /\ phase # "down" /\ tasks # <<>> /\ Head(tasks) = m /\ place[m] = "Releasing"
        /\ tasks' = Tail(tasks)
    BY <1>0, TaskPopped DEF InternalReleaseMessage, RunsTask, TaskInv, TaskQ
  <1>b. /\ place' = [place EXCEPT ![m] = "Free"]
        /\ place' \in [Msg -> {"Free", "Auto", "ToAdd", "Writing", "Written", "Releasing"}]
        /\ place'[m] = "Free" /\ \A n \in Msg : n # m => place'[n] = place[n]
    BY <1>0 DEF InternalReleaseMessage, TypeOK
  <1>c. WriteQ(ioQueue, writing, place')
    BY <1>0, <1>a, <1>b DEF QueueInv, WriteQ, TypeOK
  <1>d. /\ tasks' \in Seq(Tasks) /\ TaskQ(tasks', state, place', phase)
    <2>1. /\ Tail(tasks) \in Seq(Tasks)
          /\ \A i \in DOMAIN Tail(tasks) : /\ i + 1 \in DOMAIN tasks
                                            /\ Tail(tasks)[i] = tasks[i + 1]
                                            /\ Tail(tasks)[i] # m
          /\ \A i, j \in DOMAIN Tail(tasks) : Tail(tasks)[i] = Tail(tasks)[j] => i = j
          /\ \A i \in DOMAIN tasks : i # 1 => \E j \in DOMAIN Tail(tasks) :
                                                 Tail(tasks)[j] = tasks[i]
          /\ tasks[1] # "Close"
      BY <1>0, <1>a, TaskPopped
    <2> QED BY <1>0, <1>a, <1>b, <2>1 DEF TaskInv, TaskQ
  <1>e. /\ refs' = refs - 1 /\ Out' = Out \ {m} /\ m \in Out /\ UNCHANGED buffer
    BY <1>a, <1>b DEF InternalReleaseMessage, Out
  <1>f. fault' = (fault \/ protocol = "Deleted" \/ ~Alive) /\ protocol # "Deleted" /\ Alive
    BY <1>0, <1>a, <1>e DEF InternalReleaseMessage, Alive, ProtocolInv
  <1>g. fault' = fault
    BY <1>0, <1>f DEF TypeOK
  <1>h. UNCHANGED <<connVars, ioVars, timerVars, ioQueue, stopping, retry, phase>>
    BY DEF InternalReleaseMessage, ioVars, timerVars
  <1>i. refs' \in Nat /\ CountInv'
    <2>1. IsFiniteSet(Out)
      BY FS_Subset DEF Out
    <2>2. /\ IsFiniteSet(Out \ {m}) /\ Cardinality(Out \ {m}) = Cardinality(Out) - 1
          /\ Cardinality(Out \ {m}) \in Nat
      BY <1>e, <2>1, FS_RemoveElement, FS_CardinalityType
    <2> QED BY <1>0, <1>e, <2>2 DEF CountInv
  <1>1. TypeOK'
    <2>1. TypeOK
      BY <1>0
    <2>2. tasks' \in Seq(Tasks)
      BY <1>d
    <2>3. /\ place' \in [Msg -> {"Free", "Auto", "ToAdd", "Writing", "Written", "Releasing"}]
          /\ refs' \in Nat
          /\ UNCHANGED <<state, protocol, readError, writeError, managed, socket, reading,
                         writing, pendingRead, pendingWrite, readTimer, writeTimer, ioQueue,
                         stopping, buffer, retry, phase, fault>>
      BY <1>0, <1>a, <1>b, <1>c, <1>d, <1>e, <1>f, <1>g, <1>h, <1>i DEF TypeOK, ReadOps,
         Tasks, connVars, ioVars, timerVars, msgVars
    <2> QED BY <2>1, <2>2, <2>3 DEF TypeOK, Tasks
  <1>2. CountInv'
    BY <1>0, <1>a, <1>b, <1>c, <1>d, <1>e, <1>f, <1>g, <1>h, <1>i DEF CountInv, Out, Tasks,
       connVars, ioVars, timerVars, msgVars
  <1>3. QueueInv'
    BY <1>0, <1>a, <1>b, <1>c, <1>d, <1>e, <1>f, <1>g, <1>h, <1>i DEF QueueInv, Tasks,
       connVars, ioVars, timerVars, msgVars
  <1>4. OneWriting'
    BY <1>0, <1>a, <1>b, <1>c, <1>d, <1>e, <1>f, <1>g, <1>h, <1>i DEF OneWriting, Tasks,
       connVars, ioVars, timerVars, msgVars
  <1>5. TaskInv'
    BY <1>0, <1>a, <1>b, <1>c, <1>d, <1>e, <1>f, <1>g, <1>h, <1>i DEF TaskInv, Tasks,
       connVars, ioVars, timerVars, msgVars
  <1>6. OpenInv'
    BY <1>0, <1>a, <1>b, <1>c, <1>d, <1>e, <1>f, <1>g, <1>h, <1>i DEF OpenInv, Tasks,
       connVars, ioVars, timerVars, msgVars
  <1>7. BufferNotInFlight'
    BY <1>0, <1>a, <1>b, <1>c, <1>d, <1>e, <1>f, <1>g, <1>h, <1>i DEF BufferNotInFlight,
       Tasks, connVars, ioVars, timerVars, msgVars
  <1>8. ProtocolInv'
    BY <1>0, <1>a, <1>b, <1>c, <1>d, <1>e, <1>f, <1>g, <1>h, <1>i DEF ProtocolInv, Out,
       Tasks, connVars, ioVars, timerVars, msgVars
  <1>9. StopInv'
    BY <1>0, <1>a, <1>b, <1>c, <1>d, <1>e, <1>f, <1>g, <1>h, <1>i DEF StopInv, Out, Tasks,
       connVars, ioVars, timerVars, msgVars
  <1>10. ManagedInv'
    BY <1>0, <1>a, <1>b, <1>c, <1>d, <1>e, <1>f, <1>g, <1>h, <1>i DEF ManagedInv, Tasks,
       connVars, ioVars, timerVars, msgVars
  <1> QED BY <1>1, <1>2, <1>3, <1>4, <1>5, <1>6, <1>7, <1>8, <1>9, <1>10 DEF IInv

\* The server stops: releases that were to be tried again may be lost.
LEMMA StopServerStep ==
  ASSUME IInv, StopServer
  PROVE  IInv'
  <1> USE ConnectionAssumption
  <1>0. /\ TypeOK /\ CountInv /\ QueueInv /\ OneWriting /\ TaskInv /\ OpenInv
        /\ BufferNotInFlight /\ ProtocolInv /\ StopInv /\ ManagedInv
    BY DEF IInv
  <1>a. retry' \in SUBSET retry /\ phase = "running" /\ phase' = "closing"
    BY DEF StopServer
  <1>1. TypeOK'
    <2>1. TypeOK
      BY <1>0
    <2>2. /\ retry' \in SUBSET {"connection", "protocol"}
          /\ phase' \in {"running", "closing", "down"}
          /\ UNCHANGED <<state, protocol, readError, writeError, managed, socket, reading,
                         writing, pendingRead, pendingWrite, readTimer, writeTimer, ioQueue,
                         stopping, place, buffer, refs, tasks, fault>>
      BY <1>0, <1>a DEF TypeOK, ReadOps, StopServer, Tasks, connVars, ioVars, timerVars,
         msgVars
    <2> QED BY <2>1, <2>2 DEF TypeOK, Tasks
  <1>2. CountInv'
    BY <1>0, <1>a DEF CountInv, Out, StopServer, Tasks, connVars, ioVars, timerVars, msgVars
  <1>3. QueueInv'
    BY <1>0, <1>a DEF QueueInv, StopServer, Tasks, connVars, ioVars, timerVars, msgVars
  <1>4. OneWriting'
    BY <1>0, <1>a DEF OneWriting, StopServer, Tasks, connVars, ioVars, timerVars, msgVars
  <1>5. TaskInv'
    BY <1>0 DEF TaskInv, TaskQ, StopServer, msgVars, connVars
  <1>6. OpenInv'
    BY <1>0, <1>a DEF OpenInv, StopServer, Tasks, connVars, ioVars, timerVars, msgVars
  <1>7. BufferNotInFlight'
    BY <1>0, <1>a DEF BufferNotInFlight, StopServer, Tasks, connVars, ioVars, timerVars,
       msgVars
  <1>8. ProtocolInv'
    BY <1>0, <1>a DEF ProtocolInv, Out, StopServer, Tasks, connVars, ioVars, timerVars,
       msgVars
  <1>9. StopInv'
    BY <1>0, <1>a DEF StopInv, Out, StopServer, Tasks, connVars, ioVars, timerVars, msgVars
  <1>10. ManagedInv'
    BY <1>0, <1>a DEF ManagedInv, StopServer, Tasks, connVars, ioVars, timerVars, msgVars
  <1> QED BY <1>1, <1>2, <1>3, <1>4, <1>5, <1>6, <1>7, <1>8, <1>9, <1>10 DEF IInv

\* closeAll() closes the socket of every connection it still knows.
LEMMA CloseAllStep ==
  ASSUME IInv, CloseAll
  PROVE  IInv'
  <1> USE ConnectionAssumption
  <1>0. /\ TypeOK /\ CountInv /\ QueueInv /\ OneWriting /\ TaskInv /\ OpenInv
        /\ BufferNotInFlight /\ ProtocolInv /\ StopInv /\ ManagedInv
    BY DEF IInv
  <1>a. /\ phase = "closing" /\ phase' = "down" /\ retry' = {} /\ managed' = FALSE /\ tasks = <<>>
        /\ UNCHANGED <<state, protocol, readError, writeError, pendingRead, pendingWrite,
                     timerVars, stopping, msgVars, tasks>>
    BY DEF CloseAll
  <1>b. /\ ioQueue' \in Seq(Handler) /\ WriteQ(ioQueue', writing', place) /\ StopQ(ioQueue')
        /\ Has(ioQueue', "Stop") => Has(ioQueue, "Stop")
        /\ \/ UNCHANGED <<socket, reading, writing, ioQueue>>
           \/ socket = "open" /\ socket' = "closed" /\ reading' = "None" /\ writing' = NoMsg
    <2>1. CASE managed /\ socket = "open"
      <3>1. ~Has(ioQueue, "Stop")
        BY <1>0, <2>1 DEF StopInv
      <3>2. /\ ioQueue' = ioQueue \o Aborted
            /\ socket' = "closed" /\ reading' = "None" /\ writing' = NoMsg
        BY <2>1 DEF CloseAll
      <3> QED BY <1>0, <2>1, <3>1, <3>2, QueueAborted DEF QueueInv, TypeOK
    <2>2. CASE ~(managed /\ socket = "open")
      BY <1>0, <2>2 DEF CloseAll, QueueInv, TypeOK
    <2> QED BY <2>1, <2>2
  <1>c. fault' \in BOOLEAN
    BY <1>0 DEF CloseAll, TypeOK
  <1>d. socket # "deleted" => managed
    BY <1>0, <1>a DEF ManagedInv
  <1>1. TypeOK'
    <2>1. TypeOK
      BY <1>0
    <2>2. ioQueue' \in Seq(Handler)
      BY <1>b
    <2>3. /\ managed' \in BOOLEAN
          /\ socket' \in {"open", "closed", "deleted"}
          /\ reading' \in ReadOps \cup {"None"}
          /\ writing' \in Msg \cup {NoMsg}
          /\ retry' \in SUBSET {"connection", "protocol"}
          /\ phase' \in {"running", "closing", "down"}
          /\ fault' \in BOOLEAN
          /\ UNCHANGED <<state, protocol, readError, writeError, pendingRead, pendingWrite,
                         readTimer, writeTimer, stopping, place, buffer, refs, tasks>>
      BY <1>0, <1>a, <1>b, <1>c, <1>d DEF TypeOK, ReadOps, Tasks, connVars, ioVars,
         timerVars, msgVars
    <2> QED BY <2>1, <2>2, <2>3 DEF TypeOK, Tasks
  <1>2. CountInv'
    BY <1>0, <1>a, <1>b, <1>c, <1>d DEF CountInv, Out, Tasks, connVars, ioVars, timerVars,
       msgVars
  <1>3. QueueInv'
    BY <1>0, <1>a, <1>b, <1>c, <1>d DEF QueueInv, Tasks, connVars, ioVars, timerVars,
       msgVars
  <1>4. OneWriting'
    BY <1>0, <1>a, <1>b, <1>c, <1>d DEF OneWriting, Tasks, connVars, ioVars, timerVars,
       msgVars
  <1>5. TaskInv'
    BY <1>0, <1>a DEF TaskInv, TaskQ, msgVars
  <1>6. OpenInv'
    BY <1>0, <1>a, <1>b, <1>c, <1>d DEF OpenInv, Tasks, connVars, ioVars, timerVars, msgVars
  <1>7. BufferNotInFlight'
    BY <1>0, <1>a, <1>b, <1>c, <1>d DEF BufferNotInFlight, Tasks, connVars, ioVars,
       timerVars, msgVars
  <1>8. ProtocolInv'
    BY <1>0, <1>a, <1>b, <1>c, <1>d DEF ProtocolInv, Out, Tasks, connVars, ioVars,
       timerVars, msgVars
  <1>9. StopInv'
    BY <1>0, <1>a, <1>b, <1>c, <1>d DEF StopInv, Out, Tasks, connVars, ioVars, timerVars,
       msgVars
  <1>10. ManagedInv'
    BY <1>0, <1>a, <1>b, <1>c, <1>d DEF ManagedInv, Tasks, connVars, ioVars, timerVars,
       msgVars
  <1> QED BY <1>1, <1>2, <1>3, <1>4, <1>5, <1>6, <1>7, <1>8, <1>9, <1>10 DEF IInv

\* The close task: the protocol is released, then the socket, or it waits for a write.
LEMMA CloseConnectionTaskStep ==
  ASSUME IInv, CloseConnectionTask
  PROVE  IInv'
  <1> USE ConnectionAssumption
  <1>0. /\ TypeOK /\ CountInv /\ QueueInv /\ OneWriting /\ TaskInv /\ OpenInv
        /\ BufferNotInFlight /\ ProtocolInv /\ StopInv /\ ManagedInv
    BY DEF IInv
  <1>a. /\ phase # "down" /\ tasks # <<>> /\ Head(tasks) = "Close" /\ tasks' = Tail(tasks)
        /\ UNCHANGED <<readError, writeError, managed, timerVars, stopping, msgVars, phase>>
    BY DEF CloseConnectionTask, RunsTask
  <1>b. state = "REQUEST_CLOSE"
    BY <1>0, <1>a, TaskPopped DEF TaskInv, TaskQ
  <1>c. /\ socket # "deleted" /\ ~Has(ioQueue, "Stop") /\ "connection" \notin retry /\ ~stopping
        /\ (refs = 0 <=> Out = {}) /\ refs \in Nat
    <2>1. IsFiniteSet(Out)
      BY FS_Subset DEF Out
    <2> QED BY <1>0, <1>b, <2>1, FS_EmptySet DEF StopInv, ManagedInv, CountInv, TypeOK
  <1>d. /\ tasks' \in Seq(Tasks)
        /\ \A st : st # "REQUEST_CLOSE" => TaskQ(tasks', st, place, phase)
    <2>1. /\ Tail(tasks) \in Seq(Tasks)
          /\ \A i \in DOMAIN Tail(tasks) : /\ i + 1 \in DOMAIN tasks
                                            /\ Tail(tasks)[i] = tasks[i + 1]
                                            /\ Tail(tasks)[i] # "Close"
          /\ \A i, j \in DOMAIN Tail(tasks) : Tail(tasks)[i] = Tail(tasks)[j] => i = j
      BY <1>0, <1>a, TaskPopped
    <2> QED BY <1>0, <1>a, <2>1 DEF TaskInv, TaskQ
  <1>e. /\ protocol' = IF protocol = "None" THEN "None" ELSE IF refs > 0 THEN "Releasing" ELSE "Deleted"
        /\ IF pendingWrite = 0 \/ writeError
             THEN /\ state' = "CLOSED"
                  /\ CloseSocket(ioQueue, IF refs > 0 THEN <<>> ELSE <<Ready("Stop", "none")>>)
                  /\ retry' = Retries(Held)
             ELSE /\ state' = "CLOSING"
                  /\ retry' = Retries(Held \ {"connection"})
                  /\ UNCHANGED <<ioVars, ioQueue, fault>>
    BY <1>b DEF CloseConnectionTask
  <1>f. /\ ioQueue' \in Seq(Handler) /\ WriteQ(ioQueue', writing', place) /\ StopQ(ioQueue')
        /\ state' \in {"CLOSED", "CLOSING"}
        /\ state' = "CLOSED" => socket' = "closed" /\ reading' = "None" /\ writing' = NoMsg
        /\ state' = "CLOSING" => UNCHANGED <<socket, reading, writing>>
        /\ Has(ioQueue', "Stop") => state' = "CLOSED" /\ Out = {}
        /\ pendingRead' \in 0..1 /\ pendingWrite' \in 0..1 /\ fault' = fault
    <2>1. socket # "open" => reading = "None" /\ writing = NoMsg
      BY <1>0 DEF StopInv
    <2>2. CASE (pendingWrite = 0 \/ writeError) /\ refs > 0
      <3>1. state' = "CLOSED" /\ CloseSocket(ioQueue, <<>>)
        BY <1>e, <2>2
      <3>2. /\ ioQueue' \in Seq(Handler)
            /\ WriteQ(ioQueue', writing', place) /\ StopQ(ioQueue')
            /\ ~Has(ioQueue', "Stop")
            /\ reading' = "None" /\ writing' = NoMsg
            /\ socket' = IF socket = "deleted" THEN "deleted" ELSE "closed"
            /\ pendingRead' \in 0..1 /\ pendingWrite' \in 0..1
            /\ fault' = (fault \/ socket = "deleted")
        BY <1>0, <1>c, <2>1, <3>1, CloseSocketKeeps DEF QueueInv, TypeOK
      <3>3. socket' = "closed" /\ fault' = fault
        BY <1>0, <1>c, <3>2 DEF TypeOK
      <3> QED BY <3>1, <3>2, <3>3
    <2>3. CASE (pendingWrite = 0 \/ writeError) /\ ~(refs > 0)
      <3>1. state' = "CLOSED" /\ CloseSocket(ioQueue, <<Ready("Stop", "none")>>)
        BY <1>e, <2>3
      <3>2. Out = {}
        BY <1>c, <2>3
      <3> QED BY <1>0, <1>c, <2>1, <3>1, <3>2, CloseSocketStops
    <2>4. CASE ~(pendingWrite = 0 \/ writeError)
      BY <1>0, <1>c, <1>e, <2>4 DEF ioVars, QueueInv, TypeOK
    <2> QED BY <2>2, <2>3, <2>4
  <1>g. /\ retry' \in SUBSET {"connection", "protocol"}
        /\ "connection" \in retry' => state' = "CLOSED" /\ refs > 0
        /\ "protocol" \in retry' => refs > 0
    <2>1. "protocol" \notin retry
      BY <1>0, <1>b DEF ProtocolInv
    <2> QED BY <1>0, <1>c, <1>e, <2>1 DEF Retries, Held, TypeOK
  <1>h. /\ protocol' \in {"None", "Releasing", "Deleted"}
        /\ refs > 0 => protocol' = "Releasing"
        /\ protocol' = "None" => Out = {}
        /\ protocol' = "Deleted" => Out = {}
    BY <1>0, <1>b, <1>c, <1>e DEF ProtocolInv
  <1>1. TypeOK'
    <2>1. TypeOK
      BY <1>0
    <2>2. ioQueue' \in Seq(Handler)
      BY <1>f
    <2>3. tasks' \in Seq(Tasks)
      BY <1>d
    <2>4. /\ state' \in {"OPEN", "REQUEST_CLOSE", "CLOSING", "CLOSED"}
          /\ protocol' \in {"None", "Attached", "Releasing", "Deleted"}
          /\ socket' \in {"open", "closed", "deleted"}
          /\ reading' \in ReadOps \cup {"None"}
          /\ writing' \in Msg \cup {NoMsg}
          /\ pendingRead' \in 0..1
          /\ pendingWrite' \in 0..1
          /\ retry' \in SUBSET {"connection", "protocol"}
          /\ fault' \in BOOLEAN
          /\ UNCHANGED <<readError, writeError, managed, readTimer, writeTimer, stopping,
                         place, buffer, refs, phase>>
      BY <1>0, <1>a, <1>b, <1>c, <1>d, <1>e, <1>f, <1>g, <1>h DEF TypeOK, ReadOps, Tasks,
         connVars, ioVars, timerVars, msgVars
    <2> QED BY <2>1, <2>2, <2>3, <2>4 DEF TypeOK, Tasks
  <1>2. CountInv'
    BY <1>0, <1>a, <1>b, <1>c, <1>d, <1>e, <1>f, <1>g, <1>h DEF CountInv, Out, Tasks,
       connVars, ioVars, timerVars, msgVars
  <1>3. QueueInv'
    BY <1>0, <1>a, <1>b, <1>c, <1>d, <1>e, <1>f, <1>g, <1>h DEF QueueInv, Tasks, connVars,
       ioVars, timerVars, msgVars
  <1>4. OneWriting'
    BY <1>0, <1>a, <1>b, <1>c, <1>d, <1>e, <1>f, <1>g, <1>h DEF OneWriting, Tasks, connVars,
       ioVars, timerVars, msgVars
  <1>5. TaskInv'
    BY <1>0, <1>a, <1>b, <1>c, <1>d, <1>e, <1>f, <1>g, <1>h DEF TaskInv, Tasks, connVars,
       ioVars, timerVars, msgVars
  <1>6. OpenInv'
    BY <1>0, <1>a, <1>b, <1>c, <1>d, <1>e, <1>f, <1>g, <1>h DEF OpenInv, Tasks, connVars,
       ioVars, timerVars, msgVars
  <1>7. BufferNotInFlight'
    BY <1>0, <1>a, <1>b, <1>c, <1>d, <1>e, <1>f, <1>g, <1>h DEF BufferNotInFlight, Tasks,
       connVars, ioVars, timerVars, msgVars
  <1>8. ProtocolInv'
    BY <1>0, <1>a, <1>b, <1>c, <1>d, <1>e, <1>f, <1>g, <1>h DEF ProtocolInv, Out, Tasks,
       connVars, ioVars, timerVars, msgVars
  <1>9. StopInv'
    BY <1>0, <1>a, <1>b, <1>c, <1>d, <1>e, <1>f, <1>g, <1>h DEF StopInv, Out, Tasks,
       connVars, ioVars, timerVars, msgVars
  <1>10. ManagedInv'
    BY <1>0, <1>a, <1>b, <1>c, <1>d, <1>e, <1>f, <1>g, <1>h DEF ManagedInv, Tasks, connVars,
       ioVars, timerVars, msgVars
  <1> QED BY <1>1, <1>2, <1>3, <1>4, <1>5, <1>6, <1>7, <1>8, <1>9, <1>10 DEF IInv

-----------------------------------------------------------------------------
(* The invariant.                                                           *)

\* The invariant holds at first, ...
LEMMA InitHolds == Init => IInv
  <1> SUFFICES ASSUME Init PROVE IInv
    OBVIOUS
  <1> USE ConnectionAssumption
  <1>0. <<>> \in Seq(Handler) /\ <<>> \in Seq(Msg \cup {"Close"})
    BY EmptySeq
  <1>1. TypeOK
    <2>1. ioQueue \in Seq(Handler)
      BY <1>0 DEF Init
    <2>2. tasks \in Seq(Msg \cup {"Close"})
      BY <1>0 DEF Init
    <2>3. place \in [Msg -> {"Free", "Auto", "ToAdd", "Writing", "Written", "Releasing"}]
      BY DEF Init
    <2>4. pendingRead \in 0..1 /\ pendingWrite \in 0..1 /\ refs \in Nat
      BY DEF Init
    <2>5. /\ managed \in BOOLEAN /\ readError \in BOOLEAN /\ writeError \in BOOLEAN
          /\ readTimer \in BOOLEAN /\ writeTimer \in BOOLEAN /\ stopping \in BOOLEAN
          /\ fault \in BOOLEAN
      BY DEF Init
    <2>6. /\ state \in {"OPEN", "REQUEST_CLOSE", "CLOSING", "CLOSED"}
          /\ socket \in {"open", "closed", "deleted"}
          /\ protocol \in {"None", "Attached", "Releasing", "Deleted"}
          /\ reading \in ReadOps \cup {"None"}
          /\ writing \in Msg \cup {NoMsg} /\ buffer \in Msg \cup {NoMsg}
          /\ phase \in {"running", "closing", "down"}
      BY DEF Init, ReadOps
    <2>7. retry \in SUBSET {"connection", "protocol"}
      BY DEF Init
    <2> QED BY <2>1, <2>2, <2>3, <2>4, <2>5, <2>6, <2>7 DEF TypeOK
  <1>2. Out = {}
    BY DEF Init, Out
  <1>3. CountInv
    BY <1>2, FS_EmptySet DEF Init, CountInv
  <1>4. /\ QueueInv /\ OneWriting /\ TaskInv /\ BufferNotInFlight
        /\ ~Has(ioQueue, "Stop")
    BY DEF Init, QueueInv, OneWriting, TaskInv, TaskQ, WriteQ, StopQ, Has, BufferNotInFlight
  <1>5. OpenInv /\ ProtocolInv /\ StopInv /\ ManagedInv
    BY <1>2, <1>4 DEF Init, OpenInv, ProtocolInv, StopInv, ManagedInv
  <1> QED BY <1>1, <1>3, <1>4, <1>5 DEF IInv

\* ... when nothing happens, ...
LEMMA StutterHolds == IInv /\ UNCHANGED vars => IInv'
  <1> SUFFICES ASSUME IInv, UNCHANGED vars PROVE IInv'
    OBVIOUS
  <1>1. UNCHANGED <<state, protocol, readError, writeError, managed, socket, reading,
                    writing,
                    pendingRead, pendingWrite, readTimer, writeTimer, ioQueue, stopping,
                    place, buffer, refs, tasks, retry, phase, fault>>
    BY DEF vars, connVars, ioVars, timerVars, msgVars
  <1>2. TypeOK' /\ CountInv' /\ QueueInv' /\ OneWriting' /\ TaskInv'
    BY <1>1 DEF IInv, TypeOK, CountInv, Out, QueueInv, OneWriting, TaskInv
  <1>3. OpenInv' /\ BufferNotInFlight' /\ ProtocolInv' /\ StopInv' /\ ManagedInv'
    BY <1>1 DEF IInv, OpenInv, BufferNotInFlight, ProtocolInv, Out, StopInv, ManagedInv
  <1> QED BY <1>2, <1>3 DEF IInv

\* ... after every step ...
LEMMA StepHolds == IInv /\ [Next]_vars => IInv'
  <1> SUFFICES ASSUME IInv, [Next]_vars PROVE IInv'
    OBVIOUS
  <1>1. CASE NetNext
    BY <1>1, ReadCompletesStep, WriteCompletesStep, ReadTimerExpiresStep,
       WriteTimerExpiresStep DEF NetNext
  <1>2. CASE HandlerNext
    BY <1>2, ReadFailsStep, ReadRefusedStep, ParseHeaderStep, ParsePacketStep,
       ReadTimeoutStep, WriteTimeoutStep, OnWriteOperationStep, DropWrittenStep,
       StopOperationStep, ReleaseFromManagerStep DEF HandlerNext
  <1>3. CASE MessageNext
    BY <1>3, GetOutputBufferStep, SendAutoStep, SendDirectStep, RequeueStep, DropStep,
       DisconnectStep DEF MessageNext
  <1>4. CASE TaskNext
    BY <1>4, CloseConnectionTaskStep, RetryReleaseConnectionStep, RetryReleaseProtocolStep,
       InternalReleaseMessageStep, StopServerStep, CloseAllStep DEF TaskNext
  <1>5. CASE UNCHANGED vars
    BY <1>5, StutterHolds
  <1> QED BY <1>1, <1>2, <1>3, <1>4, <1>5 DEF Next

\* ... and so for good.
LEMMA Invariant == Spec => []IInv
  BY InitHolds, StepHolds, PTL DEF Spec

-----------------------------------------------------------------------------
(* The results.                                                             *)

\* Type correctness: in particular m_pendingWrite, an unsigned integer, stays 0
\* or 1 and is never decremented below zero (connection.cpp:382).
THEOREM TypeCorrect == Spec => []TypeOK
  <1>1. IInv => TypeOK
    BY DEF IInv
  <1> QED BY <1>1, Invariant, PTL

\* Connection::close() asks for the dispatcher's task once, and the task finds
\* the state REQUEST_CLOSE (connection.cpp:67-104).
THEOREM CloseIsRequestedOnce == Spec => []OneCloseTask
  <1>1. IInv => OneCloseTask
    BY DEF IInv, TaskInv, TaskQ, OneCloseTask
  <1> QED BY <1>1, Invariant, PTL

\* While the state is OPEN the socket is usable and m_pendingWrite counts the
\* one write that may be under way (connection.cpp:304-345, 366-383).
THEOREM OpenConnectionIsUsable == Spec => []OpenIsUsable
  <1>1. IInv => OpenIsUsable
    <2> SUFFICES ASSUME IInv, state = "OPEN", phase # "down"
                 PROVE  /\ socket = "open" /\ managed /\ ~writeError
                        /\ pendingWrite = Cardinality({m \in Msg : place[m] = "Writing"})
      BY DEF OpenIsUsable
    <2> DEFINE W == {m \in Msg : place[m] = "Writing"}
    <2>1. /\ socket = "open" /\ managed /\ ~writeError
          /\ pendingWrite \in 0..1 /\ (pendingWrite = 1 <=> W # {})
      BY DEF IInv, OpenInv, TypeOK
    <2>2. CASE W = {}
      BY <2>1, <2>2, FS_EmptySet
    <2>3. CASE W # {}
      <3>1. PICK m \in Msg : m \in W
        BY <2>3
      <3>2. W = {m}
        BY <3>1 DEF IInv, OneWriting
      <3> QED BY <2>1, <2>3, <3>2, FS_Singleton
    <2> QED BY <2>1, <2>2, <2>3
  <1> QED BY <1>1, Invariant, PTL

\* m_outputBuffer is never a message that is being written or was released: the
\* dispatcher does not append to bytes the network thread is sending
\* (protocol.cpp:30-56).
THEOREM BufferIsNotInFlight == Spec => []BufferNotInFlight
  <1>1. IInv => BufferNotInFlight
    BY DEF IInv
  <1> QED BY <1>1, Invariant, PTL

\* The reference counts keep the protocol and the connection's socket until the
\* last message has returned to the pool (connection.cpp:140-149,
\* protocol.cpp:65-84, outputmessage.cpp:112-136, 164-187).
THEOREM MessagesHoldTheirProtocol == Spec => []MessagesHoldProtocol
  <1>1. IInv => MessagesHoldProtocol
    BY DEF IInv, MessagesHoldProtocol, ProtocolInv, StopInv, TypeOK, Out
  <1> QED BY <1>1, Invariant, PTL

\* Before closeAll no step of any thread uses a deleted socket, a deleted
\* protocol or a connection that is gone.
THEOREM NoFaultBeforeCloseAll == Spec => []FaultOnlyByCloseAll
  <1>1. IInv => FaultOnlyByCloseAll
    BY DEF IInv, ManagedInv, FaultOnlyByCloseAll
  <1> QED BY <1>1, Invariant, PTL

=============================================================================
