----------------------------- MODULE Connection -----------------------------
(* The life of one client connection: connection.cpp, the reference counts  *)
(* and messages of outputmessage.cpp it is released by, and the release of  *)
(* its protocol in protocol.cpp.  Three schedulers meet in it: the network  *)
(* thread runs the completion handlers of io_service in their order, the    *)
(* dispatcher runs the tasks they post, and the scheduler brings retries    *)
(* back after 50 ms.  A step that holds m_connectionLock is one action.     *)
EXTENDS Integers, Sequences, FiniteSets

CONSTANTS
  Msg,    \* the output messages of the pool that this protocol may hold
  NoMsg   \* stands for a null OutputMessage_ptr

ASSUME ConnectionAssumption ==
  IsFiniteSet(Msg) /\ NoMsg \notin Msg /\ "Close" \notin Msg

VARIABLES
  state,         \* m_connectionState
  socket,        \* m_socket: open, closed, or deleted and null
  managed,       \* ConnectionManager::m_connections holds the connection
  protocol,      \* m_protocol: none yet, attached, waiting for deletion, deleted
  pendingRead, pendingWrite, readError, writeError,
  readTimer, writeTimer,  \* the timer runs
  reading,       \* the async_read under way, or "None"
  writing,       \* the message of the async_write under way, or NoMsg
  ioQueue,       \* completion handlers io_service has ready
  stopping,      \* onStopOperation stands before releaseConnection
  place,         \* where each message is
  buffer,        \* Protocol::m_outputBuffer
  refs,          \* m_refCount of the connection and of the protocol
  tasks,         \* the dispatcher's tasks about this connection
  retry,         \* releases that wait in the scheduler
  phase,         \* the dispatcher: accepting tasks, draining them, ended
  fault          \* a null or freed object was used

connVars == <<state, protocol, readError, writeError, managed>>
ioVars == <<socket, reading, writing, pendingRead, pendingWrite>>
timerVars == <<readTimer, writeTimer>>
msgVars == <<place, buffer, refs>>
vars == <<connVars, ioVars, timerVars, ioQueue, stopping, msgVars, tasks, retry, phase,
          fault>>

ReadOps == {"Header", "Packet"}
Handler == [op : ReadOps \cup {"Write", "ReadTimeout", "WriteTimeout", "Stop"},
            error : {"none", "aborted", "failed"}, msg : Msg \cup {NoMsg}]
Ready(op, error) == [op |-> op, error |-> error, msg |-> NoMsg]
Written(m, error) == [op |-> "Write", error |-> error, msg |-> m]

TypeOK ==
  /\ state \in {"OPEN", "REQUEST_CLOSE", "CLOSING", "CLOSED"}
  /\ socket \in {"open", "closed", "deleted"}
  /\ managed \in BOOLEAN
  /\ protocol \in {"None", "Attached", "Releasing", "Deleted"}
  /\ pendingRead \in 0..1
  /\ pendingWrite \in 0..1
  /\ readError \in BOOLEAN
  /\ writeError \in BOOLEAN
  /\ readTimer \in BOOLEAN
  /\ writeTimer \in BOOLEAN
  /\ reading \in ReadOps \cup {"None"}
  /\ writing \in Msg \cup {NoMsg}
  /\ ioQueue \in Seq(Handler)
  /\ stopping \in BOOLEAN
  /\ place \in [Msg -> {"Free", "Auto", "ToAdd", "Writing", "Written", "Releasing"}]
  /\ buffer \in Msg \cup {NoMsg}
  /\ refs \in Nat
  /\ tasks \in Seq(Msg \cup {"Close"})
  /\ retry \in SUBSET {"connection", "protocol"}
  /\ phase \in {"running", "closing", "down"}
  /\ fault \in BOOLEAN

\* accept(): createConnection has put the connection in m_connections and the
\* first read is under way.  A single-socket service brings its protocol along,
\* the others make it from the first message.
Init ==
  /\ state = "OPEN" /\ socket = "open" /\ managed = TRUE
  /\ protocol \in {"None", "Attached"}
  /\ pendingRead = 1 /\ pendingWrite = 0
  /\ readError = FALSE /\ writeError = FALSE
  /\ readTimer = TRUE /\ writeTimer = FALSE
  /\ reading = "Header" /\ writing = NoMsg
  /\ ioQueue = <<>> /\ stopping = FALSE
  /\ place = [m \in Msg |-> "Free"] /\ buffer = NoMsg /\ refs = 0
  /\ tasks = <<>> /\ retry = {} /\ phase = "running" /\ fault = FALSE

-----------------------------------------------------------------------------
(* What the handlers share.  The argument q is the handler queue without    *)
(* the handler that is running, after what is posted to io_service next,    *)
(* and ts the tasks the handler has posted so far.                          *)

\* addTask and addEvent do nothing once stop() was called.
AddTask(ts, t) == IF phase = "running" THEN Append(ts, t) ELSE ts
Retries(r) == IF phase = "running" THEN retry \cup r ELSE retry

\* Someone holds a shared pointer to the connection.
Alive ==
  \/ managed \/ protocol = "Attached" \/ reading # "None"
  \/ \E m \in Msg : place[m] # "Free"
  \/ \E i \in DOMAIN ioQueue : ioQueue[i].op \in ReadOps

\* close(): any thread.
Close(ts) ==
  IF state = "OPEN"
    THEN state' = "REQUEST_CLOSE" /\ tasks' = AddTask(ts, "Close")
    ELSE state' = state /\ tasks' = ts

\* Closing a socket completes what is under way on it with operation_aborted.
Aborted ==
  (IF reading = "None" THEN <<>> ELSE <<Ready(reading, "aborted")>>)
    \o (IF writing = NoMsg THEN <<>> ELSE <<Written(writing, "aborted")>>)

CloseSocket(q, after) ==
  IF socket = "open"
    THEN /\ socket' = "closed" /\ ioQueue' = q \o Aborted \o after
         /\ reading' = "None" /\ writing' = NoMsg
         /\ pendingRead' = 0 /\ pendingWrite' = 0
         /\ fault' = fault
    ELSE /\ UNCHANGED ioVars
         /\ ioQueue' = q \o after
         /\ fault' = (fault \/ socket = "deleted")

\* async_read: on a closed socket it completes at once with an error.
StartRead(q, op) ==
  /\ IF socket = "open"
       THEN reading' = op /\ ioQueue' = q
       ELSE reading' = reading /\ ioQueue' = Append(q, Ready(op, "failed"))
  /\ fault' = (fault \/ socket = "deleted")
  /\ UNCHANGED <<socket, writing, pendingRead, pendingWrite>>

\* The last shared pointer to m goes: releaseMessage posts internalReleaseMessage.
Release(m) ==
  /\ place' = [place EXCEPT ![m] = "Releasing"]
  /\ buffer' = IF buffer = m THEN NoMsg ELSE buffer

-----------------------------------------------------------------------------
(* The network: what the peer, the kernel and the clock do.                 *)

ReadCompletes(error) ==
  /\ reading # "None"
  /\ ioQueue' = Append(ioQueue, Ready(reading, error))
  /\ reading' = "None"
  /\ UNCHANGED <<connVars, socket, writing, pendingRead, pendingWrite, timerVars, stopping,
                 msgVars, tasks, retry, phase, fault>>

WriteCompletes(error) ==
  /\ writing # NoMsg
  /\ ioQueue' = Append(ioQueue, Written(writing, error))
  /\ writing' = NoMsg
  /\ UNCHANGED <<connVars, socket, reading, pendingRead, pendingWrite, timerVars, stopping,
                 msgVars, tasks, retry, phase, fault>>

\* Bound: a timer does not run out again while its last timeout still waits to
\* be handled, which in the code would take the network thread 30 s.
NotQueued(op) == \A i \in DOMAIN ioQueue : ioQueue[i].op # op

ReadTimerExpires ==
  /\ readTimer /\ NotQueued("ReadTimeout")
  /\ readTimer' = FALSE
  /\ ioQueue' = Append(ioQueue, Ready("ReadTimeout", "none"))
  /\ UNCHANGED <<connVars, ioVars, writeTimer, stopping, msgVars, tasks, retry, phase,
                 fault>>

WriteTimerExpires ==
  /\ writeTimer /\ NotQueued("WriteTimeout")
  /\ writeTimer' = FALSE
  /\ ioQueue' = Append(ioQueue, Ready("WriteTimeout", "none"))
  /\ UNCHANGED <<connVars, ioVars, readTimer, stopping, msgVars, tasks, retry, phase,
                 fault>>

-----------------------------------------------------------------------------
(* The network thread: one handler after the other.                         *)

Runs(op) ==
  /\ ~stopping /\ \A m \in Msg : place[m] # "Written"
  /\ ioQueue # <<>> /\ Head(ioQueue).op = op

\* parseHeader and parsePacket after an error: a wrong size counts as one, and
\* operation_aborted reaches close() all the same, by way of m_readError.
ReadFails(op) ==
  /\ Runs(op)
  /\ op = "Packet" => Head(ioQueue).error # "none"
  /\ readTimer' = FALSE
  /\ readError' = TRUE
  /\ ioQueue' = Tail(ioQueue)
  /\ Close(tasks)
  /\ UNCHANGED <<protocol, writeError, managed, ioVars, writeTimer, stopping, msgVars,
                 retry, phase, fault>>

\* The connection is closing already, exceeds the packets per second, or its
\* first message names no protocol.
ReadRefused(op) ==
  /\ Runs(op) /\ Head(ioQueue).error = "none"
  /\ op = "Packet" => (state # "OPEN" \/ readError \/ protocol = "None")
  /\ readTimer' = FALSE
  /\ ioQueue' = Tail(ioQueue)
  /\ Close(tasks)
  /\ UNCHANGED <<protocol, readError, writeError, managed, ioVars, writeTimer, stopping,
                 msgVars, retry, phase, fault>>

ParseHeader ==
  /\ Runs("Header") /\ Head(ioQueue).error = "none"
  /\ state = "OPEN" /\ ~readError
  /\ readTimer' = TRUE
  /\ StartRead(Tail(ioQueue), "Packet")
  /\ UNCHANGED <<connVars, writeTimer, stopping, msgVars, tasks, retry, phase>>

\* The protocol gets the message, and may close the connection on the network
\* thread; the next read is started even then.
ParsePacket(closes) ==
  /\ Runs("Packet") /\ Head(ioQueue).error = "none"
  /\ state = "OPEN" /\ ~readError
  /\ protocol' = IF protocol = "None" THEN "Attached" ELSE protocol
  /\ IF closes THEN Close(tasks) ELSE UNCHANGED <<state, tasks>>
  /\ readTimer' = TRUE
  /\ StartRead(Tail(ioQueue), "Header")
  /\ UNCHANGED <<readError, writeError, managed, writeTimer, stopping, msgVars, retry,
                 phase>>

\* Mutant: the socket is closed but the connection is not.
ReadTimeoutSocketOnly ==
  /\ Runs("ReadTimeout")
  /\ IF Alive /\ (pendingRead > 0 \/ readError)
       THEN CloseSocket(Tail(ioQueue), <<>>) /\ UNCHANGED <<state, tasks>>
       ELSE ioQueue' = Tail(ioQueue) /\ UNCHANGED <<ioVars, fault, state, tasks>>
  /\ UNCHANGED <<protocol, readError, writeError, managed, timerVars, stopping, msgVars,
                 retry, phase>>

\* onReadTimeout, onWriteTimeout: through a weak pointer, so that nothing
\* happens to a connection that is gone.
ReadTimeout ==
  /\ Runs("ReadTimeout")
  /\ IF Alive /\ (pendingRead > 0 \/ readError)
       THEN CloseSocket(Tail(ioQueue), <<>>) /\ Close(tasks)
       ELSE ioQueue' = Tail(ioQueue) /\ UNCHANGED <<ioVars, fault, state, tasks>>
  /\ UNCHANGED <<protocol, readError, writeError, managed, timerVars, stopping, msgVars,
                 retry, phase>>

WriteTimeout ==
  /\ Runs("WriteTimeout")
  /\ IF Alive /\ (pendingWrite > 0 \/ writeError)
       THEN CloseSocket(Tail(ioQueue), <<>>) /\ Close(tasks)
       ELSE ioQueue' = Tail(ioQueue) /\ UNCHANGED <<ioVars, fault, state, tasks>>
  /\ UNCHANGED <<protocol, readError, writeError, managed, timerVars, stopping, msgVars,
                 retry, phase>>

\* onWriteOperation: an error or a connection that closes takes the socket down,
\* otherwise one write less is pending ...
OnWriteOperation ==
  LET h == Head(ioQueue) IN
  /\ Runs("Write")
  /\ writeTimer' = FALSE
  /\ place' = [place EXCEPT ![h.msg] = "Written"]
  /\ writeError' = (writeError \/ h.error # "none")
  /\ IF state # "OPEN" \/ writeError'
       THEN CloseSocket(Tail(ioQueue), <<>>) /\ Close(tasks)
       ELSE /\ ioQueue' = Tail(ioQueue)
            /\ pendingWrite' = pendingWrite - 1
            /\ UNCHANGED <<state, tasks, socket, reading, writing, pendingRead, fault>>
  /\ UNCHANGED <<protocol, readError, managed, readTimer, stopping, buffer, refs, retry,
                 phase>>

\* ... and only the end of the handler, which keeps a pointer of its own, lets
\* the message go.
DropWritten(m) ==
  /\ place[m] = "Written"
  /\ place' = [place EXCEPT ![m] = "Releasing"]
  /\ tasks' = AddTask(tasks, m)
  /\ UNCHANGED <<connVars, ioVars, timerVars, ioQueue, stopping, buffer, refs, retry, phase,
                 fault>>

\* onStopOperation: the socket goes under the lock, the entry in m_connections
\* after it.
StopOperation ==
  /\ Runs("Stop")
  /\ fault' = (fault \/ ~Alive)
  /\ readTimer' = FALSE /\ writeTimer' = FALSE
  /\ socket' = "deleted"
  /\ ioQueue' = Tail(ioQueue) \o (IF socket = "open" THEN Aborted ELSE <<>>)
  /\ reading' = "None" /\ writing' = NoMsg
  /\ stopping' = TRUE
  /\ UNCHANGED <<connVars, pendingRead, pendingWrite, msgVars, tasks, retry, phase>>

ReleaseFromManager ==
  /\ stopping
  /\ stopping' = FALSE
  /\ managed' = FALSE
  /\ UNCHANGED <<state, protocol, readError, writeError, ioVars, timerVars, ioQueue, msgVars,
                 tasks, retry, phase, fault>>

-----------------------------------------------------------------------------
(* The dispatcher thread: the protocol's messages.                          *)

\* getOutputBuffer takes a new message from the pool; the one it replaces stays
\* in the list of messages to send.
GetOutputBuffer(m) ==
  /\ phase # "down" /\ protocol = "Attached" /\ place[m] = "Free"
  /\ place' = [place EXCEPT ![m] = "Auto"]
  /\ buffer' = m
  /\ refs' = refs + 1
  /\ UNCHANGED <<connVars, ioVars, timerVars, ioQueue, stopping, tasks, retry, phase, fault>>

\* Mutant: onSendMessage does not reset m_outputBuffer.
SendKeepsBuffer(m) ==
  IF state # "OPEN" \/ writeError
    THEN /\ Release(m)
         /\ tasks' = AddTask(tasks, m)
         /\ UNCHANGED <<ioQueue, writing, pendingWrite, writeTimer, fault>>
    ELSE IF pendingWrite = 0
      THEN /\ place' = [place EXCEPT ![m] = "Writing"]
           /\ pendingWrite' = 1
           /\ writeTimer' = TRUE
           /\ writing' = m
           /\ UNCHANGED <<buffer, ioQueue, tasks, fault>>
      ELSE /\ place' = [place EXCEPT ![m] = "ToAdd"]
           /\ UNCHANGED <<buffer, tasks, ioQueue, writing, pendingWrite, writeTimer, fault>>

\* Connection::send and what the pool does when it fails: the message is sent,
\* put aside while another one is being written, or freed.
Send(m) ==
  IF state # "OPEN" \/ writeError
    THEN /\ Release(m)
         /\ tasks' = AddTask(tasks, m)
         /\ UNCHANGED <<ioQueue, writing, pendingWrite, writeTimer, fault>>
    ELSE IF pendingWrite = 0
      THEN /\ place' = [place EXCEPT ![m] = "Writing"]
           /\ buffer' = IF buffer = m THEN NoMsg ELSE buffer
           /\ pendingWrite' = 1
           /\ writeTimer' = TRUE
           /\ IF socket = "open"
                THEN writing' = m /\ ioQueue' = ioQueue
                ELSE writing' = writing /\ ioQueue' = Append(ioQueue, Written(m, "failed"))
           /\ fault' = (fault \/ socket = "deleted")
           /\ UNCHANGED tasks
      ELSE /\ place' = [place EXCEPT ![m] = "ToAdd"]
           /\ UNCHANGED <<buffer, tasks, ioQueue, writing, pendingWrite, writeTimer, fault>>

\* sendAll, for one message that has become stale.
SendAuto(m) ==
  /\ phase # "down" /\ place[m] = "Auto"
  /\ Send(m)
  /\ UNCHANGED <<connVars, socket, reading, pendingRead, readTimer, stopping, refs, retry,
                 phase>>

\* A message of its own, allocated with autosend off and sent at once.
SendDirect(m) ==
  /\ phase # "down" /\ protocol = "Attached" /\ place[m] = "Free"
  /\ refs' = refs + 1
  /\ Send(m)
  /\ UNCHANGED <<connVars, socket, reading, pendingRead, readTimer, stopping, retry, phase>>

\* sendAll takes the messages put aside back into the list it sends ...
Requeue(m) ==
  /\ phase # "down" /\ place[m] = "ToAdd"
  /\ place' = [place EXCEPT ![m] = "Auto"]
  /\ UNCHANGED <<connVars, ioVars, timerVars, ioQueue, stopping, buffer, refs, tasks, retry,
                 phase, fault>>

\* ... and drops those that are ten seconds old.
Drop(m) ==
  /\ phase # "down" /\ place[m] = "ToAdd"
  /\ Release(m)
  /\ tasks' = AddTask(tasks, m)
  /\ UNCHANGED <<connVars, ioVars, timerVars, ioQueue, stopping, refs, retry, phase, fault>>

\* The protocol disconnects its client.
Disconnect ==
  /\ phase # "down" /\ protocol = "Attached"
  /\ Close(tasks)
  /\ UNCHANGED <<protocol, readError, writeError, managed, ioVars, timerVars, ioQueue,
                 stopping, msgVars, retry, phase, fault>>

-----------------------------------------------------------------------------
(* The dispatcher thread: tasks, retries and shutdown.                      *)

RunsTask(t) == phase # "down" /\ tasks # <<>> /\ Head(tasks) = t

\* What a message still refers to, which releaseProtocol and releaseConnection
\* try again after 50 ms.
Held == IF refs > 0 THEN {"protocol", "connection"} ELSE {}

\* closeConnectionTask.
CloseConnectionTask ==
  /\ RunsTask("Close")
  /\ tasks' = Tail(tasks)
  /\ IF state # "REQUEST_CLOSE" THEN UNCHANGED <<state, protocol, ioVars, ioQueue, retry, fault>>
     ELSE
       /\ protocol' = IF protocol = "None" THEN "None"
                      ELSE IF refs > 0 THEN "Releasing" ELSE "Deleted"
       /\ IF pendingWrite = 0 \/ writeError
            THEN /\ state' = "CLOSED"
                 /\ CloseSocket(ioQueue, IF refs > 0 THEN <<>> ELSE <<Ready("Stop", "none")>>)
                 /\ retry' = Retries(Held)
            ELSE /\ state' = "CLOSING"
                 /\ retry' = Retries(Held \ {"connection"})
                 /\ UNCHANGED <<ioVars, ioQueue, fault>>
  /\ UNCHANGED <<readError, writeError, managed, timerVars, stopping, msgVars, phase>>

\* Mutant: the release is not scheduled again while messages remain.
RetryReleaseConnectionOnce ==
  /\ phase # "down" /\ "connection" \in retry
  /\ retry' = retry \ {"connection"}
  /\ ioQueue' = IF refs = 0 THEN Append(ioQueue, Ready("Stop", "none")) ELSE ioQueue
  /\ fault' = (fault \/ ~Alive)
  /\ UNCHANGED <<connVars, ioVars, timerVars, stopping, msgVars, tasks, phase>>

\* Mutant: the release is scheduled again although it is done.
RetryReleaseConnectionAgain ==
  /\ phase # "down" /\ "connection" \in retry
  /\ refs = 0
  /\ ioQueue' = Append(ioQueue, Ready("Stop", "none"))
  /\ fault' = (fault \/ ~Alive)
  /\ UNCHANGED <<connVars, ioVars, timerVars, stopping, msgVars, tasks, retry, phase>>

\* releaseConnection and releaseProtocol, when the scheduler brings them back.
RetryReleaseConnection ==
  /\ phase # "down" /\ "connection" \in retry
  /\ refs = 0
  /\ retry' = retry \ {"connection"}
  /\ ioQueue' = Append(ioQueue, Ready("Stop", "none"))
  /\ fault' = (fault \/ ~Alive)
  /\ UNCHANGED <<connVars, ioVars, timerVars, stopping, msgVars, tasks, phase>>

\* Mutant: the protocol goes after one wait, whatever refers to it.
RetryReleaseProtocolNow ==
  /\ phase # "down" /\ "protocol" \in retry
  /\ retry' = retry \ {"protocol"}
  /\ protocol' = "Deleted"
  /\ fault' = (fault \/ protocol = "Deleted")
  /\ UNCHANGED <<state, readError, writeError, managed, ioVars, timerVars, ioQueue, stopping,
                 msgVars, tasks, phase>>

RetryReleaseProtocol ==
  /\ phase # "down" /\ "protocol" \in retry
  /\ refs = 0
  /\ retry' = retry \ {"protocol"}
  /\ protocol' = "Deleted"
  /\ fault' = (fault \/ protocol = "Deleted")
  /\ UNCHANGED <<state, readError, writeError, managed, ioVars, timerVars, ioQueue, stopping,
                 msgVars, tasks, phase>>

\* internalReleaseMessage: the message lets go of its protocol and connection
\* and returns to the pool.
InternalReleaseMessage(m) ==
  /\ RunsTask(m)
  /\ tasks' = Tail(tasks)
  /\ refs' = refs - 1
  /\ place' = [place EXCEPT ![m] = "Free"]
  /\ fault' = (fault \/ protocol = "Deleted" \/ ~Alive)
  /\ UNCHANGED <<connVars, ioVars, timerVars, ioQueue, stopping, buffer, retry, phase>>

\* setGameState(GAME_STATE_SHUTDOWN): the scheduler and the dispatcher take
\* nothing any more.  A release already scheduled may come back or be flushed.
StopServer ==
  /\ phase = "running"
  /\ phase' = "closing"
  /\ retry' \in SUBSET retry
  /\ UNCHANGED <<connVars, ioVars, timerVars, ioQueue, stopping, msgVars, tasks, fault>>

\* Game::shutdown: once the tasks are flushed closeAll closes the sockets of the
\* managed connections, without m_connectionLock, and forgets them.
CloseAll ==
  /\ phase = "closing" /\ tasks = <<>>
  /\ phase' = "down"
  /\ retry' = {}
  /\ managed' = FALSE
  /\ IF managed /\ socket = "open"
       THEN /\ socket' = "closed" /\ ioQueue' = ioQueue \o Aborted
            /\ reading' = "None" /\ writing' = NoMsg
       ELSE UNCHANGED <<socket, ioQueue, reading, writing>>
  /\ fault' = (fault \/ (managed /\ socket = "deleted"))
  /\ UNCHANGED <<state, protocol, readError, writeError, pendingRead, pendingWrite,
                 timerVars, stopping, msgVars, tasks>>

NetNext ==
  \/ \E error \in {"none", "failed"} : ReadCompletes(error) \/ WriteCompletes(error)
  \/ ReadTimerExpires \/ WriteTimerExpires

HandlerNext ==
  \/ \E op \in ReadOps : ReadFails(op) \/ ReadRefused(op)
  \/ ParseHeader
  \/ \E closes \in BOOLEAN : ParsePacket(closes)
  \/ ReadTimeout \/ WriteTimeout
  \/ OnWriteOperation \/ \E m \in Msg : DropWritten(m)
  \/ StopOperation \/ ReleaseFromManager

MessageNext ==
  \/ \E m \in Msg :
       GetOutputBuffer(m) \/ SendAuto(m) \/ SendDirect(m) \/ Requeue(m) \/ Drop(m)
  \/ Disconnect

TaskNext ==
  \/ CloseConnectionTask \/ RetryReleaseConnection \/ RetryReleaseProtocol
  \/ \E m \in Msg : InternalReleaseMessage(m)
  \/ StopServer \/ CloseAll

\* A fault is recorded; what the model does after one means nothing.
Next == NetNext \/ HandlerNext \/ MessageNext \/ TaskNext

\* The network thread and the dispatcher keep running, timers run out, and the
\* pool sends what is stale; the peer owes nothing.
Fairness ==
  /\ WF_vars(HandlerNext)
  /\ WF_vars(CloseConnectionTask \/ \E m \in Msg : InternalReleaseMessage(m))
  /\ WF_vars(RetryReleaseConnection) /\ WF_vars(RetryReleaseProtocol)
  /\ WF_vars(ReadTimerExpires) /\ WF_vars(WriteTimerExpires)
  /\ \A m \in Msg : WF_vars(SendAuto(m) \/ Requeue(m) \/ Drop(m))

Spec == Init /\ [][Next]_vars
LiveSpec == Spec /\ Fairness

-----------------------------------------------------------------------------
(* What must hold.                                                          *)

\* A close is requested once: the state says so exactly while the task that
\* closes the connection is queued, so that task never finds another state
\* and two of them never release the protocol twice.
OneCloseTask ==
  phase = "running" =>
    (state = "REQUEST_CLOSE" <=> \E i \in DOMAIN tasks : tasks[i] = "Close")

\* An open connection can be read and written: its socket is open, the manager
\* holds it, and m_pendingWrite counts the write not handled yet.
OpenIsUsable ==
  state = "OPEN" /\ phase # "down" =>
    /\ socket = "open" /\ managed
    /\ ~writeError
    /\ pendingWrite = Cardinality({m \in Msg : place[m] = "Writing"})

\* The bytes of a message change only while it is not on its way: the protocol
\* never appends to a message that is being written or was given back.
BufferNotInFlight == buffer # NoMsg => place[buffer] \in {"Auto", "ToAdd"}

\* A message refers to its protocol and connection by raw pointer and reference
\* count: neither is deleted while a message is out of the pool.
MessagesHoldProtocol ==
  (\E m \in Msg : place[m] # "Free") =>
    protocol \in {"Attached", "Releasing"} /\ socket # "deleted"

\* No handler, task or retry meets a deleted socket, protocol or connection,
\* whatever the order of completions, timeouts and releases.  The one exception
\* is closeAll and what runs after it: it takes no m_connectionLock and may find
\* a socket onStopOperation has deleted (connection.cpp:50-63, 159-164).
FaultOnlyByCloseAll == fault => phase = "down"

\* What a close has still to give up: the socket, the protocol, the place in
\* m_connections.  The place of a connection that stays in CLOSING is not among
\* them: it was closed with a write pending, and is never released
\* (connection.cpp:105, ClosingGetsClosed).
Closing ==
  \/ state \in {"REQUEST_CLOSE", "CLOSING"} /\ socket = "open"
  \/ protocol = "Releasing"
  \/ state = "CLOSED" /\ managed

\* A close ends: neither a peer who answers nothing nor messages that are out
\* keep the socket open or the protocol alive, nor the connection in its manager,
\* unless it stays in CLOSING, where it keeps its place for ever.
EverythingReleased == Closing ~> (~Closing \/ phase # "running")

\* "will be closed by onWriteOperation/handleWriteTimeout/handleReadTimeout
\* instead" (connection.cpp:105).
ClosingGetsClosed == state = "CLOSING" ~> (state = "CLOSED" \/ phase # "running")
=============================================================================
