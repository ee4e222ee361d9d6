------------------------------- MODULE Server -------------------------------
(***************************************************************************)
(* How the server starts, keeps its ports open and ends: main() and        *)
(* mainLoader() of otserv.cpp, ServiceManager and ServicePort of           *)
(* server.cpp, and Game::shutdown().                                       *)
(*                                                                         *)
(* Three threads meet here.  main() starts the dispatcher and the          *)
(* scheduler, waits for the loader, and then is the network thread, in     *)
(* io_service::run().  The dispatcher runs the loader, opens ports again   *)
(* and shuts everything down.  The scheduler hands it the reopening of a   *)
(* port.  A port's acceptor is changed by the network thread and by the    *)
(* dispatcher without a lock.                                              *)
(*                                                                         *)
(* The inside of the dispatcher, the scheduler and the database thread is  *)
(* in modules of their own.  What they show of the ends of these threads   *)
(* is taken over here as a choice: shutdown() may miss a thread, or leave  *)
(* the database thread in undefined behaviour, and main() then waits in    *)
(* join() for good; and a task that is flushed may lock its own thread     *)
(* out.                                                                    *)
(***************************************************************************)
EXTENDS Sequences, SequencesExt, FiniteSets

CONSTANT Port    \* the ports of the configuration

ASSUME PortAssumption == IsFiniteSet(Port) /\ Port /= {}

VARIABLES
  main,          \* where main() is
  early,         \* ghost: main() woke up before the loader was done
  loader,        \* how far mainLoader() is
  added,         \* ServiceManager::m_acceptors
  running,       \* ServiceManager::running
  dying,         \* death_timer is set
  dispatcher,    \* Dispatcher::threadState
  doing,         \* what the dispatcher's thread is in
  tasks,         \* the list of the dispatcher
  scheduler,     \* Scheduler::threadState
  hung,          \* ghost: the threads that shutdown() has not ended
  reopening,     \* ports whose openAcceptor() is an event of the scheduler
  acceptor,      \* m_acceptor is there
  accepting,     \* ports with an async_accept under way
  pendingStart,  \* m_pendingStart
  services,      \* ports with a service in m_services
  handlers       \* completion handlers queued at the io_service

threadVars == <<main, early, loader, running, dying>>
taskVars == <<dispatcher, doing, tasks>>
portVars == <<acceptor, accepting, pendingStart, handlers>>
stopVars == <<scheduler, hung>>
vars == <<threadVars, added, taskVars, stopVars, reopening, portVars, services>>

Handler == [port : Port, what : {"accepted", "failed", "aborted", "stop"}]
Task == [run : {"load", "quit", "quitNow", "shutdown", "other"}]
        \union [run : {"reopen"}, port : Port]

TypeOK ==
  /\ main \in {"begin", "waiting", "woken", "online", "running", "joining",
               "joinDatabase", "joinDispatcher", "ended", "crashed"}
  /\ early \in BOOLEAN
  /\ loader \in {"loading", "failed", "online"}
  /\ added \subseteq Port /\ services \subseteq Port
  /\ running \in BOOLEAN /\ dying \in BOOLEAN
  /\ dispatcher \in {"RUNNING", "CLOSING", "TERMINATED"}
  /\ doing \in {"loop", "load", "stopping", "closing", "flushToQuit", "flushToStop",
                "stuck", "ended"}
  /\ tasks \in Seq(Task)
  /\ scheduler \in {"RUNNING", "CLOSING", "TERMINATED"}
  /\ hung \subseteq {"scheduler", "database"}
  /\ reopening \subseteq Port /\ acceptor \subseteq Port
  /\ accepting \subseteq acceptor /\ pendingStart \subseteq Port
  /\ handlers \in Seq(Handler)

\* main() has started both threads and queued the loader.
Init ==
  /\ main = "begin" /\ early = FALSE /\ loader = "loading"
  /\ added = {} /\ running = FALSE /\ dying = FALSE
  /\ dispatcher = "RUNNING" /\ doing = "loop" /\ tasks = <<[run |-> "load"]>>
  /\ scheduler = "RUNNING" /\ hung = {} /\ reopening = {}
  /\ acceptor = {} /\ accepting = {} /\ pendingStart = {} /\ services = {}
  /\ handlers = <<>>

-----------------------------------------------------------------------------
(* Ports.                                                                   *)

On(p, what) == [port |-> p, what |-> what]

\* Scheduler::addEvent drops what comes after stop().
Schedule(p) ==
  reopening' = IF scheduler = "RUNNING" THEN reopening \union {p} ELSE reopening

\* What close() adds to the io_service: the accept under way is aborted.
Aborted(p) == IF p \in accepting THEN <<On(p, "aborted")>> ELSE <<>>

\* open(): whatever was there is closed, and a new acceptor listens.
OpenSucceeds(p) ==
  /\ acceptor' = acceptor \union {p}
  /\ accepting' = accepting \union {p}
  /\ pendingStart' = pendingStart \ {p}
  /\ handlers' = handlers \o Aborted(p)
  /\ UNCHANGED reopening

\* Mutant: a failure to open is final.
OpenFailsOnce(p) ==
  /\ acceptor' \in {acceptor \ {p}, acceptor \union {p}}
  /\ accepting' = accepting \ {p}
  /\ pendingStart' = pendingStart \union {p}
  /\ handlers' = handlers \o Aborted(p)
  /\ UNCHANGED reopening

\* The port cannot be bound, or it is bound and an option refused; the next try
\* comes in 15 s.
OpenFails(p) ==
  /\ acceptor' \in {acceptor \ {p}, acceptor \union {p}}
  /\ accepting' = accepting \ {p}
  /\ pendingStart' = pendingStart \union {p}
  /\ handlers' = handlers \o Aborted(p)
  /\ Schedule(p)

\* A client connects, or the accept fails: the handler is queued.
AcceptCompletes(p) ==
  /\ p \in accepting
  /\ accepting' = accepting \ {p}
  /\ \E what \in {"accepted", "failed"} : handlers' = Append(handlers, On(p, what))
  /\ UNCHANGED <<threadVars, added, taskVars, stopVars, reopening, acceptor,
                 pendingStart, services>>

-----------------------------------------------------------------------------
(* The network thread: the handlers of the io_service, in order.            *)

Handles(p, what) ==
  /\ main = "running"
  /\ handlers /= <<>> /\ Head(handlers) = On(p, what)
  /\ UNCHANGED <<threadVars, added, taskVars, stopVars, services>>

\* Mutant: a refused address ends the loop of accepts.
OnAcceptRefused(p) ==
  /\ Handles(p, "accepted")
  /\ handlers' = Tail(handlers)
  /\ UNCHANGED <<reopening, acceptor, accepting, pendingStart>>

\* The connection is taken or refused, and the port accepts again, unless it
\* has no service yet.
OnAccept(p) ==
  /\ Handles(p, "accepted")
  /\ handlers' = Tail(handlers)
  /\ accepting' = IF p \in services \intersect acceptor THEN accepting \union {p}
                                                         ELSE accepting
  /\ UNCHANGED <<reopening, acceptor, pendingStart>>

\* Mutant: the acceptor stays, and accepts, while its reopening is scheduled.
OnErrorKeepsOpen(p) ==
  /\ Handles(p, "failed")
  /\ handlers' = Tail(handlers)
  /\ IF p \in pendingStart
     THEN UNCHANGED <<reopening, acceptor, accepting, pendingStart>>
     ELSE /\ accepting' = accepting \union {p}
          /\ pendingStart' = pendingStart \union {p}
          /\ Schedule(p)
          /\ UNCHANGED acceptor

OnError(p) ==
  /\ Handles(p, "failed")
  /\ IF p \in pendingStart
     THEN /\ handlers' = Tail(handlers)
          /\ UNCHANGED <<reopening, acceptor, accepting, pendingStart>>
     ELSE /\ handlers' = Tail(handlers) \o Aborted(p)
          /\ acceptor' = acceptor \ {p}
          /\ accepting' = accepting \ {p}
          /\ pendingStart' = pendingStart \union {p}
          /\ Schedule(p)

OnAborted(p) ==
  /\ Handles(p, "aborted")
  /\ handlers' = Tail(handlers)
  /\ UNCHANGED <<reopening, acceptor, accepting, pendingStart>>

OnStopServer(p) ==
  /\ Handles(p, "stop")
  /\ handlers' = Tail(handlers) \o Aborted(p)
  /\ acceptor' = acceptor \ {p}
  /\ accepting' = accepting \ {p}
  /\ UNCHANGED <<reopening, pendingStart>>

\* ServiceManager::stop() has dropped the port and onStopServer() has run: only the
\* connections it took still hold it.
Dropped(p) == p \in services \ added /\ On(p, "stop") \notin ToSet(handlers)

\* No connection does: an accept that was completed while the port was being closed
\* is handled by an object that is gone.  It may go well, as in OnAccept and OnError.
Crash(p) ==
  /\ main = "running" /\ Dropped(p)
  /\ handlers /= <<>> /\ Head(handlers) \in {On(p, "accepted"), On(p, "failed")}
  /\ main' = "crashed"
  /\ UNCHANGED <<early, loader, running, dying, added, taskVars, stopVars, reopening,
                 portVars, services>>

\* death_timer: die() stops the io_service, and run() returns.
Die ==
  /\ dying /\ main = "running"
  /\ dying' = FALSE
  /\ main' = "joining"
  /\ UNCHANGED <<early, loader, running, added, taskVars, stopVars, reopening,
                 portVars, services>>

\* run() also returns when nothing is left to wait for: no port accepts and no
\* connection is open.  Nobody calls it again.
OutOfWork ==
  /\ main = "running" /\ accepting = {} /\ handlers = <<>> /\ ~dying
  /\ main' = "joining"
  /\ UNCHANGED <<early, loader, running, dying, added, taskVars, stopVars, reopening,
                 portVars, services>>

-----------------------------------------------------------------------------
(* The scheduler.                                                           *)

\* The event of a port is due; it goes to the front, and the dispatcher takes it only
\* while it runs.
FireReopen(p) ==
  /\ p \in reopening /\ scheduler /= "TERMINATED"
  /\ reopening' = reopening \ {p}
  /\ tasks' = IF dispatcher = "RUNNING"
              THEN <<[run |-> "reopen", port |-> p]>> \o tasks ELSE tasks
  /\ UNCHANGED <<threadVars, added, dispatcher, doing, stopVars, portVars, services>>

-----------------------------------------------------------------------------
(* The dispatcher.                                                          *)

Runs(what) ==
  /\ doing \in {"loop", "flushToQuit", "flushToStop"}
  /\ doing = "loop" => dispatcher /= "TERMINATED"
  /\ tasks /= <<>> /\ Head(tasks).run = what

BeginLoad ==
  /\ Runs("load")
  /\ doing' = "load"
  /\ tasks' = Tail(tasks)
  /\ UNCHANGED <<threadVars, added, dispatcher, stopVars, reopening, portVars,
                 services>>

\* services->add<...>(): the port is opened before it is in the map and before
\* it has a service.
AddPort(p) ==
  /\ doing = "load" /\ added = services /\ p \notin added
  /\ OpenSucceeds(p) \/ OpenFails(p)
  /\ added' = added \union {p}
  /\ UNCHANGED <<threadVars, taskVars, stopVars, services>>

AddService(p) ==
  /\ doing = "load" /\ p \in added \ services
  /\ services' = services \union {p}
  /\ UNCHANGED <<threadVars, added, taskVars, stopVars, reopening, portVars>>

\* notify_all() without the lock: it wakes main() only if it waits.
NotifyLoader == main' = IF main = "waiting" THEN "woken" ELSE main

\* startupErrorMessage(), before any port is added, or after all are (the
\* address of the configuration cannot be resolved).
LoadFails ==
  /\ doing = "load" /\ (added = {} \/ services = Port)
  /\ loader' = "failed" /\ doing' = "loop"
  /\ NotifyLoader
  /\ UNCHANGED <<early, running, dying, added, dispatcher, tasks, stopVars,
                 reopening, portVars, services>>

LoadDone ==
  /\ doing = "load" /\ services = Port
  /\ loader' = "online" /\ doing' = "loop"
  /\ NotifyLoader
  /\ UNCHANGED <<early, running, dying, added, dispatcher, tasks, stopVars,
                 reopening, portVars, services>>

\* openAcceptor(), also when the dispatcher flushes its list.
Reopen(p) ==
  /\ Runs("reopen") /\ Head(tasks).port = p
  /\ OpenSucceeds(p) \/ OpenFails(p)
  /\ tasks' = Tail(tasks)
  /\ UNCHANGED <<threadVars, added, dispatcher, doing, stopVars, services>>

\* A task sets the state of the game to GAME_STATE_SHUTDOWN: it queues
\* Game::shutdown() and then stops the threads.
RequestShutdown ==
  /\ loader = "online" /\ doing = "loop" /\ dispatcher = "RUNNING"
  /\ tasks' = Append(tasks, [run |-> "shutdown"])
  /\ doing' = "stopping"
  /\ UNCHANGED <<threadVars, added, dispatcher, stopVars, reopening, portVars, services>>

\* Nothing runs: the first task of main() queues the second and stops the threads.
Quit ==
  /\ Runs("quit") /\ doing = "loop"
  /\ tasks' = Tail(tasks)
       \o (IF dispatcher = "RUNNING" THEN <<[run |-> "quitNow"]>> ELSE <<>>)
  /\ doing' = "stopping"
  /\ UNCHANGED <<threadVars, added, dispatcher, stopVars, reopening, portVars, services>>

StopScheduler ==
  /\ doing = "stopping" /\ doing' = "closing"
  /\ scheduler' = "CLOSING"
  /\ UNCHANGED <<threadVars, added, dispatcher, tasks, hung, reopening, portVars, services>>

StopDispatcher ==
  /\ doing = "closing" /\ doing' = "loop"
  /\ dispatcher' = "CLOSING"
  /\ UNCHANGED <<threadVars, added, tasks, stopVars, reopening, portVars, services>>

\* Another thread queues a task of the game behind the shutdown.  (Bound: one; those
\* queued before run in the loop and are not of interest here.)
AddOther ==
  /\ doing \in {"stopping", "closing"} /\ dispatcher = "RUNNING"
  /\ \A i \in DOMAIN tasks : tasks[i].run /= "other"
  /\ tasks' = Append(tasks, [run |-> "other"])
  /\ UNCHANGED <<threadVars, added, dispatcher, doing, stopVars, reopening, portVars,
                 services>>

\* A task of the game that is flushed, and calls addTask, waits for the lock that its
\* own thread holds.
RunOther ==
  /\ Runs("other")
  /\ tasks' = Tail(tasks)
  /\ doing' \in IF doing = "loop" THEN {doing} ELSE {doing, "stuck"}
  /\ UNCHANGED <<threadVars, added, dispatcher, stopVars, reopening, portVars, services>>

\* Game::shutdown() and the second task of main() shut the scheduler down,
\* whose events are gone, the database thread, and the dispatcher, which flushes its
\* list.  A thread between its test and its lock misses this and waits for good; the
\* database thread may also have a query in flight whose task is flushed.
BeginShutdown(what, then) ==
  /\ Runs(what) /\ doing = "loop"
  /\ tasks' = Tail(tasks)
  /\ scheduler' = "TERMINATED" /\ reopening' = {}
  /\ hung' \in SUBSET {"scheduler", "database"}
  /\ dispatcher' = "TERMINATED" /\ doing' = then
  /\ UNCHANGED <<threadVars, added, portVars, services>>

\* Mutant: the ports are told to close, and nothing ends the io_service.
StopNotDying ==
  /\ running' = FALSE
  /\ handlers' = handlers \o SetToSeq({On(p, "stop") : p \in added})
  /\ added' = {}
  /\ UNCHANGED dying

\* ServiceManager::stop().
Stop ==
  /\ running' = FALSE
  /\ handlers' = handlers \o SetToSeq({On(p, "stop") : p \in added})
  /\ added' = {}
  /\ dying' = TRUE

\* The flush is over; Game::shutdown() stops the ports if they run, and the
\* thread leaves its loop.
EndShutdown ==
  /\ doing \in {"flushToQuit", "flushToStop"} /\ tasks = <<>>
  /\ doing' = "ended"
  /\ IF doing = "flushToStop" /\ running
     THEN Stop ELSE UNCHANGED <<running, handlers, added, dying>>
  /\ UNCHANGED <<main, early, loader, dispatcher, tasks, stopVars, reopening,
                 acceptor, accepting, pendingStart, services>>

-----------------------------------------------------------------------------
(* main().                                                                  *)

Wait ==
  /\ main = "begin" /\ main' = "waiting"
  /\ UNCHANGED <<early, loader, running, dying, added, taskVars, stopVars,
                 reopening, portVars, services>>

\* The wait has no condition it could test again.
SpuriousWake ==
  /\ main = "waiting" /\ main' = "woken"
  /\ early' = (early \/ loader = "loading")
  /\ UNCHANGED <<loader, running, dying, added, taskVars, stopVars, reopening,
                 portVars, services>>

\* is_running() looks into the map of ports.
Woken ==
  /\ main = "woken"
  /\ IF added /= {}
     THEN main' = "online" /\ UNCHANGED tasks
     ELSE /\ main' = "joining"
          /\ tasks' = IF dispatcher = "RUNNING" THEN Append(tasks, [run |-> "quit"])
                                                ELSE tasks
  /\ UNCHANGED <<early, loader, running, dying, added, dispatcher, doing, stopVars,
                 reopening, portVars, services>>

Run ==
  /\ main = "online" /\ main' = "running"
  /\ running' = TRUE
  /\ UNCHANGED <<early, loader, dying, added, taskVars, stopVars, reopening,
                 portVars, services>>

Joins(from, to) ==
  /\ main = from /\ main' = to
  /\ UNCHANGED <<early, loader, running, dying, added, taskVars, stopVars,
                 reopening, portVars, services>>

JoinScheduler ==
  scheduler = "TERMINATED" /\ "scheduler" \notin hung /\ Joins("joining", "joinDatabase")

\* The database thread was shut down before the dispatcher was, or never started.
JoinDatabase ==
  dispatcher = "TERMINATED" /\ "database" \notin hung /\ Joins("joinDatabase", "joinDispatcher")

JoinDispatcher == doing = "ended" /\ Joins("joinDispatcher", "ended")

-----------------------------------------------------------------------------
MainNext ==
  Wait \/ Woken \/ Run \/ JoinScheduler \/ JoinDatabase \/ JoinDispatcher

NetworkNext ==
  \E p \in Port : OnAccept(p) \/ OnError(p) \/ OnAborted(p) \/ OnStopServer(p)

DispatcherNext ==
  \/ BeginLoad \/ LoadFails \/ LoadDone
  \/ \E p \in Port : AddPort(p) \/ AddService(p) \/ Reopen(p)
  \/ Quit \/ StopScheduler \/ StopDispatcher \/ RunOther
  \/ BeginShutdown("shutdown", "flushToStop")
  \/ BeginShutdown("quitNow", "flushToQuit") \/ EndShutdown

Next ==
  \/ MainNext \/ SpuriousWake
  \/ NetworkNext \/ Die \/ OutOfWork
  \/ \E p \in Port : AcceptCompletes(p) \/ FireReopen(p) \/ Crash(p)
  \/ DispatcherNext \/ RequestShutdown \/ AddOther

Spec == Init /\ [][Next]_vars

\* Every thread runs on, timers expire, and a port that is tried again and
\* again can be bound some time; no client need connect.
FairSpec ==
  /\ Spec
  /\ WF_vars(MainNext) /\ WF_vars(NetworkNext) /\ WF_vars(Die)
  /\ WF_vars(DispatcherNext)
  /\ \A p \in Port : WF_vars(FireReopen(p)) /\ SF_vars(Reopen(p) /\ OpenSucceeds(p))

-----------------------------------------------------------------------------
\* An acceptor is touched by one thread at a time, though no lock guards it:
\* while openAcceptor() is on its way to the dispatcher there is neither an
\* accept that could complete nor a handler that would use the acceptor
\* (onAccept, onStopServer), and it is on its way once.
ExclusiveAcceptor ==
  \A p \in Port :
    LET Queued(i) == tasks[i] = [run |-> "reopen", port |-> p]
    IN /\ p \in reopening \/ (\E i \in DOMAIN tasks : Queued(i)) =>
            /\ p \notin accepting
            /\ \A i \in DOMAIN handlers : handlers[i].port = p => handlers[i].what = "aborted"
       /\ p \in reopening => \A i \in DOMAIN tasks : ~Queued(i)
       /\ \A i, j \in DOMAIN tasks : Queued(i) /\ Queued(j) => i = j

\* A port that is open takes connections: it accepts, or the handler that will
\* make it accept is queued, or it is about to be opened anew.  It holds if
\* main() did not wake up for nothing and run the handlers of a port that had
\* no service yet.
Listens ==
  ~early => \A p \in acceptor :
    p \in accepting \union pendingStart \/ On(p, "accepted") \in ToSet(handlers)
                                        \/ On(p, "failed") \in ToSet(handlers)

\* A port that waits to be opened again accepts some time, unless the server
\* goes down before: no failure, and no sequence of failures, is final.
PortReopens ==
  \A p \in Port :
    p \in added \intersect pendingStart ~> (p \in accepting \/ dispatcher /= "RUNNING")

\* main() is woken by the loader if it waits before the loader ends; once it
\* runs the io_service a shutdown of the game brings it to its end, also if the
\* io_service ran out of work before; and so does a start without ports.  There are
\* three exceptions, and the code does go wrong there: shutdown() missed or broke the
\* thread of the scheduler or of the database, and join() waits for good; a task that
\* was queued behind the shutdown locks the dispatcher out when it is flushed; and an
\* accept that completes while its port is closed is handled by a port that is gone.
MainEnds ==
  LET Over == main = "ended" \/ hung /= {} \/ doing = "stuck" \/ main = "crashed"
  IN /\ main = "waiting" /\ loader = "loading" ~> main /= "waiting"
     /\ main = "running" /\ dispatcher = "CLOSING" ~> Over
     /\ main = "joining" /\ (running => dispatcher /= "RUNNING") ~> Over
=============================================================================
