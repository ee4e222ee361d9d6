# Formal model of the royale server

The repository holds a fork of The Forgotten Server (`src/server/src`, C++) with
the scripts of a "royale" game mode (`src/server/data`, Lua), a vendored client
(`src/client/otclient`) and map tools. The server is the program modelled here.
This project holds TLA+ modules for the machinery that everything else in the
server rests on (who runs what, in which order, and what may be deleted when),
the TLC runs that check them on small instances, and TLAPS proofs of their
invariants for every value of the constants.

Short names such as `tasks.cpp` mean files in `src/server/src`.

## 1. The system

Four threads do the work:

- the **network thread** runs `io_service`: completions of reads and writes,
  timers of connections, accepts;
- the **dispatcher** runs tasks one at a time; all game state is its own;
- the **scheduler** keeps delayed events and hands each to the dispatcher when
  its time has come;
- the **database thread** runs queries nobody waits for and posts their
  callbacks to the dispatcher.

They meet in three locked queues and in the objects that more than one of them
touches: connections, protocols and output messages.

| Component | State | Operations | Talks to | What is hard | What makes it correct |
|---|---|---|---|---|---|
| Dispatcher (`tasks.cpp`) | task list, thread state | addTask (front or back), the thread's loop, stop, shutdown, flush | every thread calls addTask; sends what `OutputMessagePool` collected after each task | signal sent after the lock is given up; expiry; a flush that holds the lock | no wakeup is lost; each task has one fate; back tasks stay in order |
| Scheduler (`scheduler.cpp`) | priority queue, live ids, last id | addEvent, stopEvent, the timed wait, stop, shutdown | hands events to the front of the dispatcher's list | the deadline waited for was read before the wait; stopped events stay queued; ids wrap | never sleeps too long, never early, a stopped event never runs |
| DatabaseTasks (`databasetasks.cpp`) | query list | addTask, the thread's loop, stop, shutdown, flush | callbacks go to the dispatcher | the front stays in the list while it runs, without the lock; shutdown drains the same list | a query runs once, in order, and none is lost |
| Connection (`connection.cpp`, `outputmessage.cpp`, `protocol.cpp`) | connection state, socket, pending counts, timers, reference counts, messages of the pool | accept, read, parse, write, timeouts, close, release, closeAll; get, send, queue and drop a message | network thread, dispatcher, scheduler (50 ms retries) | every order of completions, timeouts, close tasks and retries | closed once, released in the end, nothing used after its delete |
| Game session (`protocolgame.cpp`, parts of `player.cpp`, `creature.cpp`, `game.cpp`) | player of a session, client of a player, isConnecting, reference counts, check lists | login, takeover, delayed connect, logout, kick, death, lost connection, release | packets of three or more clients, the scheduler, the creature checks | connect() runs a second after login() looked; raw pointers in queued tasks | one session steers a character; nothing dangles; every session ends |
| Waiting list (`waitlist.cpp`) | two lists with timeouts | a login that enters, waits or comes back | ProtocolGame::login | long sequences of logins, retries and departures | never overfull, one place each, nobody is overtaken |
| Server ports (`server.cpp`) | acceptors, services, pending starts | add, open, accept, fail, reopen after an error, stop | network thread, dispatcher, scheduler | reopened on another thread than it accepts on, without a lock | one user of an acceptor at a time; an open port listens; a closed one is opened again |
| Startup and shutdown (`otserv.cpp`, `Game::shutdown`) | where `main` stands, the states of the threads | start, load, run, stop, shutdown, join | all threads | who waits for whom | `main` ends |
| Royale arenas (`data/lib/royale`) | arenas and players in two tables, storages of characters | join the queue, start a match, death, winner | reads at once, writes through the database thread, delayed events | a read overtakes the writes before it, also those of its own script | rows are of players present; two are sent to battle, one survives and wins |
| Market (`iomarket.cpp`, parts of `game.cpp`) | the table of offers, accounts in memory or in the database | create, cancel, accept, expire | database thread, dispatcher, scheduler | an expiry query's rows are read in a later task; an owner is online or not | no gold or item is lost or made; due offers leave |
| Trade (parts of `game.cpp`, `player.cpp`, `container.cpp`) | what each player offers to whom, the list of traded things | request, accept, exchange, close; every move of an item | packets of several players | what is offered may be touched at any moment until both accept | known to both or to nobody; what was shown is what is handed over, on both sides |
| Houses (`house.cpp`, `commands.cpp`) | owners and deeds | sell by a trade, leave, buy | Trade | checked when offered, done when accepted | as Trade; rent, access lists and sleepers are not modelled |
| Lua timers (`luascript.cpp`) | timer events and registry references | addEvent, stopEvent, executeTimerEvent | scheduler and dispatcher | stop of a timer already handed over | planned |
| Parties, guilds, chat, decay, spawns, raids | within one dispatcher task each | | scheduler | state that outlives a task: an invitation, a raid | planned in part |
| Creatures, combat, map, items, conditions, spells | large data, changed within one task | | | none between actors | not modelled |
| Loading and saving, messages' encoding, configuration, login and status protocols | | | | I/O and formats | not modelled |
| Client | | | sends packets, drops connections | another program | its effects are choices of the models |

`PROJECT.json` lists all components with their files, and the hazards of the
code, each at its line with the properties that cover it or the reason why none
does yet.

## 2. Modules

`TaskService` is an abstract specification. The other ten model code. None
declares a RECURSIVE operator. Each `MC...` module gives TLC its constants, and
each `...Proofs` module holds the theorems about the module it is named after.
Two of them have a guest: `GameSessionProofs` ends with the proofs about
`WaitingList`, which its logins use, and `DatabaseTasksProofs` with those about
`Market`, whose expiry queries the database thread runs. The names of the two guests
stay clear of their hosts' (`WaitingSpec`, `MarketTypeOK`, ...).
Operators whose comment begins with "Mutant:" are plausible mistakes, never part
of `Next`: each property is shown to fail when one of them takes the place of
the definition it resembles.

### TaskService and Dispatcher

`TaskService` knows no queue and no lock: a request is taken in or refused, may
become late, and runs or is discarded, once. `Dispatcher` is `tasks.cpp`:
`taskList` and `threadState` are the fields of those names, `pc` is where
`dispatcherThread` stands. A critical section of `taskLock` is one step, since
nothing in it blocks; only `flush()` keeps the lock over many steps, and while it
does (`TaskLockFree` is false) nobody else can take it. `owes` holds the
producers that left the lock in `addTask` and have still to signal. `AddTask` and
`Notify` are addTask by another thread, `AddFromTask` addTask by a running task,
`LockAndTake`, `LockAndWait`, `SpuriousWake` and `WokenTake` the wait,
`BeginTask` the test for expiry, `RequestShutdown` and `Stop` the two calls of
`setGameState`, `Shutdown`, `FlushTask` and `FlushEnd` the end. A task flushed
may call addTask, on a lock its own thread holds: then `pc` is "Stuck" for good
(undefined for std::mutex, a deadlock in practice).

### Scheduler

`eventList` is a set, and `top()` any earliest event: a binary heap does not keep
the order of equals. `now` is the clock, moved by `Tick`. `deadline` is what
`wait_until` was given. Ids are counted modulo `IdMod`, 2^32 in the code, and
skip 0, so that a small `IdMod` shows the wrap. `AddEvent` may carry a deadline
that has passed, since it was fixed before the lock was taken. `PopTop` pops
whatever is on top on waking, and `Fire` hands it over. `slipped` remembers a
shutdown that came between the thread's loop test and its lock.

### DatabaseTasks

`task` is the reference that `run()` holds to the front of the list while it has
no lock (`RunQuery`, `PostCallback`, `PopFront`). `flusher` is where the thread
that calls `shutdown()` stands. A `pop_front()` of an empty list, and the use of
the reference when its node is gone, lead to "Fault": what happens then is
undefined and the model says no more. The query itself is abstracted.

### Connection

One connection from accept to release, with the messages its protocol may have
out of the pool. `ioQueue` holds the completion handlers that `io_service` has
ready, in order; closing the socket completes what is under way with an error;
cancelling a timer whose handler is queued already does not take it back, so a
stale timeout is a step of the model. `place` says where each message is: free,
held by the pool for automatic sending, being written, waiting to be queued
again, or on its way back. `refs` counts the messages out, which is what
`m_refCount` of the connection and of the protocol both count. `retry` holds the
releases that the scheduler brings back after 50 ms. `StopServer` and `CloseAll`
are `Game::shutdown` as the connection sees it.

Abstracted: encryption, checksums, contents and sizes. Not modelled: the `catch`
blocks around asio's calls, since asio reports errors of an open socket to the
handler; and the lost update of `m_refCount` (`protocol.h:52`), a plain integer
that two threads change. The model counts exactly; on a machine where an update
is lost, `MessagesHoldProtocol` does not hold.

### GameSession

Several sessions log the same character in. `life` follows a session from its
connection to the delete of its protocol; `tasks` is the dispatcher's list,
restricted to these sessions; `timers` are the delayed `connect()` calls.
`status`, `client`, `isConnecting`, `refs`, `check` and `toRelease` describe
Player objects. `LoginNew`, `LoginOnline` (with `Attach`), `Connect`, `Logout`,
`Kick`, `LostConnection`, `Die`, `CheckCreatures`, `CloseTask`, `RetryRelease` are
the handlers of those names. `CheckCreatures(B)` is a round over one bucket of
creatures, with `Game::cleanup` at its end, which frees what nobody refers to.
`TimeIsUp` is the scheduler handing `connect()` over, which puts it in front of
the dispatcher's list (`scheduler.cpp:66`): on a dispatcher that lags by a second
it overtakes the close of the session it is to replace (`StillCloses`), finds
`Player::client` still set, and returns with `isConnecting` as it is
(`protocolgame.cpp:227-230`). `overtaken` remembers that. Whether a script lets a
character log in or out, and whether the client's messages hold its protocol, are
choices.

`setConnection(nullptr)` comes before `releaseProtocol`, so that a released
protocol sends no more messages: what held it may only go away.

Left out: `allowClones`, other packets, the waiting list (its own module), and
the closing of the server as one task (kicks one by one are in).

### WaitingList

`priorityWaitList` and `waitList` as sequences, `timeout` in seconds since the
login that set it (any entry may be past it at the next login, so `expired` is a
choice), `retry` what that login told the client. `slips` is by how much the
stored sizes of the two `std::list`s are wrong after `waitList.erase(it)` with an
`it` of the other list. Libstdc++ since GCC 5 stores the size and does this; the
standard leaves it undefined. Only the slot given to a newcomer depends on it.
`CleanupList` goes through a list from its front, as the loop does, and keeps what
has not timed out.

### Market

`offers` is the table `market_offers`. `memory` holds the accounts of players that
are online, `stored` those in the database, and `Settle` pays into whichever
counts. `CreateOffer`, `CancelOffer` and `AcceptOffer` are the packets, each with
its fee and its checks. `CheckExpiredOffers` queues a SELECT, `SelectExpired` is
the database thread running it, `ProcessExpiredOffers` the task that reads its
rows: a row whose offer is gone is skipped, and one whose offer has shrunk in
between is paid at the amount it was read with. `shrunk` remembers that. A bank
balance and a number of items make an account, and there is one kind of item.
`Total` adds up what a function says of a finite set.

Assumed or simplified: every query succeeds, and an expired sale finds its player,
a known kind of item and an inbox that takes it (`processExpiredOffers` goes on
without a word where one of these fails, when the offer is in the history already,
and the items are lost); the interval of `checkExpiredOffers` is positive, since
with 0 it comes once; an offer is named by its id, where a packet names it by its
second and the lower 16 bits of the id; and the fee is an integer quotient, where
the code multiplies in floating point and may come out one lower.

### RoyaleArena

`rows`, `players` and `inMatch` are the two tables, `queue` the writes that the
database thread has still to run. `rows` is a set, since the scripts insert a row
right after they delete one of the same id. `FinalRows` is what the rows will be
once the queue has run, told row by row from the last write that concerns it.
`SayStart` is `!start`. `Logout` and `Death` take a player out of the world and of
the tables; only a death resets storage 9998 (`playerdeathroyale.lua:4`), so who
logs out stays marked as fighting until his next login. `winners` are the ids that
were declared winners. `StartArenaReadyToStart` and `PreparePlayersFromArena` are the
two reads of a round with its write between them, `DeclareWinner` the event after
a match. Reads look at the tables, never at the queue. `id` names a Player object
and is drawn anew by each login, while `joined` is a storage value that stays with
the character. `Init` is every table an earlier server may have left. `disorder`
remembers that a script read while a write was queued that it depends on, that
somebody said `!start` twice or during a declaration, or that somebody left whose
row was gone: the scripts have no guard against these. `clearAllArena` queues two
writes, the deletion of the rows and the reset of the arena, which the database
thread runs one after the other.

### Server

`main` is where `main()` stands, `doing` what the dispatcher's thread is in,
`tasks` its list. `acceptor`, `accepting` and `pendingStart` are the fields of the
services, per port; `handlers` the completions queued at `io_service`. `AddPort`,
`AddService`, `Reopen` (with `OpenSucceeds` and `OpenFails`) run in tasks,
`OnAccept`, `OnError`, `OnAborted` and `OnStopServer` on the network thread,
`FireReopen` is the scheduler's event after 15 seconds, put in front of the list.
`RequestShutdown` and `Quit` queue the last task and leave the dispatcher in
"stopping", from where `StopScheduler` and `StopDispatcher` are the two calls that
follow, each a step of its own; other tasks of the game may be queued behind the
shutdown (`AddOther`), and one of them, flushed, may lock its own thread out
(`RunOther`, "stuck"). `hung` are the threads, scheduler or database, that
`shutdown()` did not end: their own modules show when that happens, here it is a
choice. `JoinScheduler`, `JoinDatabase` and `JoinDispatcher` are the three joins
of `main()`, each waiting for its thread. `Dropped` says that
`m_acceptors.clear()` and `onStopServer` have let a port go, and `Crash` that an
accept completion, which holds a raw `this`, comes after that. `SpuriousWake`
wakes `main` from its wait without a predicate; `early` remembers that it did so
before the loader was done. `OutOfWork` is `run()` returning when nothing is under
way. The inside of the threads behind the queues is in modules of their own.

### Trade

`tradeState`, `partner`, `tradeItem` and `tradeItems` are the fields of those names;
`parent` says what an item is in. `BagsAround`, the least set of bags that leads
outward from a thing, stands for the walks along `getParent()`, and `Around` adds
where they end. A move or a removal is one action with its notifications: `EndedByRemoval` and `EndedByArrival`
are the players whose trade `Player::checkTradeState` ends. `PlayerAcceptTrade` by
the second of the two is the whole `Exchange`, with its two moves, of which the
second has no result that anybody asks for. `Destinations` is where
`Player::queryDestination` may find an empty place, and `PartialStacks` the stacks
that could take more. `TestsRoom` is the test before the exchange, which counts both
(`game.cpp:2624-2625`, flags 0), while the two moves need an empty place
(`FLAG_IGNOREAUTOSTACK`, `game.cpp:2636-2638`). A house stands for its deed too: a deed
is made for the trade (`deeds`) and is torn up or used by it. Who is sent to the
door of a house that changes hands may be taken out of reach of his own trade:
`kicked` is a choice. Weights, slot types and how many things a stack has are
abstracted to places and to the choice `fits`; a stack put to another lies beside it.
What lies in a house that is left or sold goes to an inbox (`House::transferToDepot`):
in the model each such thing is taken away by a `RemoveItem` of its own.

## 3. Runs

All runs that pass are exhaustive under their bounds.

| Run | Instance | Properties |
|---|---|---|
| `dispatcher` | 2 producers, 3 tasks | `BackOrder`: back tasks leave in order, front tasks newest first. `ImplementsService`: refinement of `TaskService`. `EverySettled`: every accepted task is run or expires, unless flush locks itself out. |
| `scheduler` | 2 callers, 3 events, clock 0..2, ids modulo 3 | `NoOversleep`: the thread never sleeps past a deadline with nobody on the way to wake it. `StopIsFinal`: while ids are unique an event stopped never runs and any other can still be stopped. `EventFires`, `ShutdownExits`. |
| `database_tasks` | 2 callers, 5 queries, callbacks on two | `AtMostOnce`, but for the query the shutdown catches in flight; `NoneLost`, `EveryQueryRuns`, `ShutdownExits`. |
| `connection` | 2 messages | `OpenIsUsable`, `BufferNotInFlight`, `MessagesHoldProtocol`, `FaultOnlyByCloseAll`; `EverythingReleased`: a close gives up the socket and the protocol, and the place in `m_connections` unless the connection stays in CLOSING (see Findings). |
| `connection_closing` | 1 message | violated: see Findings |
| `game_session` | 3 sessions, 3 players | `NoDangling`: nothing points to what was freed. `TasksFindSession`. `OpenSessionIsClient`: a session that may send packets for a character is the one that steers him. |
| `game_session_live` | 2 sessions, 2 players | `SessionEnds`, `RemovedIsFreed`; `AbandonedLeaves`: a character without a client is taken over or leaves, unless a `connect()` overtook the close it was to follow. |
| `waiting_list` | 3 premium, 3 free, 1 exempt, 2 places | `NeverOverfull`, `NoOvertaking`; `TimeoutOutlivesRetry`: an entry outlives the wait its client was told, as long as the sizes of both lists are right. |
| `market` | 2 players, 2 offers of 2 pieces, 2 expiry queries | `NothingLost`; `NothingMade`, but for the expiry of an offer that shrank; `DueOffersLeave`. |
| `royale_arena` | 3 characters, 2 make a match, 3 logins, 3 joins, 5 writes queued | `RowsOfPresent`: once the writes have run, a row is of a player in the world. `OneSurvivor`, `NobodyFightsAlone` and `LastOneWins`, without `disorder`; the last one wins (he is among `winners` and fights no longer) unless he leaves in the second before it is declared. |
| `server` | 2 ports | `ExclusiveAcceptor`: one thread at a time uses an acceptor. `Listens`: an open port accepts or is about to. `PortReopens`; `MainEnds`, unless a join hangs, a flushed task locks the dispatcher out, or a late accept finds its port gone. |
| `trade` | 3 players, 2 bags, 2 stacks, 1 house; 1 place in hand, 1 in a bag | `TradeIsMutual`; `OfferIsAtHand`: what is offered is within reach and in no other offer. `OfferUnchanged`: nothing enters or leaves a bag on offer. `AllOrNothing`: an exchange hands over both things or none, but for a stack that had room in other stacks only. |

The type invariant of every component is a theorem too, and so is every safety
invariant that the passing runs check.

**Bounds.** They cap how often something is asked for (`MaxTasks`, `MaxEvents`,
`MaxCreated`, `MaxQueries`, `MaxLogins`, `MaxJoins`), the clock (`MaxTime`), what is
queued (`MaxQueue`), and the objects there are (messages, sessions, players,
clients, ports, items, `MaxSlips`). Two callers are the least that lets one be
caught between its unlock and its signal while the other adds, stops or shuts
down. Three tasks let a front and a back task meet behind a third, and let one slip
in between the shutdown task and `stop()`. Three events and ids modulo 3 let the id
counter wrap onto an event still queued. Five queries leave some behind the one in
flight when the drain begins. Two messages allow one that is being written and
one that is put aside. Three sessions let a takeover be taken over before its
`connect()`. Two places and six clients let several wait in both lists for one
place. Two offers of two pieces let one be accepted in part, or wholly, between the
SELECT and the callback while the other is due too, and two queries let the same
offer be in the rows of both; a price of 75 has a fee that the least fee raises.
Three characters for matches of two let one be too late, and three logins let him
come back with a new id while his row is still queued. Two ports let one be opened
again while the other is in use or the server goes down. Three players let a third
meddle with two who trade, or start a trade of his own with either; two bags that
hold one thing each let a bag on offer hold another one with a thing in it, and let
the place found for a thing lie inside what is given away.

Where a property is a theorem (section 4) it holds for all values, and the bounds
matter for the liveness runs only.

**Deadlock** is checked in `game_session`, `game_session_live`, `waiting_list`,
`market` and `trade`, whose systems never stop. The threads of the three queues
exit, sleep for good once nobody adds, or are stuck; a server that is down does
nothing; and in `royale_arena` everybody may have left with no login left under the
bound: those configurations say `CHECK_DEADLOCK FALSE`.

**Symmetry** is used over interchangeable sessions, players, clients, bags and
things, in runs without liveness properties only.

### Fairness

- `Dispatcher`, `Scheduler`, `DatabaseTasks`: weak fairness of the thread's steps,
  of each caller's signal, of the clock (scheduler) and of the draining thread
  (database). A caller past its unlock is runnable, and the operating system runs
  it; a task or query that never returns is not assumed away lightly, but the
  server as a whole relies on it. Nothing makes a caller add, stop or shut down.
- `Connection`: the handlers that `io_service` has ready, the dispatcher's tasks,
  timers that run, and the sending of what the pool holds. The peer owes
  nothing: `ReadCompletes` and `WriteCompletes` are not fair.
- `GameSession`: the dispatcher's tasks, each delayed connect() and retry, the
  rounds of creature checks (`Game::checkCreatures` schedules its successor
  before it looks at a creature), and the logout of a character without client,
  which `Player::onThink` tries every round. That last one assumes what the
  code leaves to the game: he does not stand on a no-logout tile, his fight ends,
  and the logout script agrees. Clients owe nothing.
- `Market`: the event that asks for expired offers (it schedules its successor),
  the database thread and the dispatcher. Players owe nothing, and time need not
  pass.
- `RoyaleArena`: the database thread, a task that has begun, and the timers of the
  scripts. Nobody need say `!start`, fight or leave.
- `Server`: weak fairness of `main`, of the network thread's handlers, of the
  dispatcher, of the death timer and of the reopening events. Opening a port that
  is tried again and again is strongly fair: the address comes free some time.
  No client need connect, and nobody need shut the server down.

## 4. Proofs

TLAPS checks every theorem below, for every value of the constants that the
assumptions of the module allow: `MaxTasks` positive; natural bounds and
`IdMod > 1`; finite sets of messages, sessions and players that do not contain
the null values; positive amounts and prices, and a least fee not above the greatest.
The form is always the same: an inductive invariant, a lemma for each action that
shows it kept, and the property read off it.

| Module | Theorems | Inductive invariant, and why the property is not enough |
|---|---|---|
| `DispatcherProofs` | `TypeCorrect`, `WakeupNeverLost`, `BackTasksInOrder`, `TaskHasOneFate`, `NothingIsLeftBehind`, `DispatcherImplementsService` | `ListInv`: the order of the list, with the names of queued, taken, settled and refused tasks all apart and below `nextId`. Order alone does not survive an append without knowing that the new name is greater. `EndInv` with `Accounted` for the end: names given out are refused, gone or queued, and the thread exits on an empty list only. The refinement: every step of the thread, its callers and the flush is a step of `TaskService` or a stutter, one lemma for each kind (`SubmitRefines`, `RunRefines`, `ExpireRefines`, `DiscardRefines`, ...). |
| `SchedulerProofs` | `TypeCorrect`, `NeverOversleeps`, `TimeoutFindsEvent`, `NothingFiresEarly`, `StoppedNeverRuns`, `EventRunsOnce` | `StopInv`: keys of all known events differ and are below `nextKey`, and while the counter has not wrapped an id is the key (`KeyInv`). Whether a stopped event runs depends on the event, and the thread compares ids. |
| `DatabaseTasksProofs` | `TypeCorrect`, `WakeupNeverLost`, `QueryRunsAtMostOnce`, `FaultNeedsShutdown`, `QueriesInOrder`, `NoQueryLost` | `FlushInv` and `QueryInv`: the list is the window `First..nextId-1` of names (`WindowInv`), how often each was run depends on its place relative to the window, but for the front, which the thread, the drain or both may have run (`CountInv`), and a reference in flight is to the front unless a shutdown caught it (`FlightInv`). |
| `ServerProofs` | `TypeCorrect`, `AcceptorIsExclusive`, `OpenPortListens` | `HandlerInv`, `ReopenInv`: of an accept under way, a completion that is queued, and a reopening (as an event or as a task) a port has one at most, and once. Two of them would be two users of the acceptor later, which the property alone does not see. `AddedInv`, `EndInv`: no port is left to reopen once the handlers of the shutdown are queued. `LoadInv` for the last: the loader is queued first and runs once, and who runs the handlers after it finds a service for every port. Its tasks may be overtaken by a reopening put in front, which is why no port is added while the loader is queued. |
| `TradeProofs` | `TypeCorrect`, `TradesAreMutual`, `OffersAreAtHand`, `OffersStayUnchanged`, `ExchangeIsWhole` | `OffersDiffer`: closing a trade takes a thing off the list of traded things, and would take it from somebody else's trade if two could offer it. `AskedOffersNothing`: a request overwrites what the asked player offers. `NotWithOneself`: the acceptance looks at the partner's state after it has set its own. For the other three, `BagsAround` as a least set: what is around a thing is shown by giving a set that leads outward, without counting bags. A walk outward that ends passes each bag once (`OneEnd`), a move of what is not around a thing changes nothing around it (`AroundSame`), and an item that leaves unnoticed was in no offer (`LeavesOffer`). `BagsHold`: a bag never holds more than its size, so the exchange of one thing for another leaves the empty place that was found for the second (`RoomRemains`); if only stacks had room for it, the theorem says no more than that the first thing is given. |
| `RoyaleArenaProofs` | `TypeCorrect`, `RowsAreOfPresent`, `OneIsLeft`, `NobodyGoesAlone` | `RowsInv`: ids are drawn in order and differ, and who has a row, or a write of one queued, is marked as joined, so that leaving he deletes it. `CountInv`: without disorder the number of players that the last count in the queue leaves in the table is the number of rows, or it is none and one row is left while the end of a match is on its way. `PrepareInv`: between the two reads of a round nothing is queued but the start. `RowsStep` says what each action makes of `FinalRows`. |
| `ConnectionProofs` | `TypeCorrect`, `CloseIsRequestedOnce`, `OpenConnectionIsUsable`, `BufferIsNotInFlight`, `MessagesHoldTheirProtocol`, `NoFaultBeforeCloseAll` | `IInv`: what is queued for which message and how often (`QueueInv`, `TaskInv`), `refs` equals the number of messages out (`CountInv`), what an open connection, an attached protocol and a managed connection imply (`OpenInv`, `ProtocolInv`, `ManagedInv`), and where a stop may be caught (`StopInv`). |
| `GameSessionProofs` | `TypeCorrect`, `NothingDangles`, `TasksFindTheirSession`, `ClientsAreLive`, `OneSessionSteers`, `ConnectingEnds` | `IInv`: the shape of the task list (tasks differ, one close per closing session, nothing of a session behind its close), `RefsExact` (a counter is the number of sessions that show the player, plus one each for the map, the check list and what waits for release), and `ConnectComes`: while a character is being connected to, his last client is gone or on its way out. A `connect()` that fails on that client has therefore overtaken its close, which is the one case in which `isConnecting` outlives it (`ConnectingEnds`); `OpenSessionIsClient` holds whoever comes first. |
| `GameSessionProofs`, the waiting list | `WaitingTypeCorrect`, `ServerNeverOverfull`, `NobodyOvertakes`, `EntryOutlivesRetry` | `WaitInv`: `EachOnce`, nobody stands in the two lists twice; a slot, the first place of a client, says who is ahead of him only then. `NobodyOvertakes` is about steps: a clean-up keeps the order of who stays, and so never adds to those ahead of a client. The clean-up is a recursive function on the numbers 0 to the length, and what holds of all its values is shown by taking the least number for which it would not. |
| `DatabaseTasksProofs`, the market | `MarketTypeCorrect`, `NothingIsLost`, `NothingIsMade` | `MarketInv`: `RowsInv` says what the rows on their way back have to do with the table. Ids differ and are never given out again, so a row of an offer that is still there was read from it, and only its amount may have shrunk. Then what an expiry gives back is what the table loses, or more (`RowsHoldEnough`, `ProcessBalance`); every other step is `Even`. `Total` is a fold over a set whose elements come in no order, and the lemmas on it (`TotalSplit`, `TotalParts`, `TotalMatch`, ...) go by the size of the set. |

What the proofs do not reach, and TLC alone checks, is everything under fairness:
`EverySettled`, `EventFires`, `ShutdownExits`, `EveryQueryRuns`,
`EverythingReleased`, `SessionEnds`, `AbandonedLeaves`, `RemovedIsFreed`,
`DueOffersLeave`, `LastOneWins`, `PortReopens`, `MainEnds`. The library's theorems on
induction take a predicate as a parameter, which the provers at hand cannot fill in.
Where an induction was needed it goes by a least counterexample
(`NatLessThanWellFounded` and `WFMin`), which is a set and no predicate.

Three definitions were chosen so that they can be reasoned about. What is around an
item in `Trade` is a least set and no recursive walk, the final rows of `RoyaleArena`
are told by the last write that concerns a row and not by a fold over the writes, and
the clean-up of `WaitingList` is a recursive function where `SelectSeq` would be
shorter.

## 5. Findings

1. **CLOSING is for ever** (`connection_closing`). `closeConnectionTask` leaves a
   connection with a pending write in CLOSING and a comment (`connection.cpp:105`)
   says that `onWriteOperation`, `handleWriteTimeout` or `handleReadTimeout` will
   close it. They call `closeSocket()` and `close()`, and `close()` returns at
   once in that state. The socket is closed, but the connection is never
   released: it stays in `m_connections` until the server ends.

The properties that pass name, as their exceptions, further things the code does:

- `EverySettled`, `MainEnds`: a flushed task that adds a task locks the dispatcher
  out of its own list, and `main` waits in `join()`.
- `AbandonedLeaves`: a `connect()` that the scheduler puts in front of a lagging
  dispatcher's list overtakes the close of the session it replaces, finds
  `Player::client` set and returns with `isConnecting` still true
  (`protocolgame.cpp:227-230`). When that client is gone nobody connects, and the
  character cannot be logged out (`player.cpp:3897`) until a session logs him in.
- `AllOrNothing`: who accepts a trade last has no empty place but a stack that is
  not full, offers a thing that lies on the ground (one he carries would leave its
  place empty), and is to get a stack. Both tests pass, the first move is made,
  the second fails for want of an empty place, and nobody asks for its result
  (`game.cpp:2636-2638`): he gives and gets nothing.
- `EverythingReleased`: the connection of finding 1 keeps its place.
- `ShutdownExits`, twice, and `MainEnds`: the signal is lost when a shutdown falls
  between the loop test and the lock, and `join()` hangs. `Scheduler::shutdown`
  clears a list that, as a comment (`scheduler.cpp:143`) has it, should already be
  empty: any event with a later deadline is there.
- `EventFires` and `StopIsFinal`: once ids wrap, stopping an event may take the id
  from another one.
- `AtMostOnce`: the query in flight at shutdown is sent twice, and the reference
  to it may dangle.
- `FaultOnlyByCloseAll`: a socket that `closeAll` uses after its delete.
- `TimeoutOutlivesRetry`: `waitlist.cpp:89` erases an entry of the premium list
  through the other list. Where the library stores sizes they drift, and with them
  the slot and the timeout of every premium client who comes later, against "15
  seconds longer than expected retry attempt" (`waitlist.cpp:65`).
- `NothingMade`: an offer accepted in part between the SELECT and the callback of
  its expiry is given back at the old amount (`shrunk`).
- `OneSurvivor`, `NobodyFightsAlone`, `LastOneWins`: a read that overtakes a
  write, or a second `!start`, may send one player to battle, or end a match with
  two (`disorder`). And the last one, if he logs out in the second before
  `declareWinner`, wins nothing and keeps storage 9998.
- `Listens`: `main` waits for the loader without a predicate; woken for nothing,
  it runs the handlers of ports that have no service yet, and such a port is deaf
  (`early`).
- `MainEnds`: a loader that signals before `main` waits is not heard, and `main`
  sleeps for good; a shutdown before `run()` makes `stop()` do nothing; and
  `run()` returns when no port accepts and no connection is open, after which a
  port opened later is served by nobody. An accept completion that is queued when
  `stop()` and `onStopServer` let the last reference to a port go is handled by a
  freed object (`server.cpp:66-72`).

`Trade` has steps after which a sale of a house means something else than when it
was offered: after `!leavehouse` the deed stays out, and its buyer takes the house
from whoever bought it in between; after `!buyhouse` he has two. An acceptance that
was given before the other's counter offer stands when the offer comes. No text of
the repository promises otherwise, so no property says so.

## 6. What is not modelled

- Code that one dispatcher task runs from start to end over large data: combat,
  conditions, spells, map, path search, decay, the handlers of packets that change
  one player. This is most of the server's lines. What could go wrong in it is a
  formula or a table, and a model would repeat it.
- Pure input and output: the database driver, loading and saving, message
  layout, encryption, configuration; a query that fails; a crash of the server with
  players whose trades or offers are in memory only.
- `addEvent` reads the event's id after it gave up the lock
  (`scheduler.cpp:110`), when the event may be deleted. The model returns the id
  as assigned.
- In arenas: waves, teleports and loot. In trades: weights, slot types and how
  many things a stack has. In houses: rent, access lists and sleepers. In `Server`:
  the inside of the scheduler and of the database thread. In `Market`: what fails
  after an offer is in the history (see section 2).
- Lua timers, parties, guilds, chat, spawns and raids: see the plan.
- The client, which is another program, and the map tools.

## 7. Plan

The order of work is from what the rest depends on to what depends on it.

1. Done: the three queues, the connection, the session, the waiting list.
2. Done: `Server`, `RoyaleArena`, `Market`, `Trade`.
3. Done: proofs of every safety property the runs check, and of the refinement of
   `TaskService`.
4. `LuaTimers`: `addEvent`, `stopEvent`, `executeTimerEvent` over `Scheduler` and
   `TaskService`; with it the id that is read late.
5. `OutputQueue`: the order of the messages of one connection through
   `sendAll`, `toAddQueue` and the retries after 10 ms.
6. `Party`: leader, members and invitations across logouts and deaths.

Abstract specifications worth stating: one for a timer service, which
`Scheduler` implements, and one for a log of queries, which `DatabaseTasks`
implements, for `LuaTimers` and `RoyaleArena` to be built on.

The runs of this project are few on purpose, one for each component and one for
each question a component's run cannot answer, so that all of them together finish
in minutes. A new module brings one run, and safety and liveness share it where the
instance allows.
