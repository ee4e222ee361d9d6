---------------------------- MODULE GameSession ----------------------------
(* Who controls a character: the sessions (ProtocolGame) that log the same  *)
(* name in, take it over from one another and go away, and the Player       *)
(* objects they refer to, counted by reference until Game::cleanup frees    *)
(* them.  protocolgame.cpp 80-424, player.cpp and game.cpp where they touch *)
(* the session.  The dispatcher runs the tasks in their order; the network  *)
(* thread, the scheduler and the game's own events put steps in between.    *)
EXTENDS Integers, Sequences, FiniteSets

CONSTANTS
  Session,             \* the game sessions that ever connect
  Avatar,              \* the Player objects memory has room for
  NoSession, NoAvatar  \* null pointers

ASSUME SessionAssumption ==
  /\ IsFiniteSet(Session) /\ NoSession \notin Session
  /\ IsFiniteSet(Avatar) /\ NoAvatar \notin Avatar

VARIABLES
  life,         \* the connection of a session, then its protocol object
  first,        \* m_receivedFirst
  accepts,      \* m_acceptPackets
  player,       \* ProtocolGame::player
  target,       \* the player connect() is scheduled for, which holds the session
  timers,       \* the sessions whose connect() waits in the scheduler
  tasks,        \* the dispatcher's tasks
  status,       \* a Player object: free, made but not placed, online, removed
  client,       \* Player::client
  isConnecting, \* Player::isConnecting
  refs,         \* Creature::referenceCounter
  check,        \* in the lists of checkCreatures: no, yes, or to be dropped
  toRelease,    \* how often an object stands in ToReleaseCreatures
  overtaken     \* history: connect() came before the close it was to wait for

netVars == <<life, tasks>>
sessionVars == <<first, accepts, player, target, timers>>
avatarVars == <<status, client, isConnecting, overtaken, refs, check, toRelease>>
vars == <<netVars, sessionVars, avatarVars>>

Job == {"login", "refuse", "connect", "logout", "close"}
Task(job, s) == [job |-> job, session |-> s]

TypeOK ==
  /\ life \in [Session -> {"unborn", "open", "closing", "released", "deleted"}]
  /\ first \in [Session -> BOOLEAN]
  /\ accepts \in [Session -> BOOLEAN]
  /\ player \in [Session -> Avatar \cup {NoAvatar}]
  /\ target \in [Session -> Avatar \cup {NoAvatar}]
  /\ timers \in SUBSET Session
  /\ tasks \in Seq([job : Job, session : Session])
  /\ status \in [Avatar -> {"free", "made", "online", "removed"}]
  /\ client \in [Avatar -> Session \cup {NoSession}]
  /\ isConnecting \in [Avatar -> BOOLEAN]
  /\ refs \in [Avatar -> Nat]
  /\ check \in [Avatar -> {"no", "yes", "leaving"}]
  /\ toRelease \in [Avatar -> Nat]
  /\ overtaken \in [Avatar -> BOOLEAN]

Init ==
  /\ life = [s \in Session |-> "unborn"]
  /\ first = [s \in Session |-> FALSE] /\ accepts = [s \in Session |-> FALSE]
  /\ player = [s \in Session |-> NoAvatar] /\ target = [s \in Session |-> NoAvatar]
  /\ timers = {} /\ tasks = <<>>
  /\ status = [a \in Avatar |-> "free"] /\ client = [a \in Avatar |-> NoSession]
  /\ isConnecting = [a \in Avatar |-> FALSE] /\ overtaken = [a \in Avatar |-> FALSE]
  /\ refs = [a \in Avatar |-> 0]
  /\ check = [a \in Avatar |-> "no"] /\ toRelease = [a \in Avatar |-> 0]

-----------------------------------------------------------------------------
(* What the steps share; ts is the task list without the task that runs.    *)

\* Connection::close(), once: its task detaches the protocol.  The null pointer
\* stands for a session whose connection is gone, where nothing is to close.
Close(s, ts) ==
  IF s # NoSession /\ life[s] = "open"
    THEN /\ life' = [life EXCEPT ![s] = "closing"]
         /\ tasks' = Append(ts, Task("close", s))
    ELSE life' = life /\ tasks' = ts

\* Mutant: the check list is not told.
RemoveUnchecked(a) ==
  IF status[a] = "online"
    THEN /\ status' = [status EXCEPT ![a] = "removed"]
         /\ toRelease' = [toRelease EXCEPT ![a] = @ + 1]
         /\ UNCHANGED check
    ELSE UNCHANGED <<status, toRelease, check>>

\* removeCreature: the map's reference waits in ToReleaseCreatures, and the
\* check list drops its own when it comes by.
Remove(a) ==
  IF status[a] = "online"
    THEN /\ status' = [status EXCEPT ![a] = "removed"]
         /\ toRelease' = [toRelease EXCEPT ![a] = @ + 1]
         /\ check' = [check EXCEPT ![a] = IF @ = "yes" THEN "leaving" ELSE @]
    ELSE UNCHANGED <<status, toRelease, check>>

Runs(job, s) == tasks # <<>> /\ Head(tasks) = Task(job, s)
Online == {a \in Avatar : status[a] = "online"}

-----------------------------------------------------------------------------
(* The network thread.                                                      *)

Accept(s) ==
  /\ life[s] = "unborn"
  /\ life' = [life EXCEPT ![s] = "open"]
  /\ UNCHANGED <<tasks, sessionVars, avatarVars>>

\* onRecvFirstMessage: the login, or a refusal, becomes a task.
FirstMessage(s, job) ==
  /\ life[s] = "open" /\ ~first[s]
  /\ first' = [first EXCEPT ![s] = TRUE]
  /\ tasks' = Append(tasks, Task(job, s))
  /\ UNCHANGED <<life, accepts, player, target, timers, avatarVars>>

\* Bound: a client has one request to log out on its way at a time.
LogoutPacket(s) ==
  /\ life[s] = "open" /\ accepts[s] /\ player[s] # NoAvatar
  /\ \A i \in DOMAIN tasks : tasks[i] # Task("logout", s)
  /\ tasks' = Append(tasks, Task("logout", s))
  /\ UNCHANGED <<life, sessionVars, avatarVars>>

\* The peer goes, a timeout, a packet that closes.
Drop(s) ==
  /\ life[s] = "open"
  /\ Close(s, tasks)
  /\ UNCHANGED <<sessionVars, avatarVars>>

\* The scheduler brings connect() to the front of the dispatcher's list.
TimeIsUp(s) ==
  /\ s \in timers
  /\ timers' = timers \ {s}
  /\ tasks' = <<Task("connect", s)>> \o tasks
  /\ UNCHANGED <<life, first, accepts, player, target, avatarVars>>

-----------------------------------------------------------------------------
(* The dispatcher: tasks of a session.                                      *)

\* login() of a name that is not online makes a Player.  It is refused before
\* it is placed, or placed, or placed and kicked by its onLogin script.  A
\* scheduled connect() names its player by an id, which a new one never has.
LoginNew(s, a, outcome) ==
  /\ Runs("login", s)
  /\ Online = {} /\ status[a] = "free" /\ \A r \in Session : target[r] # a
  /\ player' = [player EXCEPT ![s] = a]
  /\ client' = [client EXCEPT ![a] = s]
  /\ isConnecting' = [isConnecting EXCEPT ![a] = FALSE]
  /\ overtaken' = [overtaken EXCEPT ![a] = FALSE]
  /\ accepts' = [accepts EXCEPT ![s] = (outcome # "refused")]
  /\ \/ /\ outcome = "refused"
        /\ status' = [status EXCEPT ![a] = "made"]
        /\ refs' = [refs EXCEPT ![a] = 1]
        /\ Close(s, Tail(tasks))
        /\ UNCHANGED <<check, toRelease>>
     \/ /\ outcome = "placed"
        /\ status' = [status EXCEPT ![a] = "online"]
        /\ refs' = [refs EXCEPT ![a] = 3]
        /\ check' = [check EXCEPT ![a] = "yes"]
        /\ tasks' = Tail(tasks)
        /\ UNCHANGED <<life, toRelease>>
     \/ /\ outcome = "kicked"
        /\ status' = [status EXCEPT ![a] = "removed"]
        /\ refs' = [refs EXCEPT ![a] = 3]
        /\ check' = [check EXCEPT ![a] = "leaving"]
        /\ toRelease' = [toRelease EXCEPT ![a] = 1]
        /\ Close(s, Tail(tasks))
  /\ UNCHANGED <<first, target, timers>>

\* The client is on its way out: its close, or the release that is tried again,
\* was due before a connect() that came to the front of the tasks.
StillCloses(c) == c # NoSession /\ life[c] # "open"

\* Mutant: the player is taken over without a reference to him.
AttachUncounted(s, a, ts) ==
  IF status[a] # "online" \/ client[a] # NoSession
    THEN /\ Close(s, ts)
         /\ overtaken' = [overtaken EXCEPT ![a] = @ \/ StillCloses(client[a])]
         /\ UNCHANGED <<player, accepts, client, isConnecting, refs>>
    ELSE /\ player' = [player EXCEPT ![s] = a]
         /\ accepts' = [accepts EXCEPT ![s] = TRUE]
         /\ client' = [client EXCEPT ![a] = s]
         /\ isConnecting' = [isConnecting EXCEPT ![a] = FALSE]
         /\ overtaken' = [overtaken EXCEPT ![a] = FALSE]
         /\ refs' = refs
         /\ life' = life /\ tasks' = ts

\* Mutant: connect() does not look whether another session was faster.
AttachAnyway(s, a, ts) ==
  IF status[a] # "online"
    THEN /\ Close(s, ts)
         /\ overtaken' = [overtaken EXCEPT ![a] = @ \/ StillCloses(client[a])]
         /\ UNCHANGED <<player, accepts, client, isConnecting, refs>>
    ELSE /\ player' = [player EXCEPT ![s] = a]
         /\ accepts' = [accepts EXCEPT ![s] = TRUE]
         /\ client' = [client EXCEPT ![a] = s]
         /\ isConnecting' = [isConnecting EXCEPT ![a] = FALSE]
         /\ overtaken' = [overtaken EXCEPT ![a] = FALSE]
         /\ refs' = [refs EXCEPT ![a] = @ + 1]
         /\ life' = life /\ tasks' = ts

\* Mutant: isConnecting is not reset.
AttachStillConnecting(s, a, ts) ==
  IF status[a] # "online" \/ client[a] # NoSession
    THEN /\ Close(s, ts)
         /\ overtaken' = [overtaken EXCEPT ![a] = @ \/ StillCloses(client[a])]
         /\ UNCHANGED <<player, accepts, client, isConnecting, refs>>
    ELSE /\ player' = [player EXCEPT ![s] = a]
         /\ accepts' = [accepts EXCEPT ![s] = TRUE]
         /\ client' = [client EXCEPT ![a] = s]
         /\ isConnecting' = isConnecting
         /\ overtaken' = [overtaken EXCEPT ![a] = FALSE]
         /\ refs' = [refs EXCEPT ![a] = @ + 1]
         /\ life' = life /\ tasks' = ts

\* connect(): the session takes the player over, unless another one did.
Attach(s, a, ts) ==
  IF status[a] # "online" \/ client[a] # NoSession
    THEN /\ Close(s, ts)
         /\ overtaken' = [overtaken EXCEPT ![a] = @ \/ StillCloses(client[a])]
         /\ UNCHANGED <<player, accepts, client, isConnecting, refs>>
    ELSE /\ player' = [player EXCEPT ![s] = a]
         /\ accepts' = [accepts EXCEPT ![s] = TRUE]
         /\ client' = [client EXCEPT ![a] = s]
         /\ isConnecting' = [isConnecting EXCEPT ![a] = FALSE]
         /\ overtaken' = [overtaken EXCEPT ![a] = FALSE]
         /\ refs' = [refs EXCEPT ![a] = @ + 1]
         /\ life' = life /\ tasks' = ts

\* login() of a player who is online, with or without replaceKickOnLogin, which
\* may be reloaded: refused, or his client is disconnected and connect() comes
\* after 1000 ms, or he has none and is taken over.
LoginOnline(s, a, replace) ==
  /\ Runs("login", s)
  /\ status[a] = "online"
  /\ IF replace /\ client[a] # NoSession
       THEN /\ Close(client[a], Tail(tasks))
            /\ isConnecting' = [isConnecting EXCEPT ![a] = TRUE]
            /\ target' = [target EXCEPT ![s] = a]
            /\ timers' = timers \cup {s}
            /\ UNCHANGED <<player, accepts, client, overtaken, refs>>
       ELSE /\ IF replace THEN Attach(s, a, Tail(tasks))
               ELSE /\ Close(s, Tail(tasks))
                    /\ UNCHANGED <<player, accepts, client, isConnecting, overtaken, refs>>
            /\ UNCHANGED <<target, timers>>
  /\ UNCHANGED <<first, status, check, toRelease>>

\* Mutant: connect() forgets unRef().
ConnectKeepsRef(s) ==
  /\ Runs("connect", s)
  /\ Attach(s, target[s], Tail(tasks))
  /\ UNCHANGED <<first, target, timers, status, check, toRelease>>

\* The scheduled connect().
Connect(s) ==
  /\ Runs("connect", s)
  /\ target' = [target EXCEPT ![s] = NoAvatar]
  /\ Attach(s, target[s], Tail(tasks))
  /\ UNCHANGED <<first, timers, status, check, toRelease>>

\* disconnectClient, the task of a refused first message.
Refuse(s) ==
  /\ Runs("refuse", s)
  /\ Close(s, Tail(tasks))
  /\ UNCHANGED <<sessionVars, avatarVars>>

\* logout(), asked for by the client: refused in a fight or by a script.
Logout(s, allowed) ==
  /\ Runs("logout", s)
  /\ IF player[s] = NoAvatar \/ (status[player[s]] = "online" /\ ~allowed)
       THEN life' = life /\ tasks' = Tail(tasks) /\ UNCHANGED <<status, toRelease, check>>
       ELSE Close(s, Tail(tasks)) /\ Remove(player[s])
  /\ UNCHANGED <<sessionVars, client, isConnecting, overtaken, refs>>

\* Mutant: login() keeps no reference while connect() is on its way.
ReleaseProtocolUnheld(s, messages) ==
  LET a == player[s]
      held == messages IN
  /\ client' = IF a # NoAvatar /\ client[a] = s
                 THEN [client EXCEPT ![a] = NoSession] ELSE client
  /\ life' = [life EXCEPT ![s] = IF held THEN "released" ELSE "deleted"]
  /\ IF held \/ a = NoAvatar
       THEN UNCHANGED <<player, toRelease>>
       ELSE /\ player' = [player EXCEPT ![s] = NoAvatar]
            /\ toRelease' = [toRelease EXCEPT ![a] = @ + 1]
  /\ UNCHANGED <<first, accepts, target, timers, status, isConnecting, overtaken, refs, check>>

\* releaseProtocol(), and deleteProtocolTask() once nothing holds the session:
\* neither a connect() that will come nor an output message.
ReleaseProtocol(s, messages) ==
  LET a == player[s]
      held == target[s] # NoAvatar \/ messages IN
  /\ client' = IF a # NoAvatar /\ client[a] = s
                 THEN [client EXCEPT ![a] = NoSession] ELSE client
  /\ life' = [life EXCEPT ![s] = IF held THEN "released" ELSE "deleted"]
  /\ IF held \/ a = NoAvatar
       THEN UNCHANGED <<player, toRelease>>
       ELSE /\ player' = [player EXCEPT ![s] = NoAvatar]
            /\ toRelease' = [toRelease EXCEPT ![a] = @ + 1]
  /\ UNCHANGED <<first, accepts, target, timers, status, isConnecting, overtaken, refs, check>>

CloseTask(s, messages) ==
  /\ Runs("close", s)
  /\ tasks' = Tail(tasks)
  /\ ReleaseProtocol(s, messages)

\* The scheduler tries again after 50 ms.
RetryRelease(s, messages) ==
  /\ life[s] = "released"
  /\ ReleaseProtocol(s, messages)
  /\ UNCHANGED tasks

-----------------------------------------------------------------------------
(* The dispatcher: the game's own events.                                   *)

\* kickPlayer, by the idle check, a script or a closing server.
Kick(a) ==
  /\ status[a] = "online"
  /\ Close(client[a], tasks)
  /\ Remove(a)
  /\ UNCHANGED <<sessionVars, client, isConnecting, overtaken, refs>>

\* sendPing, when no pong came for a minute: not while someone is connecting.
LostConnection(a) ==
  /\ ~isConnecting[a]
  /\ Kick(a)

\* onDeath: the session stays to show it.
Die(a) ==
  /\ status[a] = "online"
  /\ Remove(a)
  /\ UNCHANGED <<netVars, sessionVars, client, isConnecting, overtaken, refs>>

\* checkCreatures drops the members of one list, B of them, then cleanup()
\* gives back every reference that waits.
CheckCreatures(B) ==
  LET given == [a \in Avatar |-> toRelease[a] + IF a \in B THEN 1 ELSE 0]
      freed == {a \in Avatar : given[a] > 0 /\ refs[a] = given[a]} IN
  /\ \A a \in B : check[a] = "leaving"
  /\ check' = [a \in Avatar |-> IF a \in B THEN "no" ELSE check[a]]
  /\ toRelease' = [a \in Avatar |-> 0]
  /\ refs' = [a \in Avatar |-> refs[a] - given[a]]
  /\ status' = [a \in Avatar |-> IF a \in freed THEN "free" ELSE status[a]]
  /\ client' = [a \in Avatar |-> IF a \in freed THEN NoSession ELSE client[a]]
  /\ UNCHANGED <<netVars, sessionVars, isConnecting, overtaken>>

NetNext ==
  \E s \in Session :
    \/ Accept(s)
    \/ \E job \in {"login", "refuse"} : FirstMessage(s, job)
    \/ LogoutPacket(s) \/ Drop(s) \/ TimeIsUp(s)

TaskNext ==
  \E s \in Session :
    \/ \E a \in Avatar :
         \/ \E outcome \in {"refused", "placed", "kicked"} : LoginNew(s, a, outcome)
         \/ \E replace \in BOOLEAN : LoginOnline(s, a, replace)
    \/ Connect(s) \/ Refuse(s)
    \/ \E allowed \in BOOLEAN : Logout(s, allowed)
    \/ \E messages \in BOOLEAN : CloseTask(s, messages) \/ RetryRelease(s, messages)

GameNext ==
  \/ \E a \in Avatar : Kick(a) \/ LostConnection(a) \/ Die(a)
  \/ \E B \in SUBSET Avatar : CheckCreatures(B)

Next == NetNext \/ TaskNext \/ GameNext

\* The dispatcher runs its tasks, the scheduler brings its events and the checks
\* come round; output messages leave the pool in the end, and a character
\* without a client stands where he may be logged out, his script agreeing.
Fairness ==
  /\ WF_vars(\E s \in Session :
       \/ \E a \in Avatar :
            \/ \E outcome \in {"refused", "placed", "kicked"} : LoginNew(s, a, outcome)
            \/ \E replace \in BOOLEAN : LoginOnline(s, a, replace)
       \/ Connect(s) \/ Refuse(s)
       \/ \E allowed \in BOOLEAN : Logout(s, allowed)
       \/ \E messages \in BOOLEAN : CloseTask(s, messages))
  /\ \A s \in Session : WF_vars(TimeIsUp(s)) /\ WF_vars(RetryRelease(s, FALSE))
  /\ \A a \in Avatar :
       /\ WF_vars(client[a] = NoSession /\ LostConnection(a))
       /\ WF_vars(\E B \in SUBSET Avatar : a \in B /\ CheckCreatures(B))
  /\ WF_vars(CheckCreatures({}))

Spec == Init /\ [][Next]_vars
LiveSpec == Spec /\ Fairness

-----------------------------------------------------------------------------
(* What must hold.                                                          *)

Holders(a) == {s \in Session : player[s] = a}

\* Whatever points to a Player points to one that was not freed.
NoDangling ==
  /\ \A s \in Session : player[s] # NoAvatar => status[player[s]] # "free"
  /\ \A a \in Avatar :
       status[a] = "free" =>
         refs[a] = 0 /\ check[a] = "no" /\ toRelease[a] = 0 /\ client[a] = NoSession

\* A task, or a connect() in the scheduler, holds its session by a raw pointer:
\* the session is not deleted before it runs, and those that use the connection
\* without a test (protocolgame.cpp:175) run before it is detached.
TasksFindSession ==
  /\ \A s \in timers : life[s] # "deleted"
  /\ \A i \in DOMAIN tasks :
       life[tasks[i].session] \in
         IF tasks[i].job = "connect" THEN {"open", "closing", "released"}
                                     ELSE {"open", "closing"}

\* Player::client is a raw pointer too: it names a session that is not deleted
\* and that controls this very player.
ClientIsLive ==
  \A a \in Avatar :
    client[a] # NoSession => life[client[a]] # "deleted" /\ player[client[a]] = a

\* A session whose connection is not detached is the client of its player: no
\* two of them steer one character, and a request to log out that comes late
\* never takes away a character that another session took over.
OpenSessionIsClient ==
  \A s \in Session :
    life[s] \in {"open", "closing"} /\ player[s] # NoAvatar => client[player[s]] = s

\* A player who is being connected to cannot be logged out (player.cpp:3897):
\* a connect() to him is on its way, or the last one was put in front by the
\* scheduler and overtook the close of the client it was to replace.
ConnectingIsPending ==
  \A a \in Online :
    isConnecting[a] => overtaken[a] \/ \E s \in Session : target[s] = a

\* A session that closes is deleted, whatever it holds.
SessionEnds == \A s \in Session : life[s] = "closing" ~> life[s] = "deleted"

\* A character left without a client is taken over or leaves the game, unless a
\* connect() to him overtook the close of his last client: he then stands there,
\* connecting to nobody, until a session logs him in.
AbandonedLeaves ==
  \A a \in Avatar :
    status[a] = "online" /\ client[a] = NoSession /\ ~overtaken[a]
      ~> status[a] # "online" \/ client[a] # NoSession

\* A character that left the game is freed once no session shows it.
RemovedIsFreed ==
  \A a \in Avatar :
    status[a] = "removed" /\ Holders(a) = {} ~> status[a] = "free"
=============================================================================
