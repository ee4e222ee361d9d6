---------------------------- MODULE RoyaleArena ----------------------------
(***************************************************************************)
(* The queue and the matches of an arena (data/lib/royale/arenas.lua).     *)
(* The scripts keep them in two tables: royale_arena, with the number of   *)
(* players and whether a match is on, and royale_arena_player, one row for *)
(* each player.  db.storeQuery reads a table at once, on the dispatcher;   *)
(* db.asyncQuery hands a write to the database thread, which runs them in  *)
(* order.  A read overtakes the writes that are still queued, also those   *)
(* of its own script.                                                      *)
(*                                                                         *)
(* A row names a Player object by its id, which each login draws anew,     *)
(* while the storage values 9999 (in which arena a player is) and 9998     *)
(* (whether he fights) stay with the character.  There is one arena, as in *)
(* installArenasTable().                                                   *)
(* The waves, the loot and the teleports are left out.                     *)
(***************************************************************************)
EXTENDS Integers, Sequences, FiniteSets

CONSTANTS
  Person,       \* the characters
  ToStart,      \* CONST_PLAYERS_TO_START
  MaxLogins,    \* bound: ids drawn
  MaxJoins,     \* bound: times somebody says !start
  MaxQueue      \* bound: writes queued at the database thread

ASSUME ArenaAssumption ==
  /\ IsFiniteSet(Person) /\ ToStart \in Nat \ {0, 1}
  /\ MaxLogins \in Nat /\ MaxJoins \in Nat /\ MaxQueue \in Nat \ {0}

VARIABLES
  id,          \* of the Player in the world, 0 for who is not
  lastId,      \* Player::playerAutoID
  joined,      \* storage 9999 (CONST_ARENA_ID) names the arena
  inBattle,    \* storage 9998 (CONST_ARENA_IN_BATTLE) is 1
  rows,        \* royale_arena_player: the ids; an insert follows a delete of the same id
  players,     \* royale_arena.players_in_arena
  inMatch,     \* royale_arena.in_match
  queue,       \* writes queued at the database thread
  declaring,   \* events of declareWinner that have not come yet
  preparing,   \* startArenaReadyToStart() is between its two reads
  winners,     \* history: the ids that doWinnerPlayer was called for
  joins,       \* bound
  disorder     \* ghost: the scripts met something they are not made for

vars == <<id, lastId, joined, inBattle, rows, players, inMatch, queue,
          declaring, preparing, winners, joins, disorder>>
world == <<id, lastId, joined, inBattle>>
tables == <<rows, players, inMatch>>

Ids == 1..MaxLogins

Write == [op : {"DeleteRow", "InsertRow"}, id : Ids]
         \union [op : {"SetPlayers"}, n : Nat]
         \union [op : {"Start", "End", "Clear"}]

DeleteRow(i) == [op |-> "DeleteRow", id |-> i]
InsertRow(i) == [op |-> "InsertRow", id |-> i]
SetPlayers(n) == [op |-> "SetPlayers", n |-> n]
Start == [op |-> "Start"]
End == [op |-> "End"]
Clear == [op |-> "Clear"]

TypeOK ==
  /\ id \in [Person -> 0..MaxLogins] /\ lastId \in 0..MaxLogins
  /\ joined \in [Person -> BOOLEAN] /\ inBattle \in [Person -> BOOLEAN]
  /\ rows \subseteq Ids /\ players \in Nat /\ inMatch \in BOOLEAN
  /\ queue \in Seq(Write) /\ declaring \in Nat
  /\ preparing \in BOOLEAN /\ winners \subseteq Ids /\ joins \in 0..MaxJoins /\ disorder \in BOOLEAN

\* onStartup() queues clearAllArena(): the tables and the storage values are as the
\* server before left them, and its ids come again.
Init ==
  /\ id = [p \in Person |-> 0] /\ lastId = 0
  /\ joined \in [Person -> BOOLEAN] /\ inBattle \in [Person -> BOOLEAN]
  /\ \A p \in Person : inBattle[p] => joined[p]
  /\ rows \in SUBSET ({1} \intersect Ids) /\ players \in {0, ToStart} /\ inMatch \in BOOLEAN
  /\ queue = <<Clear, End>>
  /\ declaring = 0 /\ preparing = FALSE /\ winners = {} /\ joins = 0 /\ disorder = FALSE

-----------------------------------------------------------------------------
(* The database thread. *)

\* What a write makes of the rows.
Written(r, w) ==
  CASE w.op = "DeleteRow" -> r \ {w.id}
    [] w.op = "InsertRow" -> r \union {w.id}
    [] w.op = "Clear" -> {}
    [] OTHER -> r

\* The rows once everything queued has been written: those that are there, or are
\* inserted, and that no later write deletes.
FinalRows ==
  {i \in Ids : \E k \in 0..Len(queue) :
     /\ IF k = 0 THEN i \in rows ELSE queue[k] = InsertRow(i)
     /\ \A l \in (k + 1)..Len(queue) : queue[l] \notin {DeleteRow(i), Clear}}

RunWrite ==
  LET w == Head(queue) IN
  /\ queue /= <<>>
  /\ queue' = Tail(queue)
  /\ rows' = Written(rows, w)
  /\ players' = CASE w.op = "SetPlayers" -> w.n
                  [] w.op = "End" -> 0
                  [] OTHER -> players
  /\ inMatch' = CASE w.op = "Start" -> TRUE
                  [] w.op = "End" -> FALSE
                  [] OTHER -> inMatch
  /\ UNCHANGED <<world, declaring, preparing, winners, joins, disorder>>

-----------------------------------------------------------------------------
(* The scripts, each in one task of the dispatcher.                         *)

\* A task starts: none is in its middle, and its writes find room.
Idle == ~preparing /\ Len(queue) + 3 <= MaxQueue

\* What a script reads is not what it and the others have written.
Overtakes == queue /= <<>>

\* onLogin calls doResetPlayer.
Login(p) ==
  /\ Idle /\ id[p] = 0 /\ lastId < MaxLogins
  /\ lastId' = lastId + 1
  /\ id' = [id EXCEPT ![p] = lastId + 1]
  /\ inBattle' = [inBattle EXCEPT ![p] = FALSE]
  /\ UNCHANGED <<joined, tables, queue, declaring, preparing, winners, joins, disorder>>

InsertPlayerInArena(p) ==
  <<SetPlayers(players + 1), DeleteRow(id[p]), InsertRow(id[p])>>

\* !start.
SayStart(p) ==
  /\ Idle /\ id[p] /= 0 /\ joins < MaxJoins
  /\ joins' = joins + 1
  /\ inBattle' = [inBattle EXCEPT ![p] = FALSE]
  /\ IF inMatch
     THEN UNCHANGED <<joined, queue, disorder>>
     ELSE /\ queue' = queue \o InsertPlayerInArena(p)
          /\ joined' = [joined EXCEPT ![p] = TRUE]
          /\ disorder' = (disorder \/ Overtakes \/ declaring > 0
                            \/ id[p] \in rows)
  /\ UNCHANGED <<id, lastId, tables, declaring, preparing, winners>>

\* Mutant: a player who leaves keeps his row.
RemoveNoRow(p) ==
  /\ queue' = Append(queue, IF players - 1 <= 1 THEN End ELSE SetPlayers(players - 1))
  /\ declaring' = declaring + IF players - 1 <= 1 THEN 1 ELSE 0

\* Mutant: the match goes on until the last has left.
RemoveTooLate(p) ==
  /\ queue' = queue \o <<DeleteRow(id[p]),
                         IF players - 1 <= 0 THEN End ELSE SetPlayers(players - 1)>>
  /\ declaring' = declaring + IF players - 1 <= 0 THEN 1 ELSE 0

\* Mutant: the match ends with two.
RemoveTooSoon(p) ==
  /\ queue' = queue \o <<DeleteRow(id[p]),
                         IF players - 1 <= 2 THEN End ELSE SetPlayers(players - 1)>>
  /\ declaring' = declaring + IF players - 1 <= 2 THEN 1 ELSE 0

DoRemovePlayerFromArena(p) ==
  /\ queue' = queue \o <<DeleteRow(id[p]),
                         IF players - 1 <= 1 THEN End ELSE SetPlayers(players - 1)>>
  /\ declaring' = declaring + IF players - 1 <= 1 THEN 1 ELSE 0

\* A player leaves the world.  Who was ever in the arena is taken out of it, whether
\* he still has a row or not.
Leave(p) ==
  /\ Idle /\ id[p] /= 0
  /\ IF joined[p]
     THEN /\ DoRemovePlayerFromArena(p)
          /\ disorder' = (disorder \/ Overtakes \/ id[p] \notin rows)
     ELSE UNCHANGED <<queue, declaring, disorder>>
  /\ id' = [id EXCEPT ![p] = 0]
  /\ UNCHANGED <<lastId, joined, tables, preparing, winners, joins>>

\* onLogout, which leaves storage 9998 as it is.
Logout(p) == Leave(p) /\ UNCHANGED inBattle

\* onDeath calls doResetPlayer first.
Death(p) == Leave(p) /\ inBattle' = [inBattle EXCEPT ![p] = FALSE]

\* Mutant: the arena need not be full.
ReadyAlone == ~inMatch /\ players >= 1

Ready == ~inMatch /\ players >= ToStart

\* Every 10 s: the first read, and the write of in_match.
StartArenaReadyToStart ==
  /\ Idle /\ Ready
  /\ queue' = Append(queue, Start)
  /\ preparing' = TRUE
  /\ disorder' = (disorder \/ Overtakes)
  /\ UNCHANGED <<world, tables, declaring, winners, joins>>

\* The second read: who has a row goes to battle.
PreparePlayersFromArena ==
  /\ preparing
  /\ preparing' = FALSE
  /\ inBattle' = [p \in Person |-> inBattle[p] \/ (id[p] /= 0 /\ id[p] \in rows)]
  /\ UNCHANGED <<id, lastId, joined, tables, queue, declaring, winners, joins, disorder>>

\* A second after a match has ended.  The query gives one of the rows, without
\* an order; if its player is gone, nobody wins.
DeclareWinner ==
  /\ Idle /\ declaring > 0
  /\ declaring' = declaring - 1
  /\ IF rows = {}
     THEN UNCHANGED <<inBattle, queue, winners>>
     ELSE \E i \in rows :
            IF \E p \in Person : id[p] = i
            THEN /\ inBattle' = [p \in Person |-> inBattle[p] /\ id[p] /= i]
                 /\ queue' = queue \o <<DeleteRow(i), End>>
                 /\ winners' = winners \union {i}
            ELSE UNCHANGED <<inBattle, queue, winners>>
  /\ disorder' = (disorder \/ Overtakes)
  /\ UNCHANGED <<id, lastId, joined, tables, preparing, joins>>

Next ==
  \/ RunWrite
  \/ \E p \in Person : Login(p) \/ SayStart(p) \/ Logout(p) \/ Death(p)
  \/ StartArenaReadyToStart \/ PreparePlayersFromArena \/ DeclareWinner

Spec == Init /\ [][Next]_vars

\* The database thread, the task that runs, the timers of the scheduler.
FairSpec ==
  /\ Spec
  /\ WF_vars(RunWrite) /\ WF_vars(PreparePlayersFromArena)
  /\ WF_vars(DeclareWinner) /\ WF_vars(StartArenaReadyToStart)

-----------------------------------------------------------------------------

\* Once the queue has run, every row is of a player in the world: each way out
\* of the world deletes the row, also one not inserted yet, and the rows the
\* server before left are cleared (doRemovePlayerFromArena, clearAllArena).
RowsOfPresent == \A i \in FinalRows : \E p \in Person : id[p] = i

\* When the end of a match is announced one player is left at most: nobody wins
\* while others fight.  It holds as long as the scripts meet one another with no
\* write queued, nobody says !start twice or while a winner is being declared,
\* and nobody leaves the world whose row is gone.
OneSurvivor == declaring > 0 /\ ~disorder => Cardinality(FinalRows) <= 1

\* Nobody is sent to battle alone: enough players of the world are, who have a row.
NobodyFightsAlone ==
  [][PreparePlayersFromArena /\ ~disorder =>
       Cardinality({p \in Person : id[p] \in rows /\ inBattle'[p]}) >= ToStart]_vars

\* A match that has one player left ends, and he is declared its winner and fights
\* no longer, unless he leaves the world before that; under the same reservation.
\* (Who logs out in the second before declareWinner has won nothing and is marked as
\* fighting until his next login.)
LastOneWins ==
  \A i \in Ids :
    (inMatch /\ FinalRows = {i})
       ~> \/ ~inMatch /\ i \in winners /\ \A p \in Person : id[p] = i => ~inBattle[p]
          \/ \A p \in Person : id[p] /= i
          \/ disorder
=============================================================================
