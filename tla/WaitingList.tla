---------------------------- MODULE WaitingList ----------------------------
(* Who may enter a full server: waitlist.cpp, as ProtocolGame::login() uses *)
(* it (protocolgame.cpp 159-179).  Everything runs on the dispatcher, each  *)
(* login in one task; what is hard is the long sequence of logins, retries, *)
(* entries that time out and players that leave.  A timeout is kept as the  *)
(* seconds from the login that set it: any entry may have timed out when    *)
(* the next login cleans the lists up.  The names of this module keep clear *)
(* of GameSession's, since the proofs about logins extend both.             *)
EXTENDS Integers, Sequences, FiniteSets, Functions

CONSTANTS
  Client,      \* the characters, by GUID
  Premium,     \* those with a premium account
  Exempt,      \* those with PlayerFlag_CanAlwaysLogin
  MaxPlayers,  \* the option of that name; 0 would switch the list off
  MaxSlips     \* bound: how often the sizes of the lists go wrong

ASSUME WaitingAssumption ==
  /\ IsFiniteSet(Client) /\ Premium \subseteq Client /\ Exempt \subseteq Client
  /\ MaxPlayers \in Nat \ {0} /\ MaxSlips \in Nat

VARIABLES
  priorityWaitList, waitList,  \* the GUIDs, in order
  slips,    \* priorityWaitList.size() exceeds, waitList.size() lacks so many
  timeout,  \* of each entry, in seconds from the login that set it
  retry,    \* the seconds that login told the client to wait
  online    \* the players in the game

waitingVars == <<priorityWaitList, waitList, slips, timeout, retry, online>>

Waiting == Range(priorityWaitList) \cup Range(waitList)

WaitingTypeOK ==
  /\ priorityWaitList \in Seq(Client) /\ waitList \in Seq(Client)
  /\ slips \in 0..MaxSlips
  /\ DOMAIN timeout = Waiting /\ DOMAIN retry = Waiting
  /\ \A c \in Waiting : timeout[c] \in 15..135 /\ retry[c] \in 0..120
  /\ online \subseteq Client

WaitingInit ==
  /\ priorityWaitList = <<>> /\ waitList = <<>> /\ slips = 0
  /\ timeout = <<>> /\ retry = <<>> /\ online = {}

-----------------------------------------------------------------------------

GetTime(slot) ==
  CASE slot < 5 -> 5
    [] slot \in 5..9 -> 10
    [] slot \in 10..19 -> 20
    [] slot \in 20..49 -> 60
    [] OTHER -> 120

\* The slot of a client who waits.
FindClient(p, w, c) == CHOOSE i \in DOMAIN (p \o w) : (p \o w)[i] = c

\* cleanupList: the entries are looked at from the first to the last, and what timed
\* out goes.
CleanupList(list, expired) ==
  LET kept[i \in 0..Len(list)] ==
        IF i = 0 THEN <<>>
        ELSE IF list[i] \in expired THEN kept[i - 1] ELSE Append(kept[i - 1], list[i])
  IN kept[Len(list)]

\* The list without the client's entry, if it has one.
Erase(list, c) == CleanupList(list, {c})

\* The entries that remain, with what client c is told now.
Remember(p, w, c, time) ==
  LET stay == Range(p) \cup Range(w) IN
  /\ timeout' = [d \in stay |-> IF d = c THEN time ELSE timeout[d]]
  /\ retry' = [d \in stay |-> IF d = c THEN GetTime(FindClient(p, w, c)) ELSE retry[d]]

\* The client is let in; placing the player may still fail.
Enter(c, placed) == online' = IF placed THEN online \cup {c} ELSE online

-----------------------------------------------------------------------------

\* Nobody waits and there is room, or the client may always enter.
LoginAtOnce(c, placed) ==
  /\ c \notin online
  /\ c \in Exempt \/ (Waiting = {} /\ Cardinality(online) < MaxPlayers)
  /\ Enter(c, placed)
  /\ UNCHANGED <<priorityWaitList, waitList, slips, timeout, retry>>

\* Mutant: whoever asks first is let in.
LoginFromListFirst(c, expired, placed) ==
  LET p == CleanupList(priorityWaitList, expired)
      w == CleanupList(waitList, expired) IN
  /\ c \notin online \cup Exempt
  /\ Waiting # {} \/ Cardinality(online) >= MaxPlayers
  /\ c \in Range(p) \cup Range(w)
  /\ Cardinality(online) < MaxPlayers
  /\ priorityWaitList' = Erase(p, c) /\ waitList' = Erase(w, c)
  /\ UNCHANGED slips
  /\ Remember(priorityWaitList', waitList', c, 0)
  /\ Enter(c, placed)

\* Mutant: slots count from zero.
LoginFromListOneMore(c, expired, placed) ==
  LET p == CleanupList(priorityWaitList, expired)
      w == CleanupList(waitList, expired) IN
  /\ c \notin online \cup Exempt
  /\ Waiting # {} \/ Cardinality(online) >= MaxPlayers
  /\ c \in Range(p) \cup Range(w)
  /\ Cardinality(online) + FindClient(p, w, c) - 1 <= MaxPlayers
  /\ priorityWaitList' = Erase(p, c) /\ waitList' = Erase(w, c)
  /\ UNCHANGED slips
  /\ Remember(priorityWaitList', waitList', c, 0)
  /\ Enter(c, placed)

\* A client of the list whose slot there is room for.  The erase() is that of
\* waitList even for an entry of priorityWaitList: where a list stores its size,
\* the wrong one shrinks.  Their sum stays right.
LoginFromList(c, expired, placed) ==
  LET p == CleanupList(priorityWaitList, expired)
      w == CleanupList(waitList, expired) IN
  /\ c \notin online \cup Exempt
  /\ Waiting # {} \/ Cardinality(online) >= MaxPlayers
  /\ c \in Range(p) \cup Range(w)
  /\ Cardinality(online) + FindClient(p, w, c) <= MaxPlayers
  /\ priorityWaitList' = Erase(p, c) /\ waitList' = Erase(w, c)
  /\ IF c \in Range(p) /\ slips < MaxSlips
       THEN slips' \in {slips, slips + 1} ELSE UNCHANGED slips
  /\ Remember(priorityWaitList', waitList', c, 0)
  /\ Enter(c, placed)

WaitLonger(c, expired) ==
  LET p == CleanupList(priorityWaitList, expired)
      w == CleanupList(waitList, expired) IN
  /\ c \notin online \cup Exempt
  /\ Waiting # {} \/ Cardinality(online) >= MaxPlayers
  /\ c \in Range(p) \cup Range(w)
  /\ Cardinality(online) + FindClient(p, w, c) > MaxPlayers
  /\ priorityWaitList' = p /\ waitList' = w
  /\ Remember(p, w, c, GetTime(FindClient(p, w, c)) + 15)
  /\ UNCHANGED <<slips, online>>

\* Mutant: the slot is counted in the client's own part of the list.
JoinOwnPart(c, expired) ==
  LET p == CleanupList(priorityWaitList, expired)
      w == CleanupList(waitList, expired) IN
  /\ c \notin online \cup Exempt
  /\ Waiting # {} \/ Cardinality(online) >= MaxPlayers
  /\ c \notin Range(p) \cup Range(w)
  /\ IF c \in Premium
       THEN /\ priorityWaitList' = Append(p, c) /\ waitList' = w
            /\ Remember(Append(p, c), w, c, GetTime(Len(p) + slips + 1) + 15)
       ELSE /\ priorityWaitList' = p /\ waitList' = Append(w, c)
            /\ Remember(p, Append(w, c), c, GetTime(Len(w) + 1) + 15)
  /\ UNCHANGED <<slips, online>>

\* A client who is not in the list is put at the end of his part of it.
Join(c, expired) ==
  LET p == CleanupList(priorityWaitList, expired)
      w == CleanupList(waitList, expired) IN
  /\ c \notin online \cup Exempt
  /\ Waiting # {} \/ Cardinality(online) >= MaxPlayers
  /\ c \notin Range(p) \cup Range(w)
  /\ IF c \in Premium
       THEN /\ priorityWaitList' = Append(p, c) /\ waitList' = w
            /\ Remember(Append(p, c), w, c, GetTime(Len(p) + slips + 1) + 15)
       ELSE /\ priorityWaitList' = p /\ waitList' = Append(w, c)
            /\ Remember(p, Append(w, c), c, GetTime(Len(p) + Len(w) + 1) + 15)
  /\ UNCHANGED <<slips, online>>

Leave(c) ==
  /\ c \in online
  /\ online' = online \ {c}
  /\ UNCHANGED <<priorityWaitList, waitList, slips, timeout, retry>>

WaitingNext ==
  \E c \in Client :
    \/ Leave(c)
    \/ \E placed \in BOOLEAN : LoginAtOnce(c, placed)
    \/ \E expired \in SUBSET Waiting :
         \/ \E placed \in BOOLEAN : LoginFromList(c, expired, placed)
         \/ WaitLonger(c, expired)
         \/ Join(c, expired)

WaitingSpec == WaitingInit /\ [][WaitingNext]_waitingVars

-----------------------------------------------------------------------------
(* What must hold.                                                          *)

\* The server never takes more players than the option allows, but for those
\* who may always enter.
NeverOverfull == Cardinality(online \ Exempt) <= MaxPlayers

\* A client has one place to wait, and none while he plays: the entry is taken
\* out when he enters, so nobody waits behind a client who is in.
OnePlace ==
  /\ Cardinality(Waiting) = Len(priorityWaitList) + Len(waitList)
  /\ Waiting \cap online \subseteq Exempt

\* Letting a client in never takes the room of one who waits before him: those
\* for whom there was a place when he came still find it.
RoomAhead(p, w, c) ==
  \A d \in Range(p) \cup Range(w) :
    FindClient(p, w, d) < FindClient(p, w, c) /\ d \in Waiting'
      => Cardinality(online') + FindClient(priorityWaitList', waitList', d) <= MaxPlayers
NoOvertaking ==
  [][\A c \in Waiting \ Exempt :
       c \in online' \ online => RoomAhead(priorityWaitList, waitList, c)]_waitingVars

\* "timeout is set to 15 seconds longer than expected retry attempt"
\* (waitlist.cpp:65): the entry outlives the wait its client was told.  That is
\* so until an erase() through the wrong list has left a size wrong.
TimeoutOutlivesRetry == slips = 0 => \A c \in Waiting : timeout[c] = retry[c] + 15
=============================================================================
