------------------------- MODULE RoyaleArenaProofs -------------------------
(***************************************************************************)
(* The rows of the arena are of players in the world, a match ends with    *)
(* one player at most and begins with enough of them: for any number of    *)
(* characters, logins and writes in the queue.                             *)
(*                                                                         *)
(* What is in the tables while writes are queued says little; what carries *)
(* the proofs is what the tables will be once the queue has run: a write   *)
(* that is run changes nothing of that (LeftTail, SaidTail), and one that  *)
(* is queued does what it says (LeftAppend, SaidAppend).                   *)
(***************************************************************************)
EXTENDS RoyaleArena, FiniteSetTheorems, TLAPS

-----------------------------------------------------------------------------
(* What queued writes leave of the rows, and of the number of players.      *)

\* FinalRows, of any rows and any queue.
Left(r, q) ==
  {i \in Ids : \E k \in 0..Len(q) :
     /\ IF k = 0 THEN i \in r ELSE q[k] = InsertRow(i)
     /\ \A l \in (k + 1)..Len(q) : q[l] \notin {DeleteRow(i), Clear}}

\* What the queue will leave of the rows, in the words of this module.
LEMMA FinalIsLeft ==
  /\ FinalRows = Left(rows, queue)
  /\ FinalRows' = Left(rows', queue')
  BY DEF FinalRows, Left

\* The writes that set players_in_arena, and what to.
Counts(w) == w.op \in {"SetPlayers", "End"}
Says(w, n) == w = SetPlayers(n) \/ (n = 0 /\ w = End)

\* players_in_arena is n once the queue has run.
Said(c, q, n) ==
  \E k \in 0..Len(q) :
    /\ IF k = 0 THEN c = n ELSE Says(q[k], n)
    /\ \A l \in (k + 1)..Len(q) : ~Counts(q[l])

\* The writes that the scripts queue.
LEMMA Writes ==
  /\ Clear \in Write /\ End \in Write /\ Start \in Write
  /\ \A i \in Ids : DeleteRow(i) \in Write /\ InsertRow(i) \in Write
  /\ \A n \in Nat : SetPlayers(n) \in Write
  /\ \A w \in Write : \/ w \in {Clear, End, Start}
                      \/ \E i \in Ids : w \in {DeleteRow(i), InsertRow(i)}
                      \/ \E n \in Nat : w = SetPlayers(n)
  BY DEF Write, Clear, End, Start, DeleteRow, InsertRow, SetPlayers

\* What a write does to a row.
LEMMA WrittenRow ==
  ASSUME NEW r \in SUBSET Ids, NEW w \in Write
  PROVE  /\ Written(r, w) \in SUBSET Ids
         /\ \A i \in Ids : i \in Written(r, w) <=>
              \/ w = InsertRow(i)
              \/ i \in r /\ w \notin {DeleteRow(i), Clear}
  BY DEF Write, Written, Clear, DeleteRow, InsertRow

\* An empty queue leaves the rows as they are, ...
LEMMA LeftEmpty == \A r \in SUBSET Ids : Left(r, <<>>) = r
  BY DEF Left

\* ... one write more is written last, ...
LEMMA LeftAppend ==
  ASSUME NEW r \in SUBSET Ids, NEW q \in Seq(Write), NEW w \in Write
  PROVE  Left(r, Append(q, w)) = Written(Left(r, q), w)
<1> DEFINE q1 == Append(q, w)
           n == Len(q)
<1>1. Len(q1) = n + 1 /\ q1[n + 1] = w /\ (\A l \in 1..n : q1[l] = q[l]) /\ n \in Nat
  OBVIOUS
<1>2. Left(r, q) \in SUBSET Ids
  BY DEF Left
<1> SUFFICES ASSUME NEW i \in Ids PROVE i \in Left(r, q1) <=> i \in Written(Left(r, q), w)
  BY <1>2, WrittenRow DEF Left
<1> HIDE DEF q1, n
<1>3. ASSUME i \in Left(r, q1) PROVE w = InsertRow(i) \/ (i \in Left(r, q) /\ w \notin {DeleteRow(i), Clear})
  <2>1. PICK k \in 0..(n + 1) : /\ IF k = 0 THEN i \in r ELSE q1[k] = InsertRow(i)
                               /\ \A l \in (k + 1)..(n + 1) : q1[l] \notin {DeleteRow(i), Clear}
    BY <1>1, <1>3 DEF Left
  <2>2. CASE k = n + 1
    BY <1>1, <2>1, <2>2
  <2>3. CASE k \in 0..n
    <3>1. w \notin {DeleteRow(i), Clear}
      BY <1>1, <2>1, <2>3
    <3>2. /\ IF k = 0 THEN i \in r ELSE q[k] = InsertRow(i)
          /\ \A l \in (k + 1)..n : q[l] \notin {DeleteRow(i), Clear}
      BY <1>1, <2>1, <2>3
    <3> QED BY <2>3, <3>1, <3>2 DEF Left, n
  <2> QED BY <1>1, <2>1, <2>2, <2>3
<1>4. ASSUME w = InsertRow(i) PROVE i \in Left(r, q1)
  <2>1. n + 1 \in 0..Len(q1) /\ n + 1 /= 0 /\ q1[n + 1] = InsertRow(i)
    BY <1>1, <1>4
  <2>2. \A l \in ((n + 1) + 1)..Len(q1) : FALSE
    BY <1>1
  <2> QED BY <2>1, <2>2 DEF Left
<1>5. ASSUME i \in Left(r, q), w \notin {DeleteRow(i), Clear} PROVE i \in Left(r, q1)
  <2>1. PICK k \in 0..n : /\ IF k = 0 THEN i \in r ELSE q[k] = InsertRow(i)
                         /\ \A l \in (k + 1)..n : q[l] \notin {DeleteRow(i), Clear}
    BY <1>5 DEF Left, n
  <2>2. k \in 0..Len(q1) /\ (IF k = 0 THEN i \in r ELSE q1[k] = InsertRow(i))
    BY <1>1, <2>1
  <2>3. \A l \in (k + 1)..Len(q1) : q1[l] \notin {DeleteRow(i), Clear}
    BY <1>1, <1>5, <2>1
  <2> QED BY <2>2, <2>3 DEF Left
<1> QED BY <1>2, <1>3, <1>4, <1>5, WrittenRow

\* ... and running the first changes nothing of the outcome.
LEMMA LeftTail ==
  ASSUME NEW r \in SUBSET Ids, NEW q \in Seq(Write), q /= <<>>
  PROVE  Left(Written(r, Head(q)), Tail(q)) = Left(r, q)
<1> DEFINE q1 == Tail(q)
           n == Len(q)
           w == Head(q)
<1>1. /\ n \in Nat \ {0} /\ Len(q1) = n - 1 /\ w = q[1] /\ w \in Write
      /\ \A l \in 1..(n - 1) : q1[l] = q[l + 1]
  OBVIOUS
<1> SUFFICES ASSUME NEW i \in Ids PROVE i \in Left(Written(r, w), q1) <=> i \in Left(r, q)
  BY DEF Left
<1> HIDE DEF q1, n, w
<1>2. ASSUME i \in Left(Written(r, w), q1) PROVE i \in Left(r, q)
  <2>1. PICK k \in 0..(n - 1) : /\ IF k = 0 THEN i \in Written(r, w) ELSE q1[k] = InsertRow(i)
                               /\ \A l \in (k + 1)..(n - 1) : q1[l] \notin {DeleteRow(i), Clear}
    BY <1>1, <1>2 DEF Left
  <2>2. \A l \in (k + 2)..n : q[l] \notin {DeleteRow(i), Clear}
    <3> SUFFICES ASSUME NEW l \in (k + 2)..n PROVE q[l] \notin {DeleteRow(i), Clear}
      OBVIOUS
    <3>1. l - 1 \in (k + 1)..(n - 1) /\ l - 1 \in 1..(n - 1) /\ (l - 1) + 1 = l
      BY <1>1
    <3> QED BY <1>1, <2>1, <3>1
  <2>3. CASE k = 0 /\ w /= InsertRow(i)
    <3>1. i \in r /\ q[1] \notin {DeleteRow(i), Clear}
      BY <1>1, <2>1, <2>3, WrittenRow
    <3>2. \A l \in 1..n : q[l] \notin {DeleteRow(i), Clear}
      BY <1>1, <2>2, <2>3, <3>1
    <3>3. 0 \in 0..n
      BY <1>1
    <3> QED BY <3>1, <3>2, <3>3 DEF Left, n
  <2>4. CASE k /= 0 \/ w = InsertRow(i)
    <3>1. k + 1 \in 0..n /\ k + 1 /= 0 /\ q[k + 1] = InsertRow(i)
      BY <1>1, <2>1, <2>4
    <3>2. \A l \in ((k + 1) + 1)..n : q[l] \notin {DeleteRow(i), Clear}
      BY <2>2
    <3> QED BY <3>1, <3>2 DEF Left, n
  <2> QED BY <2>3, <2>4
<1>3. ASSUME i \in Left(r, q) PROVE i \in Left(Written(r, w), q1)
  <2>1. PICK k \in 0..n : /\ IF k = 0 THEN i \in r ELSE q[k] = InsertRow(i)
                         /\ \A l \in (k + 1)..n : q[l] \notin {DeleteRow(i), Clear}
    BY <1>3 DEF Left, n
  <2>2. CASE k \in {0, 1}
    <3>1. i \in Written(r, w)
      <4>1. CASE k = 0
        <5>1. 1 \in (k + 1)..n
          BY <1>1, <4>1
        <5> QED BY <1>1, <2>1, <4>1, <5>1, WrittenRow
      <4>2. CASE k = 1
        BY <1>1, <2>1, <4>2, WrittenRow
      <4> QED BY <2>2, <4>1, <4>2
    <3>2. \A l \in 1..(n - 1) : q1[l] \notin {DeleteRow(i), Clear}
      <4> SUFFICES ASSUME NEW l \in 1..(n - 1) PROVE q1[l] \notin {DeleteRow(i), Clear}
        OBVIOUS
      <4>1. l + 1 \in (k + 1)..n
        BY <1>1, <2>2
      <4> QED BY <1>1, <2>1, <4>1
    <3>3. 0 \in 0..Len(q1)
      BY <1>1
    <3>4. Len(q1) = n - 1
      BY <1>1
    <3> QED BY <3>1, <3>2, <3>3, <3>4 DEF Left
  <2>3. CASE k \in 2..n
    <3>1. k - 1 \in 0..Len(q1) /\ k - 1 /= 0 /\ q1[k - 1] = InsertRow(i)
      <4>1. k - 1 \in 1..(n - 1) /\ (k - 1) + 1 = k
        BY <1>1, <2>3
      <4> QED BY <1>1, <2>1, <2>3, <4>1
    <3>2. \A l \in ((k - 1) + 1)..Len(q1) : q1[l] \notin {DeleteRow(i), Clear}
      <4> SUFFICES ASSUME NEW l \in ((k - 1) + 1)..Len(q1) PROVE q1[l] \notin {DeleteRow(i), Clear}
        OBVIOUS
      <4>1. l + 1 \in (k + 1)..n /\ l \in 1..(n - 1)
        BY <1>1, <2>3
      <4> QED BY <1>1, <2>1, <4>1
    <3> QED BY <3>1, <3>2 DEF Left
  <2> QED BY <1>1, <2>2, <2>3
<1> QED BY <1>2, <1>3

-----------------------------------------------------------------------------
(* Types.                                                                   *)

\* The code's concatenations append.
LEMMA Joining ==
  ASSUME NEW S, NEW q \in Seq(S), NEW a \in S, NEW b \in S, NEW c \in S
  PROVE  /\ q \o <<a, b>> = Append(Append(q, a), b)
         /\ q \o <<a, b, c>> = Append(Append(Append(q, a), b), c)
  OBVIOUS

\* Every step keeps the types.
LEMMA TypeStep == TypeOK /\ [Next]_vars => TypeOK'
<1> SUFFICES ASSUME TypeOK, [Next]_vars PROVE TypeOK'
  OBVIOUS
<1>1. MaxLogins \in Nat /\ MaxJoins \in Nat /\ MaxQueue \in Nat
  BY ArenaAssumption
<1>2. \A p \in Person : id[p] \in 0..MaxLogins /\ (id[p] /= 0 => id[p] \in Ids)
  BY <1>1 DEF TypeOK, Ids
<1>3. CASE RunWrite
  <2> DEFINE w == Head(queue)
  <2>1. w \in Write /\ Tail(queue) \in Seq(Write)
    BY <1>3 DEF RunWrite, TypeOK
  <2>2. Written(rows, w) \in SUBSET Ids
    BY <2>1, WrittenRow DEF TypeOK
  <2>3. w.op = "SetPlayers" => w.n \in Nat
    BY <2>1 DEF Write
  <2> HIDE DEF w
  <2>4. rows' = Written(rows, w) /\ queue' = Tail(queue)
    BY <1>3 DEF RunWrite, w
  <2>5. players' \in Nat
    BY <1>3, <2>3 DEF RunWrite, TypeOK, w
  <2>6. inMatch' \in BOOLEAN
    BY <1>3 DEF RunWrite, TypeOK, w
  <2> QED BY <1>3, <2>1, <2>2, <2>4, <2>5, <2>6 DEF RunWrite, TypeOK, world
<1>4. ASSUME NEW p \in Person, Login(p) PROVE TypeOK'
  BY <1>1, <1>4 DEF Login, TypeOK, tables
<1>5. ASSUME NEW p \in Person, SayStart(p) PROVE TypeOK'
  <2>1. id[p] \in Ids /\ players + 1 \in Nat
    BY <1>2, <1>5 DEF SayStart, TypeOK
  <2>2. queue \o InsertPlayerInArena(p) \in Seq(Write)
    BY <2>1, Writes DEF InsertPlayerInArena, TypeOK
  <2>3. queue' \in Seq(Write) /\ joined' \in [Person -> BOOLEAN] /\ disorder' \in BOOLEAN
    BY <1>5, <2>2 DEF SayStart, TypeOK, Overtakes
  <2>4. joins' \in 0..MaxJoins
    BY <1>1, <1>5 DEF SayStart, TypeOK
  <2>5. inBattle' \in [Person -> BOOLEAN]
    BY <1>5 DEF SayStart, TypeOK
  <2>6. /\ id' = id /\ lastId' = lastId /\ rows' = rows /\ players' = players
        /\ inMatch' = inMatch /\ declaring' = declaring /\ preparing' = preparing
        /\ winners' = winners
    BY <1>5 DEF SayStart, tables
  <2> QED BY <2>3, <2>4, <2>5, <2>6 DEF TypeOK
<1>6. ASSUME NEW p \in Person, Logout(p) \/ Death(p) PROVE TypeOK'
  <2>0. Leave(p)
    BY <1>6 DEF Logout, Death
  <2>1. id[p] \in Ids
    BY <1>2, <2>0 DEF Leave
  <2>2. queue' \in Seq(Write) /\ declaring' \in Nat /\ disorder' \in BOOLEAN
    <3>1. CASE joined[p]
      <4> DEFINE w == IF players - 1 <= 1 THEN End ELSE SetPlayers(players - 1)
      <4>1. w \in Write
        BY Writes DEF TypeOK
      <4>2. queue \o <<DeleteRow(id[p]), w>> \in Seq(Write)
        BY <2>1, <4>1, Writes DEF TypeOK
      <4> HIDE DEF w
      <4>3. queue' = queue \o <<DeleteRow(id[p]), w>>
        BY <2>0, <3>1 DEF Leave, DoRemovePlayerFromArena, w
      <4>4. declaring' \in Nat /\ disorder' \in BOOLEAN
        BY <2>0, <3>1 DEF Leave, DoRemovePlayerFromArena, TypeOK, Overtakes
      <4> QED BY <4>2, <4>3, <4>4
    <3>2. CASE ~joined[p]
      BY <2>0, <3>2 DEF Leave, TypeOK
    <3> QED BY <3>1, <3>2
  <2>3. inBattle' \in [Person -> BOOLEAN]
    BY <1>6 DEF Logout, Death, TypeOK
  <2>4. /\ id' = [id EXCEPT ![p] = 0] /\ lastId' = lastId /\ joined' = joined
        /\ rows' = rows /\ players' = players /\ inMatch' = inMatch
        /\ preparing' = preparing /\ winners' = winners /\ joins' = joins
    BY <2>0 DEF Leave, tables
  <2> QED BY <1>1, <2>2, <2>3, <2>4 DEF TypeOK
<1>7. CASE StartArenaReadyToStart
  <2>1. queue' \in Seq(Write)
    BY <1>7, Writes DEF StartArenaReadyToStart, TypeOK
  <2>2. disorder' \in BOOLEAN
    BY <1>7 DEF StartArenaReadyToStart, TypeOK, Overtakes
  <2> QED BY <1>7, <2>1, <2>2 DEF StartArenaReadyToStart, TypeOK, tables, world
<1>8. CASE PreparePlayersFromArena
  BY <1>8 DEF PreparePlayersFromArena, TypeOK, tables
<1>9. CASE DeclareWinner
  <2>1. inBattle' \in [Person -> BOOLEAN] /\ queue' \in Seq(Write) /\ winners' \subseteq Ids
    <3>1. CASE UNCHANGED <<inBattle, queue, winners>>
      BY <3>1 DEF TypeOK
    <3>2. CASE ~UNCHANGED <<inBattle, queue, winners>>
      <4>1. PICK i \in rows : /\ inBattle' = [q \in Person |-> inBattle[q] /\ id[q] /= i]
                              /\ queue' = queue \o <<DeleteRow(i), End>>
                              /\ winners' = winners \union {i}
        BY <1>9, <3>2 DEF DeclareWinner
      <4>2. queue \o <<DeleteRow(i), End>> \in Seq(Write)
        BY Writes DEF TypeOK
      <4> QED BY <4>1, <4>2 DEF TypeOK
    <3> QED BY <3>1, <3>2
  <2>2. declaring' \in Nat /\ disorder' \in BOOLEAN
    BY <1>9 DEF DeclareWinner, TypeOK, Overtakes
  <2> QED BY <1>9, <2>1, <2>2 DEF DeclareWinner, TypeOK, tables
<1>10. CASE UNCHANGED vars
  BY <1>10 DEF vars, TypeOK
<1> QED BY <1>3, <1>4, <1>5, <1>6, <1>7, <1>8, <1>9, <1>10 DEF Next

\* Every variable of the arena keeps its type: what is read back from the tables is
\* what the scripts write (insertPlayerInArena, doRemovePlayerFromArena).
THEOREM TypeCorrect == Spec => []TypeOK
<1>1. Init => TypeOK
  <2>1. Init => queue \in Seq(Write)
    BY Writes DEF Init
  <2>2. Init => rows \in SUBSET Ids /\ players \in Nat
    BY ArenaAssumption DEF Init
  <2>3. Init => /\ id \in [Person -> 0..MaxLogins]
                /\ lastId \in 0..MaxLogins /\ joins \in 0..MaxJoins /\ declaring \in Nat
    BY ArenaAssumption DEF Init
  <2>4. Init => /\ joined \in [Person -> BOOLEAN] /\ inBattle \in [Person -> BOOLEAN]
                /\ inMatch \in BOOLEAN /\ preparing \in BOOLEAN /\ disorder \in BOOLEAN /\ winners \subseteq Ids
    BY Zenon DEF Init
  <2> QED BY <2>1, <2>2, <2>3, <2>4 DEF TypeOK
<1> QED BY <1>1, TypeStep, PTL DEF Spec

-----------------------------------------------------------------------------
(* The rows are of players in the world.                                    *)

\* What each kind of write does to the rows.
LEMMA WrittenForms ==
  ASSUME NEW r
  PROVE  /\ Written(r, Start) = r /\ Written(r, End) = r /\ Written(r, Clear) = {}
         /\ \A n : Written(r, SetPlayers(n)) = r
         /\ \A i : Written(r, DeleteRow(i)) = r \ {i} /\ Written(r, InsertRow(i)) = r \union {i}
  BY DEF Written, Start, End, Clear, SetPlayers, DeleteRow, InsertRow

\* What each script makes of the rows in the end.
LEMMA RowsStep ==
  ASSUME TypeOK
  PROVE  /\ RunWrite => FinalRows' = FinalRows
         /\ StartArenaReadyToStart \/ PreparePlayersFromArena => FinalRows' = FinalRows
         /\ UNCHANGED vars => FinalRows' = FinalRows
         /\ \A p \in Person :
              /\ Login(p) => FinalRows' = FinalRows
              /\ SayStart(p) =>
                   /\ id[p] \in Ids
                   /\ FinalRows' = IF inMatch THEN FinalRows ELSE FinalRows \union {id[p]}
              /\ Leave(p) =>
                   /\ id[p] \in Ids
                   /\ FinalRows' = IF joined[p] THEN FinalRows \ {id[p]} ELSE FinalRows
         /\ DeclareWinner =>
              \/ UNCHANGED queue /\ FinalRows' = FinalRows
              \/ \E i \in rows : /\ queue' = queue \o <<DeleteRow(i), End>>
                                 /\ FinalRows' = FinalRows \ {i}
<1>1. queue \in Seq(Write) /\ rows \in SUBSET Ids /\ FinalRows \in SUBSET Ids
  BY DEF TypeOK, FinalRows
<1>2. \A p \in Person : id[p] /= 0 => id[p] \in Ids
  BY ArenaAssumption DEF TypeOK, Ids
<1>3. ASSUME RunWrite PROVE FinalRows' = FinalRows
  BY <1>1, <1>3, LeftTail, FinalIsLeft DEF RunWrite
<1>4. ASSUME NEW a \in Write, NEW b \in Write, rows' = rows, queue' = queue \o <<a, b>>
      PROVE  FinalRows' = Written(Written(FinalRows, a), b)
  <2>1. Left(rows, Append(queue, a)) = Written(FinalRows, a)
    BY <1>1, LeftAppend, FinalIsLeft
  <2>2. Append(queue, a) \in Seq(Write)
    BY <1>1
  <2>3. Left(rows, Append(Append(queue, a), b)) = Written(Written(FinalRows, a), b)
    BY <1>1, <2>1, <2>2, LeftAppend
  <2>4. queue \o <<a, b>> = Append(Append(queue, a), b)
    BY <1>1, Joining
  <2> QED BY <1>4, <2>3, <2>4, FinalIsLeft
<1>5. ASSUME NEW a \in Write, NEW b \in Write, NEW c \in Write,
             rows' = rows, queue' = queue \o <<a, b, c>>
      PROVE  FinalRows' = Written(Written(Written(FinalRows, a), b), c)
  <2>1. Left(rows, Append(queue, a)) = Written(FinalRows, a)
    BY <1>1, LeftAppend, FinalIsLeft
  <2>2. Append(queue, a) \in Seq(Write)
    BY <1>1
  <2>3. Left(rows, Append(Append(queue, a), b)) = Written(Written(FinalRows, a), b)
    BY <1>1, <2>1, <2>2, LeftAppend
  <2>4. Append(Append(queue, a), b) \in Seq(Write)
    BY <2>2
  <2>5. Left(rows, Append(Append(Append(queue, a), b), c))
          = Written(Written(Written(FinalRows, a), b), c)
    BY <1>1, <2>3, <2>4, LeftAppend
  <2>6. queue \o <<a, b, c>> = Append(Append(Append(queue, a), b), c)
    BY <1>1, Joining
  <2> QED BY <1>5, <2>5, <2>6, FinalIsLeft
<1>6. UNCHANGED <<rows, queue>> => FinalRows' = FinalRows
  BY FinalIsLeft
<1>7. ASSUME NEW p \in Person, Login(p) PROVE FinalRows' = FinalRows
  BY <1>6, <1>7 DEF Login, tables
<1>8. ASSUME NEW p \in Person, SayStart(p)
      PROVE  /\ id[p] \in Ids
             /\ FinalRows' = IF inMatch THEN FinalRows ELSE FinalRows \union {id[p]}
  <2>1. id[p] \in Ids /\ players + 1 \in Nat
    BY <1>2, <1>8 DEF SayStart, TypeOK
  <2>2. CASE inMatch
    BY <1>6, <1>8, <2>1, <2>2 DEF SayStart, tables
  <2>3. CASE ~inMatch
    <3> DEFINE a == SetPlayers(players + 1)
               b == DeleteRow(id[p])
               c == InsertRow(id[p])
    <3>1. rows' = rows /\ queue' = queue \o <<a, b, c>>
      BY <1>8, <2>3 DEF SayStart, InsertPlayerInArena, tables
    <3>2. a \in Write /\ b \in Write /\ c \in Write
      BY <2>1, Writes
    <3>3. Written(Written(Written(FinalRows, a), b), c) = FinalRows \union {id[p]}
      <4>1. Written(FinalRows, a) = FinalRows
        BY WrittenForms
      <4>2. Written(FinalRows, b) = FinalRows \ {id[p]}
        BY WrittenForms
      <4>3. Written(FinalRows \ {id[p]}, c) = (FinalRows \ {id[p]}) \union {id[p]}
        BY WrittenForms
      <4> HIDE DEF a, b, c
      <4> QED BY <4>1, <4>2, <4>3
    <3> HIDE DEF a, b, c
    <3> QED BY <1>5, <2>1, <2>3, <3>1, <3>2, <3>3
  <2> QED BY <2>2, <2>3
<1>9. ASSUME NEW p \in Person, Leave(p)
      PROVE  id[p] \in Ids /\ FinalRows' = IF joined[p] THEN FinalRows \ {id[p]} ELSE FinalRows
  <2>1. id[p] \in Ids
    BY <1>2, <1>9 DEF Leave
  <2>2. CASE ~joined[p]
    BY <1>6, <1>9, <2>1, <2>2 DEF Leave, tables
  <2>3. CASE joined[p]
    <3> DEFINE a == DeleteRow(id[p])
               b == IF players - 1 <= 1 THEN End ELSE SetPlayers(players - 1)
    <3>1. rows' = rows /\ queue' = queue \o <<a, b>>
      BY <1>9, <2>3 DEF Leave, DoRemovePlayerFromArena, tables
    <3>2. a \in Write /\ b \in Write
      BY <2>1, Writes DEF TypeOK
    <3>3. Written(Written(FinalRows, a), b) = FinalRows \ {id[p]}
      <4>1. Written(FinalRows, a) = FinalRows \ {id[p]}
        BY WrittenForms
      <4>2. Written(FinalRows \ {id[p]}, b) = FinalRows \ {id[p]}
        BY WrittenForms
      <4> HIDE DEF a, b
      <4> QED BY <4>1, <4>2
    <3> HIDE DEF a, b
    <3> QED BY <1>4, <2>1, <2>3, <3>1, <3>2, <3>3
  <2> QED BY <2>2, <2>3
<1>10. ASSUME StartArenaReadyToStart PROVE FinalRows' = FinalRows
  <2>1. rows' = rows /\ queue' = Append(queue, Start)
    BY <1>10 DEF StartArenaReadyToStart, tables
  <2>2. FinalRows' = Written(FinalRows, Start)
    BY <1>1, <2>1, LeftAppend, FinalIsLeft, Writes
  <2> QED BY <2>2, WrittenForms
<1>11. ASSUME PreparePlayersFromArena PROVE FinalRows' = FinalRows
  BY <1>6, <1>11 DEF PreparePlayersFromArena, tables
<1>12. ASSUME DeclareWinner
       PROVE  \/ UNCHANGED queue /\ FinalRows' = FinalRows
              \/ \E i \in rows : /\ queue' = queue \o <<DeleteRow(i), End>>
                                 /\ FinalRows' = FinalRows \ {i}
  <2>1. rows' = rows
    BY <1>12 DEF DeclareWinner, tables
  <2>2. CASE UNCHANGED queue
    BY <1>6, <2>1, <2>2
  <2>3. CASE ~UNCHANGED queue
    <3>1. PICK i \in rows : queue' = queue \o <<DeleteRow(i), End>>
      BY <1>12, <2>3 DEF DeclareWinner
    <3>2. FinalRows' = Written(Written(FinalRows, DeleteRow(i)), End)
      BY <1>1, <1>4, <2>1, <3>1, Writes
    <3>3. FinalRows' = FinalRows \ {i}
      BY <3>2, WrittenForms
    <3> QED BY <3>1, <3>3
  <2> QED BY <2>2, <2>3
<1>13. ASSUME UNCHANGED vars PROVE FinalRows' = FinalRows
  BY <1>6, <1>13 DEF vars
<1> QED BY <1>3, <1>7, <1>8, <1>9, <1>10, <1>11, <1>12, <1>13

\* Ids are drawn in order, and who has a row, or will have, is marked as joined: so
\* that leaving, he deletes it.
RowsInv ==
  /\ RowsOfPresent
  /\ \A p \in Person : id[p] <= lastId /\ (id[p] \in FinalRows => joined[p])
  /\ \A p, q \in Person : id[p] = id[q] /\ id[p] /= 0 => p = q

\* Every step keeps the ids apart and the rows those of who joined, ...
LEMMA RowsInvStep == TypeOK /\ RowsInv /\ [Next]_vars => RowsInv'
<1> SUFFICES ASSUME TypeOK, RowsInv, [Next]_vars PROVE RowsInv'
  OBVIOUS
<1>1. lastId \in Nat /\ \A p \in Person : id[p] \in Nat
  BY ArenaAssumption DEF TypeOK
<1>2. CASE FinalRows' = FinalRows /\ UNCHANGED <<id, lastId, joined>>
  BY <1>2 DEF RowsInv, RowsOfPresent
<1>3. ASSUME NEW p \in Person, Login(p) PROVE RowsInv'
  <2>0. FinalRows' = FinalRows
    BY <1>3, RowsStep
  <2>1. /\ id[p] = 0 /\ lastId' = lastId + 1 /\ id' = [id EXCEPT ![p] = lastId + 1]
        /\ joined' = joined
    BY <1>3 DEF Login
  <2>2. \A i \in FinalRows : i <= lastId /\ i /= 0
    BY <1>1 DEF RowsInv, RowsOfPresent, FinalRows, Ids
  <2>3. lastId + 1 \notin FinalRows
    BY <1>1, <2>2
  <2>4. RowsOfPresent'
    <3> SUFFICES ASSUME NEW i \in FinalRows PROVE \E q \in Person : id'[q] = i
      BY <2>0 DEF RowsOfPresent
    <3>1. PICK q \in Person : id[q] = i
      BY DEF RowsInv, RowsOfPresent
    <3>2. q /= p
      BY <2>1, <2>2, <3>1
    <3> QED BY <2>1, <3>1, <3>2 DEF TypeOK
  <2>5. ASSUME NEW q \in Person
        PROVE  id'[q] <= lastId' /\ (id'[q] \in FinalRows' => joined'[q])
    <3>1. CASE q = p
      <4>1. id'[q] = lastId + 1
        BY <2>1, <3>1 DEF TypeOK
      <4> QED BY <1>1, <2>0, <2>1, <2>3, <4>1
    <3>2. CASE q /= p
      <4>1. id'[q] = id[q]
        BY <2>1, <3>2 DEF TypeOK
      <4> QED BY <1>1, <2>0, <2>1, <4>1 DEF RowsInv
    <3> QED BY <3>1, <3>2
  <2>6. ASSUME NEW q \in Person, NEW r \in Person, id'[q] = id'[r], id'[q] /= 0 PROVE q = r
    <3>1. \A s \in Person : id'[s] = IF s = p THEN lastId + 1 ELSE id[s]
      BY <2>1 DEF TypeOK
    <3>2. \A s \in Person : id[s] /= lastId + 1
      BY <1>1 DEF RowsInv
    <3> QED BY <2>6, <3>1, <3>2 DEF RowsInv
  <2> QED BY <2>4, <2>5, <2>6 DEF RowsInv
<1>4. ASSUME NEW p \in Person, SayStart(p) PROVE RowsInv'
  <2>1. id' = id /\ lastId' = lastId
    BY <1>4 DEF SayStart
  <2>2. CASE inMatch
    BY <1>2, <1>4, <2>1, <2>2, RowsStep DEF SayStart
  <2>3. CASE ~inMatch
    <3>1. id[p] /= 0 /\ joined' = [joined EXCEPT ![p] = TRUE]
      BY <1>4, <2>3 DEF SayStart
    <3>2. FinalRows' = FinalRows \union {id[p]}
      BY <1>4, <2>3, RowsStep
    <3>3. RowsOfPresent'
      BY <2>1, <3>2 DEF RowsInv, RowsOfPresent
    <3>4. ASSUME NEW q \in Person PROVE id[q] <= lastId /\ (id[q] \in FinalRows' => joined'[q])
      BY <3>1, <3>2 DEF RowsInv, TypeOK
    <3> QED BY <2>1, <3>3, <3>4 DEF RowsInv
  <2> QED BY <2>2, <2>3
<1>5. ASSUME NEW p \in Person, Leave(p) PROVE RowsInv'
  <2>0. /\ id[p] \in Ids
        /\ FinalRows' = IF joined[p] THEN FinalRows \ {id[p]} ELSE FinalRows
    BY <1>5, RowsStep
  <2>1. id' = [id EXCEPT ![p] = 0] /\ lastId' = lastId /\ joined' = joined
    BY <1>5 DEF Leave
  <2>2. id[p] \notin FinalRows'
    BY <2>0 DEF RowsInv
  <2>3. \A q \in Person : id'[q] = IF q = p THEN 0 ELSE id[q]
    BY <2>1 DEF TypeOK
  <2>4. RowsOfPresent'
    <3> SUFFICES ASSUME NEW i \in FinalRows' PROVE \E q \in Person : id'[q] = i
      BY DEF RowsOfPresent
    <3>1. i \in FinalRows /\ i /= id[p]
      BY <2>0, <2>2
    <3> QED BY <2>3, <3>1 DEF RowsInv, RowsOfPresent
  <2>5. 0 \notin FinalRows' /\ 0 <= lastId
    BY <1>1 DEF FinalRows, Ids
  <2>6. FinalRows' \subseteq FinalRows
    BY <2>0
  <2> QED BY <2>1, <2>3, <2>4, <2>5, <2>6 DEF RowsInv
<1>6. CASE DeclareWinner
  <2>1. FinalRows' \subseteq FinalRows /\ UNCHANGED <<id, lastId, joined>>
    BY <1>6, RowsStep DEF DeclareWinner
  <2> QED BY <2>1 DEF RowsInv, RowsOfPresent
<1>7. CASE RunWrite \/ StartArenaReadyToStart \/ PreparePlayersFromArena \/ UNCHANGED vars
  <2>1. UNCHANGED <<id, lastId, joined>>
    BY <1>7 DEF RunWrite, StartArenaReadyToStart, PreparePlayersFromArena, world, vars
  <2> QED BY <1>2, <1>7, <2>1, RowsStep
<1> QED BY <1>3, <1>4, <1>5, <1>6, <1>7 DEF Next, Logout, Death

\* clearAllArena() leaves no row, ...
LEMMA FirstCleared == Init => FinalRows = {}
<1> SUFFICES ASSUME Init PROVE FinalRows = {}
  OBVIOUS
<1>1. queue = Append(Append(<<>>, Clear), End) /\ rows \in SUBSET Ids
  BY DEF Init
<1>2. <<>> \in Seq(Write) /\ Append(<<>>, Clear) \in Seq(Write)
  BY Writes
<1>3. Left(rows, Append(<<>>, Clear)) = Written(Left(rows, <<>>), Clear)
  BY <1>1, <1>2, LeftAppend, Writes
<1>4. Left(rows, queue) = Written(Left(rows, Append(<<>>, Clear)), End)
  BY <1>1, <1>2, LeftAppend, Writes
<1> QED BY <1>3, <1>4, FinalIsLeft, WrittenForms

\* ... and it is so for good.
LEMMA RowsInvAlways == Spec => []RowsInv
<1>1. Init => RowsInv
  <2> SUFFICES ASSUME Init PROVE RowsInv
    OBVIOUS
  <2>1. FinalRows = {}
    BY FirstCleared
  <2> QED BY <2>1 DEF Init, RowsInv, RowsOfPresent
<1> QED BY <1>1, TypeCorrect, RowsInvStep, PTL DEF Spec

\* Once the queue has run, every row is of a player in the world, whatever order logins,
\* deaths, winners and late writes come in (doRemovePlayerFromArena, clearAllArena).
THEOREM RowsAreOfPresent == Spec => []RowsOfPresent
<1>1. RowsInv => RowsOfPresent
  BY DEF RowsInv
<1> QED BY <1>1, RowsInvAlways, PTL

-----------------------------------------------------------------------------
(* How many players the tables will count.                                  *)

\* What RunWrite makes of players_in_arena.
Counted(c, w) == CASE w.op = "SetPlayers" -> w.n
                   [] w.op = "End" -> 0
                   [] OTHER -> c

\* A write that counts says what it counts; any other leaves the count.
LEMMA SaysCounted ==
  ASSUME NEW w \in Write, NEW c
  PROVE  /\ Counts(w) => Says(w, Counted(c, w))
         /\ ~Counts(w) => Counted(c, w) = c
         /\ \A n : Says(w, n) => Counts(w) /\ n = Counted(c, w)
<1>1. CASE w \in {Clear, End, Start}
  BY <1>1 DEF Counts, Says, Counted, Clear, End, Start, SetPlayers
<1>2. ASSUME NEW i \in Ids, w \in {DeleteRow(i), InsertRow(i)}
      PROVE  w.op \in {"DeleteRow", "InsertRow"}
  BY <1>2 DEF DeleteRow, InsertRow
<1>3. CASE w.op \in {"DeleteRow", "InsertRow"}
  BY <1>3 DEF Counts, Says, Counted, Clear, End, SetPlayers
<1>4. ASSUME NEW n \in Nat, w = SetPlayers(n)
      PROVE  w.op = "SetPlayers" /\ w.n = n
  BY <1>4 DEF SetPlayers
<1>5. ASSUME NEW n \in Nat, w = SetPlayers(n), w.op = "SetPlayers", w.n = n
      PROVE  /\ Counts(w) /\ Says(w, n) /\ Counted(c, w) = n
             /\ \A m : Says(w, m) => m = n
  <2>1. \A m : SetPlayers(m).n = m
    BY DEF SetPlayers
  <2>2. w /= End
    BY <1>5 DEF End
  <2> QED BY <1>5, <2>1, <2>2 DEF Counts, Says, Counted
<1> QED BY <1>1, <1>2, <1>3, <1>4, <1>5, Writes

\* The same for the count of players: an empty queue leaves it, ...
LEMMA SaidEmpty == \A c, n : Said(c, <<>>, n) <=> c = n
  BY DEF Said

\* ... the last write that counts says it, ...
LEMMA SaidAppend ==
  ASSUME NEW c, NEW q \in Seq(Write), NEW w \in Write, NEW n
  PROVE  /\ Says(w, n) => Said(c, Append(q, w), n)
         /\ ~Counts(w) /\ Said(c, q, n) => Said(c, Append(q, w), n)
<1> DEFINE q1 == Append(q, w)
           m == Len(q)
<1>1. Len(q1) = m + 1 /\ q1[m + 1] = w /\ (\A l \in 1..m : q1[l] = q[l]) /\ m \in Nat
  OBVIOUS
<1> HIDE DEF q1
<1>2. ASSUME Says(w, n) PROVE Said(c, q1, n)
  <2>1. m + 1 \in 0..Len(q1) /\ m + 1 /= 0 /\ Says(q1[m + 1], n)
    BY <1>1, <1>2
  <2>2. \A l \in ((m + 1) + 1)..Len(q1) : FALSE
    BY <1>1
  <2> QED BY <2>1, <2>2 DEF Said
<1>3. ASSUME ~Counts(w), Said(c, q, n) PROVE Said(c, q1, n)
  <2>1. PICK k \in 0..m : /\ IF k = 0 THEN c = n ELSE Says(q[k], n)
                         /\ \A l \in (k + 1)..m : ~Counts(q[l])
    BY <1>3 DEF Said
  <2> HIDE DEF m
  <2>2. k \in 0..Len(q1) /\ (IF k = 0 THEN c = n ELSE Says(q1[k], n))
    BY <1>1, <2>1
  <2>3. \A l \in (k + 1)..Len(q1) : ~Counts(q1[l])
    BY <1>1, <1>3, <2>1
  <2> QED BY <2>2, <2>3 DEF Said
<1> QED BY <1>2, <1>3 DEF q1

\* ... and running the first changes nothing of the outcome.
LEMMA SaidTail ==
  ASSUME NEW c, NEW q \in Seq(Write), q /= <<>>, NEW n, Said(c, q, n)
  PROVE  Said(Counted(c, Head(q)), Tail(q), n)
<1> DEFINE q1 == Tail(q)
           m == Len(q)
           w == Head(q)
<1>1. /\ m \in Nat \ {0} /\ Len(q1) = m - 1 /\ w = q[1] /\ w \in Write
      /\ \A l \in 1..(m - 1) : q1[l] = q[l + 1]
  OBVIOUS
<1>2. PICK k \in 0..m : /\ IF k = 0 THEN c = n ELSE Says(q[k], n)
                       /\ \A l \in (k + 1)..m : ~Counts(q[l])
  BY DEF Said
<1> HIDE DEF q1, m, w
<1>3. CASE k \in {0, 1}
  <2>1. Counted(c, w) = n
    <3>1. CASE k = 0
      <4>1. 1 \in (k + 1)..m
        BY <1>1, <3>1
      <4> QED BY <1>1, <1>2, <3>1, <4>1, SaysCounted
    <3>2. CASE k = 1
      BY <1>1, <1>2, <3>2, SaysCounted
    <3> QED BY <1>3, <3>1, <3>2
  <2>2. \A l \in 1..Len(q1) : ~Counts(q1[l])
    <3> SUFFICES ASSUME NEW l \in 1..(m - 1) PROVE ~Counts(q1[l])
      BY <1>1
    <3>1. l + 1 \in (k + 1)..m
      BY <1>1, <1>3
    <3> QED BY <1>1, <1>2, <3>1
  <2>3. 0 \in 0..Len(q1)
    BY <1>1
  <2> QED BY <2>1, <2>2, <2>3 DEF Said, q1, w
<1>4. CASE k \in 2..m
  <2>1. k - 1 \in 0..Len(q1) /\ k - 1 /= 0 /\ Says(q1[k - 1], n)
    <3>1. k - 1 \in 1..(m - 1) /\ (k - 1) + 1 = k
      BY <1>1, <1>4
    <3> QED BY <1>1, <1>2, <1>4, <3>1
  <2>2. \A l \in ((k - 1) + 1)..Len(q1) : ~Counts(q1[l])
    <3> SUFFICES ASSUME NEW l \in ((k - 1) + 1)..Len(q1) PROVE ~Counts(q1[l])
      OBVIOUS
    <3>1. l + 1 \in (k + 1)..m /\ l \in 1..(m - 1)
      BY <1>1, <1>4
    <3> QED BY <1>1, <1>2, <3>1
  <2> QED BY <2>1, <2>2 DEF Said, q1, w
<1> QED BY <1>1, <1>2, <1>3, <1>4

\* Before the scripts met anything they are not made for: the players counted are the
\* rows, and when the end of a match is on its way, none is counted and one is left.
CountInv ==
  ~disorder =>
    IF declaring > 0 THEN Said(players, queue, 0) /\ Cardinality(FinalRows) <= 1
    ELSE Said(players, queue, Cardinality(FinalRows))

\* Who is sent to battle was counted, and nothing has been written since but the start.
PrepareInv ==
  preparing /\ ~disorder => queue \in {<<>>, <<Start>>} /\ Cardinality(rows) >= ToStart

\* Sets of rows are finite.
LEMMA RowsFinite ==
  ASSUME NEW r \in SUBSET Ids
  PROVE  /\ IsFiniteSet(r) /\ Cardinality(r) \in Nat
         /\ \A i : /\ Cardinality(r \ {i}) = IF i \in r THEN Cardinality(r) - 1 ELSE Cardinality(r)
                   /\ Cardinality(r \union {i}) = IF i \in r THEN Cardinality(r) ELSE Cardinality(r) + 1
<1>1. IsFiniteSet(Ids)
  BY ArenaAssumption, FS_Interval DEF Ids
<1>2. IsFiniteSet(r)
  BY <1>1, FS_Subset
<1> QED BY <1>2, FS_CardinalityType, FS_RemoveElement, FS_AddElement

\* Every step keeps the count in line with the rows, unless it brings disorder.
LEMMA CountStep == TypeOK /\ RowsInv /\ CountInv /\ [Next]_vars => CountInv'
<1> SUFFICES ASSUME TypeOK, RowsInv, CountInv, [Next]_vars, ~disorder' PROVE CountInv'
  BY DEF CountInv
<1> DEFINE n == Cardinality(FinalRows)
<1>1. /\ queue \in Seq(Write) /\ rows \in SUBSET Ids /\ FinalRows \in SUBSET Ids
      /\ declaring \in Nat /\ players \in Nat
  BY DEF TypeOK, FinalRows
<1>2. n \in Nat
  BY <1>1, RowsFinite
<1>3. ~disorder
  BY DEF Next, RunWrite, Login, SayStart, Logout, Death, Leave, StartArenaReadyToStart,
    PreparePlayersFromArena, DeclareWinner, vars
<1>4. IF declaring > 0 THEN Said(players, queue, 0) /\ n <= 1 ELSE Said(players, queue, n)
  BY <1>3 DEF CountInv
<1> HIDE DEF n
<1>5. ASSUME UNCHANGED declaring, FinalRows' = FinalRows,
             \A m : Said(players, queue, m) => Said(players', queue', m)
      PROVE  CountInv'
  BY <1>4, <1>5 DEF CountInv, n
<1>6. CASE RunWrite
  <2>1. /\ queue /= <<>> /\ queue' = Tail(queue) /\ declaring' = declaring
        /\ players' = Counted(players, Head(queue))
    BY <1>6 DEF RunWrite, Counted
  <2>2. \A m : Said(players, queue, m) => Said(players', queue', m)
    BY <1>1, <2>1, SaidTail
  <2> QED BY <1>5, <1>6, <2>1, <2>2, RowsStep
<1>7. ASSUME NEW p \in Person, Login(p) PROVE CountInv'
  BY <1>5, <1>7, RowsStep DEF Login, tables
<1>8. ASSUME queue = <<>>
      PROVE  /\ FinalRows = rows
             /\ IF declaring > 0 THEN players = 0 /\ n <= 1 ELSE players = n
  BY <1>1, <1>4, <1>8, SaidEmpty, LeftEmpty, FinalIsLeft
<1>9. ASSUME NEW p \in Person, SayStart(p) PROVE CountInv'
  <2>1. CASE inMatch
    BY <1>5, <1>9, <2>1, RowsStep DEF SayStart, tables
  <2>2. CASE ~inMatch
    <3>1. /\ queue = <<>> /\ ~(declaring > 0) /\ id[p] \notin rows
          /\ declaring' = declaring /\ players' = players
          /\ queue' = queue \o <<SetPlayers(players + 1), DeleteRow(id[p]), InsertRow(id[p])>>
      BY <1>9, <2>2 DEF SayStart, Overtakes, tables, InsertPlayerInArena
    <3>2. players = n /\ FinalRows = rows
      BY <1>8, <3>1
    <3>3. FinalRows' = FinalRows \union {id[p]} /\ id[p] \in Ids
      BY <1>9, <2>2, RowsStep
    <3>4. Cardinality(FinalRows') = n + 1
      BY <1>1, <3>1, <3>2, <3>3, RowsFinite DEF n
    <3>5. Said(players, queue', n + 1)
      <4> DEFINE a == SetPlayers(players + 1)
                 b == DeleteRow(id[p])
                 c == InsertRow(id[p])
      <4>1. a \in Write /\ b \in Write /\ c \in Write
        BY <1>1, <3>3, Writes
      <4>2. Says(a, n + 1) /\ ~Counts(b) /\ ~Counts(c)
        BY <3>2 DEF Says, Counts, DeleteRow, InsertRow
      <4>3. queue' = Append(Append(Append(queue, a), b), c)
        BY <1>1, <3>1, <4>1, Joining
      <4> HIDE DEF a, b, c
      <4>4. Append(queue, a) \in Seq(Write) /\ Append(Append(queue, a), b) \in Seq(Write)
        BY <1>1, <4>1
      <4>5. Said(players, Append(queue, a), n + 1)
        BY <1>1, <4>1, <4>2, SaidAppend
      <4>6. Said(players, Append(Append(queue, a), b), n + 1)
        BY <4>1, <4>2, <4>4, <4>5, SaidAppend
      <4> QED BY <4>1, <4>2, <4>3, <4>4, <4>6, SaidAppend
    <3> QED BY <3>1, <3>4, <3>5 DEF CountInv
  <2> QED BY <2>1, <2>2
<1>10. ASSUME NEW p \in Person, Leave(p) PROVE CountInv'
  <2>1. CASE ~joined[p]
    BY <1>5, <1>10, <2>1, RowsStep DEF Leave, tables
  <2>2. CASE joined[p]
    <3> DEFINE a == DeleteRow(id[p])
               b == IF players - 1 <= 1 THEN End ELSE SetPlayers(players - 1)
               m == IF players - 1 <= 1 THEN 0 ELSE players - 1
    <3>1. /\ queue = <<>> /\ id[p] \in rows /\ players' = players
          /\ declaring' = declaring + IF players - 1 <= 1 THEN 1 ELSE 0
          /\ queue' = queue \o <<a, b>>
      BY <1>10, <2>2 DEF Leave, DoRemovePlayerFromArena, Overtakes, tables
    <3>2. FinalRows = rows /\ (IF declaring > 0 THEN players = 0 /\ n <= 1 ELSE players = n)
      BY <1>8, <3>1
    <3>3. FinalRows' = FinalRows \ {id[p]} /\ id[p] \in Ids
      BY <1>10, <2>2, RowsStep
    <3>4. Cardinality(FinalRows') = n - 1
      BY <1>1, <3>1, <3>2, <3>3, RowsFinite DEF n
    <3>5. Said(players, queue', m)
      <4>1. a \in Write /\ b \in Write
        BY <1>1, <3>3, Writes
      <4>2. ~Counts(a) /\ Says(b, m)
        BY DEF Says, Counts, DeleteRow
      <4> HIDE DEF a, b, m
      <4>3. queue' = Append(Append(queue, a), b) /\ Append(queue, a) \in Seq(Write)
        BY <1>1, <3>1, <4>1, Joining
      <4> QED BY <4>1, <4>2, <4>3, SaidAppend
    <3>6. CASE players - 1 <= 1
      <4>1. declaring' > 0 /\ m = 0 /\ n - 1 <= 1
        BY <1>1, <1>2, <3>1, <3>2, <3>6
      <4> QED BY <3>1, <3>4, <3>5, <4>1 DEF CountInv
    <3>7. CASE ~(players - 1 <= 1)
      <4>1. ~(declaring' > 0) /\ m = n - 1
        BY <1>1, <1>2, <3>1, <3>2, <3>7
      <4> QED BY <3>1, <3>4, <3>5, <4>1 DEF CountInv
    <3> QED BY <3>6, <3>7
  <2> QED BY <2>1, <2>2
<1>11. CASE StartArenaReadyToStart
  <2>1. /\ queue' = Append(queue, Start) /\ UNCHANGED <<declaring, players>>
    BY <1>11 DEF StartArenaReadyToStart, tables
  <2>2. Start \in Write /\ ~Counts(Start)
    BY Writes DEF Counts, Start
  <2>3. \A m : Said(players, queue, m) => Said(players', queue', m)
    BY <1>1, <2>1, <2>2, SaidAppend
  <2> QED BY <1>5, <1>11, <2>1, <2>3, RowsStep
<1>12. CASE PreparePlayersFromArena
  BY <1>5, <1>12, RowsStep DEF PreparePlayersFromArena, tables
<1>13. CASE DeclareWinner
  <2>1. /\ queue = <<>> /\ declaring > 0 /\ declaring' = declaring - 1 /\ players' = players
    BY <1>13 DEF DeclareWinner, Overtakes, tables
  <2>2. FinalRows = rows /\ players = 0 /\ n <= 1
    BY <1>8, <2>1
  <2>3. CASE rows = {}
    <3>1. UNCHANGED queue
      BY <1>13, <2>3 DEF DeclareWinner
    <3>2. FinalRows' = {} /\ Cardinality(FinalRows') = 0
      BY <2>1, <2>2, <2>3, <3>1, FinalIsLeft, FS_EmptySet, <1>13 DEF DeclareWinner, tables
    <3>3. Said(players', queue', 0)
      BY <2>1, <2>2, <3>1, SaidEmpty
    <3> QED BY <3>2, <3>3 DEF CountInv
  <2>4. CASE rows /= {}
    <3>1. \A i \in rows : \E p \in Person : id[p] = i
      BY <2>2 DEF RowsInv, RowsOfPresent
    <3>2. PICK i \in rows : queue' = queue \o <<DeleteRow(i), End>> /\ FinalRows' = FinalRows \ {i}
      <4>1. \E i \in rows : queue' = queue \o <<DeleteRow(i), End>>
        BY <1>13, <2>4, <3>1 DEF DeclareWinner
      <4>2. queue' /= queue
        BY <2>1, <4>1
      <4> QED BY <1>13, <4>2, RowsStep
    <3>3. FinalRows' = {}
      <4>1. FinalRows \ {i} \in SUBSET Ids
        BY <1>1
      <4>2. IsFiniteSet(FinalRows \ {i}) /\ Cardinality(FinalRows \ {i}) \in Nat
        BY <4>1, RowsFinite
      <4>3. Cardinality(FinalRows \ {i}) = n - 1
        BY <1>1, <2>2, <3>2, RowsFinite DEF n
      <4>4. Cardinality(FinalRows \ {i}) = 0
        BY <1>2, <2>2, <4>2, <4>3
      <4> QED BY <3>2, <4>2, <4>4, FS_EmptySet
    <3>4. Cardinality(FinalRows') = 0
      BY <3>3, FS_EmptySet
    <3>5. Said(players', queue', 0)
      <4>1. queue' = Append(Append(queue, DeleteRow(i)), End) /\ Append(queue, DeleteRow(i)) \in Seq(Write)
        BY <1>1, <3>2, Joining, Writes
      <4>2. Says(End, 0) /\ End \in Write
        BY Writes DEF Says
      <4> QED BY <4>1, <4>2, SaidAppend
    <3> QED BY <3>4, <3>5 DEF CountInv
  <2> QED BY <2>3, <2>4
<1>14. CASE UNCHANGED vars
  BY <1>5, <1>14, RowsStep DEF vars
<1> QED BY <1>6, <1>7, <1>9, <1>10, <1>11, <1>12, <1>13, <1>14 DEF Next, Logout, Death

\* Nothing comes between the reads of a round, unless it brings disorder.
LEMMA PrepareStep == TypeOK /\ CountInv /\ PrepareInv /\ [Next]_vars => PrepareInv'
<1> SUFFICES ASSUME TypeOK, CountInv, PrepareInv, [Next]_vars, preparing', ~disorder'
             PROVE  queue' \in {<<>>, <<Start>>} /\ Cardinality(rows') >= ToStart
  BY DEF PrepareInv
<1>1. CASE RunWrite
  <2>1. queue = <<Start>> /\ Cardinality(rows) >= ToStart
    BY <1>1 DEF PrepareInv, RunWrite
  <2>2. queue' = <<>> /\ rows' = Written(rows, Start)
    BY <1>1, <2>1 DEF RunWrite
  <2> QED BY <2>1, <2>2, WrittenForms
<1>2. CASE StartArenaReadyToStart
  <2>1. /\ queue = <<>> /\ queue' = Append(queue, Start) /\ rows' = rows
        /\ players >= ToStart /\ ~disorder
    BY <1>2 DEF StartArenaReadyToStart, Ready, Overtakes, tables
  <2>2. FinalRows = rows
    BY <2>1, LeftEmpty, FinalIsLeft DEF TypeOK
  <2>3. IF declaring > 0 THEN players = 0 ELSE players = Cardinality(rows)
    BY <2>1, <2>2, SaidEmpty DEF CountInv
  <2>4. players = Cardinality(rows)
    BY <2>1, <2>3, ArenaAssumption
  <2> QED BY <2>1, <2>4
<1>3. CASE \/ \E p \in Person : Login(p) \/ SayStart(p) \/ Logout(p) \/ Death(p)
           \/ PreparePlayersFromArena \/ DeclareWinner
  BY <1>3 DEF Login, SayStart, Logout, Death, Leave, PreparePlayersFromArena, DeclareWinner, Idle
<1>4. CASE UNCHANGED vars
  BY <1>4 DEF vars, PrepareInv
<1> QED BY <1>1, <1>2, <1>3, <1>4 DEF Next

\* Both hold for good.
LEMMA CountAlways == Spec => []CountInv
<1>1. Init => CountInv
  <2> SUFFICES ASSUME Init PROVE CountInv
    OBVIOUS
  <2>1. queue = Append(Append(<<>>, Clear), End) /\ rows \in SUBSET Ids /\ declaring = 0
    BY DEF Init
  <2>2. <<>> \in Seq(Write)
    OBVIOUS
  <2>3. Append(<<>>, Clear) \in Seq(Write)
    BY <2>2, Writes
  <2>4. FinalRows = {}
    BY FirstCleared
  <2>5. Said(players, queue, 0)
    <3>1. Says(End, 0)
      BY DEF Says
    <3> QED BY <2>1, <2>3, <3>1, SaidAppend, Writes
  <2> QED BY <2>1, <2>4, <2>5, FS_EmptySet DEF CountInv
<1> QED BY <1>1, TypeCorrect, RowsInvAlways, CountStep, PTL DEF Spec

\* When the end of a match is announced one player is left at most, as long as no
\* script overtook a write and nobody was counted twice (doRemovePlayerFromArena).
THEOREM OneIsLeft == Spec => []OneSurvivor
<1>1. CountInv => OneSurvivor
  BY DEF CountInv, OneSurvivor
<1> QED BY <1>1, CountAlways, PTL

\* Those who have a row when the match starts are as many people in the world.
LEMMA EnoughSent ==
  ASSUME TypeOK, RowsInv, PrepareInv, PreparePlayersFromArena, ~disorder, IsFiniteSet(Person)
  PROVE  Cardinality({p \in Person : id[p] \in rows /\ inBattle'[p]}) >= ToStart
<1> DEFINE sent == {p \in Person : id[p] \in rows /\ inBattle'[p]}
           who == [i \in rows |-> CHOOSE p \in Person : id[p] = i]
<1>1. queue \in {<<>>, <<Start>>} /\ Cardinality(rows) >= ToStart
  BY DEF PrepareInv, PreparePlayersFromArena
<1>2. FinalRows = rows
  <2>1. CASE queue = <<>>
    BY <2>1, LeftEmpty, FinalIsLeft DEF TypeOK
  <2>2. CASE queue = <<Start>>
    <3>1. queue = Append(<<>>, Start) /\ <<>> \in Seq(Write) /\ rows \in SUBSET Ids
      BY <2>2 DEF TypeOK
    <3>2. Left(rows, queue) = Written(Left(rows, <<>>), Start)
      BY <3>1, LeftAppend, Writes
    <3> QED BY <3>1, <3>2, LeftEmpty, FinalIsLeft, WrittenForms
  <2> QED BY <1>1, <2>1, <2>2
<1>3. \A i \in rows : who[i] \in Person /\ id[who[i]] = i
  BY <1>2 DEF RowsInv, RowsOfPresent
<1>4. inBattle' = [p \in Person |-> inBattle[p] \/ (id[p] /= 0 /\ id[p] \in rows)]
  BY DEF PreparePlayersFromArena
<1>5. \A i \in rows : i /= 0
  BY DEF TypeOK, Ids
<1>6. \A i \in rows : who[i] \in sent
  BY <1>3, <1>4, <1>5
<1>7. IsFiniteSet(sent) /\ IsFiniteSet(rows)
  BY FS_Subset, RowsFinite DEF TypeOK
<1> HIDE DEF sent
<1>8. who \in Injection(rows, sent)
  <2>1. who \in [rows -> sent]
    BY <1>6
  <2>2. \A i, j \in rows : who[i] = who[j] => i = j
    BY <1>3
  <2> QED BY <2>1, <2>2 DEF Injection, IsInjective
<1>9. Cardinality(rows) <= Cardinality(sent)
  BY <1>7, <1>8, FS_Injection
<1> QED BY <1>1, <1>7, <1>9, ArenaAssumption, FS_CardinalityType DEF sent

\* Nobody is sent to battle alone: the players counted when the match was found ready
\* are those the second read finds, and they are all in the world
\* (startArenaReadyToStart, preparePlayersFromArena).
THEOREM NobodyGoesAlone == Spec => NobodyFightsAlone
<1>1. Init => PrepareInv
  BY DEF Init, PrepareInv
<1>2. TypeOK /\ RowsInv /\ PrepareInv
        => [PreparePlayersFromArena /\ ~disorder =>
              Cardinality({p \in Person : id[p] \in rows /\ inBattle'[p]}) >= ToStart]_vars
  BY EnoughSent, ArenaAssumption
<1> QED
  BY <1>1, <1>2, TypeCorrect, RowsInvAlways, CountAlways, PrepareStep, PTL DEF Spec, NobodyFightsAlone
=============================================================================
