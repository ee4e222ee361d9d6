------------------------------- MODULE Trade -------------------------------
(***************************************************************************)
(* Trades between two players (game.cpp), with what they trade: items that *)
(* lie on the ground or in bags and inventories, and houses, which are     *)
(* sold by a deed (commands.cpp, house.cpp).                               *)
(*                                                                         *)
(* A trade takes several packets of both players.  In between everybody    *)
(* moves things about, and the server closes a trade whose goods were      *)
(* touched: each removal and each arrival of an item notifies the players  *)
(* around (Player::checkTradeState and its callers).                       *)
(*                                                                         *)
(* A handler is one action.  Everything here is near everybody; that a     *)
(* step takes a trader out of reach is a choice (WalkAway).  Weights, how  *)
(* many things a stack has and the slots an item fits are abstracted to    *)
(* places and to the choice `fits`.  A stack that is put to another lies   *)
(* beside it: that they become one is left out, except where the room for  *)
(* a trade depends on it.                                                  *)
(***************************************************************************)
EXTENDS Integers, FiniteSets

CONSTANTS
  Player,
  Item,       \* things that can be picked up
  Bag,        \* those of them that are containers
  Stack,      \* those of them that can be stacked
  House,      \* a house stands for its deed too (House::transferItem)
  Slots,      \* things a player has place for outside of bags
  BagSize,    \* capacity of a bag
  Ground, Gone, None

ASSUME TradeAssumption ==
  /\ IsFiniteSet(Item) /\ Bag \subseteq Item /\ Stack \subseteq Item \ Bag
  /\ Slots \in Nat /\ BagSize \in Nat
  /\ Item \intersect House = {} /\ (Item \union House) \intersect Player = {}
  /\ {Ground, Gone, None} \intersect (Player \union Item \union House) = {}
  /\ Ground /= Gone /\ None \notin {Ground, Gone}

VARIABLES
  world,      \* players in the world
  tradeState, \* of each player, without TRADE_TRANSFER, which no task leaves
  partner,    \* Player::tradePartner
  tradeItem,  \* Player::tradeItem
  tradeItems, \* Game::tradeItems: all things that are being traded
  parent,     \* of an item: a bag, a player, the ground
  owner,      \* of a house
  deeds       \* houses whose transferItem is there

tradeVars == <<tradeState, partner, tradeItem, tradeItems, deeds>>
vars == <<world, tradeVars, parent, owner>>

TypeOK ==
  /\ world \subseteq Player
  /\ tradeState \in [Player -> {"NONE", "INITIATED", "ACCEPT", "ACKNOWLEDGE"}]
  /\ partner \in [Player -> Player \union {None}]
  /\ tradeItem \in [Player -> Item \union House \union {None}]
  /\ tradeItems \subseteq Item \union House
  /\ parent \in [Item -> Player \union Bag \union {Ground, Gone}]
  /\ owner \in [House -> Player \union {None}]
  /\ deeds \subseteq House

\* Everybody is in the world, everything lies on the ground.
Init ==
  /\ world = Player
  /\ tradeState = [p \in Player |-> "NONE"]
  /\ partner = [p \in Player |-> None] /\ tradeItem = [p \in Player |-> None]
  /\ tradeItems = {} /\ deeds = {}
  /\ parent = [i \in Item |-> Ground]
  /\ owner \in [House -> Player \union {None}]

-----------------------------------------------------------------------------
(* Where things are.                                                        *)

\* A set of bags that leads outward from an item: its own, the one that is in, ...
Outward(par, i, S) ==
  \A j \in S \union ({i} \intersect Item) : par[j] \in Bag => par[j] \in S

\* The bags an item is in: those that are on every way outward.
BagsAround(par, i) == {b \in Bag : \A S \in SUBSET Bag : Outward(par, i, S) => b \in S}

\* What an item is in: these bags, and in the end a player or the ground.  A deed is
\* in nothing.
Around(par, i) == {par[j] : j \in BagsAround(par, i) \union ({i} \intersect Item)}

Filled(par, place) == Cardinality({i \in Item : par[i] = place})

\* Who can take an item, or put one there.
Reaches(p, i) == Around(parent, i) \intersect {p, Ground} /= {}

\* Where Player::queryDestination() may find room for a thing: a slot, or a bag
\* he carries.  A bag he offers is passed over in a slot, and in other bags not.
Destinations(par, p, i) ==
  {q \in {p} : Filled(par, q) < Slots}
  \union {b \in Bag \ {i} :
            /\ p \in Around(par, b) /\ i \notin Around(par, b)
            /\ Filled(par, b) < BagSize
            /\ \A c \in {b} \union (Around(par, b) \intersect Bag) :
                 c = tradeItem[p] => par[c] /= p}

\* Where it may also find room for a stack if stacks may be joined: those he has.
PartialStacks(p, i) ==
  {s \in Stack \ {i} :
     /\ i \in Stack /\ p \in Around(parent, s)
     /\ \A c \in {s} \union (Around(parent, s) \intersect Bag) :
          c = tradeItem[p] => parent[c] /= p}

\* internalAddItem() as it tests: an empty place, or stacks that are not full.
TestsRoom(p, i) == Destinations(parent, p, i) \union PartialStacks(p, i) /= {}

-----------------------------------------------------------------------------
(* A trade is closed.                                                       *)

\* Mutant: the partner learns nothing.
CloseOwn(P) ==
  /\ tradeState' = [p \in Player |-> IF p \in P THEN "NONE" ELSE tradeState[p]]
  /\ partner' = [p \in Player |-> IF p \in P THEN None ELSE partner[p]]
  /\ tradeItem' = [p \in Player |-> IF p \in P THEN None ELSE tradeItem[p]]
  /\ tradeItems' = tradeItems \ {tradeItem[p] : p \in P}
  /\ deeds' = deeds \ {tradeItem[p] : p \in P}

\* internalCloseTrade() for each of them; a deed is torn up.
CloseTrades(P) ==
  LET both == P \union {q \in Player : partner[q] \in P} IN
  /\ tradeState' = [p \in Player |-> IF p \in both THEN "NONE" ELSE tradeState[p]]
  /\ partner' = [p \in Player |-> IF p \in both THEN None ELSE partner[p]]
  /\ tradeItem' = [p \in Player |-> IF p \in both THEN None ELSE tradeItem[p]]
  /\ tradeItems' = tradeItems \ {tradeItem[p] : p \in both}
  /\ deeds' = deeds \ {tradeItem[p] : p \in both}

\* Who is told that an item leaves: its owner, or who stands around its bag or tile.
Told(i) == {p \in Player : parent[i] \in Player => parent[i] = p}

\* Mutant: a bag is moved, and nobody looks what is in it.
RemovalCarriesOffer(i) ==
  {p \in Told(i) : tradeItem[p] \in {i} \union Around(parent, i)}

\* Mutant: only the item that is offered is looked at, and what holds it.
RemovalOfOffer(i) ==
  {p \in Told(i) :
     \/ tradeItem[p] = i
     \/ i \in Around(parent, tradeItem[p])}

\* Whose trade ends when an item is taken from its place: he offers it, or a
\* bag it is in, or a thing in it, or one deeper in the bag it is taken from.
EndedByRemoval(i) ==
  {p \in Told(i) :
     \/ tradeItem[p] \in {i} \union Around(parent, i)
     \/ i \in Around(parent, tradeItem[p])
     \/ /\ parent[i] \in Bag \intersect Around(parent, tradeItem[p])
        /\ parent[tradeItem[p]] /= parent[i]}

\* Whose trade ends when an item is put into a bag.
EndedByArrival(place) ==
  {p \in Player : tradeItem[p] \in Bag /\ tradeItem[p] \in {place} \union Around(parent, place)}

-----------------------------------------------------------------------------
(* The packets of a trade.                                                  *)

\* internalStartTrade(), when neither trades with anybody else.
StartTrade(p, q, t) ==
  /\ tradeState[p] = "NONE" \/ (tradeState[p] = "ACKNOWLEDGE" /\ partner[p] = q)
  /\ tradeState[q] = "NONE" \/ partner[q] = p
  /\ partner' = [partner EXCEPT ![p] = q,
                   ![q] = IF tradeState[q] = "NONE" THEN p ELSE @]
  /\ tradeItem' = [tradeItem EXCEPT ![p] = t]
  /\ tradeState' = [tradeState EXCEPT ![p] = "INITIATED",
                      ![q] = IF @ = "NONE" THEN "ACKNOWLEDGE" ELSE @]
  /\ tradeItems' = tradeItems \union {t}

PlayerRequestTrade(p, q, i) ==
  /\ p \in world /\ q \in world \ {p} /\ Reaches(p, i)
  /\ \A t \in tradeItems :
       i /= t /\ t \notin Around(parent, i) /\ i \notin Around(parent, t)
  /\ StartTrade(p, q, i)
  /\ UNCHANGED <<world, parent, owner, deeds>>

\* !sellhouse: the deed is made for the trade.
SellHouse(p, q, h) ==
  /\ p \in world /\ q \in world \ {p}
  /\ owner[h] = p /\ \A g \in House : owner[g] /= q
  /\ h \notin deeds
  /\ StartTrade(p, q, h)
  /\ deeds' = deeds \union {h}
  /\ UNCHANGED <<world, parent, owner>>

\* What the map of parents becomes; a deed is used up on its arrival.
Handed(par, t, place) == IF t \in Item THEN [par EXCEPT ![t] = place] ELSE par

\* Mutant: what is received may be put into what is given.
TakesAnywhere(to, given) == TRUE

\* internalMoveItem() does not put what is received into what is given.
Takes(to, given) == given \notin {to} \union Around(parent, to)

\* Both have accepted.  If there is no room, or one of them offers nothing, the
\* trade is cancelled.  Else the first thing goes over, and then the second, for
\* which no result is asked: the moves join no stacks (FLAG_IGNOREAUTOSTACK) and
\* need an empty place.  Who is in a house that is sold is sent to its door, and
\* some of them (kicked) thereby out of reach of their own trades.
Exchange(p, q, fits, kicked) ==
  LET t == tradeItem[p]
      u == tradeItem[q]
      Cancelled == UNCHANGED <<parent, owner>> /\ CloseTrades({p})
      Sold == [h \in House |-> IF h = t THEN q ELSE IF h = u THEN p ELSE owner[h]]
  IN IF ~fits \/ None \in {t, u} \/ ~TestsRoom(q, t) \/ ~TestsRoom(p, u)
            \/ Destinations(parent, q, t) = {}
     THEN Cancelled
     ELSE \E to \in Destinations(parent, q, t) :
            IF ~Takes(to, u) THEN Cancelled
            ELSE LET par == Handed(parent, t, to)
                     room == Destinations(par, p, u)
                 IN /\ parent' \in IF room = {} THEN {par}
                                   ELSE {Handed(par, u, back) : back \in room}
                    /\ owner' = Sold
                    /\ kicked /= {} => {t, u} \intersect House /= {}
                    /\ CloseTrades({p} \union kicked \union
                                   UNION {EndedByRemoval(i) : i \in {t, u} \intersect Item})

PlayerAcceptTrade(p, fits, kicked) ==
  /\ p \in world /\ tradeState[p] \in {"ACKNOWLEDGE", "INITIATED"} /\ partner[p] /= None
  /\ IF tradeState[partner[p]] = "ACCEPT"
     THEN Exchange(p, partner[p], fits, kicked)
     ELSE /\ tradeState' = [tradeState EXCEPT ![p] = "ACCEPT"]
          /\ UNCHANGED <<partner, tradeItem, tradeItems, deeds, parent, owner>>
  /\ UNCHANGED world

\* playerCloseTrade(), or a step that takes a trader too far from his partner or
\* from what he offers.
WalkAway(p) ==
  /\ p \in world /\ partner[p] /= None
  /\ CloseTrades({p})
  /\ UNCHANGED <<world, parent, owner>>

\* onRemoveCreature().
Logout(p) ==
  /\ p \in world
  /\ world' = world \ {p}
  /\ CloseTrades({p})
  /\ UNCHANGED <<parent, owner>>

Login(p) ==
  /\ p \notin world
  /\ world' = world \union {p}
  /\ UNCHANGED <<tradeVars, parent, owner>>

-----------------------------------------------------------------------------
(* What happens to things meanwhile.                                        *)

\* Container::queryAdd() and the inventory's: a bag is not put into itself.
Accepts(p, i, place) ==
  \/ place = Ground
  \/ place = p /\ Filled(parent, p) < Slots
  \/ /\ place \in Bag \ {i} /\ i \notin Around(parent, place)
     /\ Reaches(p, place) /\ Filled(parent, place) < BagSize

\* The item leaves its place and comes to another; the players around are told.
InternalMoveItem(i, place) ==
  /\ parent' = [parent EXCEPT ![i] = place]
  /\ CloseTrades(EndedByRemoval(i) \union EndedByArrival(place))

\* A player moves an item he can reach to a place he can reach.
PlayerMoveItem(p, i, place) ==
  /\ p \in world /\ Reaches(p, i) /\ Accepts(p, i, place)
  /\ place = parent[i] => place = Ground
  /\ InternalMoveItem(i, place)
  /\ UNCHANGED <<world, owner>>

\* He puts it where he wears j, which goes where the item was; if he cannot carry
\* both, the item itself stays.
PlayerExchangeItem(p, i, j, follows) ==
  LET from == parent[i]
      swapped == [parent EXCEPT ![j] = from, ![i] = IF follows THEN p ELSE @]
  IN /\ p \in world /\ Reaches(p, i)
     /\ parent[j] = p /\ from /= p /\ j \notin Around(parent, i)
     /\ from \in Bag => Filled(parent, from) < BagSize
     /\ parent' = swapped
     /\ CloseTrades(EndedByRemoval(j) \union EndedByArrival(from)
                    \union IF follows THEN EndedByRemoval(i) ELSE {})
     /\ UNCHANGED <<world, owner>>

\* An item is used up, decays or turns into another one.
RemoveItem(i) ==
  /\ (world \union {Ground}) \intersect Around(parent, i) /= {}
  /\ parent' = [parent EXCEPT ![i] = Gone]
  /\ CloseTrades(EndedByRemoval(i))
  /\ UNCHANGED <<world, owner>>

\* House::setOwner() sends who is inside to the door: some may leave a trade behind.
Kicked == SUBSET {p \in Player : partner[p] /= None}

\* !leavehouse: who is inside is sent to the door, and some of them thereby out
\* of reach.  A deed that is out stays out.  What lies in a house that is left or
\* sold goes to the inbox of who had it (transferToDepot): here each such thing is
\* taken away by a RemoveItem of its own.
LeaveHouse(p, h, kicked) ==
  /\ p \in world /\ owner[h] = p
  /\ owner' = [owner EXCEPT ![h] = None]
  /\ CloseTrades(kicked)
  /\ UNCHANGED <<world, parent>>

\* !buyhouse.
BuyHouse(p, h) ==
  /\ p \in world /\ owner[h] = None /\ \A g \in House : owner[g] /= p
  /\ owner' = [owner EXCEPT ![h] = p]
  /\ UNCHANGED <<world, tradeVars, parent>>

-----------------------------------------------------------------------------
TradeNext ==
  \E p \in Player :
    \/ \E q \in Player : \/ \E i \in Item : PlayerRequestTrade(p, q, i)
                         \/ \E h \in House : SellHouse(p, q, h)
    \/ \E fits \in BOOLEAN, kicked \in Kicked : PlayerAcceptTrade(p, fits, kicked)
    \/ WalkAway(p) \/ Logout(p) \/ Login(p)

ThingsNext ==
  \/ \E p \in Player, i \in Item : \E place \in {p, Ground} \union Bag : PlayerMoveItem(p, i, place)
  \/ \E p \in Player, i, j \in Item, follows \in BOOLEAN : PlayerExchangeItem(p, i, j, follows)
  \/ \E i \in Item : RemoveItem(i)
  \/ \E p \in Player, h \in House :
       \/ BuyHouse(p, h)
       \/ \E kicked \in Kicked : LeaveHouse(p, h, kicked)

Next == TradeNext \/ ThingsNext

Spec == Init /\ [][Next]_vars

-----------------------------------------------------------------------------
\* A trade is between two players who are in the world and both know it: neither
\* is left with a partner, a state or a reserved thing when the other has gone,
\* and the server's list of traded things is what the players offer.
TradeIsMutual ==
  /\ \A p \in Player :
       IF partner[p] = None
       THEN tradeState[p] = "NONE" /\ tradeItem[p] = None
       ELSE /\ {p, partner[p]} \subseteq world
            /\ partner[partner[p]] = p /\ tradeState[p] /= "NONE"
            /\ ~(tradeState[p] = "ACCEPT" /\ tradeState[partner[p]] = "ACCEPT")
            /\ tradeItem[p] /= None \/ tradeItem[partner[p]] /= None
  /\ tradeItems = {tradeItem[p] : p \in Player} \ {None}
  /\ deeds = tradeItems \intersect House

\* What a player offers is still his to give: it lies on the ground or he carries
\* it, nobody else offers it, and it is in nothing that is offered.
OfferIsAtHand ==
  \A p \in Player : tradeItem[p] \in Item =>
    /\ Reaches(p, tradeItem[p])
    /\ \A q \in Player \ {p} :
         tradeItem[q] /= tradeItem[p] /\ tradeItem[q] \notin Around(parent, tradeItem[p])

\* What the partner saw is what he gets: nothing is put into a bag that is
\* offered nor taken out of it while the trade goes on.
OfferUnchanged ==
  [][\A p \in Player :
       tradeItem[p] /= None /\ tradeItem'[p] = tradeItem[p] =>
         \A i \in Item :
           tradeItem[p] \in Around(parent, i) \union Around(parent', i) \union {i} =>
             parent'[i] = parent[i]]_vars

Gets(p, t) == IF t \in Item THEN p \in Around(parent', t) ELSE owner'[t] = p

\* Room for it was found in stacks only, which the move does not use.
OnlyStacksHaveRoom(p, i) == i \in Stack /\ Destinations(parent, p, i) = {}

\* Nothing moves, or each gets what the other offered, wherever the bags with room
\* are.  One exception: who accepts last has no empty place and is to get a stack
\* that fits onto his own; then the other gets his thing and may give nothing
\* (playerAcceptTrade tests with flags 0 and moves with FLAG_IGNOREAUTOSTACK).
AllOrNothing ==
  [][\A p \in Player, fits \in BOOLEAN, kicked \in Kicked :
       PlayerAcceptTrade(p, fits, kicked) =>
         \/ UNCHANGED <<parent, owner>>
         \/ /\ Gets(partner[p], tradeItem[p])
            /\ \/ Gets(p, tradeItem[partner[p]])
               \/ OnlyStacksHaveRoom(p, tradeItem[partner[p]])]_vars
=============================================================================
