---------------------------- MODULE TradeProofs ----------------------------
(***************************************************************************)
(* A trade is mutual, what is offered stays at hand and as it was, and an  *)
(* exchange gives both or moves nothing: for any number of players, items, *)
(* bags within bags, and houses.                                           *)
(*                                                                         *)
(* What carries the first: a thing is offered once, who has only been      *)
(* asked offers nothing yet, and nobody trades with himself.  Where things *)
(* lie is not needed for it.  For the others it is all: the bags around an *)
(* item are the least set that leads outward from it, so what is shown of  *)
(* them is shown by giving such a set, and no bag is counted from inside   *)
(* out.  A walk outward that ends passes every bag once (OneEnd); what is  *)
(* moved and is not around an item changes nothing around it (AroundSame); *)
(* who is not told that an item leaves has it nowhere around his offer     *)
(* (LeavesOffer).                                                          *)
(***************************************************************************)
EXTENDS Trade, FiniteSetTheorems, TLAPS

\* internalStartTrade() may overwrite what a player offers: he offers nothing.
AskedOffersNothing ==
  \A p \in Player : tradeState[p] = "ACKNOWLEDGE" => tradeItem[p] = None

\* internalCloseTrade() takes a thing from the list: nobody else offers it.
OffersDiffer ==
  \A p, q \in Player : p /= q /\ tradeItem[p] /= None => tradeItem[p] /= tradeItem[q]

\* playerAcceptTrade() looks at the partner's state once it has set its own.
NotWithOneself == \A p \in Player : partner[p] /= p

IInv == TradeIsMutual /\ AskedOffersNothing /\ OffersDiffer /\ NotWithOneself

\* The types of what a trade changes.
TradeTypeOK ==
  /\ tradeState \in [Player -> {"NONE", "INITIATED", "ACCEPT", "ACKNOWLEDGE"}]
  /\ partner \in [Player -> Player \union {None}]
  /\ tradeItem \in [Player -> Item \union House \union {None}]
  /\ tradeItems \subseteq Item \union House
  /\ deeds \subseteq House

\* None stands for no player and for nothing.
LEMMA NoneIsNothing == None \notin Player /\ None \notin Item /\ None \notin House
  BY TradeAssumption

-----------------------------------------------------------------------------
(* Types.                                                                   *)

\* Closing trades keeps the types (internalCloseTrade).
LEMMA CloseTypes ==
  ASSUME TypeOK, NEW P \in SUBSET Player, CloseTrades(P)
  PROVE  TradeTypeOK'
  BY DEF TypeOK, TradeTypeOK, CloseTrades

\* Starting a trade keeps the types (internalStartTrade).
LEMMA StartTypes ==
  ASSUME TypeOK, NEW p \in Player, NEW q \in Player, NEW t \in Item \union House,
         StartTrade(p, q, t), deeds' \subseteq House
  PROVE  TradeTypeOK'
  BY DEF TypeOK, TradeTypeOK, StartTrade

\* Only players are told of a removal, and end their trades (checkTradeState).
LEMMA Ended ==
  /\ \A i : EndedByRemoval(i) \in SUBSET Player
  /\ \A place : EndedByArrival(place) \in SUBSET Player
  /\ \A kicked \in Kicked : kicked \in SUBSET Player
  BY DEF EndedByRemoval, EndedByArrival, Told, Kicked

\* Room is found in an inventory or in a bag (Player::queryDestination).
LEMMA DestinationTypes ==
  ASSUME NEW par, NEW p \in Player, NEW i
  PROVE  Destinations(par, p, i) \subseteq Player \union Bag
  BY DEF Destinations

\* A thing that goes over comes to a player or into a bag.
LEMMA HandedTypes ==
  ASSUME NEW par \in [Item -> Player \union Bag \union {Ground, Gone}],
         NEW t, NEW place \in Player \union Bag
  PROVE  Handed(par, t, place) \in [Item -> Player \union Bag \union {Ground, Gone}]
  BY DEF Handed

\* The exchange keeps the types, and is a trade that closes (playerAcceptTrade).
LEMMA ExchangeCloses ==
  ASSUME TypeOK, NEW p \in Player, NEW q \in Player, NEW fits, NEW kicked \in SUBSET Player,
         Exchange(p, q, fits, kicked)
  PROVE  /\ \E P \in SUBSET Player : p \in P /\ CloseTrades(P)
         /\ parent' \in [Item -> Player \union Bag \union {Ground, Gone}]
         /\ owner' \in [House -> Player \union {None}]
<1> DEFINE t == tradeItem[p]
           u == tradeItem[q]
           Sold == [h \in House |-> IF h = t THEN q ELSE IF h = u THEN p ELSE owner[h]]
           Cancelled == UNCHANGED <<parent, owner>> /\ CloseTrades({p})
<1>1. CASE Cancelled
  <2>1. {p} \in SUBSET Player /\ p \in {p}
    OBVIOUS
  <2> QED BY <1>1, <2>1 DEF TypeOK
<1>2. CASE ~Cancelled
  <2>1. PICK to \in Destinations(parent, q, t) :
          LET par == Handed(parent, t, to)
              room == Destinations(par, p, u)
          IN /\ parent' \in IF room = {} THEN {par} ELSE {Handed(par, u, back) : back \in room}
             /\ owner' = Sold
             /\ CloseTrades({p} \union kicked \union
                            UNION {EndedByRemoval(i) : i \in {t, u} \intersect Item})
    BY <1>2 DEF Exchange
  <2> DEFINE P == {p} \union kicked \union
                  UNION {EndedByRemoval(i) : i \in {t, u} \intersect Item}
             par == Handed(parent, t, to)
             room == Destinations(par, p, u)
             Place == [Item -> Player \union Bag \union {Ground, Gone}]
  <2>2. P \in SUBSET Player /\ p \in P /\ CloseTrades(P)
    BY <2>1, Ended
  <2>3. par \in Place
    BY <2>1, DestinationTypes, HandedTypes DEF TypeOK
  <2>4. \A back \in room : Handed(par, u, back) \in Place
    BY <2>3, DestinationTypes, HandedTypes
  <2>5. parent' \in Place
    BY <2>1, <2>3, <2>4
  <2>6. owner' \in [House -> Player \union {None}]
    BY <2>1 DEF TypeOK
  <2> QED BY <2>2, <2>5, <2>6
<1> QED BY <1>1, <1>2

\* Every step keeps the types.
LEMMA TypeStep == TypeOK /\ [Next]_vars => TypeOK'
<1> SUFFICES ASSUME TypeOK, [Next]_vars PROVE TypeOK'
  OBVIOUS
<1> USE DEF TypeOK
<1>1. ASSUME NEW p \in Player, NEW q \in Player, NEW i \in Item, PlayerRequestTrade(p, q, i)
      PROVE  TypeOK'
  BY <1>1, StartTypes DEF PlayerRequestTrade, TradeTypeOK
<1>2. ASSUME NEW p \in Player, NEW q \in Player, NEW h \in House, SellHouse(p, q, h)
      PROVE  TypeOK'
  BY <1>2, StartTypes DEF SellHouse, TradeTypeOK
<1>3. ASSUME NEW p \in Player, NEW fits \in BOOLEAN, NEW kicked \in Kicked,
             PlayerAcceptTrade(p, fits, kicked)
      PROVE  TypeOK'
  <2>1. partner[p] \in Player /\ kicked \in SUBSET Player /\ world' = world
    BY <1>3, Ended DEF PlayerAcceptTrade
  <2>2. CASE tradeState[partner[p]] = "ACCEPT"
    <3>1. Exchange(p, partner[p], fits, kicked)
      BY <1>3, <2>2 DEF PlayerAcceptTrade
    <3>2. PICK P \in SUBSET Player : CloseTrades(P)
      BY <2>1, <3>1, ExchangeCloses
    <3>3. TradeTypeOK'
      BY <3>2, CloseTypes
    <3> QED BY <2>1, <3>1, <3>3, ExchangeCloses DEF TradeTypeOK
  <2>3. CASE tradeState[partner[p]] /= "ACCEPT"
    BY <1>3, <2>1, <2>3 DEF PlayerAcceptTrade
  <2> QED BY <2>2, <2>3
<1>4. ASSUME NEW p \in Player, WalkAway(p) \/ Logout(p)
      PROVE  TypeOK'
  <2>1. TradeTypeOK'
    BY <1>4, CloseTypes DEF WalkAway, Logout
  <2> QED BY <1>4, <2>1 DEF WalkAway, Logout, TradeTypeOK
<1>5. ASSUME NEW p \in Player, Login(p)
      PROVE  TypeOK'
  BY <1>5 DEF Login, tradeVars
<1>6. ASSUME NEW p \in Player, NEW h \in House, BuyHouse(p, h)
      PROVE  TypeOK'
  BY <1>6 DEF BuyHouse, tradeVars
<1>7. ASSUME NEW p \in Player, NEW i \in Item, NEW place \in {p, Ground} \union Bag,
             PlayerMoveItem(p, i, place)
      PROVE  TypeOK'
  <2>1. TradeTypeOK'
    BY <1>7, Ended, CloseTypes DEF PlayerMoveItem, InternalMoveItem
  <2> QED BY <1>7, <2>1 DEF PlayerMoveItem, InternalMoveItem, TradeTypeOK
<1>8. ASSUME NEW p \in Player, NEW i \in Item, NEW j \in Item, NEW follows \in BOOLEAN,
             PlayerExchangeItem(p, i, j, follows)
      PROVE  TypeOK'
  <2>1. TradeTypeOK'
    BY <1>8, Ended, CloseTypes DEF PlayerExchangeItem
  <2> QED BY <1>8, <2>1 DEF PlayerExchangeItem, TradeTypeOK
<1>9. ASSUME NEW i \in Item, RemoveItem(i)
      PROVE  TypeOK'
  <2>1. TradeTypeOK'
    BY <1>9, Ended, CloseTypes DEF RemoveItem
  <2> QED BY <1>9, <2>1 DEF RemoveItem, TradeTypeOK
<1>10. ASSUME NEW p \in Player, NEW h \in House, NEW kicked \in Kicked, LeaveHouse(p, h, kicked)
       PROVE  TypeOK'
  <2>1. TradeTypeOK'
    BY <1>10, Ended, CloseTypes DEF LeaveHouse
  <2> QED BY <1>10, <2>1 DEF LeaveHouse, TradeTypeOK
<1>11. CASE UNCHANGED vars
  BY <1>11 DEF vars, tradeVars
<1> QED
  BY <1>1, <1>2, <1>3, <1>4, <1>5, <1>6, <1>7, <1>8, <1>9, <1>10, <1>11
  DEF Next, TradeNext, ThingsNext

\* What a trade keeps has its type, and things are somewhere (game.cpp, player.h).
THEOREM TypeCorrect == Spec => []TypeOK
<1>1. Init => TypeOK
  BY DEF Init, TypeOK
<1> QED BY <1>1, TypeStep, PTL DEF Spec

-----------------------------------------------------------------------------
(* Trades are mutual.                                                       *)

\* Closing the trades of P, and of nobody but them and their partners, leaves
\* mutual trades, also when some of P leave the world (internalCloseTrade).
LEMMA CloseMutual ==
  ASSUME TypeOK, IInv, NEW P \in SUBSET Player, CloseTrades(P), world \ P \subseteq world'
  PROVE  IInv'
<1> DEFINE both == P \union {q \in Player : partner[q] \in P}
<1> USE DEF TypeOK, IInv
<1>1. \A p \in Player : p \in both => tradeState'[p] = "NONE" /\ partner'[p] = None /\ tradeItem'[p] = None
  BY DEF CloseTrades
<1>2. \A p \in Player : p \notin both =>
        /\ tradeState'[p] = tradeState[p] /\ partner'[p] = partner[p] /\ tradeItem'[p] = tradeItem[p]
        /\ partner[p] /= None => partner[p] \notin both /\ p \in world' /\ partner[p] \in world'
  <2> SUFFICES ASSUME NEW p \in Player, p \notin both
               PROVE  /\ tradeState'[p] = tradeState[p] /\ partner'[p] = partner[p]
                      /\ tradeItem'[p] = tradeItem[p]
                      /\ partner[p] /= None =>
                           partner[p] \notin both /\ p \in world' /\ partner[p] \in world'
    OBVIOUS
  <2>1. tradeState'[p] = tradeState[p] /\ partner'[p] = partner[p] /\ tradeItem'[p] = tradeItem[p]
    BY DEF CloseTrades
  <2>2. ASSUME partner[p] /= None
        PROVE  partner[p] \notin both /\ p \in world' /\ partner[p] \in world'
    <3>1. partner[p] \in Player /\ partner[partner[p]] = p /\ {p, partner[p]} \subseteq world
      BY <2>2 DEF TradeIsMutual
    <3> QED BY <3>1
  <2> QED BY <2>1, <2>2
<1>3. \A p \in Player :
        IF partner'[p] = None
        THEN tradeState'[p] = "NONE" /\ tradeItem'[p] = None
        ELSE /\ {p, partner'[p]} \subseteq world'
             /\ partner'[partner'[p]] = p /\ tradeState'[p] /= "NONE"
             /\ ~(tradeState'[p] = "ACCEPT" /\ tradeState'[partner'[p]] = "ACCEPT")
             /\ tradeItem'[p] /= None \/ tradeItem'[partner'[p]] /= None
  <2> TAKE p \in Player
  <2>1. CASE p \in both
    BY <1>1, <2>1
  <2>2. CASE p \notin both /\ partner[p] = None
    BY <1>2, <2>2 DEF TradeIsMutual
  <2>3. CASE p \notin both /\ partner[p] /= None
    <3>1. partner[p] \in Player
      BY <2>3
    <3> QED BY <1>2, <2>3, <3>1 DEF TradeIsMutual
  <2> QED BY <2>1, <2>2, <2>3
<1>4. tradeItems' = {tradeItem'[p] : p \in Player} \ {None}
  <2>1. tradeItems' = tradeItems \ {tradeItem[p] : p \in both}
    BY DEF CloseTrades
  <2>2. \A p \in Player \ both : tradeItem[p] /= None => tradeItem[p] \notin {tradeItem[q] : q \in both}
    BY DEF OffersDiffer
  <2>3. tradeItems = {tradeItem[p] : p \in Player} \ {None}
    BY DEF TradeIsMutual
  <2> QED BY <1>1, <1>2, <2>1, <2>2, <2>3
<1>5. deeds' = tradeItems' \intersect House
  BY DEF CloseTrades, TradeIsMutual
<1>6. AskedOffersNothing' /\ OffersDiffer' /\ NotWithOneself'
  BY <1>1, <1>2, NoneIsNothing DEF AskedOffersNothing, OffersDiffer, NotWithOneself
<1> QED BY <1>3, <1>4, <1>5, <1>6 DEF TradeIsMutual

\* A trade starts, or is answered, with a thing that nobody trades: it is mutual
\* (internalStartTrade).
LEMMA StartMutual ==
  ASSUME TypeOK, IInv, NEW p \in Player, NEW q \in Player, NEW t \in Item \union House,
         p /= q, {p, q} \subseteq world, t \notin tradeItems, StartTrade(p, q, t),
         world' = world, deeds' = tradeItems' \intersect House
  PROVE  IInv'
<1> USE DEF TypeOK, IInv
<1>1. t /= None /\ \A r \in Player : tradeItem[r] /= t
  BY NoneIsNothing DEF TradeIsMutual
<1>2. tradeItem[p] = None
  BY DEF StartTrade, TradeIsMutual, AskedOffersNothing
<1>3. tradeItem' = [tradeItem EXCEPT ![p] = t] /\ tradeItems' = tradeItems \union {t}
  BY DEF StartTrade
<1>4. OffersDiffer' /\ NotWithOneself'
  BY <1>1, <1>3 DEF OffersDiffer, NotWithOneself, StartTrade
<1>5. CASE tradeState[q] = "NONE"
  <2>1. partner[q] = None /\ tradeState[p] = "NONE" /\ partner[p] = None
    <3>1. \A r \in Player : tradeState[r] = "NONE" => partner[r] = None
      BY DEF TradeIsMutual
    <3>2. partner[p] = q => partner[q] = p
      BY NoneIsNothing DEF TradeIsMutual
    <3> QED BY <1>5, <3>1, <3>2, NoneIsNothing DEF StartTrade
  <2>2. /\ partner' = [partner EXCEPT ![p] = q, ![q] = p]
        /\ tradeState' = [tradeState EXCEPT ![p] = "INITIATED", ![q] = "ACKNOWLEDGE"]
    BY <1>5 DEF StartTrade
  <2>3. \A r \in Player \ {p, q} :
          /\ partner'[r] = partner[r] /\ tradeState'[r] = tradeState[r] /\ tradeItem'[r] = tradeItem[r]
          /\ partner[r] \notin {p, q}
    BY <1>3, <2>1, <2>2, NoneIsNothing DEF TradeIsMutual
  <2>4. /\ partner'[p] = q /\ partner'[q] = p
        /\ tradeState'[p] = "INITIATED" /\ tradeState'[q] = "ACKNOWLEDGE"
        /\ tradeItem'[p] = t /\ tradeItem'[q] = None
    BY <1>3, <2>1, <2>2 DEF TradeIsMutual
  <2>5. \A r \in Player :
          IF partner'[r] = None
          THEN tradeState'[r] = "NONE" /\ tradeItem'[r] = None
          ELSE /\ {r, partner'[r]} \subseteq world'
               /\ partner'[partner'[r]] = r /\ tradeState'[r] /= "NONE"
               /\ ~(tradeState'[r] = "ACCEPT" /\ tradeState'[partner'[r]] = "ACCEPT")
               /\ tradeItem'[r] /= None \/ tradeItem'[partner'[r]] /= None
    <3> TAKE r \in Player
    <3>1. CASE r \in {p, q}
      BY <1>1, <2>4, <3>1, NoneIsNothing
    <3>2. CASE r \notin {p, q} /\ partner[r] = None
      BY <2>3, <3>2 DEF TradeIsMutual
    <3>3. CASE r \notin {p, q} /\ partner[r] /= None
      <4>1. partner[r] \in Player \ {p, q}
        BY <2>3, <3>3
      <4> QED BY <2>3, <3>3, <4>1 DEF TradeIsMutual
    <3> QED BY <3>1, <3>2, <3>3
  <2>6. AskedOffersNothing'
    BY <2>3, <2>4 DEF AskedOffersNothing
  <2>7. tradeItems' = {tradeItem'[r] : r \in Player} \ {None}
    BY <1>1, <1>2, <1>3 DEF TradeIsMutual
  <2> QED BY <1>4, <2>5, <2>6, <2>7 DEF TradeIsMutual
<1>6. CASE tradeState[q] /= "NONE"
  <2>1. partner[q] = p /\ partner[p] = q /\ tradeState[p] = "ACKNOWLEDGE"
    BY <1>6, NoneIsNothing DEF StartTrade, TradeIsMutual
  <2>2. /\ partner' = [partner EXCEPT ![p] = q]
        /\ tradeState' = [tradeState EXCEPT ![p] = "INITIATED"]
    BY <1>6 DEF StartTrade
  <2>3. partner' = partner
    BY <2>1, <2>2
  <2>4. \A r \in Player :
          IF partner'[r] = None
          THEN tradeState'[r] = "NONE" /\ tradeItem'[r] = None
          ELSE /\ {r, partner'[r]} \subseteq world'
               /\ partner'[partner'[r]] = r /\ tradeState'[r] /= "NONE"
               /\ ~(tradeState'[r] = "ACCEPT" /\ tradeState'[partner'[r]] = "ACCEPT")
               /\ tradeItem'[r] /= None \/ tradeItem'[partner'[r]] /= None
    <3> TAKE r \in Player
    <3>1. CASE partner[r] = None
      BY <1>3, <2>1, <2>2, <2>3, <3>1, NoneIsNothing DEF TradeIsMutual
    <3>2. CASE partner[r] /= None
      <4>1. partner[r] \in Player
        BY <3>2
      <4> QED BY <1>1, <1>3, <2>2, <2>3, <3>2, <4>1 DEF TradeIsMutual
    <3> QED BY <3>1, <3>2
  <2>5. AskedOffersNothing'
    BY <1>3, <2>2 DEF AskedOffersNothing
  <2>6. tradeItems' = {tradeItem'[r] : r \in Player} \ {None}
    BY <1>1, <1>2, <1>3 DEF TradeIsMutual
  <2> QED BY <1>4, <2>4, <2>5, <2>6 DEF TradeIsMutual
<1> QED BY <1>5, <1>6

\* Every step keeps the trades mutual.
LEMMA MutualStep == TypeOK /\ IInv /\ [Next]_vars => IInv'
<1> SUFFICES ASSUME TypeOK, IInv, [Next]_vars PROVE IInv'
  OBVIOUS
<1>1. ASSUME NEW p \in Player, NEW q \in Player, NEW i \in Item, PlayerRequestTrade(p, q, i)
      PROVE  IInv'
  <2>1. i \notin tradeItems /\ p /= q /\ {p, q} \subseteq world
    BY <1>1 DEF PlayerRequestTrade
  <2>2. deeds' = tradeItems' \intersect House
    BY <1>1, TradeAssumption DEF PlayerRequestTrade, StartTrade, IInv, TradeIsMutual
  <2> QED BY <1>1, <2>1, <2>2, StartMutual DEF PlayerRequestTrade
<1>2. ASSUME NEW p \in Player, NEW q \in Player, NEW h \in House, SellHouse(p, q, h)
      PROVE  IInv'
  <2>1. h \notin tradeItems /\ p /= q /\ {p, q} \subseteq world
    BY <1>2 DEF SellHouse, IInv, TradeIsMutual
  <2>2. deeds' = tradeItems' \intersect House
    BY <1>2 DEF SellHouse, StartTrade, IInv, TradeIsMutual
  <2> QED BY <1>2, <2>1, <2>2, StartMutual DEF SellHouse
<1>3. ASSUME NEW p \in Player, NEW fits \in BOOLEAN, NEW kicked \in Kicked,
             PlayerAcceptTrade(p, fits, kicked)
      PROVE  IInv'
  <2>1. partner[p] \in Player /\ kicked \in SUBSET Player /\ world' = world
    BY <1>3, Ended DEF PlayerAcceptTrade, TypeOK
  <2>2. CASE tradeState[partner[p]] = "ACCEPT"
    <3>1. PICK P \in SUBSET Player : CloseTrades(P)
      BY <1>3, <2>1, <2>2, ExchangeCloses DEF PlayerAcceptTrade
    <3> QED BY <2>1, <3>1, CloseMutual
  <2>3. CASE tradeState[partner[p]] /= "ACCEPT"
    <3>1. /\ tradeState' = [tradeState EXCEPT ![p] = "ACCEPT"]
          /\ UNCHANGED <<partner, tradeItem, tradeItems, deeds>>
      BY <1>3, <2>3 DEF PlayerAcceptTrade
    <3>2. \A r \in Player : (partner[r] /= None => partner[r] \in Player) /\ partner[r] /= r
      BY DEF TypeOK, IInv, NotWithOneself
    <3>3. \A r \in Player : partner[r] = p => r = partner[p]
      BY NoneIsNothing DEF IInv, TradeIsMutual
    <3>4. \A r \in Player :
            /\ tradeState'[r] = IF r = p THEN "ACCEPT" ELSE tradeState[r]
            /\ partner'[r] = partner[r] /\ tradeItem'[r] = tradeItem[r]
      BY <3>1 DEF TypeOK
    <3>5. ASSUME NEW r \in Player
          PROVE  IF partner'[r] = None
                 THEN tradeState'[r] = "NONE" /\ tradeItem'[r] = None
                 ELSE /\ {r, partner'[r]} \subseteq world'
                      /\ partner'[partner'[r]] = r /\ tradeState'[r] /= "NONE"
                      /\ ~(tradeState'[r] = "ACCEPT" /\ tradeState'[partner'[r]] = "ACCEPT")
                      /\ tradeItem'[r] /= None \/ tradeItem'[partner'[r]] /= None
      <4>1. CASE partner[r] = None
        BY <2>1, <3>4, <4>1, NoneIsNothing DEF IInv, TradeIsMutual
      <4>2. CASE partner[r] /= None
        <5>1. partner[r] \in Player /\ {r, partner[r]} \subseteq world /\ partner[partner[r]] = r
              /\ tradeState[r] /= "NONE"
              /\ ~(tradeState[r] = "ACCEPT" /\ tradeState[partner[r]] = "ACCEPT")
              /\ (tradeItem[r] /= None \/ tradeItem[partner[r]] /= None)
          BY <3>2, <4>2 DEF IInv, TradeIsMutual
        <5> QED BY <2>1, <2>3, <3>2, <3>3, <3>4, <4>2, <5>1
      <4> QED BY <4>1, <4>2
    <3>6. tradeItems' = {tradeItem'[r] : r \in Player} \ {None} /\ deeds' = tradeItems' \intersect House
      BY <3>1 DEF IInv, TradeIsMutual
    <3>7. TradeIsMutual'
      BY <3>5, <3>6 DEF TradeIsMutual
    <3> QED BY <3>4, <3>7 DEF IInv, AskedOffersNothing, OffersDiffer, NotWithOneself
  <2> QED BY <2>2, <2>3
<1>4. ASSUME NEW p \in Player, WalkAway(p) \/ Logout(p)
      PROVE  IInv'
  BY <1>4, CloseMutual DEF WalkAway, Logout
<1>5. ASSUME NEW p \in Player, Login(p)
      PROVE  IInv'
  BY <1>5 DEF Login, tradeVars, IInv, TradeIsMutual, AskedOffersNothing, OffersDiffer, NotWithOneself
<1>6. ASSUME NEW p \in Player, NEW h \in House, BuyHouse(p, h)
      PROVE  IInv'
  BY <1>6 DEF BuyHouse, tradeVars, IInv, TradeIsMutual, AskedOffersNothing, OffersDiffer, NotWithOneself
<1>7. ASSUME NEW p \in Player, NEW i \in Item, NEW place \in {p, Ground} \union Bag,
             PlayerMoveItem(p, i, place)
      PROVE  IInv'
  BY <1>7, Ended, CloseMutual DEF PlayerMoveItem, InternalMoveItem
<1>8. ASSUME NEW p \in Player, NEW i \in Item, NEW j \in Item, NEW follows \in BOOLEAN,
             PlayerExchangeItem(p, i, j, follows)
      PROVE  IInv'
  BY <1>8, Ended, CloseMutual DEF PlayerExchangeItem
<1>9. ASSUME NEW i \in Item, RemoveItem(i)
      PROVE  IInv'
  BY <1>9, Ended, CloseMutual DEF RemoveItem
<1>10. ASSUME NEW p \in Player, NEW h \in House, NEW kicked \in Kicked, LeaveHouse(p, h, kicked)
       PROVE  IInv'
  BY <1>10, Ended, CloseMutual DEF LeaveHouse
<1>11. CASE UNCHANGED vars
  BY <1>11 DEF vars, tradeVars, IInv, TradeIsMutual, AskedOffersNothing, OffersDiffer, NotWithOneself
<1> QED
  BY <1>1, <1>2, <1>3, <1>4, <1>5, <1>6, <1>7, <1>8, <1>9, <1>10, <1>11
  DEF Next, TradeNext, ThingsNext

\* The invariant of the partners holds for good.
LEMMA MutualAlways == Spec => []IInv
<1>1. Init => IInv
  BY NoneIsNothing DEF Init, IInv, TradeIsMutual, AskedOffersNothing, OffersDiffer,
    NotWithOneself
<1> QED BY <1>1, TypeCorrect, MutualStep, PTL DEF Spec

\* Nobody is left in a trade the other has left, and the list of traded things is
\* what the players offer, for any number of them (internalStartTrade,
\* playerAcceptTrade, internalCloseTrade).
THEOREM TradesAreMutual == Spec => []TradeIsMutual
<1>1. IInv => TradeIsMutual
  BY DEF IInv
<1> QED BY <1>1, MutualAlways, PTL

-----------------------------------------------------------------------------
(* Where things are: what BagsAround and Around come to for an item.        *)

\* The bags around i are the least set that leads outward from it.
LEMMA BagsAroundLeast ==
  ASSUME NEW par, NEW i \in Item
  PROVE  /\ BagsAround(par, i) \in SUBSET Bag
         /\ Outward(par, i, BagsAround(par, i))
         /\ \A S \in SUBSET Bag : Outward(par, i, S) => BagsAround(par, i) \subseteq S
<1>1. {i} \intersect Item = {i}
  OBVIOUS
<1> QED BY <1>1 DEF BagsAround, Outward

\* Around a thing is what it is in, and what the bags around it are in.
LEMMA AroundItem ==
  ASSUME NEW par, NEW i \in Item
  PROVE  Around(par, i) = {par[i]} \union {par[b] : b \in BagsAround(par, i)}
<1>1. {i} \intersect Item = {i}
  OBVIOUS
<1> QED BY <1>1 DEF Around

\* One step outward: the bag of i, and what that is in.
LEMMA OneBagOut ==
  ASSUME NEW par, NEW i \in Item
  PROVE  BagsAround(par, i) = IF par[i] \in Bag THEN {par[i]} \union BagsAround(par, par[i]) ELSE {}
<1>1. CASE par[i] \notin Bag
  <2>1. Outward(par, i, {})
    BY <1>1 DEF Outward
  <2>2. BagsAround(par, i) \subseteq {}
    BY <2>1, BagsAroundLeast
  <2> QED BY <1>1, <2>2
<1>2. CASE par[i] \in Bag
  <2> DEFINE b == par[i]
  <2>1. b \in Item /\ b \in Bag
    BY <1>2, TradeAssumption
  <2>2. /\ BagsAround(par, b) \in SUBSET Bag
        /\ Outward(par, b, BagsAround(par, b))
        /\ \A S \in SUBSET Bag : Outward(par, b, S) => BagsAround(par, b) \subseteq S
    BY <2>1, BagsAroundLeast
  <2>3. /\ BagsAround(par, i) \in SUBSET Bag
        /\ Outward(par, i, BagsAround(par, i))
        /\ \A S \in SUBSET Bag : Outward(par, i, S) => BagsAround(par, i) \subseteq S
    BY BagsAroundLeast
  <2>4. Outward(par, i, {b} \union BagsAround(par, b))
    <3>1. \A j \in {b} \union BagsAround(par, b) :
            par[j] \in Bag => par[j] \in {b} \union BagsAround(par, b)
      BY <2>1, <2>2 DEF Outward
    <3>2. \A j \in {i} \intersect Item : par[j] \in Bag => par[j] \in {b}
      OBVIOUS
    <3> QED BY <3>1, <3>2 DEF Outward
  <2>5. BagsAround(par, i) \subseteq {b} \union BagsAround(par, b)
    BY <2>1, <2>2, <2>3, <2>4
  <2>6. b \in BagsAround(par, i) /\ Outward(par, b, BagsAround(par, i))
    BY <2>1, <2>3 DEF Outward
  <2>7. BagsAround(par, b) \subseteq BagsAround(par, i)
    BY <2>2, <2>3, <2>6
  <2> QED BY <1>2, <2>5, <2>6, <2>7
<1> QED BY <1>1, <1>2

\* One step outward.
LEMMA AroundStep ==
  ASSUME NEW par, NEW i \in Item
  PROVE  Around(par, i) = {par[i]} \union (IF par[i] \in Bag THEN Around(par, par[i]) ELSE {})
<1>1. CASE par[i] \in Bag
  <2>1. par[i] \in Item
    BY <1>1, TradeAssumption
  <2> QED BY <1>1, <2>1, AroundItem, OneBagOut
<1>2. CASE par[i] \notin Bag
  BY <1>2, AroundItem, OneBagOut
<1> QED BY <1>1, <1>2

\* Whatever bag is around i has only around it what is around i.
LEMMA BagsNest ==
  ASSUME NEW par, NEW i \in Item, NEW b \in BagsAround(par, i)
  PROVE  /\ b \in Bag /\ b \in Item
         /\ BagsAround(par, b) \subseteq BagsAround(par, i)
         /\ Around(par, b) \subseteq Around(par, i)
<1>1. b \in Bag /\ b \in Item
  BY BagsAroundLeast, TradeAssumption
<1>2. Outward(par, b, BagsAround(par, i)) /\ BagsAround(par, i) \in SUBSET Bag
  BY BagsAroundLeast DEF Outward
<1>3. BagsAround(par, b) \subseteq BagsAround(par, i)
  BY <1>1, <1>2, BagsAroundLeast
<1>4. par[b] \in Around(par, i)
  BY AroundItem
<1> QED BY <1>1, <1>3, <1>4, AroundItem

\* The bags around i, as members of Around.
LEMMA AroundBags ==
  ASSUME NEW par, NEW i \in Item
  PROVE  Around(par, i) \intersect Bag = BagsAround(par, i)
<1>1. BagsAround(par, i) = IF par[i] \in Bag THEN {par[i]} \union BagsAround(par, par[i]) ELSE {}
  BY OneBagOut
<1>2. BagsAround(par, i) \in SUBSET Bag /\ Outward(par, i, BagsAround(par, i))
  BY BagsAroundLeast
<1>3. Around(par, i) \intersect Bag \subseteq BagsAround(par, i)
  BY <1>2, AroundItem DEF Outward
<1>4. ASSUME NEW b \in BagsAround(par, i) PROVE b \in Around(par, i)
  <2> DEFINE S == {c \in BagsAround(par, i) : c \in Around(par, i)}
  <2>1. Outward(par, i, S)
    BY <1>2, AroundItem DEF Outward
  <2>2. BagsAround(par, i) \subseteq S
    BY <2>1, <1>2, BagsAroundLeast
  <2> QED BY <1>4, <2>2
<1> QED BY <1>2, <1>3, <1>4

\* The walk outward from i ends at the one item c whose place is no bag, and passes
\* every bag around i on the way: it does not come back to i.
LEMMA OneEnd ==
  ASSUME NEW par, NEW i \in Item, NEW c \in {i} \union BagsAround(par, i), par[c] \notin Bag
  PROVE  /\ \A b \in {i} \union BagsAround(par, i) : c \in {b} \union BagsAround(par, b)
         /\ \A d \in {i} \union BagsAround(par, i) : par[d] \notin Bag => d = c
         /\ i \notin BagsAround(par, i)
<1>1. BagsAround(par, i) \in SUBSET Bag /\ Outward(par, i, BagsAround(par, i))
  BY BagsAroundLeast
<1>2. BagsAround(par, i) \subseteq Item
  BY <1>1, TradeAssumption
<1>3. ASSUME NEW b \in {i} \union BagsAround(par, i) PROVE c \in {b} \union BagsAround(par, b)
  <2> DEFINE S == {d \in BagsAround(par, i) : c \in {d} \union BagsAround(par, d)}
  <2>1. ASSUME NEW d \in S, par[d] \in Bag PROVE par[d] \in S
    <3>1. c \in BagsAround(par, d)
      BY <2>1
    <3>2. c \in {par[d]} \union BagsAround(par, par[d])
      BY <1>2, <2>1, <3>1, OneBagOut
    <3>3. par[d] \in BagsAround(par, i)
      BY <1>1, <2>1 DEF Outward
    <3> QED BY <3>2, <3>3
  <2>2. ASSUME par[i] \in Bag PROVE par[i] \in S
    <3>1. c \in BagsAround(par, i)
      BY <2>2
    <3>2. c \in {par[i]} \union BagsAround(par, par[i])
      BY <2>2, <3>1, OneBagOut
    <3>3. par[i] \in BagsAround(par, i)
      BY <1>1, <2>2 DEF Outward
    <3> QED BY <3>2, <3>3
  <2>3. Outward(par, i, S)
    BY <2>1, <2>2 DEF Outward
  <2>4. BagsAround(par, i) \subseteq S
    BY <1>1, <2>3, BagsAroundLeast
  <2> QED BY <1>3, <2>4
<1>4. ASSUME NEW d \in {i} \union BagsAround(par, i), par[d] \notin Bag PROVE d = c
  <2>1. d \in Item
    BY <1>2
  <2>2. BagsAround(par, d) = {}
    BY <1>4, <2>1, OneBagOut
  <2> QED BY <1>3, <2>2
<1>5. i \notin BagsAround(par, i)
  <2> SUFFICES ASSUME i \in BagsAround(par, i) PROVE FALSE
    OBVIOUS
  <2> DEFINE S == {d \in BagsAround(par, i) : i \in {d} \union BagsAround(par, d)}
  <2>1. par[i] \in Bag
    BY OneBagOut
  <2>2. ASSUME NEW d \in S, par[d] \in Bag PROVE par[d] \in S
    <3>1. i \in BagsAround(par, d)
      BY <2>2
    <3>2. i \in {par[d]} \union BagsAround(par, par[d])
      BY <1>2, <2>2, <3>1, OneBagOut
    <3>3. par[d] \in BagsAround(par, i)
      BY <1>1, <2>2 DEF Outward
    <3> QED BY <3>2, <3>3
  <2>3. par[i] \in S
    <3>1. i \in {par[i]} \union BagsAround(par, par[i])
      BY <2>1, OneBagOut
    <3>2. par[i] \in BagsAround(par, i)
      BY <2>1, <1>1 DEF Outward
    <3> QED BY <3>1, <3>2
  <2>4. Outward(par, i, S)
    BY <2>2, <2>3 DEF Outward
  <2>5. c \in S
    BY <1>1, <2>1, <2>4, BagsAroundLeast
  <2>6. c \in Item /\ BagsAround(par, c) = {}
    BY <1>2, OneBagOut
  <2> QED BY <2>1, <2>5, <2>6
<1> QED BY <1>3, <1>4, <1>5

\* Where the walk ends is the same from all the bags around i.
LEMMA EndOfBag ==
  ASSUME NEW par, NEW i \in Item, NEW b \in {i} \union BagsAround(par, i),
         NEW e \in Around(par, i) \ Bag
  PROVE  e \in Around(par, b) /\ \A f \in Around(par, b) \ Bag : f = e
<1>1. PICK c \in {i} \union BagsAround(par, i) : e = par[c]
  BY AroundItem
<1>2. c \in {b} \union BagsAround(par, b)
  BY <1>1, OneEnd
<1>3. b \in Item /\ {b} \union BagsAround(par, b) \subseteq {i} \union BagsAround(par, i)
  BY BagsNest
<1>4. e \in Around(par, b)
  BY <1>1, <1>2, <1>3, AroundItem
<1>5. ASSUME NEW f \in Around(par, b) \ Bag PROVE f = e
  <2>1. PICK d \in {b} \union BagsAround(par, b) : f = par[d]
    BY <1>3, <1>5, AroundItem
  <2> QED BY <1>1, <1>3, <1>5, <2>1, OneEnd
<1> QED BY <1>4, <1>5

\* What is moved and is not around i changes nothing around i.
LEMMA AroundSame ==
  ASSUME NEW par, NEW qar, NEW i \in Item,
         \A j \in {i} \union BagsAround(par, i) : qar[j] = par[j]
  PROVE  Around(qar, i) = Around(par, i)
<1>1. BagsAround(par, i) \in SUBSET Bag /\ Outward(par, i, BagsAround(par, i))
  BY BagsAroundLeast
<1>2. Outward(qar, i, BagsAround(par, i))
  BY <1>1 DEF Outward
<1>3. BagsAround(qar, i) \subseteq BagsAround(par, i)
  BY <1>1, <1>2, BagsAroundLeast
<1>4. BagsAround(qar, i) \in SUBSET Bag /\ Outward(qar, i, BagsAround(qar, i))
  BY BagsAroundLeast
<1>5. Outward(par, i, BagsAround(qar, i))
  BY <1>3, <1>4 DEF Outward
<1>6. BagsAround(par, i) \subseteq BagsAround(qar, i)
  BY <1>4, <1>5, BagsAroundLeast
<1> QED BY <1>3, <1>6, AroundItem

-----------------------------------------------------------------------------
(* What is offered lies still.                                              *)

\* Places are told apart: players, bags, the ground.
LEMMA Places ==
  /\ Bag \subseteq Item /\ Bag \intersect Player = {} /\ Item \intersect House = {}
  /\ Ground \notin Player \union Bag \union Item \union House
  /\ None \notin Player \union Bag \union Item \union House
  /\ Gone \notin Player \union Bag /\ House \intersect Player = {}
  BY TradeAssumption

\* Where things can be.
Whereabouts == [Item -> Player \union Bag \union {Ground, Gone}]

\* A thing is around an item only if it is a bag: the offers in question are.
LEMMA OnlyBagsHold ==
  ASSUME TypeOK, NEW i \in Item, NEW s \in Item \union House, s \in Around(parent, i)
  PROVE  s \in BagsAround(parent, i) /\ s \in Bag
<1>1. \A j \in {i} \union BagsAround(parent, i) : parent[j] \in Player \union Bag \union {Ground, Gone}
  BY BagsAroundLeast, Places DEF TypeOK
<1>2. s \in Player \union Bag \union {Ground, Gone}
  BY <1>1, AroundItem
<1>3. s \in Bag
  BY <1>2, TradeAssumption
<1> QED BY <1>3, AroundBags

\* A trader who is not told that i leaves, or is and lets it go, offers nothing that
\* i is around (checkTradeState, onRemoveContainerItem, onRemoveInventoryItem).
LEMMA LeavesOffer ==
  ASSUME TypeOK, OfferIsAtHand, NEW r \in Player, tradeItem[r] \in Item,
         NEW i \in Item, r \notin EndedByRemoval(i)
  PROVE  i \notin {tradeItem[r]} \union BagsAround(parent, tradeItem[r])
<1> DEFINE s == tradeItem[r]
<1> SUFFICES ASSUME i \in {s} \union BagsAround(parent, s) PROVE FALSE
  OBVIOUS
<1>1. r \notin Told(i)
  <2>1. i = s \/ i \in Around(parent, s)
    BY AroundBags
  <2> QED BY <2>1 DEF EndedByRemoval
<1>2. parent[i] \in Player /\ parent[i] /= r
  BY <1>1 DEF Told
<1>3. PICK e \in Around(parent, s) : e \in {r, Ground}
  BY DEF OfferIsAtHand, Reaches
<1>4. e \notin Bag /\ parent[i] \notin Bag /\ e /= parent[i]
  BY <1>2, <1>3, Places
<1>5. parent[i] \in Around(parent, i)
  BY AroundItem
<1> QED BY <1>3, <1>4, <1>5, EndOfBag

\* So when some things move and the traders concerned are out, every other offer
\* stays where it was, in the same bags.
LEMMA OffersStay ==
  ASSUME TypeOK, OfferIsAtHand, NEW M \in SUBSET Item,
         \A j \in Item \ M : parent'[j] = parent[j],
         NEW r \in Player, tradeItem[r] \in Item, \A i \in M : r \notin EndedByRemoval(i)
  PROVE  /\ Around(parent', tradeItem[r]) = Around(parent, tradeItem[r])
         /\ parent'[tradeItem[r]] = parent[tradeItem[r]]
<1>1. \A i \in M : i \notin {tradeItem[r]} \union BagsAround(parent, tradeItem[r])
  BY LeavesOffer
<1>2. BagsAround(parent, tradeItem[r]) \subseteq Item
  BY BagsAroundLeast, Places
<1>3. \A j \in {tradeItem[r]} \union BagsAround(parent, tradeItem[r]) : parent'[j] = parent[j]
  BY <1>1, <1>2
<1> QED BY <1>3, AroundSame

\* The trades of P are closed, and whose offers were touched is among P: the offers
\* that remain are at hand.
LEMMA CloseAtHand ==
  ASSUME TypeOK, OfferIsAtHand, NEW P \in SUBSET Player, CloseTrades(P),
         NEW M \in SUBSET Item, \A j \in Item \ M : parent'[j] = parent[j],
         \A i \in M : EndedByRemoval(i) \subseteq P
  PROVE  OfferIsAtHand'
<1>1. \A r \in Player : tradeItem'[r] /= None =>
        tradeItem'[r] = tradeItem[r] /\ r \notin P
  BY DEF CloseTrades
<1>2. ASSUME NEW r \in Player, tradeItem'[r] \in Item
      PROVE  /\ Reaches(r, tradeItem[r])'
             /\ \A q \in Player \ {r} :
                  tradeItem'[q] /= tradeItem'[r] /\ tradeItem'[q] \notin Around(parent', tradeItem'[r])
  <2>1. tradeItem'[r] = tradeItem[r] /\ r \notin P /\ tradeItem'[r] /= None
    BY <1>1, <1>2, Places
  <2>2. Around(parent', tradeItem[r]) = Around(parent, tradeItem[r])
    BY <1>2, <2>1, OffersStay
  <2>3. Around(parent', tradeItem[r]) \intersect {r, Ground} /= {}
    BY <1>2, <2>1, <2>2 DEF OfferIsAtHand, Reaches
  <2>4. None \notin Around(parent, tradeItem[r])
    <3>1. \A j \in {tradeItem[r]} \union BagsAround(parent, tradeItem[r]) :
             parent[j] \in Player \union Bag \union {Ground, Gone}
      BY <1>2, <2>1, BagsAroundLeast, Places DEF TypeOK
    <3> QED BY <1>2, <2>1, <3>1, AroundItem, TradeAssumption
  <2>5. \A q \in Player \ {r} :
          tradeItem'[q] /= tradeItem'[r] /\ tradeItem'[q] \notin Around(parent', tradeItem'[r])
    BY <1>1, <1>2, <2>1, <2>2, <2>4 DEF OfferIsAtHand
  <2> QED BY <2>1, <2>3, <2>5 DEF Reaches
<1> QED BY <1>1, <1>2, Places DEF OfferIsAtHand, Reaches

\* The exchange, when it happens: the first thing has gone to a place of q's that
\* is not in the second, and the second, if there is still room, to one of p's.
LEMMA ExchangeMoves ==
  ASSUME NEW p, NEW q, NEW fits, NEW kicked, Exchange(p, q, fits, kicked)
  PROVE  \/ UNCHANGED <<parent, owner>> /\ CloseTrades({p})
         \/ LET t == tradeItem[p]
                u == tradeItem[q]
            IN /\ None \notin {t, u}
               /\ Destinations(parent, p, u) /= {} \/ u \in Stack
               /\ \E to \in Destinations(parent, q, t) :
                    LET par == Handed(parent, t, to)
                        room == Destinations(par, p, u)
                    IN /\ Takes(to, u)
                       /\ \/ room = {} /\ parent' = par
                          \/ \E back \in room : parent' = Handed(par, u, back)
                       /\ owner' = [h \in House |-> IF h = t THEN q ELSE IF h = u THEN p ELSE owner[h]]
                       /\ CloseTrades({p} \union kicked \union
                                      UNION {EndedByRemoval(i) : i \in {t, u} \intersect Item})
  BY DEF Exchange, TestsRoom, PartialStacks

\* It moves nothing but the two things, and closes the trades they touch.
LEMMA ExchangeAtHand ==
  ASSUME TypeOK, OfferIsAtHand, NEW p \in Player, NEW q \in Player, NEW fits,
         NEW kicked \in SUBSET Player, Exchange(p, q, fits, kicked)
  PROVE  OfferIsAtHand'
<1> DEFINE t == tradeItem[p]
           u == tradeItem[q]
           M == {t, u} \intersect Item
           P == {p} \union kicked \union UNION {EndedByRemoval(i) : i \in M}
<1>1. CASE UNCHANGED <<parent, owner>> /\ CloseTrades({p})
  <2>1. {p} \in SUBSET Player /\ {} \in SUBSET Item
    OBVIOUS
  <2>2. \A j \in Item \ {} : parent'[j] = parent[j]
    BY <1>1
  <2> QED BY <1>1, <2>1, <2>2, CloseAtHand
<1>2. ASSUME NEW to, CloseTrades(P),
             LET par == Handed(parent, t, to)
             IN parent' = par \/ \E back : parent' = Handed(par, u, back)
      PROVE  OfferIsAtHand'
  <2>1. M \in SUBSET Item /\ P \in SUBSET Player
    BY Ended
  <2>2. \A i \in M : EndedByRemoval(i) \subseteq P
    OBVIOUS
  <2>3. \A j \in Item \ M : parent'[j] = parent[j]
    BY <1>2 DEF Handed, TypeOK
  <2> HIDE DEF M, P
  <2> QED BY <1>2, <2>1, <2>2, <2>3, CloseAtHand
<1>3. CASE ~(UNCHANGED <<parent, owner>> /\ CloseTrades({p}))
  <2>1. PICK to \in Destinations(parent, q, t) :
          LET par == Handed(parent, t, to)
              room == Destinations(par, p, u)
          IN /\ \/ room = {} /\ parent' = par
                \/ \E back \in room : parent' = Handed(par, u, back)
             /\ CloseTrades(P)
    BY <1>3, ExchangeMoves
  <2>2. LET par == Handed(parent, t, to)
        IN parent' = par \/ \E back : parent' = Handed(par, u, back)
    BY <2>1
  <2> QED BY <1>2, <2>1, <2>2
<1> QED BY <1>1, <1>3

\* No step takes an offered thing out of reach.
LEMMA AtHandStep == TypeOK /\ IInv /\ OfferIsAtHand /\ [Next]_vars => OfferIsAtHand'
<1> SUFFICES ASSUME TypeOK, IInv, OfferIsAtHand, [Next]_vars PROVE OfferIsAtHand'
  OBVIOUS
<1>1. ASSUME NEW p \in Player, NEW q \in Player, NEW i \in Item, PlayerRequestTrade(p, q, i)
      PROVE  OfferIsAtHand'
  <2>1. /\ Reaches(p, i) /\ parent' = parent /\ tradeItem' = [tradeItem EXCEPT ![p] = i]
        /\ \A t \in tradeItems : i /= t /\ t \notin Around(parent, i) /\ i \notin Around(parent, t)
    BY <1>1 DEF PlayerRequestTrade, StartTrade
  <2>2. \A r \in Player : tradeItem[r] /= None => tradeItem[r] \in tradeItems
    BY DEF IInv, TradeIsMutual
  <2>3. None \notin Around(parent, i)
    <3>1. \A j \in {i} \union BagsAround(parent, i) :
             parent[j] \in Player \union Bag \union {Ground, Gone}
      BY BagsAroundLeast, Places DEF TypeOK
    <3> QED BY <3>1, AroundItem, TradeAssumption
  <2>4. ASSUME NEW r \in Player, tradeItem'[r] \in Item
        PROVE  /\ Around(parent', tradeItem'[r]) \intersect {r, Ground} /= {}
               /\ \A s \in Player \ {r} :
                    tradeItem'[s] /= tradeItem'[r] /\ tradeItem'[s] \notin Around(parent', tradeItem'[r])
    <3>1. CASE r = p
      <4>1. tradeItem'[r] = i /\ \A s \in Player \ {r} : tradeItem'[s] = tradeItem[s]
        BY <2>1, <3>1 DEF TypeOK
      <4> QED BY <2>1, <2>2, <2>3, <3>1, <4>1, Places DEF Reaches
    <3>2. CASE r /= p
      <4>1. /\ tradeItem'[r] = tradeItem[r] /\ tradeItem'[p] = i
            /\ \A s \in Player \ {r, p} : tradeItem'[s] = tradeItem[s]
        BY <2>1, <3>2 DEF TypeOK
      <4>2. tradeItem[r] \in tradeItems
        BY <2>2, <2>4, <4>1, Places
      <4> QED BY <2>1, <2>4, <4>1, <4>2 DEF OfferIsAtHand, Reaches
    <3> QED BY <3>1, <3>2
  <2> QED BY <2>4 DEF OfferIsAtHand, Reaches
<1>2. ASSUME NEW p \in Player, NEW q \in Player, NEW h \in House, SellHouse(p, q, h)
      PROVE  OfferIsAtHand'
  <2>1. parent' = parent /\ tradeItem' = [tradeItem EXCEPT ![p] = h]
    BY <1>2 DEF SellHouse, StartTrade
  <2>2. \A r \in Player \ {p} : tradeItem'[r] = tradeItem[r]
    BY <2>1 DEF TypeOK
  <2>3. tradeItem'[p] = h /\ h \notin Item
    BY <2>1, Places DEF TypeOK
  <2>4. ASSUME NEW r \in Player, tradeItem[r] \in Item PROVE h \notin Around(parent, tradeItem[r])
    BY <2>3, <2>4, OnlyBagsHold, Places
  <2> QED BY <2>1, <2>2, <2>3, <2>4 DEF OfferIsAtHand, Reaches
<1>3. ASSUME NEW p \in Player, NEW fits \in BOOLEAN, NEW kicked \in Kicked,
             PlayerAcceptTrade(p, fits, kicked)
      PROVE  OfferIsAtHand'
  <2>1. partner[p] \in Player /\ kicked \in SUBSET Player
    BY <1>3, Ended DEF PlayerAcceptTrade, TypeOK
  <2>2. CASE tradeState[partner[p]] = "ACCEPT"
    BY <1>3, <2>1, <2>2, ExchangeAtHand DEF PlayerAcceptTrade
  <2>3. CASE tradeState[partner[p]] /= "ACCEPT"
    BY <1>3, <2>3 DEF PlayerAcceptTrade, OfferIsAtHand, Reaches
  <2> QED BY <2>2, <2>3
<1>4. ASSUME NEW P \in SUBSET Player, CloseTrades(P), parent' = parent
      PROVE  OfferIsAtHand'
  <2>1. {} \in SUBSET Item /\ (\A j \in Item \ {} : parent'[j] = parent[j])
    BY <1>4
  <2> QED BY <1>4, <2>1, CloseAtHand
<1>5. ASSUME NEW p \in Player, WalkAway(p) \/ Logout(p)
      PROVE  OfferIsAtHand'
  BY <1>4, <1>5 DEF WalkAway, Logout
<1>6. ASSUME NEW p \in Player, NEW h \in House, NEW kicked \in Kicked, LeaveHouse(p, h, kicked)
      PROVE  OfferIsAtHand'
  BY <1>4, <1>6, Ended DEF LeaveHouse
<1>7. ASSUME NEW p \in Player, NEW h \in House, Login(p) \/ BuyHouse(p, h)
      PROVE  OfferIsAtHand'
  BY <1>7 DEF Login, BuyHouse, tradeVars, OfferIsAtHand, Reaches
<1>8. ASSUME NEW p \in Player, Login(p)
      PROVE  OfferIsAtHand'
  BY <1>8 DEF Login, tradeVars, OfferIsAtHand, Reaches
<1>9. ASSUME NEW p \in Player, NEW i \in Item, NEW place \in {p, Ground} \union Bag,
             PlayerMoveItem(p, i, place)
      PROVE  OfferIsAtHand'
  <2> DEFINE P == EndedByRemoval(i) \union EndedByArrival(place)
  <2>1. CloseTrades(P) /\ parent' = [parent EXCEPT ![i] = place]
    BY <1>9 DEF PlayerMoveItem, InternalMoveItem
  <2>2. P \in SUBSET Player /\ {i} \in SUBSET Item /\ \A j \in {i} : EndedByRemoval(j) \subseteq P
    BY Ended
  <2>3. \A j \in Item \ {i} : parent'[j] = parent[j]
    BY <2>1 DEF TypeOK
  <2> QED BY <2>1, <2>2, <2>3, CloseAtHand
<1>10. ASSUME NEW p \in Player, NEW i \in Item, NEW j \in Item, NEW follows \in BOOLEAN,
              PlayerExchangeItem(p, i, j, follows)
       PROVE  OfferIsAtHand'
  <2> DEFINE M == IF follows THEN {i, j} ELSE {j}
             P == EndedByRemoval(j) \union EndedByArrival(parent[i])
                  \union IF follows THEN EndedByRemoval(i) ELSE {}
  <2>1. /\ CloseTrades(P)
        /\ parent' = [parent EXCEPT ![j] = parent[i], ![i] = IF follows THEN p ELSE @]
    BY <1>10 DEF PlayerExchangeItem
  <2>2. P \in SUBSET Player /\ M \in SUBSET Item /\ \A k \in M : EndedByRemoval(k) \subseteq P
    BY Ended
  <2>3. \A k \in Item \ M : parent'[k] = parent[k]
    BY <2>1 DEF TypeOK
  <2> HIDE DEF M, P
  <2> QED BY <2>1, <2>2, <2>3, CloseAtHand
<1>11. ASSUME NEW i \in Item, RemoveItem(i)
       PROVE  OfferIsAtHand'
  <2>1. EndedByRemoval(i) \in SUBSET Player /\ {i} \in SUBSET Item
    BY Ended
  <2>2. \A j \in Item \ {i} : parent'[j] = parent[j]
    BY <1>11 DEF RemoveItem, TypeOK
  <2>3. CloseTrades(EndedByRemoval(i)) /\ \A j \in {i} : EndedByRemoval(j) \subseteq EndedByRemoval(i)
    BY <1>11 DEF RemoveItem
  <2> QED BY <2>1, <2>2, <2>3, CloseAtHand
<1>12. CASE UNCHANGED vars
  BY <1>12 DEF vars, tradeVars, OfferIsAtHand, Reaches
<1> QED
  BY <1>1, <1>2, <1>3, <1>5, <1>6, <1>7, <1>8, <1>9, <1>10, <1>11, <1>12
  DEF Next, TradeNext, ThingsNext

\* What is offered lies where its owner can give it, in nothing else that is offered,
\* wherever anybody moves things meanwhile, however deep bags lie in bags
\* (playerRequestTrade, checkTradeState, onRemoveContainerItem).
THEOREM OffersAreAtHand == Spec => []OfferIsAtHand
<1>1. Init => OfferIsAtHand
  BY Places DEF Init, OfferIsAtHand
<1> QED BY <1>1, TypeCorrect, MutualAlways, AtHandStep, PTL DEF Spec

-----------------------------------------------------------------------------
(* What is offered stays what it was.                                       *)

StillOffers(r) == tradeItem[r] /= None /\ tradeItem'[r] = tradeItem[r]

OfferUntouched ==
  \A p \in Player :
    tradeItem[p] /= None /\ tradeItem'[p] = tradeItem[p] =>
      \A i \in Item :
        tradeItem[p] \in Around(parent, i) \union Around(parent', i) \union {i} =>
          parent'[i] = parent[i]

\* What moved did not leave an offer; so if it did not get into one either, no offer
\* was touched (checkTradeState, onRemoveContainerItem).
LEMMA MovesTouchNoOffer ==
  ASSUME TypeOK, OfferIsAtHand, NEW P \in SUBSET Player, CloseTrades(P),
         NEW M \in SUBSET Item, \A j \in Item \ M : parent'[j] = parent[j],
         \A i \in M : EndedByRemoval(i) \subseteq P,
         \A i \in M, r \in Player :
           StillOffers(r) /\ r \notin P /\ parent'[i] /= parent[i] => tradeItem[r] \notin Around(parent', i)
  PROVE  OfferUntouched
<1> SUFFICES ASSUME NEW r \in Player, StillOffers(r), NEW i \in Item, parent'[i] /= parent[i],
                    tradeItem[r] \in Around(parent, i) \union Around(parent', i) \union {i}
             PROVE  FALSE
  BY DEF OfferUntouched, StillOffers
<1>1. i \in M /\ r \notin P /\ r \notin EndedByRemoval(i)
  BY DEF CloseTrades, StillOffers
<1>2. CASE tradeItem[r] = i
  BY <1>1, <1>2, LeavesOffer
<1>3. CASE tradeItem[r] \in Around(parent, i)
  <2>1. tradeItem[r] \in Item \union House
    BY DEF StillOffers, TypeOK
  <2>2. tradeItem[r] \in Bag
    BY <1>3, <2>1, OnlyBagsHold
  <2>3. r \notin Told(i)
    BY <1>1, <1>3 DEF EndedByRemoval
  <2>4. parent[i] \in Player
    BY <2>3 DEF Told
  <2>5. Around(parent, i) = {parent[i]}
    BY <2>4, AroundStep, Places
  <2> QED BY <1>3, <2>2, <2>4, <2>5, Places
<1>4. CASE tradeItem[r] \in Around(parent', i)
  BY <1>1, <1>4
<1> QED BY <1>2, <1>3, <1>4

\* What comes to a place is around no more than that place is.
LEMMA ArrivesAround ==
  ASSUME NEW par, NEW i \in Item, NEW s \in Bag, s \in Around(par, i)
  PROVE  par[i] \in Bag /\ s \in {par[i]} \union BagsAround(par, par[i])
<1>1. s \in BagsAround(par, i)
  BY AroundBags
<1> QED BY <1>1, OneBagOut

\* A bag that is offered is in what its owner has, or on the ground: so it is not,
\* also when something has moved that is not around it, around a bag of another.
LEMMA OfferAroundBag ==
  ASSUME TypeOK, OfferIsAtHand, NEW r \in Player, tradeItem[r] \in Item, NEW par,
         Around(par, tradeItem[r]) = Around(parent, tradeItem[r]),
         NEW b \in Bag, tradeItem[r] \in {b} \union BagsAround(par, b),
         NEW q \in Player, q \in Around(par, b)
  PROVE  q = r
<1> DEFINE s == tradeItem[r]
<1>1. b \in Item
  BY Places
<1>2. q \in Around(parent, s) /\ \A f \in Around(parent, s) \ Bag : f = q
  <2>1. q \notin Bag
    BY Places
  <2> QED BY <1>1, <2>1, EndOfBag
<1>3. PICK e \in Around(parent, s) : e \in {r, Ground}
  BY DEF OfferIsAtHand, Reaches
<1> QED BY <1>2, <1>3, Places

\* A bag with room for i: its owner has it, and i goes into nothing it is in itself.
LEMMA RoomInBag ==
  ASSUME NEW par, NEW p \in Player, NEW i, NEW b \in Destinations(par, p, i), b \in Bag
  PROVE  p \in Around(par, b) /\ i \notin {b} \union BagsAround(par, b) /\ b \in Item
<1>1. b \notin Player
  BY Places
<1>2. p \in Around(par, b) /\ i \notin Around(par, b) /\ b /= i
  BY <1>1 DEF Destinations
<1>3. b \in Item
  BY Places
<1> QED BY <1>2, <1>3, AroundBags

\* A thing that goes elsewhere is around nothing it was not around.
LEMMA HandedAround ==
  ASSUME NEW par \in Whereabouts, NEW b \in Item, NEW x, NEW place,
         x \notin {b} \union BagsAround(par, b)
  PROVE  /\ Around(Handed(par, x, place), b) = Around(par, b)
         /\ BagsAround(Handed(par, x, place), b) = BagsAround(par, b)
<1>1. BagsAround(par, b) \subseteq Item
  BY BagsAroundLeast, Places
<1>2. \A j \in {b} \union BagsAround(par, b) : Handed(par, x, place)[j] = par[j]
  BY <1>1 DEF Handed, Whereabouts
<1>3. Around(Handed(par, x, place), b) = Around(par, b)
  BY <1>2, AroundSame
<1> QED BY <1>3, AroundBags

\* Where the first thing is once it has gone over: what holds it is as it was.
LEMMA FirstPlace ==
  ASSUME TypeOK, NEW q \in Player, NEW t \in Item, NEW to \in Destinations(parent, q, t),
         NEW par, par = Handed(parent, t, to)
  PROVE  /\ par \in Whereabouts /\ par[t] = to
         /\ \A j \in Item \ {t} : par[j] = parent[j]
         /\ to = q \/ to \in Bag
         /\ to \in Bag => /\ q \in Around(parent, to)
                         /\ Around(par, to) = Around(parent, to)
                         /\ BagsAround(par, to) = BagsAround(parent, to)
<1>1. parent \in Whereabouts /\ to \in Player \union Bag
  BY DestinationTypes DEF TypeOK, Whereabouts
<1>2. par \in Whereabouts
  BY <1>1, HandedTypes DEF Whereabouts
<1>3. par[t] = to /\ \A j \in Item \ {t} : par[j] = parent[j]
  BY <1>1 DEF Handed, Whereabouts
<1>4. ASSUME to \in Bag
      PROVE  /\ q \in Around(parent, to) /\ Around(par, to) = Around(parent, to)
             /\ BagsAround(par, to) = BagsAround(parent, to)
  <2>1. q \in Around(parent, to) /\ t \notin {to} \union BagsAround(parent, to) /\ to \in Item
    BY <1>4, RoomInBag
  <2> QED BY <1>1, <2>1, HandedAround
<1>5. to = q \/ to \in Bag
  BY DEF Destinations
<1> QED BY <1>2, <1>3, <1>4, <1>5

\* Where the two things are once they have changed hands: what holds the first is as
\* it was, and so is what holds the second since the first has gone over.
LEMMA ExchangePlaces ==
  ASSUME TypeOK, NEW p \in Player, NEW q \in Player, NEW t, NEW u, t /= u,
         NEW to \in Destinations(parent, q, t), Takes(to, u),
         NEW par, par = Handed(parent, t, to), NEW back \in Destinations(par, p, u),
         NEW final, final = Handed(par, u, back)
  PROVE  /\ par \in Whereabouts /\ final \in Whereabouts
         /\ t \in Item => par[t] = to /\ final[t] = to
         /\ u \in Item => par[u] = parent[u] /\ final[u] = back
         /\ \A j \in Item \ {t, u} : par[j] = parent[j] /\ final[j] = parent[j]
         /\ to \in Bag => /\ q \in Around(parent, to) /\ to \in Item
                         /\ Around(par, to) = Around(parent, to)
                         /\ Around(final, to) = Around(parent, to)
                         /\ BagsAround(par, to) = BagsAround(parent, to)
                         /\ BagsAround(final, to) = BagsAround(parent, to)
         /\ back \in Bag => /\ p \in Around(par, back) /\ back \in Item
                           /\ Around(final, back) = Around(par, back)
                           /\ BagsAround(final, back) = BagsAround(par, back)
<1>1. parent \in Whereabouts /\ to \in Player \union Bag /\ back \in Player \union Bag
  BY DestinationTypes DEF TypeOK, Whereabouts
<1>2. par \in Whereabouts
  BY <1>1, HandedTypes DEF Whereabouts
<1>3. /\ t \in Item => par[t] = to
      /\ \A j \in Item \ {t} : par[j] = parent[j]
  BY <1>1 DEF Handed, Whereabouts
<1>4. final \in Whereabouts
  BY <1>1, <1>2, HandedTypes DEF Whereabouts
<1>5. /\ u \in Item => final[u] = back
      /\ \A j \in Item \ {u} : final[j] = par[j]
  BY <1>2 DEF Handed, Whereabouts
<1>6. ASSUME to \in Bag
      PROVE  /\ q \in Around(parent, to) /\ to \in Item
             /\ Around(par, to) = Around(parent, to) /\ Around(final, to) = Around(parent, to)
             /\ BagsAround(par, to) = BagsAround(parent, to)
             /\ BagsAround(final, to) = BagsAround(parent, to)
  <2>1. q \in Around(parent, to) /\ t \notin {to} \union BagsAround(parent, to) /\ to \in Item
    BY <1>6, RoomInBag
  <2>2. u \notin {to} \union BagsAround(parent, to)
    BY <2>1, AroundBags DEF Takes
  <2>3. /\ Around(par, to) = Around(parent, to)
        /\ BagsAround(par, to) = BagsAround(parent, to)
    BY <1>1, <2>1, HandedAround
  <2>4. /\ Around(final, to) = Around(par, to)
        /\ BagsAround(final, to) = BagsAround(par, to)
    <3>1. u \notin {to} \union BagsAround(par, to)
      BY <2>2, <2>3
    <3> QED BY <1>2, <2>1, <3>1, HandedAround
  <2> QED BY <2>1, <2>3, <2>4
<1>7. ASSUME back \in Bag
      PROVE  /\ p \in Around(par, back) /\ back \in Item
             /\ Around(final, back) = Around(par, back)
             /\ BagsAround(final, back) = BagsAround(par, back)
  <2>1. p \in Around(par, back) /\ u \notin {back} \union BagsAround(par, back) /\ back \in Item
    BY <1>7, RoomInBag
  <2> QED BY <1>2, <2>1, HandedAround
<1>8. /\ t \in Item => par[t] = to /\ final[t] = to
      /\ u \in Item => par[u] = parent[u] /\ final[u] = back
      /\ \A j \in Item \ {t, u} : par[j] = parent[j] /\ final[j] = parent[j]
  BY <1>3, <1>5
<1> QED BY <1>2, <1>4, <1>6, <1>7, <1>8

-----------------------------------------------------------------------------
(* How full bags are.                                                       *)

\* A thing that comes to a place makes it fuller by one at most, and no other.
LEMMA FilledMoved ==
  ASSUME NEW par \in Whereabouts, NEW x \in Item, NEW to,
         NEW qar, qar = Handed(par, x, to), NEW place
  PROVE  /\ Filled(par, place) \in Nat /\ Filled(qar, place) \in Nat
         /\ Filled(qar, place) <= Filled(par, place) + 1
         /\ place /= to => Filled(qar, place) <= Filled(par, place)
         /\ place /= to /\ par[x] = place => Filled(qar, place) = Filled(par, place) - 1
<1> DEFINE A == {i \in Item : par[i] = place}
           B == {i \in Item : qar[i] = place}
<1>1. IsFiniteSet(A) /\ IsFiniteSet(A \ {x})
  BY TradeAssumption, FS_Subset
<1>2. /\ Cardinality(A) \in Nat /\ Cardinality(A \ {x}) \in Nat
      /\ Cardinality(A \ {x}) = IF x \in A THEN Cardinality(A) - 1 ELSE Cardinality(A)
  BY <1>1, FS_RemoveElement, FS_CardinalityType
<1>3. Cardinality((A \ {x}) \union {x}) = Cardinality(A \ {x}) + 1
  BY <1>1, FS_AddElement
<1>4. B = IF place = to THEN (A \ {x}) \union {x} ELSE A \ {x}
  BY DEF Whereabouts, Handed
<1>5. x \in A <=> par[x] = place
  OBVIOUS
<1>6. Filled(par, place) = Cardinality(A) /\ Filled(qar, place) = Cardinality(B)
  BY DEF Filled
<1> HIDE DEF A, B
<1> QED BY <1>2, <1>3, <1>4, <1>5, <1>6

\* No bag holds more than it has place for.
HoldNoMore(par) == \A b \in Bag : Filled(par, b) <= BagSize

BagsHold == HoldNoMore(parent)

\* A move to a bag with room leaves no bag too full.
LEMMA MovedHolds ==
  ASSUME NEW par \in Whereabouts, HoldNoMore(par), NEW x, NEW to,
         to \in Bag => Filled(par, to) < BagSize
  PROVE  HoldNoMore(Handed(par, x, to))
<1>1. CASE x \notin Item
  BY <1>1 DEF Handed
<1>2. CASE x \in Item
  <2> SUFFICES ASSUME NEW b \in Bag PROVE Filled(Handed(par, x, to), b) <= BagSize
    BY DEF HoldNoMore
  <2>1. PICK qar : qar = Handed(par, x, to)
    OBVIOUS
  <2>2. /\ Filled(par, b) \in Nat /\ Filled(qar, b) \in Nat
        /\ Filled(qar, b) <= Filled(par, b) + 1
        /\ b /= to => Filled(qar, b) <= Filled(par, b)
    BY <1>2, <2>1, FilledMoved
  <2>3. Filled(par, b) <= BagSize /\ BagSize \in Nat
    BY TradeAssumption DEF HoldNoMore
  <2> QED BY <2>1, <2>2, <2>3
<1> QED BY <1>1, <1>2

\* Where there is a destination there is room.
LEMMA DestinationHolds ==
  ASSUME NEW par \in Whereabouts, HoldNoMore(par), NEW p \in Player, NEW t,
         NEW to \in Destinations(par, p, t)
  PROVE  HoldNoMore(Handed(par, t, to))
<1>1. to \in Bag => Filled(par, to) < BagSize
  BY Places DEF Destinations
<1> QED BY <1>1, MovedHolds

\* Neither do the two moves of an exchange.
LEMMA ExchangeHolds ==
  ASSUME TypeOK, BagsHold, NEW p \in Player, NEW q \in Player, NEW fits, NEW kicked,
         Exchange(p, q, fits, kicked)
  PROVE  BagsHold'
<1> DEFINE t == tradeItem[p]
           u == tradeItem[q]
<1>1. CASE UNCHANGED parent
  BY <1>1 DEF BagsHold
<1>2. CASE ~UNCHANGED parent
  <2>1. PICK to \in Destinations(parent, q, t) :
          LET par == Handed(parent, t, to)
          IN parent' = par \/ \E back \in Destinations(par, p, u) : parent' = Handed(par, u, back)
    <3> DEFINE P == {p} \union kicked \union
                      UNION {EndedByRemoval(i) : i \in {t, u} \intersect Item}
    <3>0. ~(UNCHANGED <<parent, owner>> /\ CloseTrades({p}))
      BY <1>2
    <3>1. \E to \in Destinations(parent, q, t) :
            LET par == Handed(parent, t, to)
                room == Destinations(par, p, u)
            IN /\ \/ room = {} /\ parent' = par
                  \/ \E back \in room : parent' = Handed(par, u, back)
               /\ CloseTrades(P)
      BY <3>0, ExchangeMoves
    <3> QED BY <3>1
  <2> DEFINE par == Handed(parent, t, to)
  <2>2. parent \in Whereabouts
    BY DEF TypeOK, Whereabouts
  <2>3. par \in Whereabouts /\ HoldNoMore(par)
    <3>1. par \in Whereabouts
      BY <2>2, DestinationTypes, HandedTypes DEF Whereabouts
    <3>2. HoldNoMore(par)
      BY <2>2, DestinationHolds DEF BagsHold
    <3> QED BY <3>1, <3>2
  <2>4. CASE parent' = par
    BY <2>3, <2>4 DEF BagsHold
  <2>5. ASSUME NEW back \in Destinations(par, p, u), parent' = Handed(par, u, back)
        PROVE  BagsHold'
    <3> HIDE DEF par
    <3>1. HoldNoMore(Handed(par, u, back))
      BY <2>3, <2>5, DestinationHolds
    <3> QED BY <2>5, <3>1 DEF BagsHold
  <2> QED BY <2>1, <2>4, <2>5
<1> QED BY <1>1, <1>2

\* No step fills a bag beyond its size, ...
LEMMA HoldStep == TypeOK /\ BagsHold /\ [Next]_vars => BagsHold'
<1> SUFFICES ASSUME TypeOK, BagsHold, [Next]_vars PROVE BagsHold'
  OBVIOUS
<1>1. parent \in Whereabouts /\ HoldNoMore(parent)
  BY DEF TypeOK, Whereabouts, BagsHold
<1>2. ASSUME NEW p \in Player, NEW fits \in BOOLEAN, NEW kicked \in Kicked,
             PlayerAcceptTrade(p, fits, kicked)
      PROVE  BagsHold'
  <2>1. partner[p] \in Player
    BY <1>2 DEF PlayerAcceptTrade, TypeOK
  <2>2. CASE tradeState[partner[p]] = "ACCEPT"
    BY <1>2, <2>1, <2>2, ExchangeHolds DEF PlayerAcceptTrade
  <2>3. CASE tradeState[partner[p]] /= "ACCEPT"
    BY <1>2, <2>3 DEF PlayerAcceptTrade, BagsHold
  <2> QED BY <2>2, <2>3
<1>3. ASSUME NEW p \in Player, NEW i \in Item, NEW place \in {p, Ground} \union Bag,
             PlayerMoveItem(p, i, place)
      PROVE  BagsHold'
  <2>1. parent' = Handed(parent, i, place) /\ (place \in Bag => Filled(parent, place) < BagSize)
    BY <1>3, Places DEF PlayerMoveItem, InternalMoveItem, Accepts, Handed
  <2> QED BY <1>1, <2>1, MovedHolds DEF BagsHold
<1>4. ASSUME NEW p \in Player, NEW i \in Item, NEW j \in Item, NEW follows \in BOOLEAN,
             PlayerExchangeItem(p, i, j, follows)
      PROVE  BagsHold'
  <2> DEFINE from == parent[i]
             par == Handed(parent, j, from)
  <2>1. /\ parent' = IF follows THEN Handed(par, i, p) ELSE par
        /\ from \in Bag => Filled(parent, from) < BagSize
    BY <1>1, <1>4 DEF PlayerExchangeItem, Handed, Whereabouts
  <2>2. par \in Whereabouts
    BY <1>1 DEF Whereabouts, Handed
  <2>3. HoldNoMore(par) /\ p \notin Bag
    BY <1>1, <2>1, MovedHolds, Places
  <2> HIDE DEF par
  <2> QED BY <2>1, <2>2, <2>3, MovedHolds DEF BagsHold
<1>5. ASSUME NEW i \in Item, RemoveItem(i)
      PROVE  BagsHold'
  <2>1. parent' = Handed(parent, i, Gone) /\ Gone \notin Bag
    BY <1>5, Places DEF RemoveItem, Handed
  <2> QED BY <1>1, <2>1, MovedHolds DEF BagsHold
<1>6. CASE UNCHANGED parent
  BY <1>6 DEF BagsHold
<1> QED
  BY <1>2, <1>3, <1>4, <1>5, <1>6
  DEF Next, TradeNext, ThingsNext, PlayerRequestTrade, SellHouse, WalkAway, Logout, Login,
    LeaveHouse, BuyHouse, tradeVars, vars

-----------------------------------------------------------------------------
(* Both things change hands.                                                *)

\* A bag of p's is not one of q's.
LEMMA BagsOfOne ==
  ASSUME NEW par, NEW p \in Player, NEW q \in Player, NEW b \in Bag,
         p \in Around(par, b), q \in Around(par, b)
  PROVE  p = q
<1>1. b \in Item /\ p \notin Bag /\ q \notin Bag
  BY Places
<1> QED BY <1>1, EndOfBag

\* A bag that p has and that holds none of what moves is a destination still.
LEMMA BagRemains ==
  ASSUME TypeOK, NEW p \in Player, NEW t \in Item, NEW u, tradeItem[p] = t,
         NEW to \in Player \union Bag, NEW b \in Bag, b \notin {u, to},
         p \in Around(parent, b), u \notin Around(parent, b),
         t \notin {b} \union BagsAround(parent, b),
         Filled(Handed(parent, t, to), b) < BagSize
  PROVE  b \in Destinations(Handed(parent, t, to), p, u)
<1> DEFINE par == Handed(parent, t, to)
<1>1. b \in Item /\ b \notin {p}
  BY Places
<1>2. Around(par, b) = Around(parent, b) /\ BagsAround(par, b) = BagsAround(parent, b)
  <2>1. parent \in Whereabouts
    BY DEF TypeOK, Whereabouts
  <2> QED BY <1>1, <2>1, HandedAround
<1>3. Around(par, b) \intersect Bag = BagsAround(par, b)
  BY <1>1, AroundBags
<1> HIDE DEF par
<1> QED BY <1>2, <1>3 DEF par, Destinations

\* When the first thing has gone over, the second still finds a place.  What was
\* found for it is with its receiver, where nothing was put; and if that was in the
\* first thing, there is now place where the first thing was (queryDestination
\* passes over the thing itself, unless it is in another bag).
LEMMA RoomRemains ==
  ASSUME TypeOK, BagsHold, NEW p \in Player, NEW q \in Player, p /= q,
         NEW t, t = tradeItem[p], NEW u, Destinations(parent, p, u) /= {},
         NEW to \in Destinations(parent, q, t)
  PROVE  Destinations(Handed(parent, t, to), p, u) /= {}
<1> DEFINE par == Handed(parent, t, to)
<1>1. CASE t \notin Item
  BY <1>1 DEF Handed
<1>2. CASE t \in Item
  <2>1. parent \in Whereabouts /\ to \in Player \union Bag
    BY DestinationTypes DEF TypeOK, Whereabouts
  <2>2. to = q \/ (to \in Bag /\ q \in Around(parent, to))
    BY DEF Destinations
  <2> HIDE DEF par
  <2>3. \A place : /\ Filled(parent, place) \in Nat /\ Filled(par, place) \in Nat
                   /\ place /= to => Filled(par, place) <= Filled(parent, place)
                   /\ place /= to /\ parent[t] = place => Filled(par, place) = Filled(parent, place) - 1
    <3>1. par = Handed(parent, t, to)
      BY DEF par
    <3> QED BY <1>2, <2>1, <3>1, FilledMoved
  <2>4. Slots \in Nat /\ BagSize \in Nat
    BY TradeAssumption
  <2>5. PICK d : d \in Destinations(parent, p, u)
    OBVIOUS
  <2>6. CASE d = p /\ Filled(parent, p) < Slots
    <3>1. p /= to
      BY <2>2, Places
    <3>2. Filled(par, p) < Slots
      BY <2>3, <2>4, <2>6, <3>1
    <3> QED BY <3>2 DEF Destinations, par
  <2>7. ASSUME d \in Bag \ {u}, p \in Around(parent, d), u \notin Around(parent, d),
               Filled(parent, d) < BagSize,
               \A c \in {d} \union (Around(parent, d) \intersect Bag) : c = tradeItem[p] => parent[c] /= p
        PROVE  Destinations(par, p, u) /= {}
    <3>1. d \in Item /\ p \notin Bag
      BY <2>7, Places
    <3>2. Around(parent, d) \intersect Bag = BagsAround(parent, d)
      BY <3>1, AroundBags
    <3>3. ASSUME NEW b \in Bag, p \in Around(parent, b)
          PROVE  b /= to
      <4>1. CASE to \in Bag
        BY <2>2, <3>3, <4>1, BagsOfOne, Places
      <4> QED BY <4>1, <3>3
    <3>4. CASE t \notin {d} \union BagsAround(parent, d)
      <4>1. d /= to
        BY <2>7, <3>3
      <4>2. Filled(par, d) < BagSize
        BY <2>3, <2>4, <2>7, <4>1
      <4> QED BY <1>2, <2>1, <2>7, <3>4, <4>1, <4>2, BagRemains DEF par
    <3>5. CASE t \in {d} \union BagsAround(parent, d)
      <4>1. t \in Bag /\ parent[t] /= p
        BY <2>7, <3>2, <3>5
      <4>2. p \in Around(parent, t)
        BY <2>7, <3>1, <3>5, EndOfBag
      <4> DEFINE b == parent[t]
      <4>3. b \in Bag /\ p \in Around(parent, b)
        BY <1>2, <4>1, <4>2, AroundStep
      <4>4. BagsAround(parent, t) = {b} \union BagsAround(parent, b)
        BY <1>2, <4>3, OneBagOut
      <4>5. b \in BagsAround(parent, d)
        BY <3>1, <3>5, <4>4, BagsNest
      <4>6. b \in Around(parent, d) /\ Around(parent, b) \subseteq Around(parent, d)
        BY <3>1, <3>2, <4>5, BagsNest
      <4>7. t \notin {b} \union BagsAround(parent, b)
        <5>1. PICK c \in {t} \union BagsAround(parent, t) : parent[c] = p
          BY <1>2, <4>2, AroundItem
        <5>2. t \notin BagsAround(parent, t)
          BY <1>2, <3>1, <5>1, OneEnd
        <5> QED BY <4>4, <5>2
      <4>8. b /= to
        BY <3>3, <4>3
      <4>9. Filled(par, b) = Filled(parent, b) - 1 /\ Filled(parent, b) <= BagSize
        BY <2>3, <4>3, <4>8 DEF BagsHold, HoldNoMore
      <4> HIDE DEF b
      <4>10. Filled(par, b) < BagSize
        BY <2>3, <2>4, <4>9
      <4> QED BY <1>2, <2>1, <2>7, <4>3, <4>6, <4>7, <4>8, <4>10, BagRemains DEF par
    <3> QED BY <3>4, <3>5
  <2> QED BY <2>5, <2>6, <2>7 DEF Destinations, par
<1> QED BY <1>1, <1>2

-----------------------------------------------------------------------------
(* Nothing comes into an offer, and nothing leaves it.                      *)

\* What holds a thing and is offered is a bag, around the place where the thing is.
LEMMA OfferAroundPlace ==
  ASSUME TypeOK, NEW par \in Whereabouts, NEW i \in Item, NEW r \in Player, StillOffers(r),
         tradeItem[r] \in Around(par, i)
  PROVE  /\ tradeItem[r] \in Bag /\ tradeItem[r] \in Item
         /\ par[i] \in Bag /\ tradeItem[r] \in {par[i]} \union BagsAround(par, par[i])
<1> DEFINE s == tradeItem[r]
<1>1. s \in Bag
  <2>1. \A j \in {i} \union BagsAround(par, i) : par[j] \in Player \union Bag \union {Ground, Gone}
    BY BagsAroundLeast, Places DEF Whereabouts
  <2>2. s \in Player \union Bag \union {Ground, Gone}
    BY <2>1, AroundItem
  <2>3. s \in Item \union House
    BY DEF StillOffers, TypeOK
  <2> QED BY <2>2, <2>3, TradeAssumption
<1>2. s \in Item
  BY <1>1, Places
<1> QED BY <1>1, <1>2, ArrivesAround

\* If only the first thing goes over, it comes into nothing that others offer.
LEMMA FirstUntouched ==
  ASSUME TypeOK, OfferIsAtHand, NEW q \in Player, NEW t,
         NEW to \in Destinations(parent, q, t), parent' = Handed(parent, t, to),
         NEW P \in SUBSET Player, CloseTrades(P), t \in Item => EndedByRemoval(t) \subseteq P,
         \A r \in Player : StillOffers(r) => r /= q
  PROVE  OfferUntouched
<1>1. CASE t \notin Item
  BY <1>1 DEF Handed, OfferUntouched
<1>2. CASE t \in Item
  <2>1. /\ parent' \in Whereabouts /\ parent'[t] = to
        /\ \A j \in Item \ {t} : parent'[j] = parent[j]
        /\ to \in Bag => q \in Around(parent, to) /\ BagsAround(parent', to) = BagsAround(parent, to)
    BY <1>2, FirstPlace
  <2>2. ASSUME NEW r \in Player, StillOffers(r), tradeItem[r] \in Around(parent', t)
        PROVE  FALSE
    <3>1. /\ tradeItem[r] \in Item
          /\ to \in Bag /\ tradeItem[r] \in {to} \union BagsAround(parent', to)
      BY <1>2, <2>1, <2>2, OfferAroundPlace
    <3> QED BY <2>1, <2>2, <3>1, OfferAroundBag
  <2>3. \A i \in {t}, r \in Player :
          StillOffers(r) /\ r \notin P /\ parent'[i] /= parent[i] => tradeItem[r] \notin Around(parent', i)
    BY <2>2
  <2>4. {t} \in SUBSET Item /\ \A i \in {t} : EndedByRemoval(i) \subseteq P
    BY <1>2
  <2> QED BY <2>1, <2>3, <2>4, MovesTouchNoOffer
<1> QED BY <1>1, <1>2

\* If both change hands, neither does.
LEMMA BothUntouched ==
  ASSUME TypeOK, OfferIsAtHand, NEW p \in Player, NEW q \in Player, NEW t, NEW u, t /= u,
         NEW to \in Destinations(parent, q, t), Takes(to, u),
         NEW par, par = Handed(parent, t, to), NEW back \in Destinations(par, p, u),
         parent' = Handed(par, u, back),
         NEW P \in SUBSET Player, CloseTrades(P),
         \A i \in {t, u} \intersect Item : EndedByRemoval(i) \subseteq P,
         \A r \in Player : StillOffers(r) => r /= p /\ r /= q /\ r \notin P
  PROVE  OfferUntouched
<1>1. /\ par \in Whereabouts /\ parent' \in Whereabouts
      /\ t \in Item => parent'[t] = to
      /\ u \in Item => parent'[u] = back
      /\ \A j \in Item \ {t, u} : parent'[j] = parent[j]
      /\ to \in Bag => /\ q \in Around(parent, to)
                      /\ BagsAround(parent', to) = BagsAround(parent, to)
      /\ back \in Bag => /\ p \in Around(par, back)
                        /\ BagsAround(parent', back) = BagsAround(par, back)
  BY ExchangePlaces
<1>2. parent \in Whereabouts
  BY DEF TypeOK, Whereabouts
<1>3. ASSUME NEW i \in {t, u} \intersect Item, NEW r \in Player, StillOffers(r),
             tradeItem[r] \in Around(parent', i)
      PROVE  FALSE
  <2> DEFINE s == tradeItem[r]
  <2>1. s \in Item /\ parent'[i] \in Bag /\ s \in {parent'[i]} \union BagsAround(parent', parent'[i])
    BY <1>1, <1>3, OfferAroundPlace
  <2>2. CASE i = t
    <3>1. to \in Bag /\ s \in {to} \union BagsAround(parent, to) /\ q \in Around(parent, to)
      BY <1>1, <2>1, <2>2
    <3> QED BY <1>3, <2>1, <3>1, OfferAroundBag
  <2>3. CASE i = u
    <3>1. back \in Bag /\ s \in {back} \union BagsAround(par, back) /\ p \in Around(par, back)
      BY <1>1, <2>1, <2>3
    <3>2. Around(par, s) = Around(parent, s)
      <4>1. CASE t \in Item
        <5>1. r \notin EndedByRemoval(t)
          BY <1>3, <4>1
        <5>2. t \notin {s} \union BagsAround(parent, s)
          BY <2>1, <4>1, <5>1, LeavesOffer
        <5> QED BY <1>2, <2>1, <5>2, HandedAround
      <4>2. CASE t \notin Item
        BY <4>2 DEF Handed
      <4> QED BY <4>1, <4>2
    <3> QED BY <1>3, <2>1, <3>1, <3>2, OfferAroundBag
  <2> QED BY <2>2, <2>3
<1>4. {t, u} \intersect Item \in SUBSET Item /\ \A j \in Item \ ({t, u} \intersect Item) : parent'[j] = parent[j]
  BY <1>1
<1> QED BY <1>3, <1>4, MovesTouchNoOffer

\* The exchange puts nothing into what a third person offers (playerAcceptTrade).
LEMMA ExchangeUntouched ==
  ASSUME TypeOK, IInv, BagsHold, OfferIsAtHand, NEW p \in Player, NEW q \in Player, q = partner[p],
         NEW fits, NEW kicked \in SUBSET Player, Exchange(p, q, fits, kicked)
  PROVE  OfferUntouched
<1> DEFINE t == tradeItem[p]
           u == tradeItem[q]
           M == {t, u} \intersect Item
           P == {p} \union kicked \union UNION {EndedByRemoval(i) : i \in M}
<1>1. CASE UNCHANGED <<parent, owner>>
  BY <1>1 DEF OfferUntouched
<1>2. CASE ~UNCHANGED <<parent, owner>>
  <2>1. PICK to \in Destinations(parent, q, t) :
          LET par == Handed(parent, t, to)
              room == Destinations(par, p, u)
          IN /\ Takes(to, u)
             /\ \/ room = {} /\ parent' = par
                \/ \E back \in room : parent' = Handed(par, u, back)
             /\ None \notin {t, u}
             /\ CloseTrades(P)
    BY <1>2, ExchangeMoves
  <2>2. P \in SUBSET Player /\ CloseTrades(P) /\ \A i \in M : EndedByRemoval(i) \subseteq P
    BY <2>1, Ended
  <2>3. t /= u
    BY <2>1 DEF IInv, OffersDiffer, NotWithOneself
  <2>4. ASSUME NEW r \in Player, StillOffers(r)
        PROVE  r /= p /\ r /= q /\ r \notin P
    <3>1. partner[q] = p
      BY NoneIsNothing DEF IInv, TradeIsMutual
    <3>2. tradeItem'[q] = None /\ tradeItem'[p] = None /\ (r \in P => tradeItem'[r] = None)
      BY <2>2, <3>1 DEF CloseTrades
    <3> QED BY <2>4, <3>2 DEF StillOffers
  <2> HIDE DEF P
  <2>5. CASE parent' = Handed(parent, t, to)
    <3>1. t \in Item => EndedByRemoval(t) \subseteq P
      BY <2>2
    <3> HIDE DEF t
    <3> QED BY <2>2, <2>4, <2>5, <3>1, FirstUntouched
  <2>6. ASSUME NEW back \in Destinations(Handed(parent, t, to), p, u),
               parent' = Handed(Handed(parent, t, to), u, back)
        PROVE  OfferUntouched
    <3>1. Takes(to, u) /\ \A i \in {t, u} \intersect Item : EndedByRemoval(i) \subseteq P
      BY <2>1, <2>2
    <3> HIDE DEF t, u, M
    <3> QED BY <2>2, <2>3, <2>4, <2>6, <3>1, BothUntouched
  <2> QED BY <2>1, <2>5, <2>6
<1> QED BY <1>1, <1>2

\* What is put somewhere comes into no offer that goes on (onAddContainerItem).
LEMMA ArrivalUntouched ==
  ASSUME TypeOK, NEW par \in Whereabouts, NEW i \in Item, NEW place, par[i] = place,
         place \in Bag => BagsAround(par, place) = BagsAround(parent, place),
         NEW r \in Player, r \notin EndedByArrival(place), tradeItem[r] /= None
  PROVE  tradeItem[r] \notin Around(par, i)
<1> SUFFICES ASSUME tradeItem[r] \in Around(par, i) PROVE FALSE
  OBVIOUS
<1> DEFINE s == tradeItem[r]
<1>1. Around(par, i) \subseteq Player \union Bag \union {Ground, Gone}
  <2>1. \A j \in {i} \union BagsAround(par, i) : par[j] \in Player \union Bag \union {Ground, Gone}
    BY BagsAroundLeast, Places DEF Whereabouts
  <2> QED BY <2>1, AroundItem
<1>2. s \in Bag
  <2>1. s \in Item \union House
    BY DEF TypeOK
  <2> QED BY <1>1, <2>1, TradeAssumption
<1>3. place \in Bag /\ s \in {place} \union BagsAround(par, place)
  BY <1>2, ArrivesAround
<1>4. place \in Item
  BY <1>3, Places
<1>5. s \in {place} \union Around(parent, place)
  BY <1>3, <1>4, AroundBags
<1> QED BY <1>2, <1>5 DEF EndedByArrival

\* No step but the exchange touches what is in a bag on offer.
LEMMA UntouchedStep == TypeOK /\ IInv /\ BagsHold /\ OfferIsAtHand /\ [Next]_vars => OfferUntouched
<1> SUFFICES ASSUME TypeOK, IInv, BagsHold, OfferIsAtHand, [Next]_vars PROVE OfferUntouched
  OBVIOUS
<1>1. parent \in Whereabouts
  BY DEF TypeOK, Whereabouts
<1>2. ASSUME NEW p \in Player, NEW fits \in BOOLEAN, NEW kicked \in Kicked,
             PlayerAcceptTrade(p, fits, kicked)
      PROVE  OfferUntouched
  <2>1. partner[p] \in Player /\ kicked \in SUBSET Player
    BY <1>2, Ended DEF PlayerAcceptTrade, TypeOK
  <2>2. CASE tradeState[partner[p]] = "ACCEPT"
    BY <1>2, <2>1, <2>2, ExchangeUntouched DEF PlayerAcceptTrade
  <2>3. CASE tradeState[partner[p]] /= "ACCEPT"
    BY <1>2, <2>3 DEF PlayerAcceptTrade, OfferUntouched
  <2> QED BY <2>2, <2>3
<1>3. ASSUME NEW p \in Player, NEW i \in Item, NEW place \in {p, Ground} \union Bag,
             PlayerMoveItem(p, i, place)
      PROVE  OfferUntouched
  <2> DEFINE P == EndedByRemoval(i) \union EndedByArrival(place)
  <2>1. /\ CloseTrades(P) /\ parent' = Handed(parent, i, place)
        /\ place \in Bag => i /= place /\ i \notin Around(parent, place)
    BY <1>3, Places DEF PlayerMoveItem, InternalMoveItem, Accepts, Handed
  <2>2. P \in SUBSET Player /\ {i} \in SUBSET Item /\ \A j \in {i} : EndedByRemoval(j) \subseteq P
    BY Ended
  <2>3. \A j \in Item \ {i} : parent'[j] = parent[j]
    BY <1>1, <2>1 DEF Whereabouts, Handed
  <2>4. parent' \in Whereabouts /\ parent'[i] = place
    BY <1>1, <2>1 DEF Whereabouts, Handed
  <2>5. ASSUME place \in Bag PROVE BagsAround(parent', place) = BagsAround(parent, place)
    <3>1. place \in Item
      BY <2>5, Places
    <3>2. i \notin {place} \union BagsAround(parent, place)
      BY <2>1, <2>5, <3>1, AroundBags
    <3> QED BY <1>1, <2>1, <3>1, <3>2, HandedAround
  <2>6. ASSUME NEW r \in Player, StillOffers(r), r \notin P
        PROVE  tradeItem[r] \notin Around(parent', i)
    <3>1. PICK par \in Whereabouts : par = parent'
      BY <2>4
    <3> QED BY <2>4, <2>5, <2>6, <3>1, ArrivalUntouched DEF StillOffers
  <2> HIDE DEF P
  <2> QED BY <2>1, <2>2, <2>3, <2>6, MovesTouchNoOffer
<1>4. ASSUME NEW p \in Player, NEW i \in Item, NEW j \in Item, NEW follows \in BOOLEAN,
             PlayerExchangeItem(p, i, j, follows)
      PROVE  OfferUntouched
  <2> DEFINE from == parent[i]
             par == Handed(parent, j, from)
             final == IF follows THEN Handed(par, i, p) ELSE par
             M == IF follows THEN {i, j} ELSE {j}
             P == EndedByRemoval(j) \union EndedByArrival(from)
                  \union IF follows THEN EndedByRemoval(i) ELSE {}
  <2>1. /\ CloseTrades(P) /\ parent' = final
        /\ Reaches(p, i) /\ parent[j] = p /\ from /= p /\ j \notin Around(parent, i)
    BY <1>1, <1>4 DEF PlayerExchangeItem, Handed, Whereabouts
  <2>2. P \in SUBSET Player /\ M \in SUBSET Item /\ \A k \in M : EndedByRemoval(k) \subseteq P
    BY Ended
  <2>3. par \in Whereabouts /\ final \in Whereabouts
    BY <1>1 DEF Whereabouts, Handed
  <2>4. /\ \A k \in Item \ M : final[k] = parent[k]
        /\ final[j] = from
        /\ follows => final[i] = p
    BY <1>1, <2>1 DEF Whereabouts, Handed
  <2>5. ASSUME from \in Bag PROVE BagsAround(final, from) = BagsAround(parent, from)
    <3>1. from \in Item
      BY <2>5, Places
    <3>2. BagsAround(parent, i) = {from} \union BagsAround(parent, from)
      BY <2>5, OneBagOut
    <3>3. j \notin {from} \union BagsAround(parent, from)
      BY <2>1, <3>2, AroundBags
    <3>4. i \notin {from} \union BagsAround(parent, from)
      <4>1. PICK e \in {p, Ground} : e \in Around(parent, i)
        BY <2>1 DEF Reaches
      <4>2. PICK c \in {i} \union BagsAround(parent, i) : parent[c] = e
        BY <4>1, AroundItem
      <4>3. e \notin Bag
        BY Places
      <4> QED BY <3>2, <4>2, <4>3, OneEnd
    <3>5. BagsAround(par, from) = BagsAround(parent, from)
      BY <1>1, <3>1, <3>3, HandedAround
    <3> HIDE DEF par
    <3>6. BagsAround(Handed(par, i, p), from) = BagsAround(par, from)
      BY <2>3, <3>1, <3>4, <3>5, HandedAround
    <3> QED BY <3>5, <3>6
  <2> HIDE DEF par, final
  <2>6. ASSUME NEW k \in M, NEW r \in Player, StillOffers(r), r \notin P
        PROVE  tradeItem[r] \notin Around(final, k)
    <3>1. tradeItem[r] /= None /\ r \notin EndedByArrival(from)
      BY <2>6 DEF StillOffers
    <3>2. CASE k = j
      BY <2>3, <2>4, <2>5, <3>1, <3>2, ArrivalUntouched
    <3>3. CASE k = i /\ follows
      <4>1. final[i] = p /\ p \notin Bag /\ r \notin EndedByArrival(p)
        <5>1. r \notin EndedByArrival(p)
          <6>1. Around(parent, p) = {}
            <7>1. BagsAround(parent, p) = {}
              <8>1. p \notin Item
                BY TradeAssumption
              <8>2. Outward(parent, p, {})
                BY <8>1 DEF Outward
              <8> QED BY <8>2 DEF BagsAround
            <7> QED BY <7>1, TradeAssumption DEF Around
          <6> QED BY <6>1, Places DEF EndedByArrival
        <5> QED BY <2>4, <3>3, <5>1, Places
      <4> QED BY <2>3, <3>1, <3>3, <4>1, ArrivalUntouched
    <3> QED BY <2>6, <3>2, <3>3
  <2> HIDE DEF M, P
  <2>7. \A k \in Item \ M : parent'[k] = parent[k]
    BY <2>1, <2>4
  <2>8. \A k \in M, r \in Player :
          StillOffers(r) /\ r \notin P /\ parent'[k] /= parent[k] => tradeItem[r] \notin Around(parent', k)
    BY <2>1, <2>6
  <2> QED BY <2>1, <2>2, <2>7, <2>8, MovesTouchNoOffer
<1>5. ASSUME NEW i \in Item, RemoveItem(i)
      PROVE  OfferUntouched
  <2>1. EndedByRemoval(i) \in SUBSET Player /\ {i} \in SUBSET Item
    BY Ended
  <2>2. parent' = Handed(parent, i, Gone)
    BY <1>5 DEF RemoveItem, Handed
  <2>3. /\ \A j \in Item \ {i} : parent'[j] = parent[j]
        /\ parent'[i] = Gone
    BY <1>1, <2>2 DEF Handed, Whereabouts
  <2>4. CloseTrades(EndedByRemoval(i)) /\ \A j \in {i} : EndedByRemoval(j) \subseteq EndedByRemoval(i)
    BY <1>5 DEF RemoveItem
  <2>5. Around(parent', i) = {Gone}
    BY <2>3, AroundStep, Places
  <2>6. ASSUME NEW r \in Player, StillOffers(r)
        PROVE  tradeItem[r] \notin Around(parent', i)
    BY <2>5, <2>6, TradeAssumption DEF StillOffers, TypeOK
  <2> QED BY <2>1, <2>3, <2>4, <2>6, MovesTouchNoOffer
<1>6. CASE UNCHANGED parent
  BY <1>6 DEF OfferUntouched
<1> QED
  BY <1>2, <1>3, <1>4, <1>5, <1>6
  DEF Next, TradeNext, ThingsNext, PlayerRequestTrade, SellHouse, WalkAway, Logout, Login,
    LeaveHouse, BuyHouse, tradeVars, vars

\* ... so none is ever too full.
LEMMA HoldAlways == Spec => []BagsHold
<1>1. Init => BagsHold
  <2> SUFFICES ASSUME Init, NEW b \in Bag PROVE Filled(parent, b) <= BagSize
    BY DEF BagsHold, HoldNoMore
  <2>1. {i \in Item : parent[i] = b} = {}
    BY Places DEF Init
  <2> QED BY <2>1, FS_EmptySet, TradeAssumption DEF Filled
<1> QED BY <1>1, TypeCorrect, HoldStep, PTL DEF Spec

\* What the partner was shown is what he gets: nothing leaves what is offered and
\* nothing comes into it while the trade goes on, whatever is moved, worn, used up or
\* exchanged by others, however deep (checkTradeState, onAddContainerItem).
THEOREM OffersStayUnchanged == Spec => OfferUnchanged
<1>1. TypeOK /\ IInv /\ BagsHold /\ OfferIsAtHand /\ [Next]_vars
        => [\A p \in Player :
              tradeItem[p] /= None /\ tradeItem'[p] = tradeItem[p] =>
                \A i \in Item :
                  tradeItem[p] \in Around(parent, i) \union Around(parent', i) \union {i} =>
                    parent'[i] = parent[i]]_vars
  BY UntouchedStep DEF OfferUntouched
<1> QED
  BY <1>1, TypeCorrect, MutualAlways, HoldAlways, OffersAreAtHand, PTL DEF Spec, OfferUnchanged

-----------------------------------------------------------------------------
(* All or nothing.                                                          *)

\* An exchange that moves anything gives each his partner's offer, if there was an
\* empty place for the one that goes second (playerAcceptTrade).
LEMMA ExchangeGives ==
  ASSUME TypeOK, IInv, BagsHold, NEW p \in Player, NEW q \in Player, q = partner[p],
         NEW fits, NEW kicked, Exchange(p, q, fits, kicked), ~UNCHANGED <<parent, owner>>
  PROVE  /\ Gets(q, tradeItem[p])
         /\ Gets(p, tradeItem[q]) \/ OnlyStacksHaveRoom(p, tradeItem[q])
<1> DEFINE t == tradeItem[p]
           u == tradeItem[q]
           P == {p} \union kicked \union UNION {EndedByRemoval(i) : i \in {t, u} \intersect Item}
<1>1. PICK to \in Destinations(parent, q, t) :
        LET par == Handed(parent, t, to)
            room == Destinations(par, p, u)
        IN /\ Takes(to, u)
           /\ \/ room = {} /\ parent' = par
              \/ \E back \in room : parent' = Handed(par, u, back)
           /\ None \notin {t, u} /\ (Destinations(parent, p, u) /= {} \/ u \in Stack)
           /\ owner' = [h \in House |-> IF h = t THEN q ELSE IF h = u THEN p ELSE owner[h]]
           /\ CloseTrades(P)
  <2>1. ~(UNCHANGED <<parent, owner>> /\ CloseTrades({p}))
    OBVIOUS
  <2> QED BY <2>1, ExchangeMoves
<1> DEFINE par == Handed(parent, t, to)
<1>2. t /= u /\ p /= q /\ t \in Item \union House /\ u \in Item \union House
  BY <1>1 DEF IInv, OffersDiffer, NotWithOneself, TypeOK
<1>9. CASE Destinations(par, p, u) = {}
  <2>1. parent' = par
    BY <1>1, <1>9
  <2>2. OnlyStacksHaveRoom(p, u)
    <3>1. Destinations(parent, p, u) = {}
      BY <1>2, <1>9, RoomRemains
    <3> QED BY <1>1, <3>1 DEF OnlyStacksHaveRoom
  <2>3. CASE t \in Item
    <3> HIDE DEF par
    <3>1. /\ parent'[t] = to /\ (to = q \/ to \in Bag)
          /\ to \in Bag => q \in Around(parent', to)
      BY <2>1, <2>3, FirstPlace DEF par
    <3>2. q \in Around(parent', t)
      BY <2>3, <3>1, AroundStep
    <3> QED BY <2>2, <2>3, <3>2 DEF Gets
  <2>4. CASE t \notin Item
    BY <1>1, <1>2, <2>2, <2>4 DEF Gets
  <2> QED BY <2>3, <2>4
<1> SUFFICES ASSUME Destinations(par, p, u) /= {} PROVE Gets(q, t) /\ Gets(p, u)
  BY <1>9
<1>3. PICK back \in Destinations(par, p, u) : parent' = Handed(par, u, back)
  BY <1>1
<1> DEFINE final == Handed(par, u, back)
<1>4. /\ t \in Item => final[t] = to
      /\ u \in Item => final[u] = back
      /\ to \in Bag => q \in Around(final, to)
      /\ back \in Bag => p \in Around(final, back)
  <2> HIDE DEF t, u, par, final
  <2>1. par = Handed(parent, t, to) /\ final = Handed(par, u, back)
    BY DEF par, final
  <2>2. /\ t \in Item => final[t] = to
        /\ u \in Item => final[u] = back
        /\ to \in Bag => /\ q \in Around(parent, to)
                        /\ Around(final, to) = Around(parent, to)
        /\ back \in Bag => /\ p \in Around(par, back)
                          /\ Around(final, back) = Around(par, back)
    BY <1>1, <1>2, <1>3, <2>1, ExchangePlaces
  <2> QED BY <2>2
<1> HIDE DEF par, final
<1>5. (to = q \/ to \in Bag) /\ (back = p \/ back \in Bag)
  BY DEF Destinations
<1>6. parent' = final
  BY <1>3 DEF final
<1>7. Gets(q, t)
  <2>1. CASE t \in Item
    <3>1. q \in Around(final, t)
      BY <1>4, <1>5, <2>1, AroundStep
    <3> QED BY <1>6, <2>1, <3>1 DEF Gets
  <2>2. CASE t \notin Item
    BY <1>1, <1>2, <2>2 DEF Gets
  <2> QED BY <2>1, <2>2
<1>8. Gets(p, u)
  <2>1. CASE u \in Item
    <3>1. p \in Around(final, u)
      BY <1>4, <1>5, <2>1, AroundStep
    <3> QED BY <1>6, <2>1, <3>1 DEF Gets
  <2>2. CASE u \notin Item
    BY <1>1, <1>2, <2>2 DEF Gets
  <2> QED BY <2>1, <2>2
<1> QED BY <1>7, <1>8

\* A trade that both accept moves nothing, or gives each what the other offered: the
\* first thing never takes the empty place that was found for the second, wherever
\* that is, also if it is in a bag that goes away itself.  Only a stack for which
\* there was room in other stacks alone may stay behind (playerAcceptTrade).
THEOREM ExchangeIsWhole == Spec => AllOrNothing
<1>1. ASSUME TypeOK, IInv, BagsHold, NEW p \in Player, NEW fits \in BOOLEAN,
             NEW kicked \in Kicked, PlayerAcceptTrade(p, fits, kicked), ~UNCHANGED <<parent, owner>>
      PROVE  /\ Gets(partner[p], tradeItem[p])
             /\ \/ Gets(p, tradeItem[partner[p]])
                \/ OnlyStacksHaveRoom(p, tradeItem[partner[p]])
  <2>1. partner[p] \in Player /\ Exchange(p, partner[p], fits, kicked)
    BY <1>1 DEF PlayerAcceptTrade, TypeOK
  <2> QED BY <1>1, <2>1, ExchangeGives
<1>2. TypeOK /\ IInv /\ BagsHold
        => [\A p \in Player, fits \in BOOLEAN, kicked \in Kicked :
              PlayerAcceptTrade(p, fits, kicked) =>
                \/ UNCHANGED <<parent, owner>>
                \/ /\ Gets(partner[p], tradeItem[p])
                   /\ \/ Gets(p, tradeItem[partner[p]])
                      \/ OnlyStacksHaveRoom(p, tradeItem[partner[p]])]_vars
  BY <1>1
<1> QED BY <1>2, TypeCorrect, MutualAlways, HoldAlways, PTL DEF Spec, AllOrNothing
=============================================================================
