------------------------------- MODULE Market -------------------------------
(***************************************************************************)
(* The market: offers to sell items or to buy them, which are created,     *)
(* cancelled and accepted (whole or in part) by players in tasks of the    *)
(* dispatcher, and given back when they expire.                            *)
(*                                                                         *)
(* Two things make it more than a table.  What a player owns is in memory  *)
(* while he is online and in the database while he is not, and a trade     *)
(* reaches both.  And expiry is asynchronous: checkExpiredOffers() queues  *)
(* a SELECT for the database thread, whose rows processExpiredOffers()     *)
(* reads in a later task, when the offers may have changed.                *)
(*                                                                         *)
(* A handler is one action: it writes `market_offers` in one statement, so *)
(* that the SELECT of the database thread falls before or after it.  There *)
(* is one kind of item, and an account is the bank balance and the items   *)
(* of depot and inbox.  The names of this module keep clear of those of    *)
(* DatabaseTasks, since the proofs extend both.                            *)
(*                                                                         *)
(* Assumed: every query succeeds, a player who expires offline is loaded,  *)
(* the kind of item is known and the inbox takes it (processExpiredOffers  *)
(* goes on without a word where one of these fails, the offer being in the *)
(* history already); offers are checked for expiry at intervals (with      *)
(* checkExpiredMarketOffersEachMinutes <= 0 only once); and who is online  *)
(* has the market open (Player::inMarket, a flag of his own).              *)
(***************************************************************************)
EXTENDS Integers, Sequences, FiniteSetsExt

CONSTANTS
  Player,        \* the players, who all exist in the database
  Offered,       \* amounts that a packet to create an offer may ask for, up to
                 \* 64000 in the code
  Accepted,      \* amounts that a packet to accept one may ask for
  Prices,        \* prices per piece, up to 999999999 in the code
  MinFee,        \* 20 in the code
  MaxFee,        \* 1000 in the code
  MaxAtATime,    \* MAX_MARKET_OFFERS_AT_A_TIME_PER_PLAYER, 0 for no limit
  StartGold,     \* balance of a player at first
  StartItems,    \* items of a player at first
  MaxCreated,    \* bound: offers created altogether
  MaxQueries     \* bound: expiry queries not yet processed

ASSUME MarketAssumption ==
  /\ IsFiniteSet(Player)
  /\ Offered \subseteq Nat \ {0} /\ Accepted \subseteq Nat \ {0}
  /\ Prices \subseteq Nat \ {0}
  /\ MinFee \in Nat /\ MaxFee \in Nat /\ MinFee <= MaxFee
  /\ MaxAtATime \in Nat /\ MaxCreated \in Nat /\ MaxQueries \in Nat \ {0}
  /\ StartGold \in Nat /\ StartItems \in Nat

VARIABLES
  online,     \* players that Game::getPlayerByGUID finds
  memory,     \* accounts of the Player objects that are online
  stored,     \* accounts in the tables of the database; the rows of who is
              \* online are out of date and nobody reads them: Empty here
  offers,     \* the table market_offers
  created,    \* AUTO_INCREMENT of the table
  asked,      \* SELECTs queued at the database thread
  results,    \* rows of those that ran, in tasks for the dispatcher
  fees,       \* ghost: fees taken so far
  shrunk      \* ghost: an offer shrank between its SELECT and its expiry

marketVars == <<online, memory, stored, offers, created, asked, results,
                fees, shrunk>>

Account == [gold : Nat, items : Nat]
Empty == [gold |-> 0, items |-> 0]

\* A packet names an offer by its time and the lower 16 bits of its id
\* (getOfferByCounter).  The model takes the id: that two offers of one second
\* are 65536 ids apart is left out.
Offer == [id : 1..MaxCreated, owner : Player, sale : BOOLEAN,
          amount : Nat \ {0}, price : Prices, due : BOOLEAN]

MarketTypeOK ==
  /\ online \subseteq Player
  /\ memory \in [Player -> Account]
  /\ stored \in [Player -> Account]
  /\ offers \subseteq Offer
  /\ created \in 0..MaxCreated
  /\ asked \in 0..MaxQueries
  /\ results \in Seq(SUBSET Offer)
  /\ fees \in Nat
  /\ shrunk \in BOOLEAN

MarketInit ==
  /\ online = {}
  /\ memory = [p \in Player |-> Empty]
  /\ stored = [p \in Player |-> [gold |-> StartGold, items |-> StartItems]]
  /\ offers = {}
  /\ created = 0
  /\ asked = 0
  /\ results = <<>>
  /\ fees = 0
  /\ shrunk = FALSE

-----------------------------------------------------------------------------
(* Accounts. *)

\* What f says of the elements of S, added up.
Total(f, S) == MapThenSumSet(LAMBDA x : f[x], S)

\* Mutant: the balance in the database is increased whether or not the owner
\* is online.
SettleStored(gold, items) ==
  LET Add(acc, p, g, n) == [gold |-> acc[p].gold + g, items |-> acc[p].items + n]
  IN /\ memory' = [p \in Player |-> IF p \in online
                     THEN Add(memory, p, Min({gold[p], 0}), items[p]) ELSE memory[p]]
     /\ stored' = [p \in Player |-> IF p \in online
                     THEN Add(stored, p, Max({gold[p], 0}), 0)
                     ELSE Add(stored, p, gold[p], items[p])]

\* Who is online is paid in memory, who is not in the database: by an UPDATE
\* of the balance, or by loading the player, filling his inbox and saving him.
Settle(gold, items) ==
  LET Add(acc, p) == [gold |-> acc[p].gold + gold[p],
                      items |-> acc[p].items + items[p]]
  IN /\ memory' = [p \in Player |->
                     IF p \in online THEN Add(memory, p) ELSE memory[p]]
     /\ stored' = [p \in Player |->
                     IF p \in online THEN stored[p] ELSE Add(stored, p)]

\* n for player p and nothing for the others.
Only(p, n) == [q \in Player |-> IF q = p THEN n ELSE 0]

\* The code computes (price / 100.) * amount in floating point and cuts it off,
\* which may be one less than the quotient here.
Fee(price, amount) ==
  LET percent == (price * amount) \div 100
  IN Max({MinFee, Min({MaxFee, percent})})

\* What a player gives must be on his balance, in his depot or his inbox.
Has(p, gold, items) == gold <= memory[p].gold /\ items <= memory[p].items

-----------------------------------------------------------------------------
(* Players come and go. *)

Login(p) ==
  /\ p \notin online
  /\ online' = online \union {p}
  /\ memory' = [memory EXCEPT ![p] = stored[p]]
  /\ stored' = [stored EXCEPT ![p] = Empty]
  /\ UNCHANGED <<offers, created, asked, results, fees, shrunk>>

\* Player::onRemoveCreature saves him and the Player leaves Game::players in
\* one task.
Logout(p) ==
  /\ p \in online
  /\ online' = online \ {p}
  /\ stored' = [stored EXCEPT ![p] = memory[p]]
  /\ memory' = [memory EXCEPT ![p] = Empty]
  /\ UNCHANGED <<offers, created, asked, results, fees, shrunk>>

-----------------------------------------------------------------------------
(* Offers. *)

\* The items are taken from depot and inbox, the price of a buy offer from
\* the balance; the fee is gone.
CreateOffer(p, sale, amount, price) ==
  LET fee == Fee(price, amount)
      cost == IF sale THEN fee ELSE price * amount + fee
  IN /\ p \in online
     /\ MaxAtATime > 0 =>
          Quantify(offers, LAMBDA o : o.owner = p) < MaxAtATime
     /\ Has(p, cost, IF sale THEN amount ELSE 0)
     /\ created < MaxCreated
     /\ Settle(Only(p, -cost), Only(p, IF sale THEN -amount ELSE 0))
     /\ created' = created + 1
     /\ offers' = offers \union
          {[id |-> created + 1, owner |-> p, sale |-> sale, amount |-> amount,
            price |-> price, due |-> FALSE]}
     /\ fees' = fees + fee
     /\ UNCHANGED <<online, asked, results, shrunk>>

\* What is left of the offer goes back to its owner.
CancelOffer(p, o) ==
  /\ p \in online
  /\ o \in offers /\ o.owner = p
  /\ Settle(Only(p, IF o.sale THEN 0 ELSE o.price * o.amount),
            Only(p, IF o.sale THEN o.amount ELSE 0))
  /\ offers' = offers \ {o}
  /\ UNCHANGED <<online, created, asked, results, fees, shrunk>>

\* p buys from a sale or sells to a buyer; he may be the owner himself, and the
\* offer may be due.
AcceptOffer(p, o, amount) ==
  LET total == o.price * amount
      left == o.amount - amount
  IN /\ p \in online
     /\ o \in offers
     /\ amount <= o.amount
     /\ IF o.sale
        THEN /\ Has(p, total, 0)
             /\ Settle([q \in Player |-> Only(o.owner, total)[q] - Only(p, total)[q]],
                       Only(p, amount))
        ELSE /\ Has(p, 0, amount)
             /\ Settle(Only(p, total),
                       [q \in Player |-> Only(o.owner, amount)[q] - Only(p, amount)[q]])
     /\ offers' = (offers \ {o}) \union
                    IF left = 0 THEN {} ELSE {[o EXCEPT !.amount = left]}
     /\ shrunk' = (shrunk \/ /\ left > 0
                             /\ \E i \in DOMAIN results :
                                  \E row \in results[i] : row.id = o.id)
     /\ UNCHANGED <<online, created, asked, results, fees>>

-----------------------------------------------------------------------------
(* Expiry. *)

\* MARKET_OFFER_DURATION passes for an offer.
FallDue(o) ==
  /\ o \in offers /\ ~o.due
  /\ offers' = (offers \ {o}) \union {[o EXCEPT !.due = TRUE]}
  /\ UNCHANGED <<online, memory, stored, created, asked, results, fees,
                 shrunk>>

\* The event of the scheduler comes every few minutes (the interval is taken to
\* be positive), however far the queries before have got.
CheckExpiredOffers ==
  /\ asked + Len(results) < MaxQueries
  /\ asked' = asked + 1
  /\ UNCHANGED <<online, memory, stored, offers, created, results, fees,
                 shrunk>>

\* Mutant: offers to buy are not selected.
OverdueSales == {o \in offers : o.due /\ o.sale}

\* WHERE `created` <= lastExpireDate.
Overdue == {o \in offers : o.due}

\* The database thread runs the SELECT and posts the callback with its rows.
SelectExpired ==
  /\ asked > 0
  /\ asked' = asked - 1
  /\ results' = Append(results, Overdue)
  /\ UNCHANGED <<online, memory, stored, offers, created, fees, shrunk>>

\* Mutant: nobody looks whether the offer is still there.
OfferedThen(rows) == rows

\* moveOfferToHistory() returns true.
StillOffered(rows) == {r \in rows : \E o \in offers : o.id = r.id}

\* What is given back is the amount of the row that was read, not that of the
\* table; and it is given, see the assumptions above.
ProcessExpiredOffers ==
  LET rows == StillOffered(Head(results))
      Due(p, sale) == {r \in rows : r.owner = p /\ r.sale = sale}
  IN /\ results /= <<>>
     /\ results' = Tail(results)
     /\ offers' = {o \in offers : \A r \in rows : r.id /= o.id}
     /\ Settle([p \in Player |->
                  Total([r \in rows |-> r.price * r.amount], Due(p, FALSE))],
               [p \in Player |->
                  Total([r \in rows |-> r.amount], Due(p, TRUE))])
     /\ UNCHANGED <<online, created, asked, fees, shrunk>>

-----------------------------------------------------------------------------
MarketNext ==
  \/ \E p \in Player : Login(p) \/ Logout(p)
  \/ \E p \in Player, sale \in BOOLEAN, amount \in Offered, price \in Prices :
       CreateOffer(p, sale, amount, price)
  \/ \E p \in Player, o \in offers : CancelOffer(p, o)
  \/ \E p \in Player, o \in offers, amount \in Accepted : AcceptOffer(p, o, amount)
  \/ \E o \in offers : FallDue(o)
  \/ CheckExpiredOffers
  \/ SelectExpired
  \/ ProcessExpiredOffers

MarketSpec == MarketInit /\ [][MarketNext]_marketVars

\* The scheduler, the database thread and the dispatcher keep running; players
\* need not do anything.
FairMarketSpec ==
  /\ MarketSpec
  /\ WF_marketVars(CheckExpiredOffers)
  /\ WF_marketVars(SelectExpired)
  /\ WF_marketVars(ProcessExpiredOffers)

-----------------------------------------------------------------------------
(* What a player owns is in one place: his object or the database. *)
Owned(p) == IF p \in online THEN memory[p] ELSE stored[p]

\* What an offer holds until somebody accepts it or it goes back.
HeldGold(o) == IF o.sale THEN 0 ELSE o.price * o.amount
HeldItems(o) == IF o.sale THEN o.amount ELSE 0

Gold == Total([p \in Player |-> Owned(p).gold], Player)
        + Total([o \in offers |-> HeldGold(o)], offers) + fees

Items == Total([p \in Player |-> Owned(p).items], Player)
         + Total([o \in offers |-> HeldItems(o)], offers)

\* No trade, cancellation or expiry loses gold or items: whatever order players,
\* logins, the database thread and the callbacks come in, what is offered comes
\* back to its owner or goes to a trading partner (playerAcceptMarketOffer,
\* playerCancelMarketOffer, processExpiredOffers).
NothingLost ==
  /\ Gold >= Cardinality(Player) * StartGold
  /\ Items >= Cardinality(Player) * StartItems

\* Nothing is created either, but for one case: an offer that was accepted in
\* part after the expiry query had read it is given back at its old amount
\* (processExpiredOffers pays the rows it was handed, moveOfferToHistory asks
\* only whether the offer is there).
NothingMade ==
  ~shrunk => /\ Gold = Cardinality(Player) * StartGold
             /\ Items = Cardinality(Player) * StartItems

\* An offer that is due leaves the table, by expiry if nobody accepts or
\* cancels it before (checkExpiredOffers schedules itself again).
DueOffersLeave ==
  \A id \in 1..MaxCreated :
    (\E o \in offers : o.id = id /\ o.due) ~> (\A o \in offers : o.id /= id)
=============================================================================
