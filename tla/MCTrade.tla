------------------------------ MODULE MCTrade ------------------------------
(* Three players, two bags, one of which may be offered from within the     *)
(* other, two stacks to put in them, and a house.                           *)
EXTENDS Trade, TLC

CONSTANTS p1, p2, p3, bag1, bag2, gold, coin, house

MCPlayer == {p1, p2, p3}
MCBag == {bag1, bag2}
MCStack == {gold, coin}
MCItem == MCBag \union MCStack
MCHouse == {house}
Symmetry == Permutations(MCPlayer) \union Permutations(MCBag) \union Permutations(MCStack)
=============================================================================
