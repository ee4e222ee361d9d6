------------------------------ MODULE MCMarket ------------------------------
(* Two players, two offers of two pieces each, accepted whole or in part.   *)
(* One percent of a price lies below the least fee.                         *)
EXTENDS Market

CONSTANTS p1, p2

MCPlayer == {p1, p2}
MCOffered == {2}
MCAccepted == {1, 2}
MCPrices == {75}
=============================================================================
