--------------------------- MODULE MCRoyaleArena ---------------------------
(* Three characters, of whom two make a match.                             *)
EXTENDS RoyaleArena

CONSTANTS p1, p2, p3

MCPerson == {p1, p2, p3}
=============================================================================
