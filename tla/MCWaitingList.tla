--------------------------- MODULE MCWaitingList ---------------------------
(* Three premium accounts, three free ones and a game master.               *)
EXTENDS WaitingList, TLC

CONSTANTS p1, p2, p3, f1, f2, f3, gm
MCPremium == {p1, p2, p3}
MCFree == {f1, f2, f3}
MCExempt == {gm}
MCClient == MCPremium \cup MCFree \cup MCExempt
Symmetry == Permutations(MCPremium) \cup Permutations(MCFree)
=============================================================================
