--------------------------- MODULE MCGameSession ---------------------------
(* Three sessions of one character: its client, one that takes it over, and *)
(* a third that meets the two.                                              *)
EXTENDS GameSession, TLC

CONSTANTS s1, s2, s3, a1, a2, a3
MCSession2 == {s1, s2}
MCSession == {s1, s2, s3}
MCAvatar2 == {a1, a2}
MCAvatar == {a1, a2, a3}
Symmetry == Permutations(MCSession) \cup Permutations(MCAvatar)
=============================================================================
