------------------------------ MODULE MCServer ------------------------------
(* Two ports, as login and game have.                                      *)
EXTENDS Server

CONSTANTS p1, p2

MCPort == {p1, p2}
=============================================================================
