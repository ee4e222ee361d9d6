---------------------------- MODULE MCConnection ----------------------------
(* Two messages: one being written and one put aside or allocated behind it. *)
(* What stays CLOSING shows with one, which is sent, freed and taken again.  *)
EXTENDS Connection

CONSTANTS m1, m2
MCMsg == {m1, m2}
MCOneMsg == {m1}
=============================================================================
