-------------------------- MODULE MCBlackjackTable --------------------------
(***************************************************************************)
(* Small tables: players who come, go and come back between two rounds.     *)
(***************************************************************************)
EXTENDS BlackjackTable, TLC

CONSTANTS u1, u2, r1

TwoUsers == {u1, u2}
OneRoom == {r1}
=============================================================================
