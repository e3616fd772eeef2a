---------------------------- MODULE MCAdminCards ----------------------------
(***************************************************************************)
(* Two cards of one player, one request of each or two of the same in      *)
(* flight, and a player who goes on playing.                               *)
(***************************************************************************)
EXTENDS AdminCards

CONSTANTS c1, c2, j1, j2

TwoCards == {c1, c2}
TwoJobs == {j1, j2}
GiveOrTake == {-1, 1}
=============================================================================
