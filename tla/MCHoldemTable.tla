--------------------------- MODULE MCHoldemTable ---------------------------
(***************************************************************************)
(* Tables of three seats with three players who also play elsewhere.        *)
(***************************************************************************)
EXTENDS HoldemTable, TLC

CONSTANTS u1, u2, u3, r1, r2, a1, a2, a3

ThreeUsers == {u1, u2, u3}
TwoRooms == {r1, r2}
ThreeIds == {a1, a2, a3}
=============================================================================
