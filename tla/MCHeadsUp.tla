----------------------------- MODULE MCHeadsUp -----------------------------
(***************************************************************************)
(* Stacks of two big blinds, players who also play elsewhere, and two      *)
(* rooms.                                                                  *)
(***************************************************************************)
EXTENDS HeadsUpTables, TLC

CONSTANTS u1, u2, u3, r1, r2, a1, a2, a3, a4, h1

ThreeUsers == {u1, u2, u3}
TwoRooms == {r1, r2}
FourIds == {a1, a2, a3, a4}
OneHero == {h1}
BothModes == {"bot", "pvp"}
=============================================================================
