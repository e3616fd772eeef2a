---------------------------- MODULE MCLockOrder ----------------------------
(***************************************************************************)
(* Three requests at a time of three players, one of them new, a room      *)
(* of each kind, and two action ids.                                       *)
(***************************************************************************)
EXTENDS LockOrder, TLC

CONSTANTS h1, t1, r1, a1, a2, s1, s2, s3

ThreeUsers == {1, 2, 3}
OneNewcomer == {3}
TheHoldemRoom == {h1}
TheTable == {t1}
TheSoloRoom == {r1}
TwoIds == {a1, a2}
ThreeSessions == {s1, s2, s3}

LockSymmetry == Permutations(ThreeSessions) \cup Permutations(TwoIds)
=============================================================================
