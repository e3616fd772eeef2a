------------------------------ MODULE MCWallet ------------------------------
(***************************************************************************)
(* Small instances of Wallet: callers that settle rounds, adjust and claim  *)
(* on shared keys.                                                          *)
(***************************************************************************)
EXTENDS Wallet, TLC

CONSTANTS u1, u2, k1, k2, s1, s2

MCSession == {s1, s2}
TwoUsers == {u1, u2}
OneUser == {u1}
TwoKeys == {k1, k2}

ReliefClaim == {"relief"}
NoClaims == {}
OneStake == {<<"admin_adjustment", 2>>}
NoAdjustments == {}
OneRound == {<<1, 2>>}
=============================================================================
