-------------------------------- MODULE Sums --------------------------------
(***************************************************************************)
(* What a function gives to the members of a set, added up: chips on       *)
(* seats, money in wallets, changes in a ledger.                           *)
(***************************************************************************)
EXTENDS Integers, FiniteSetsExt

Sum(f, S) == MapThenSumSet(LAMBDA i : f[i], S)

Total(f) == Sum(f, DOMAIN f)
=============================================================================
