-------------------------- MODULE MCHoldemMultiway --------------------------
(***************************************************************************)
(* Hands of two, three and four seats, with stacks uneven enough for short *)
(* all-ins, several side pots, refunds and odd chips.  Seats are not all   *)
(* neighbours, and the first seat after the highest one is the lowest.     *)
(***************************************************************************)
EXTENDS HoldemMultiway, TLC

TwoSeats == {[button |-> b, stacks |-> s] : b \in {1, 4}, s \in [{1, 4} -> 4..8]}
ThreeSeats == {[button |-> 2, stacks |-> s] : s \in [{0, 2, 5} -> {4, 5, 7}]}
FourSeats == {[button |-> 3, stacks |-> 0 :> 4 @@ 1 :> 5 @@ 3 :> 6 @@ 5 :> 6]}

MCTables == TwoSeats \cup ThreeSeats \cup FourSeats
=============================================================================
