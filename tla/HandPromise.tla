---------------------------- MODULE HandPromise ----------------------------
(***************************************************************************)
(* What the service of the Hold'em tables relies on in a hand (start and   *)
(* update of holdem_table_service.py): while the hand goes on it asks one  *)
(* of the seats that paid for it, for finitely many moves, and then it     *)
(* pays the seats together what they brought, once and for all.            *)
(***************************************************************************)
EXTENDS Integers, Sums

CONSTANT Stakes     \* the stakes of a hand: functions from the seats that paid

NoSeat == -1        \* current_seat is None

VARIABLES
    stake,          \* stake[i]: what seat i brought
    turn,           \* the seat that is asked to move
    left,           \* bounds the moves that are left
    cash            \* cash[i]: what seat i is paid

Init ==
    /\ stake \in Stakes
    /\ turn \in DOMAIN stake
    /\ left \in Nat
    /\ cash = [i \in DOMAIN stake |-> 0]

\* Another seat, or the same one again, is asked.
Ask ==
    /\ turn # NoSeat
    /\ turn' \in DOMAIN stake
    /\ left' \in Nat /\ left' < left
    /\ UNCHANGED <<stake, cash>>

\* The hand is over: the cash-outs are the stakes, divided anew.
PayOut ==
    /\ turn # NoSeat
    /\ turn' = NoSeat
    /\ left' \in Nat /\ left' < left
    /\ cash' \in [DOMAIN stake -> Nat]
    /\ Total(cash') = Total(stake)
    /\ UNCHANGED stake

Spec == Init /\ [][Ask \/ PayOut]_<<stake, turn, left, cash>>
=============================================================================
