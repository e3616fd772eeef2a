------------------------------ MODULE RoomBook ------------------------------
(***************************************************************************)
(* What the players of slot and solo Blackjack rooms are promised: an      *)
(* action happens once and at one moment, to the room as it is then, and   *)
(* the wallet, the round, the version and the record of the action move    *)
(* together.  Nobody reads a row and writes it back later, and no request  *)
(* is at work while another one is.                                        *)
(***************************************************************************)
EXTENDS Integers

CONSTANTS
    Room,
    ActionId,
    NewRoom,            \* a room that is not there yet
    NoRecord,           \* an id that no action has
    Opening,            \* the player's balance at first
    Outcomes(_, _)      \* what an action may do to a room: stake, payout and round

VARIABLES
    balance,            \* the player's wallet
    room,               \* room[r]: created, version and round
    record              \* record[id]: the action with this id

Init ==
    /\ balance = Opening
    /\ room = [r \in Room |-> NewRoom]
    /\ record = [id \in ActionId |-> NoRecord]

Create(r) ==
    /\ ~room[r].created
    /\ room' = [room EXCEPT ![r].created = TRUE]
    /\ UNCHANGED <<balance, record>>

\* The player can pay the stake from what the wallet holds now.
Play(r, id) ==
    /\ room[r].created
    /\ record[id] = NoRecord
    /\ \E o \in Outcomes(r, room[r]) :
          /\ o.stake <= balance
          /\ balance' = balance - o.stake + o.payout
          /\ room' = [room EXCEPT ![r] = [@ EXCEPT !.version = room[r].version + 1, !.round = o.round]]
          /\ record' = [record EXCEPT ![id] =
                [room |-> r, version |-> room[r].version + 1, action |-> o.action,
                 stake |-> o.stake, payout |-> o.payout]]

Next == \E r \in Room : Create(r) \/ \E id \in ActionId : Play(r, id)

Spec == Init /\ [][Next]_<<balance, room, record>>
=============================================================================
