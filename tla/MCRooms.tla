------------------------------ MODULE MCRooms ------------------------------
(***************************************************************************)
(* A slot machine and a Blackjack room of one player, two requests at a    *)
(* time with three ids, and one socket.                                    *)
(***************************************************************************)
EXTENDS Rooms, TLC

CONSTANTS r1, r2, s1, s2, a1, a2, a3, k1

TwoRooms == {r1, r2}
SlotRoom == {r1}
TwoSessions == {s1, s2}
ThreeIds == {a1, a2, a3}
OneSocket == {k1}

EveryCard == 2..Ace

\* Two reels of which a line falls over two rows; cherries pay nothing.
TwoReels == <<<<"seven", "wild", "cherry">>, <<"cherry", "seven">>>>
OneLine == <<<<1, 2>>>>
OnlySevens == [symbol \in {"seven"} |-> 2]

RoomSymmetry == Permutations(TwoSessions) \cup Permutations(ThreeIds)
=============================================================================
