------------------------------ MODULE HeadsUp ------------------------------
(***************************************************************************)
(* One heads-up hand of Hold'em (games/holdem.py): two seats with the same *)
(* stack, and therefore no side pots.  "The answer to any bet is always    *)
(* covered" (dev/BuildSpec.md:72) is what the rules below rely on: a call  *)
(* is refused, not made for less, when the stack is too short.             *)
(*                                                                         *)
(* A hand is a value here; who plays it, and when, is up to HeadsUpTables. *)
(* Cards are abstracted to how many lie on the board.                      *)
(***************************************************************************)
EXTENDS Integers, FiniteSets

CONSTANTS BuyIn, SmallBlind, BigBlind

ASSUME HeadsUpAssumption ==
    /\ BuyIn \in Nat /\ SmallBlind \in Nat /\ BigBlind \in Nat
    /\ 0 < SmallBlind /\ SmallBlind < BigBlind /\ 2 * BigBlind <= BuyIn

Side == {0, 1}
Other(i) == 1 - i
Nowhere == -1        \* folded_seat is None

Street == {"pre_flop", "flop", "turn", "river"}
Over(h) == h.phase \in {"showdown", "settled"}

\* create_heads_up_room: the button has posted the small blind and moves first.
Dealt ==
    [stack |-> [i \in Side |-> IF i = 0 THEN BuyIn - SmallBlind ELSE BuyIn - BigBlind],
     committed |-> [i \in Side |-> IF i = 0 THEN SmallBlind ELSE BigBlind],
     street |-> [i \in Side |-> IF i = 0 THEN SmallBlind ELSE BigBlind],
     pot |-> SmallBlind + BigBlind, bet |-> BigBlind, current |-> 0, acted |-> {},
     phase |-> "pre_flop", board |-> 0, folded |-> Nowhere]

Debt(h) == h.bet - h.street[h.current]

\* What the seat to move may do; a raise names the bet it leads to.
Move(kind, amount) == [kind |-> kind, amount |-> amount]

MinimumRaise(h) == h.bet + BigBlind

\* Mutant: what the seat has put into earlier streets counts once more.
MaximumOfHand(h) == h.committed[h.current] + h.stack[h.current]

MaximumRaise(h) == h.street[h.current] + h.stack[h.current]

Folds(h) == {Move("fold", 0)}
Checks(h) == IF Debt(h) = 0 THEN {Move("check", h.bet)} ELSE {}
Calls(h) == IF Debt(h) \in 1..h.stack[h.current] THEN {Move("call", h.bet)} ELSE {}
Raises(h) == {Move("raise", amount) : amount \in MinimumRaise(h)..MaximumRaise(h)}

Moves(h) == Folds(h) \cup Checks(h) \cup Calls(h) \cup Raises(h)

Acted(h, m) == IF m.kind = "raise" THEN {h.current} ELSE h.acted \cup {h.current}

Plus(chips, i, n) == [chips EXCEPT ![i] = @ + n]

\* _update_player: chips go from the stack to the pot, up to the bet of the move.
Bet(h, m) ==
    LET i == h.current  cost == m.amount - h.street[i] IN
    [h EXCEPT !.stack = Plus(@, i, -cost),
              !.committed = Plus(@, i, cost),
              !.street = Plus(@, i, cost),
              !.pot = @ + cost,
              !.bet = IF m.kind = "raise" THEN m.amount ELSE @,
              !.current = Other(i),
              !.acted = Acted(h, m)]

BettingClosed(h) == h.acted = Side /\ h.street[0] = h.street[1]

NextPhase(phase) ==
    CASE phase = "pre_flop" -> "flop" [] phase = "flop" -> "turn"
      [] phase = "turn" -> "river" [] OTHER -> "showdown"

Cards(phase) ==
    CASE phase = "pre_flop" -> 0 [] phase = "flop" -> 3 [] phase = "turn" -> 4 [] OTHER -> 5

\* _advance_street: after the river only the phase changes.
Advanced(h) ==
    IF h.phase = "river" THEN [h EXCEPT !.phase = "showdown", !.current = 0, !.acted = {}]
    ELSE [h EXCEPT !.phase = NextPhase(@), !.board = Cards(NextPhase(h.phase)),
                   !.street = [i \in Side |-> 0], !.bet = 0, !.current = 0, !.acted = {}]

\* Both are all in: the remaining streets are dealt at once.
RunOut(h) ==
    [h EXCEPT !.phase = "showdown", !.board = 5, !.current = 0, !.acted = {},
              !.street = IF h.phase = "river" THEN @ ELSE [i \in Side |-> 0],
              !.bet = IF h.phase = "river" THEN @ ELSE 0]

\* apply_holdem_action.
After(h, m) ==
    IF m.kind = "fold"
    THEN [h EXCEPT !.phase = "settled", !.folded = h.current, !.current = Other(h.current)]
    ELSE LET b == Bet(h, m) IN
         IF ~BettingClosed(b) THEN b
         ELSE IF b.stack = [i \in Side |-> 0] THEN RunOut(b)
         ELSE Advanced(b)

\* settle_holdem: who may win, and the odd chip goes to the first of the winners.
Winners(h) == IF h.folded = Nowhere THEN (SUBSET Side) \ {{}} ELSE {{Other(h.folded)}}

\* Mutant: the winners forget what they still have in front of them.
PayoutOfPot(h, winners) ==
    [i \in Side |-> IF i \in winners THEN h.pot \div Cardinality(winners) ELSE 0]

Payout(h, winners) ==
    [i \in Side |->
        h.stack[i] + IF i \notin winners THEN 0
                     ELSE h.pot \div Cardinality(winners)
                          + IF i = 0 \/ winners = {1} THEN h.pot % Cardinality(winners) ELSE 0]

-----------------------------------------------------------------------------
HandType ==
    [stack : [Side -> Nat], committed : [Side -> Nat], street : [Side -> Nat],
     pot : Nat, bet : Nat, current : Side, acted : SUBSET Side,
     phase : Street \cup {"showdown", "settled"}, board : {0, 3, 4, 5}, folded : Side \cup {Nowhere}]

\* The chips of each seat add up to its buy-in, and both seats have put the same into
\* the streets before this one.
Matched(h) ==
    /\ \A i \in Side : h.stack[i] + h.committed[i] = BuyIn
    /\ h.pot = h.committed[0] + h.committed[1]
    /\ h.committed[0] - h.street[0] = h.committed[1] - h.street[1]

\* The seat to move has had no say since the last bet, faces the bet of the other one and
\* has chips left to answer it; who is all in has acted, so an answer closes the betting.
Answerable(h) ==
    LET i == h.current IN
    /\ i \notin h.acted
    /\ h.street[Other(i)] = h.bet /\ h.street[i] <= h.bet
    /\ h.stack[i] > 0
    /\ h.stack[Other(i)] = 0 => Other(i) \in h.acted

\* A hand that is being played can go on, and one that is over can be settled: with a
\* full board and an even pot, or with one seat left.
Sound(h) ==
    /\ h \in HandType
    /\ Matched(h)
    /\ ~Over(h) => Answerable(h) /\ h.board = Cards(h.phase) /\ h.folded = Nowhere
    /\ h.phase = "showdown" =>
          h.board = 5 /\ h.committed[0] = h.committed[1] /\ h.folded = Nowhere
    /\ h.phase = "settled" => h.folded \in Side

\* Bounds the moves that are left: a bet costs a chip, a say is had once, a street ends.
StreetsLeft == [pre_flop |-> 3, flop |-> 2, turn |-> 1, river |-> 0]
SaysLeft(h) == (IF 0 \in h.acted THEN 0 ELSE 1) + (IF 1 \in h.acted THEN 0 ELSE 1)
Left(h) == IF Over(h) THEN 0
           ELSE 1 + SaysLeft(h) + 3 * (StreetsLeft[h.phase] + h.stack[0] + h.stack[1])
=============================================================================
