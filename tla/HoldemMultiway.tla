--------------------------- MODULE HoldemMultiway ---------------------------
(***************************************************************************)
(* One hand of no-limit Hold'em for two to six physical seats              *)
(* (games/holdem_multiway.py) and its settlement into layered pots         *)
(* (games/holdem_pots.py).  Cards are abstracted to how many lie on the    *)
(* board and, at the showdown, to the ranking of the live hands, which any *)
(* deal can make anything.                                                 *)
(***************************************************************************)
EXTENDS Integers, FiniteSets, FiniteSetsExt, Sums

CONSTANTS
    Tables,         \* the button and the stacks of a hand: [button, stacks] records,
                    \* stacks a function from the occupied seats
    SmallBlind, BigBlind

ASSUME MultiwayRules ==
    /\ SmallBlind \in Nat /\ BigBlind \in Nat
    /\ 0 < SmallBlind /\ SmallBlind < BigBlind

ASSUME TableAssumption ==
    \A t \in Tables :
        /\ t = [button |-> t.button, stacks |-> t.stacks]
        /\ DOMAIN t.stacks \subseteq 0..5
        /\ Cardinality(DOMAIN t.stacks) >= 2
        /\ t.button \in DOMAIN t.stacks
        /\ \A i \in DOMAIN t.stacks : t.stacks[i] \in Nat /\ t.stacks[i] >= 2 * BigBlind

NotActed == -1      \* acted_to_bet is None
NoSeat == -1        \* current_seat is None

VARIABLES
    button,         \* the button seat of this hand
    initial,        \* initial[i]: the stack seat i brought
    hand,           \* the MultiwayState
    settlement      \* refunds and awards once the hand is over

vars == <<button, initial, hand, settlement>>

\* The occupied seats of the table.
Seats == DOMAIN initial

\* Nothing is paid before the hand is over.
Nothing == [i \in Seats |-> 0]
Undecided == [refunds |-> Nothing, awards |-> Nothing, rank |-> Nothing]

Phases == {"pre_flop", "flop", "turn", "river", "showdown", "settled"}

\* How many places clockwise seat i is behind seat after.
Distance(after, i) == (i - after - 1) % 6

\* The first of some seats, clockwise from a seat.
First(S, after) == CHOOSE i \in S : \A j \in S : Distance(after, i) <= Distance(after, j)

-----------------------------------------------------------------------------
(***************************************************************************)
(* Dealing.                                                                *)
(***************************************************************************)
SmallBlindSeat(b) == IF Cardinality(Seats) = 2 THEN b ELSE First(Seats, b)
BigBlindSeat(b) == IF Cardinality(Seats) = 2 THEN First(Seats, b)
                   ELSE First(Seats \ {SmallBlindSeat(b)}, b)

Blind(b, i) == IF i = SmallBlindSeat(b) THEN SmallBlind
               ELSE IF i = BigBlindSeat(b) THEN BigBlind ELSE 0

Dealt(b, stacks) ==
    [stack     |-> [i \in Seats |-> stacks[i] - Blind(b, i)],
     committed |-> [i \in Seats |-> Blind(b, i)],
     street    |-> [i \in Seats |-> Blind(b, i)],
     folded    |-> {},
     actedTo   |-> [i \in Seats |-> NotActed],
     onFullBet |-> {},
     current   |-> First(Seats, BigBlindSeat(b)),
     phase     |-> "pre_flop",
     bet       |-> BigBlind,
     fullRaise |-> BigBlind,
     pending   |-> Seats,
     board     |-> 0]

-----------------------------------------------------------------------------
(***************************************************************************)
(* What a seat may do.                                                     *)
(***************************************************************************)
Alive(h) == Seats \ h.folded
Actors(h) == {i \in Alive(h) : h.stack[i] > 0}
Debt(h, i) == h.bet - h.street[i]
Over(h) == h.current = NoSeat

CanRaise(h, i) ==
    \/ h.actedTo[i] = NotActed
    \/ i \notin h.onFullBet
    \/ h.bet - h.actedTo[i] >= h.fullRaise

MayRaise(h, i) ==
    /\ h.stack[i] > Debt(h, i)
    /\ CanRaise(h, i)
    /\ Actors(h) \ {i} # {}

MinimumRaise(h) == IF h.bet < BigBlind THEN BigBlind ELSE h.bet + h.fullRaise
MaximumRaise(h, i) == h.street[i] + h.stack[i]

\* Bets a raise may go to: at least the minimum, or everything the seat has.
RaiseTargets(h, i) ==
    {n \in (h.bet + 1)..MaximumRaise(h, i) : n >= MinimumRaise(h) \/ n = MaximumRaise(h, i)}

\* What a check or call costs.
CallCost(h, i) == Min({h.stack[i], Debt(h, i)})

\* The moves apply_multiway_action accepts from a seat: a fold, a check or call,
\* and the raises, each with the bet it leaves and the chips it costs.
Moves(h, i) ==
    IF h.current # i \/ h.stack[i] = 0 \/ i \in h.folded THEN {}
    ELSE {[fold |-> TRUE, bet |-> h.bet, cost |-> 0],
          [fold |-> FALSE, bet |-> h.bet, cost |-> CallCost(h, i)]}
         \cup IF ~MayRaise(h, i) THEN {}
              ELSE {[fold |-> FALSE, bet |-> n, cost |-> n - h.street[i]] : n \in RaiseTargets(h, i)}

-----------------------------------------------------------------------------
(***************************************************************************)
(* The effect of a move, and the progress of the hand after it.            *)
(***************************************************************************)

\* Mutant: a raise is put only to seats that have not had their say.
ChallengedSilent(h, i) == {j \in Actors(h) \ {i} : h.street[j] < h.bet /\ h.actedTo[j] = NotActed}

\* Whom a raise of seat i puts to a decision again.
Challenged(h, i) == {j \in Actors(h) \ {i} : h.street[j] < h.bet}

\* Mutant: a seat that has moved is not crossed off.
RemainingAll(h, i) == h.pending

\* Who still has to move on this street, once seat i has.
Remaining(h, i) == h.pending \ {i}

Moved(h, i, m) ==
    LET raised == m.bet > h.bet
        paid == [h EXCEPT
                  !.stack[i] = @ - m.cost,
                  !.committed[i] = @ + m.cost,
                  !.street[i] = @ + m.cost,
                  !.folded = IF m.fold THEN @ \cup {i} ELSE @,
                  !.actedTo[i] = m.bet,
                  !.onFullBet = IF m.bet >= BigBlind THEN @ \cup {i} ELSE @ \ {i},
                  !.bet = m.bet,
                  !.fullRaise = IF raised /\ m.bet >= MinimumRaise(h)
                                THEN Max({BigBlind, m.bet - h.bet}) ELSE @]
    IN  [paid EXCEPT !.pending = Remaining(h, i) \cup IF raised THEN Challenged(paid, i) ELSE {}]

Ended(h, phase, board) ==
    [h EXCEPT !.phase = phase, !.board = board, !.current = NoSeat, !.pending = {}]

NextStreet == [pre_flop |-> "flop", flop |-> "turn", turn |-> "river"]
Cards == [flop |-> 3, turn |-> 1, river |-> 1]

\* A new street: bets start again from nothing, left of the button.
StreetOpened(h) ==
    LET phase == NextStreet[h.phase]
    IN  [h EXCEPT
          !.phase = phase,
          !.board = @ + Cards[phase],
          !.street = [i \in Seats |-> 0],
          !.actedTo = [i \in Seats |-> NotActed],
          !.onFullBet = {},
          !.bet = 0,
          !.fullRaise = BigBlind,
          !.pending = Actors(h),
          !.current = First(Actors(h), button)]

\* Mutant: the board is left as it is.
RunOutShort(h) == Ended(h, "showdown", h.board)

\* Nobody is left to bet against: the missing cards are dealt at once.
RunOut(h) == Ended(h, "showdown", 5)

\* _advance, after a move of seat i.
Advanced(h, i) ==
    LET actors == Actors(h)
        waiting == h.pending \cap actors
        owing == {j \in actors : h.street[j] < h.bet}
    IN  IF Cardinality(Alive(h)) = 1 THEN Ended(h, "settled", h.board)
        ELSE IF Cardinality(actors) <= 1
             THEN IF owing # {}
                  THEN [h EXCEPT !.current = First(owing, i), !.pending = owing]
                  ELSE RunOut(h)
        ELSE IF waiting # {} THEN [h EXCEPT !.current = First(waiting, i), !.pending = waiting]
        ELSE IF h.phase = "river" THEN Ended(h, "showdown", h.board)
        ELSE StreetOpened(h)

After(h, i, m) == Advanced(Moved(h, i, m), i)

-----------------------------------------------------------------------------
(***************************************************************************)
(* settle_multiway.                                                        *)
(***************************************************************************)

\* What of a contribution somebody else matched; the unmatched rest is refunded.
Matched(h) ==
    [i \in Seats |-> Min({h.committed[i], Max({h.committed[j] : j \in Seats \ {i}})})]

\* Mutant: every live seat plays for every pot.
EligibleAll(h, contributors) == Alive(h)

\* Who can win a pot; the last live seat wins every pot.
Eligible(h, contributors) ==
    IF Cardinality(Alive(h)) = 1 THEN Alive(h) ELSE contributors \cap Alive(h)

\* One pot for each level of contributions: what lies between this level and the
\* one below it, and the live seats that reached it.
Levels(h) == LET matched == Matched(h) IN {matched[i] : i \in Seats} \ {0}
Below(levels, level) == Max({0} \cup {l \in levels : l < level})
Contributors(h, level) == LET matched == Matched(h) IN {i \in Seats : matched[i] >= level}

Pot(h, below, level) ==
    LET contributors == Contributors(h, level)
    IN  [amount |-> (level - below) * Cardinality(contributors),
         level |-> level,
         eligible |-> Eligible(h, contributors)]

Pots(h) ==
    LET levels == Levels(h) IN {Pot(h, Below(levels, level), level) : level \in levels}

\* settle_multiway raises an error for a pot without an eligible player and for a
\* showdown without a full board.
CanSettle(h) ==
    /\ \A pot \in Pots(h) : pot.eligible # {}
    /\ Cardinality(Alive(h)) > 1 => h.board = 5

Winners(pot, rank) == {i \in pot.eligible : \A j \in pot.eligible : rank[i] >= rank[j]}

\* Mutant: the odd chips are rounded away.
SharesRounded(pot, rank) ==
    [i \in Seats |-> IF i \in Winners(pot, rank)
                     THEN pot.amount \div Cardinality(Winners(pot, rank)) ELSE 0]

\* One pot is divided evenly; odd chips go clockwise from the button.
Shares(pot, rank) ==
    LET winners == Winners(pot, rank)
        n == Cardinality(winners)
        before(i) == {j \in winners : Distance(button, j) < Distance(button, i)}
    IN  [i \in Seats |-> IF i \notin winners THEN 0
                         ELSE pot.amount \div n
                              + IF Cardinality(before(i)) < pot.amount % n THEN 1 ELSE 0]

Settlement(h, rank) ==
    LET pots == Pots(h)
        matched == Matched(h)
    IN  [refunds |-> [i \in Seats |-> h.committed[i] - matched[i]],
         awards |-> [i \in Seats |-> Sum([pot \in pots |-> Shares(pot, rank)[i]], pots)],
         rank |-> rank]

-----------------------------------------------------------------------------

Init ==
    /\ \E t \in Tables : button = t.button /\ initial = t.stacks
    /\ hand = Dealt(button, initial)
    /\ settlement = Undecided

\* How the live hands can compare: equal ranks tie, and no rank is skipped.
Rankings(h) ==
    {rank \in [Seats -> 0..Cardinality(Alive(h))] :
        /\ \A i \in Seats : rank[i] = 0 <=> i \in h.folded
        /\ \A i \in Alive(h) : rank[i] > 1 => \E j \in Alive(h) : rank[j] = rank[i] - 1}

\* apply_multiway_action: a move, the progress of the hand, and at its end the
\* settlement; an error in the settlement would refuse the whole action.
Act(i) ==
    \E m \in Moves(hand, i) :
        /\ hand' = After(hand, i, m)
        /\ IF Over(hand')
           THEN CanSettle(hand') /\ \E rank \in Rankings(hand') : settlement' = Settlement(hand', rank)
           ELSE settlement' = settlement
        /\ UNCHANGED <<button, initial>>

Next == \E i \in Seats : Act(i)

Spec == Init /\ [][Next]_vars

\* The timer of the table moves for a seat that does not (HoldemTable).
FairSpec == Spec /\ WF_vars(Next)

-----------------------------------------------------------------------------
TypeOK ==
    /\ [button |-> button, stacks |-> initial] \in Tables
    /\ hand \in [stack : [Seats -> Nat], committed : [Seats -> Nat], street : [Seats -> Nat],
                 folded : SUBSET Seats, actedTo : [Seats -> Nat \cup {NotActed}],
                 onFullBet : SUBSET Seats, current : Seats \cup {NoSeat}, phase : Phases,
                 bet : Nat, fullRaise : Nat \ {0}, pending : SUBSET Seats, board : {0, 3, 4, 5}]
    /\ settlement \in [refunds : [Seats -> Nat], awards : [Seats -> Nat], rank : [Seats -> Nat]]

\* No chip appears or disappears: what a seat brought is in front of it or in the
\* pot, and the settlement pays the pot out to the last chip.
ChipsAreConserved ==
    /\ \A i \in Seats : hand.stack[i] + hand.committed[i] = initial[i]
    /\ Over(hand) =>
          Total(settlement.awards) + Total(settlement.refunds) = Total(hand.committed)

\* Whoever is asked to act can act, and no legal move ends the hand in a state
\* that the settlement rejects: the table can never be stuck on a hand.
NoMoveIsRefused ==
    ~Over(hand) =>
        /\ Moves(hand, hand.current) # {}
        /\ \A m \in Moves(hand, hand.current) :
              LET h == After(hand, hand.current, m) IN Over(h) => CanSettle(h)

\* A hand in play is well formed and can always go on to a settlement.
HandGoesOn == TypeOK /\ NoMoveIsRefused

\* All-in for less: a seat is paid at most what it and every other seat put in,
\* up to its own contribution, and a folded seat is paid nothing.
NobodyWinsMoreThanMatched ==
    Over(hand) =>
        \A i \in Seats :
            LET paid == settlement.awards[i] + settlement.refunds[i]
                matched == [j \in Seats \ {i} |-> Min({hand.committed[i], hand.committed[j]})]
            IN  /\ paid <= hand.committed[i] + Total(matched)
                /\ i \in hand.folded => paid = 0

\* Among the live hands a better one that risked as much is never paid less.
BetterHandIsPaidMore ==
    Over(hand) =>
        \A i, j \in Alive(hand) :
            (settlement.rank[i] > settlement.rank[j] /\ hand.committed[i] >= hand.committed[j])
                => settlement.awards[i] >= settlement.awards[j]

\* Nobody is paid beyond what was risked against them, and the better hand not less.
ShowdownIsFair == NobodyWinsMoreThanMatched /\ BetterHandIsPaidMore

\* A betting round closes only when every seat that can still bet has matched the
\* bet after having had its say, the big blind's option included; when only one
\* such seat is left it must have matched.
StreetClosesFairly ==
    [][(hand'.phase # hand.phase /\ hand'.phase # "settled") =>
          \E m \in Moves(hand, hand.current) :
              LET h == Moved(hand, hand.current, m)
              IN  /\ After(hand, hand.current, m) = hand'
                  /\ \A i \in Actors(h) :
                        /\ h.street[i] = h.bet
                        /\ Cardinality(Actors(h)) > 1 => h.actedTo[i] # NotActed]_vars

\* Every hand ends.
HandEnds == <>Over(hand)

-----------------------------------------------------------------------------
(***************************************************************************)
(* The hand does what the tables rely on.                                  *)
(***************************************************************************)

\* A raise leaves a chip less in front of the seats, and a street closes once; other moves
\* only cross a seat off those that still have to move.
StreetsLeft == [pre_flop |-> 3, flop |-> 2, turn |-> 1, river |-> 0]
Left(h) == IF Over(h) THEN 0
           ELSE 1 + Cardinality(h.pending) + 7 * (StreetsLeft[h.phase] + Total(h.stack))

CashOuts ==
    [i \in Seats |-> IF Over(hand)
                     THEN hand.stack[i] + settlement.awards[i] + settlement.refunds[i] ELSE 0]

Promise == INSTANCE HandPromise WITH
    Stakes <- {t.stacks : t \in Tables},
    stake <- initial, turn <- hand.current, left <- Left(hand), cash <- CashOuts

\* Each move brings the hand nearer to its end, whoever raises or is raised again, and its
\* end pays all the chips that were brought to the table, whatever pots they went through.
KeepsPromise == Promise!Spec
=============================================================================
