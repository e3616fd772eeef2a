---------------------------- MODULE BlackjackHand ----------------------------
(***************************************************************************)
(* What cards are worth at Blackjack (games/blackjack.py): the value of a  *)
(* hand, how the dealer draws, and what a bet is paid.  A hand is the sum  *)
(* of its cards with every ace worth eleven, how many aces it has, and how *)
(* many cards; suits tell nothing apart, and the deck never runs out.      *)
(***************************************************************************)
EXTENDS Integers, FiniteSetsExt

CONSTANTS
    PlayerCards,   \* bound: the cards a player is dealt, by value
    DealerCards    \* the cards a dealer is dealt, by value

Ace == 11

ASSUME CardsHaveValues == PlayerCards \cup DealerCards \subseteq 2..Ace

HandType == [sum : Nat, aces : Nat, cards : Nat]

NoHand == [sum |-> 0, aces |-> 0, cards |-> 0]

With(hand, card) ==
    [sum |-> hand.sum + card, aces |-> hand.aces + (IF card = Ace THEN 1 ELSE 0),
     cards |-> hand.cards + 1]

\* hand_value: aces are turned from eleven into one until the hand is not bust, or none
\* is left.
HandTotal(hand) ==
    hand.sum - 10 * Min({k \in 0..hand.aces : hand.sum - 10 * k <= 21} \cup {hand.aces})

Value(hand) ==
    [total |-> HandTotal(hand), bust |-> HandTotal(hand) > 21,
     natural |-> hand.cards = 2 /\ HandTotal(hand) = 21]

Draws(hands, cards) == {With(hand, card) : hand \in hands, card \in cards}

TwoCards(cards) == Draws(Draws({NoHand}, cards), cards)

FirstHands == TwoCards(PlayerCards)

\* _resolve_dealer: the dealer stands on every seventeen.
DealerDraws(hand) == HandTotal(hand) < 17

\* What a dealer without a natural ends with: nine cards more are always enough.
DealerValues ==
    LET after[n \in 0..9] ==
            IF n = 0 THEN {hand \in TwoCards(DealerCards) : ~Value(hand).natural}
            ELSE Draws({hand \in after[n - 1] : DealerDraws(hand)}, DealerCards)
                 \cup {hand \in after[n - 1] : ~DealerDraws(hand)}
    IN  {Value(hand) : hand \in after[9]}

DealerNatural == [total |-> 21, bust |-> FALSE, natural |-> TRUE]

\* settle_blackjack.
Payout(bet, player, dealer) ==
    IF player.natural /\ ~dealer.natural THEN bet + (bet * 3) \div 2
    ELSE IF (dealer.natural /\ ~player.natural) \/ player.bust THEN 0
    ELSE IF dealer.bust \/ player.total > dealer.total THEN 2 * bet
    ELSE IF player.total = dealer.total THEN bet
    ELSE 0

Payouts(bet, hand) == {Payout(bet, Value(hand), dealer) : dealer \in DealerValues}
=============================================================================
