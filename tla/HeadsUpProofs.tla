--------------------------- MODULE HeadsUpProofs ---------------------------
(***************************************************************************)
(* Proofs about the heads-up hand and the service that plays it, for any   *)
(* buy-in and blinds, any players and rooms and any number of hands.       *)
(***************************************************************************)
EXTENDS HeadsUpTables, SumsProofs, FiniteSetTheorems, TLAPS

-----------------------------------------------------------------------------
(***************************************************************************)
(* One hand.                                                               *)
(***************************************************************************)

\* The parts of a hand that can be told from its type.
LEMMA HandParts ==
    ASSUME NEW h \in HandType
    PROVE  /\ h.current \in Side /\ Other(h.current) \in Side /\ Other(h.current) # h.current
           /\ h.stack \in [Side -> Nat] /\ h.committed \in [Side -> Nat]
           /\ h.street \in [Side -> Nat] /\ h.bet \in Nat /\ h.pot \in Nat
           /\ h.stack[0] \in Nat /\ h.stack[1] \in Nat
           /\ h.committed[0] \in Nat /\ h.committed[1] \in Nat
           /\ h.street[0] \in Nat /\ h.street[1] \in Nat
BY DEF HandType, Side, Other

\* create_heads_up_room deals a hand that can be played.
THEOREM DealtIsSound == Sound(Dealt) /\ ~Over(Dealt) /\ Dealt.current = 0
<1>1. Dealt \in HandType
  BY HeadsUpAssumption DEF Dealt, HandType, Side, Street, Nowhere
<1>2. Matched(Dealt)
  BY HeadsUpAssumption DEF Dealt, Matched, Side
<1>3. Answerable(Dealt)
  BY HeadsUpAssumption DEF Dealt, Answerable, Side, Other
<1>4. ~Over(Dealt) /\ Dealt.phase = "pre_flop" /\ Dealt.board = Cards("pre_flop")
      /\ Dealt.folded = Nowhere /\ Dealt.current = 0
  BY DEF Dealt, Over, Cards
<1>. QED BY <1>1, <1>2, <1>3, <1>4 DEF Sound

\* In a sound hand the seat to move and the other one have the same chips on this
\* street and behind it, so neither can bet more than the other can answer.
LEMMA EqualReach ==
    ASSUME NEW h, Sound(h), ~Over(h)
    PROVE  h.street[h.current] + h.stack[h.current]
              = h.street[Other(h.current)] + h.stack[Other(h.current)]
<1>1. h \in HandType /\ Matched(h)
  BY DEF Sound
<1>2. h.stack[0] + h.committed[0] = BuyIn /\ h.stack[1] + h.committed[1] = BuyIn
      /\ h.committed[0] - h.street[0] = h.committed[1] - h.street[1]
  BY <1>1 DEF Matched, Side
<1>3. h.street[0] + h.stack[0] = h.street[1] + h.stack[1]
  BY <1>1, <1>2, HandParts, HeadsUpAssumption
<1>. QED BY <1>1, <1>3, HandParts DEF Side, Other

\* dev/BuildSpec.md:72, the reason why there are no side pots: whoever is to move can
\* check or call, whatever was bet before.
THEOREM AnyBetIsCovered ==
    ASSUME NEW h, Sound(h), ~Over(h)
    PROVE  Checks(h) # {} \/ Calls(h) # {}
<1>1. h \in HandType /\ Answerable(h)
  BY DEF Sound
<1>2. h.street[Other(h.current)] = h.bet /\ h.street[h.current] <= h.bet
  BY <1>1 DEF Answerable
<1>3. Debt(h) \in Nat /\ Debt(h) <= h.stack[h.current]
  BY <1>1, <1>2, HandParts, EqualReach DEF Debt, Side
<1>4. CASE Debt(h) = 0
  BY <1>4 DEF Checks
<1>5. CASE Debt(h) # 0
  <2>1. Debt(h) \in 1..h.stack[h.current]
    BY <1>1, <1>3, <1>5, HandParts DEF Side
  <2>. QED BY <2>1 DEF Calls
<1>. QED BY <1>4, <1>5

\* What a move that is no fold costs: chips the seat has.
LEMMA MoveCost ==
    ASSUME NEW h, Sound(h), ~Over(h), NEW m \in Moves(h), m.kind # "fold"
    PROVE  /\ m.amount \in Nat /\ h.bet <= m.amount
           /\ m.amount - h.street[h.current] \in 0..h.stack[h.current]
           /\ m.kind = "raise" => h.bet < m.amount
           /\ m.kind # "raise" => m.amount = h.bet
<1>1. h \in HandType /\ Answerable(h)
  BY DEF Sound
<1>2. h.street[h.current] <= h.bet
  BY <1>1 DEF Answerable
<1>3. h.street[h.current] \in Nat /\ h.stack[h.current] \in Nat /\ h.bet \in Nat
  BY <1>1, HandParts DEF Side
<1>4. CASE m \in Checks(h)
  BY <1>2, <1>3, <1>4 DEF Checks, Move, Debt
<1>5. CASE m \in Calls(h)
  BY <1>2, <1>3, <1>5 DEF Calls, Move, Debt
<1>6. CASE m \in Raises(h)
  <2>1. PICK a \in MinimumRaise(h)..MaximumRaise(h) : m = Move("raise", a)
    BY <1>6 DEF Raises
  <2>2. m.kind = "raise" /\ m.amount = a
    BY <2>1 DEF Move
  <2>3. h.bet + BigBlind <= a /\ a <= h.street[h.current] + h.stack[h.current] /\ a \in Int
    BY <1>3, HeadsUpAssumption DEF MinimumRaise, MaximumRaise
  <2>. QED BY <1>2, <1>3, <2>2, <2>3, HeadsUpAssumption
<1>7. m \notin Folds(h)
  BY DEF Folds, Move
<1>. QED BY <1>4, <1>5, <1>6, <1>7 DEF Moves

\* A hand of which a bet has changed some fields.
Changed(h, stack, committed, street, pot, bet, current, acted) ==
    [h EXCEPT !.stack = stack, !.committed = committed, !.street = street, !.pot = pot,
              !.bet = bet, !.current = current, !.acted = acted]

LEMMA ChangedFields ==
    ASSUME NEW h \in HandType, NEW s, NEW c, NEW t, NEW p, NEW x, NEW i, NEW a
    PROVE  LET b == Changed(h, s, c, t, p, x, i, a) IN
           /\ b.stack = s /\ b.committed = c /\ b.street = t /\ b.pot = p /\ b.bet = x
           /\ b.current = i /\ b.acted = a
           /\ b.phase = h.phase /\ b.board = h.board /\ b.folded = h.folded
           /\ (/\ s \in [Side -> Nat] /\ c \in [Side -> Nat] /\ t \in [Side -> Nat]
               /\ p \in Nat /\ x \in Nat /\ i \in Side /\ a \subseteq Side) => b \in HandType
BY DEF HandType, Changed

\* The chips are in place after a bet, and who has to answer it can; a street that is
\* closed has been matched.
LEMMA BetIsMatched ==
    ASSUME NEW h, Sound(h), ~Over(h), NEW m \in Moves(h), m.kind # "fold"
    PROVE  LET b == Bet(h, m) IN
           /\ b \in HandType /\ Matched(b)
           /\ b.phase = h.phase /\ b.board = h.board /\ b.folded = h.folded
           /\ b.current = Other(h.current)
           /\ b.acted = Acted(h, m)
           /\ b.stack[h.current] = h.stack[h.current] - (m.amount - h.street[h.current])
           /\ b.stack[Other(h.current)] = h.stack[Other(h.current)]
           /\ ~BettingClosed(b) => Answerable(b)
           /\ BettingClosed(b) => b.committed[0] = b.committed[1] /\ b.stack[0] = b.stack[1]
<1> DEFINE b == Bet(h, m)  i == h.current  o == Other(h.current)  cost == m.amount - h.street[i]
<1>1. h \in HandType /\ Answerable(h) /\ Matched(h)
  BY DEF Sound
<1>2. i \in Side /\ o \in Side /\ o # i /\ Other(o) = i
  BY <1>1 DEF HandType, Side, Other
<1>3. /\ h.stack[i] \in Nat /\ h.stack[o] \in Nat /\ h.committed[i] \in Nat
      /\ h.committed[o] \in Nat /\ h.street[i] \in Nat /\ h.street[o] \in Nat
      /\ h.bet \in Nat /\ h.pot \in Nat
  BY <1>1, <1>2, HandParts
<1>4. /\ m.amount \in Nat /\ h.bet <= m.amount /\ cost \in 0..h.stack[i]
      /\ m.kind = "raise" => h.bet < m.amount
      /\ m.kind # "raise" => m.amount = h.bet
  BY MoveCost
<1> DEFINE stack == Plus(h.stack, i, -cost)
           committed == Plus(h.committed, i, cost)
           street == Plus(h.street, i, cost)
<1>5. b = Changed(h, stack, committed, street, h.pot + cost, m.amount, o, Acted(h, m))
  <2>1. (IF m.kind = "raise" THEN m.amount ELSE h.bet) = m.amount
    BY <1>4
  <2>. QED BY <2>1 DEF Bet, Changed
<1>6. Acted(h, m) \subseteq Side /\ i \in Acted(h, m)
      /\ (o \in h.acted /\ m.kind # "raise" => Acted(h, m) = Side)
      /\ (m.kind = "raise" => Acted(h, m) # Side)
  BY <1>1, <1>2 DEF Acted, HandType, Side
<1>7. /\ b.stack = stack /\ b.committed = committed /\ b.street = street
      /\ b.pot = h.pot + cost /\ b.bet = m.amount /\ b.current = o /\ b.acted = Acted(h, m)
      /\ b.phase = h.phase /\ b.board = h.board /\ b.folded = h.folded
  <2> HIDE DEF stack, committed, street, b, cost, o
  <2>. QED BY <1>1, <1>5, ChangedFields
<1>8. /\ b.stack[i] = h.stack[i] - cost /\ b.stack[o] = h.stack[o]
      /\ b.committed[i] = h.committed[i] + cost /\ b.committed[o] = h.committed[o]
      /\ b.street[i] = m.amount /\ b.street[o] = h.street[o]
  <2> HIDE DEF b
  <2>1. b.stack = stack /\ b.committed = committed /\ b.street = street
    BY <1>7
  <2>. QED BY <1>1, <1>2, <1>3, <1>4, <2>1 DEF HandType, Plus
<1>9. b \in HandType
  <2>1. stack \in [Side -> Nat] /\ committed \in [Side -> Nat] /\ street \in [Side -> Nat]
    BY <1>1, <1>2, <1>3, <1>4, HandParts DEF Plus
  <2>2. h.pot + cost \in Nat
    BY <1>3, <1>4
  <2> HIDE DEF stack, committed, street, b, cost, o
  <2>. QED BY <1>1, <1>2, <1>4, <1>5, <1>6, <2>1, <2>2, ChangedFields
<1>10. /\ h.stack[i] + h.committed[i] = BuyIn /\ h.stack[o] + h.committed[o] = BuyIn
       /\ h.pot = h.committed[i] + h.committed[o]
       /\ h.committed[i] - h.street[i] = h.committed[o] - h.street[o]
  BY <1>1, <1>2, <1>3 DEF Matched, Side
<1>11. /\ b.stack[i] + b.committed[i] = BuyIn /\ b.stack[o] + b.committed[o] = BuyIn
       /\ b.pot = b.committed[i] + b.committed[o]
       /\ b.committed[i] - b.street[i] = b.committed[o] - b.street[o]
  BY <1>3, <1>4, <1>7, <1>8, <1>10
<1>12. Matched(b)
  BY <1>2, <1>9, <1>11, HandParts DEF Matched, Side
<1>13. h.street[o] = h.bet /\ h.stack[i] > 0 /\ (h.stack[o] = 0 => o \in h.acted)
  BY <1>1 DEF Answerable
<1>14. ASSUME ~BettingClosed(b) PROVE Answerable(b)
  <2>0. o \notin b.acted
    <3>1. SUFFICES ASSUME o \in Acted(h, m) PROVE FALSE
      BY <1>7
    <3>2. m.kind # "raise" /\ o \in h.acted
      BY <1>2, <3>1 DEF Acted
    <3>3. b.acted = Side /\ b.street[i] = b.street[o]
      BY <1>4, <1>6, <1>7, <1>8, <1>13, <3>2
    <3>. QED BY <1>2, <1>14, <3>3 DEF BettingClosed, Side
  <2>1. b.street[i] = b.bet /\ b.street[o] <= b.bet
    BY <1>3, <1>4, <1>7, <1>8, <1>13
  <2>2. ASSUME b.stack[o] = 0 PROVE FALSE
    <3>1. h.stack[o] = 0 /\ o \in h.acted
      BY <1>8, <1>13, <2>2
    <3>2. m.amount <= h.street[o]
      BY <1>3, <1>4, <1>8, <1>10, <3>1
    <3>3. m.kind # "raise" /\ b.street[i] = b.street[o]
      BY <1>3, <1>4, <1>8, <1>13, <3>2
    <3>4. b.acted = Side
      BY <1>6, <1>7, <3>1, <3>3
    <3>. QED BY <1>2, <1>14, <3>3, <3>4 DEF BettingClosed, Side
  <2>3. b.stack[o] > 0
    BY <1>3, <1>8, <2>2
  <2>. QED BY <1>2, <1>6, <1>7, <2>0, <2>1, <2>3 DEF Answerable
<1>15. ASSUME BettingClosed(b) PROVE b.committed[0] = b.committed[1] /\ b.stack[0] = b.stack[1]
  <2>1. b.street[0] = b.street[1]
    BY <1>15 DEF BettingClosed
  <2>2. /\ b.committed[0] - b.street[0] = b.committed[1] - b.street[1]
        /\ b.stack[0] + b.committed[0] = BuyIn /\ b.stack[1] + b.committed[1] = BuyIn
    BY <1>12 DEF Matched, Side
  <2>. QED BY <1>9, <2>1, <2>2, HandParts, HeadsUpAssumption
<1>. QED BY <1>7, <1>8, <1>9, <1>12, <1>14, <1>15

LEMMA FoldedIsSound ==
    ASSUME NEW h, Sound(h), ~Over(h)
    PROVE  LET f == [h EXCEPT !.phase = "settled", !.folded = h.current,
                              !.current = Other(h.current)] IN
           Sound(f) /\ Over(f)
<1> DEFINE f == [h EXCEPT !.phase = "settled", !.folded = h.current, !.current = Other(h.current)]
<1>1. h \in HandType /\ Matched(h)
  BY DEF Sound
<1>2. /\ f \in HandType
      /\ f.phase = "settled" /\ f.folded = h.current /\ f.stack = h.stack
      /\ f.committed = h.committed /\ f.street = h.street /\ f.pot = h.pot
  BY <1>1, HandParts DEF HandType
<1>. QED BY <1>1, <1>2, HandParts DEF Sound, Over, Matched, Side

\* Both stacks are in the pot: the board is completed and the hand can be settled.
LEMMA RunOutIsSound ==
    ASSUME NEW b \in HandType, Matched(b), b.folded = Nowhere, b.committed[0] = b.committed[1]
    PROVE  Sound(RunOut(b)) /\ Over(RunOut(b))
<1> DEFINE f == RunOut(b)  zero == [i \in Side |-> 0]
<1>1. /\ f.phase = "showdown" /\ f.board = 5 /\ f.folded = Nowhere /\ f.stack = b.stack
      /\ f.committed = b.committed /\ f.pot = b.pot
      /\ f.street \in {b.street, zero} /\ f.bet \in {b.bet, 0}
      /\ f.current = 0 /\ f.acted = {}
  BY DEF HandType, RunOut
<1>2. f \in HandType
  BY <1>1 DEF HandType, RunOut, Side
<1>3. Matched(f)
  <2>1. f.street[0] = f.street[1]
    BY <1>1, HandParts, HeadsUpAssumption DEF Matched, Side
  <2>. QED BY <1>1, <1>2, <2>1, HandParts DEF Matched, Side
<1>. QED BY <1>1, <1>2, <1>3 DEF Sound, Over

\* The next street begins with the button, who has chips if the other one has.
LEMMA AdvancedIsSound ==
    ASSUME NEW b \in HandType, Matched(b), b.folded = Nowhere, b.committed[0] = b.committed[1],
           b.phase \in Street, b.board = Cards(b.phase),
           b.stack[0] = b.stack[1], b.stack[0] # 0
    PROVE  Sound(Advanced(b)) /\ Advanced(b).current = 0
<1> DEFINE f == Advanced(b)  zero == [i \in Side |-> 0]
<1>1. CASE b.phase = "river"
  <2>1. b.board = 5
    BY <1>1 DEF Cards
  <2>2. /\ f \in HandType /\ f.phase = "showdown" /\ f.board = 5 /\ f.folded = Nowhere
        /\ f.stack = b.stack /\ f.committed = b.committed /\ f.street = b.street /\ f.pot = b.pot
        /\ f.current = 0
    BY <1>1, <2>1 DEF HandType, Advanced, Side
  <2>. QED BY <2>2 DEF Sound, Matched, Over
<1>2. CASE b.phase # "river"
  <2> DEFINE next == NextPhase(b.phase)
  <2>1. next \in {"flop", "turn", "river"} /\ Cards(next) \in {3, 4, 5}
    BY <1>2 DEF NextPhase, Street, Cards
  <2>2. f = [b EXCEPT !.phase = next, !.board = Cards(next), !.street = zero, !.bet = 0,
                      !.current = 0, !.acted = {}]
    BY <1>2 DEF Advanced
  <2>3. /\ f.phase = next /\ f.board = Cards(next) /\ f.folded = Nowhere /\ f.stack = b.stack
        /\ f.committed = b.committed /\ f.street = zero /\ f.pot = b.pot /\ f.bet = 0
        /\ f.current = 0 /\ f.acted = {}
    <3> HIDE DEF next, zero, f
    <3>. QED BY <2>2 DEF HandType
  <2>4. f \in HandType
    <3>1. zero \in [Side -> Nat]
      OBVIOUS
    <3> HIDE DEF next, zero, f
    <3>. QED BY <2>1, <2>2, <3>1 DEF HandType, Street, Side
  <2>5. Matched(f)
    <3> HIDE DEF f
    <3>1. f.street[0] = 0 /\ f.street[1] = 0
      BY <2>3 DEF Side
    <3>. QED BY <2>3, <3>1, HandParts DEF Matched, Side
  <2>6. Answerable(f)
    <3> HIDE DEF f
    <3>. QED BY <2>3, HandParts DEF Answerable, Other, Side
  <2>. QED BY <2>1, <2>3, <2>4, <2>5, <2>6 DEF Sound, Over
<1>. QED BY <1>1, <1>2

\* apply_holdem_action: every move of a hand that can go on leaves one that can go on
\* or be settled; the turn goes to the other seat or to the button.
THEOREM MovesKeepHandsSound ==
    ASSUME NEW h, Sound(h), ~Over(h), NEW m \in Moves(h)
    PROVE  /\ Sound(After(h, m))
           /\ ~Over(After(h, m)) => After(h, m).current \in {0, Other(h.current)}
<1>1. CASE m.kind = "fold"
  BY <1>1, FoldedIsSound DEF After
<1>2. CASE m.kind # "fold"
  <2> DEFINE b == Bet(h, m)
  <2>1. /\ b \in HandType /\ Matched(b)
        /\ b.phase = h.phase /\ b.board = h.board /\ b.folded = h.folded
        /\ b.current = Other(h.current)
        /\ ~BettingClosed(b) => Answerable(b)
        /\ BettingClosed(b) => b.committed[0] = b.committed[1] /\ b.stack[0] = b.stack[1]
    BY <1>2, BetIsMatched
  <2>2. h \in HandType /\ h.board = Cards(h.phase) /\ h.folded = Nowhere
    BY DEF Sound
  <2>3. b.phase \in Street /\ b.board = Cards(b.phase) /\ b.folded = Nowhere /\ ~Over(b)
    BY <2>1, <2>2 DEF Over, HandType
  <2>4. After(h, m) = IF ~BettingClosed(b) THEN b
                      ELSE IF b.stack = [i \in Side |-> 0] THEN RunOut(b) ELSE Advanced(b)
    BY <1>2 DEF After
  <2> HIDE DEF b
  <2>5. CASE ~BettingClosed(b)
    BY <2>1, <2>3, <2>4, <2>5 DEF Sound, Over
  <2>6. CASE BettingClosed(b) /\ b.stack = [i \in Side |-> 0]
    BY <2>1, <2>3, <2>4, <2>6, RunOutIsSound
  <2>7. CASE BettingClosed(b) /\ b.stack # [i \in Side |-> 0]
    <3>1. b.stack[0] # 0
      <4>1. SUFFICES ASSUME b.stack[0] = 0 PROVE b.stack = [i \in Side |-> 0]
        BY <2>7
      <4>. QED BY <2>1, <2>7, <4>1 DEF HandType, Side
    <3>. QED BY <2>1, <2>3, <2>4, <2>7, <3>1, AdvancedIsSound
  <2>. QED BY <2>5, <2>6, <2>7
<1>. QED BY <1>1, <1>2

\* The measure of a hand, and of one that a bet has just changed.
LEMMA LeftIs ==
    ASSUME NEW h \in HandType
    PROVE  /\ Left(h) \in Nat
           /\ Over(h) => Left(h) = 0
           /\ ~Over(h) => /\ StreetsLeft[h.phase] \in 0..3
                          /\ Left(h) = 1 + SaysLeft(h)
                                        + 3 * (StreetsLeft[h.phase] + h.stack[0] + h.stack[1])
           /\ SaysLeft(h) \in 0..2
<1>1. SaysLeft(h) \in 0..2
  BY DEF SaysLeft
<1>2. ASSUME ~Over(h)
      PROVE  /\ StreetsLeft[h.phase] \in 0..3
             /\ Left(h) = 1 + SaysLeft(h) + 3 * (StreetsLeft[h.phase] + h.stack[0] + h.stack[1])
  <2>1. h.phase \in {"pre_flop", "flop", "turn", "river"}
    BY <1>2 DEF HandType, Street, Over
  <2>2. StreetsLeft[h.phase] \in 0..3
    BY <2>1 DEF StreetsLeft
  <2>. QED BY <1>2, <2>2 DEF Left
<1>3. Over(h) => Left(h) = 0
  BY DEF Left
<1> HIDE DEF SaysLeft, StreetsLeft, Left
<1>. QED BY <1>1, <1>2, <1>3, HandParts

\* Every move brings a hand nearer to its end: a raise and a call cost chips, a check ends
\* the street or is the only one of its seat, and a street is played once.
THEOREM MovesBringTheEnd ==
    ASSUME NEW h, Sound(h), ~Over(h), NEW m \in Moves(h)
    PROVE  Left(After(h, m)) \in Nat /\ Left(After(h, m)) < Left(h)
<1> DEFINE n == After(h, m)
<1> SUFFICES Left(n) \in Nat /\ Left(n) < Left(h)
  OBVIOUS
<1>1. h \in HandType /\ Answerable(h) /\ n \in HandType
  BY MovesKeepHandsSound DEF Sound
<1>2. /\ SaysLeft(h) \in 0..2 /\ StreetsLeft[h.phase] \in 0..3
      /\ h.stack[0] \in Nat /\ h.stack[1] \in Nat
      /\ Left(h) = 1 + SaysLeft(h) + 3 * (StreetsLeft[h.phase] + h.stack[0] + h.stack[1])
  BY <1>1, LeftIs, HandParts
<1>3. Left(n) \in Nat /\ SaysLeft(n) \in 0..2
  BY <1>1, LeftIs
<1>4. CASE Over(n)
  <2>1. Left(n) = 0
    BY <1>1, <1>4, LeftIs
  <2> HIDE DEF n
  <2>. QED BY <1>2, <2>1
<1>5. CASE ~Over(n)
  <2> DEFINE b == Bet(h, m)  i == h.current  o == Other(h.current)  cost == m.amount - h.street[i]
  <2>1. m.kind # "fold"
    <3>1. ASSUME m.kind = "fold" PROVE Over(n)
      BY <1>1, <3>1, FoldedIsSound DEF After
    <3>. QED BY <1>5, <3>1
  <2>2. /\ b \in HandType /\ b.phase = h.phase /\ b.acted = Acted(h, m)
        /\ b.stack[i] = h.stack[i] - cost /\ b.stack[o] = h.stack[o]
    BY <2>1, BetIsMatched
  <2>3. /\ cost \in 0..h.stack[i]
        /\ m.kind = "raise" => h.bet < m.amount
    BY <2>1, MoveCost
  <2>4. i \in Side /\ o = 1 - i /\ i \notin h.acted /\ h.street[i] <= h.bet
        /\ h.street[i] \in Nat /\ h.bet \in Nat
    BY <1>1, HandParts DEF Answerable, Other, Side
  <2>5. b.stack[0] + b.stack[1] = h.stack[0] + h.stack[1] - cost
    <3> HIDE DEF b, cost
    <3>. QED BY <1>2, <2>2, <2>3, <2>4 DEF Side
  <2>6. n = IF ~BettingClosed(b) THEN b
            ELSE IF b.stack = [j \in Side |-> 0] THEN RunOut(b) ELSE Advanced(b)
    BY <2>1 DEF After
  <2> HIDE DEF b, n
  <2>7. Left(n) = 1 + SaysLeft(n) + 3 * (StreetsLeft[n.phase] + n.stack[0] + n.stack[1])
    BY <1>1, <1>5, LeftIs
  <2>8. CASE ~BettingClosed(b)
    <3>1. n = b /\ StreetsLeft[n.phase] = StreetsLeft[h.phase]
      BY <2>2, <2>6, <2>8
    <3>2. ASSUME cost = 0 PROVE SaysLeft(b) = SaysLeft(h) - 1
      <4>1. m.kind # "raise"
        BY <2>3, <2>4, <3>2, <2>1, MoveCost
      <4>2. b.acted = h.acted \cup {i}
        BY <2>2, <4>1 DEF Acted
      <4>. QED BY <2>4, <4>2 DEF SaysLeft, Side
    <3> HIDE DEF cost, SaysLeft, StreetsLeft
    <3>3. CASE cost = 0
      <4>1. n.stack[0] \in Nat /\ n.stack[1] \in Nat
        BY <1>1, HandParts
      <4>. QED BY <1>2, <1>3, <2>5, <2>7, <3>1, <3>2, <3>3, <4>1
    <3>4. CASE cost # 0
      <4>1. cost >= 1 /\ cost \in Nat
        BY <1>1, <2>3, <2>4, <3>4, HandParts
      <4>2. n.stack[0] + n.stack[1] <= h.stack[0] + h.stack[1] - 1
        BY <1>2, <2>5, <3>1, <4>1
      <4>3. n.stack[0] \in Nat /\ n.stack[1] \in Nat
        BY <1>1, HandParts
      <4>. QED BY <1>2, <1>3, <2>7, <3>1, <4>2, <4>3
    <3>. QED BY <3>3, <3>4
  <2>9. CASE BettingClosed(b)
    <3>1. b.stack # [j \in Side |-> 0] /\ n = Advanced(b)
      <4>1. Over(RunOut(b))
        BY <2>2 DEF RunOut, Over, HandType
      <4>. QED BY <1>5, <2>6, <2>9, <4>1
    <3>2. b.phase \in {"pre_flop", "flop", "turn"}
      <4>1. ASSUME b.phase = "river" PROVE Over(n)
        BY <2>2, <3>1, <4>1 DEF Advanced, Over, HandType
      <4>2. b.phase \in Street
        BY <1>1, <2>2 DEF HandType, Over
      <4>. QED BY <1>5, <4>1, <4>2 DEF Street
    <3>3. n.stack = b.stack /\ n.phase = NextPhase(b.phase)
      BY <2>2, <3>1, <3>2 DEF Advanced, HandType
    <3>4. StreetsLeft[n.phase] = StreetsLeft[h.phase] - 1
      BY <2>2, <3>2, <3>3 DEF StreetsLeft, NextPhase
    <3>5. n.stack[0] + n.stack[1] <= h.stack[0] + h.stack[1]
      <4>1. h.stack[i] \in Nat
        BY <1>2, <2>4 DEF Side
      <4>2. cost \in Nat
        BY <2>3, <4>1
      <4> HIDE DEF cost
      <4>. QED BY <1>2, <2>5, <3>3, <4>2
    <3>6. n.stack[0] \in Nat /\ n.stack[1] \in Nat
      BY <1>1, HandParts
    <3> HIDE DEF SaysLeft, StreetsLeft
    <3>. QED BY <1>2, <1>3, <2>7, <3>4, <3>5, <3>6
  <2>. QED BY <2>8, <2>9
<1>. QED BY <1>3, <1>4, <1>5

LEMMA WinnerSets ==
    ASSUME NEW h \in HandType, NEW w \in Winners(h)
    PROVE  w = {0} \/ w = {1} \/ w = {0, 1}
<1>1. CASE h.folded = Nowhere
  <2>1. w \subseteq {0, 1} /\ w # {}
    BY <1>1 DEF Winners, Side
  <2>. QED BY <2>1
<1>2. CASE h.folded # Nowhere
  BY <1>2 DEF Winners, HandType, Side, Other
<1>. QED BY <1>1, <1>2

LEMMA PairSize ==
    ASSUME NEW a, NEW b, a # b
    PROVE  Cardinality({a, b}) = 2
<1>1. IsFiniteSet({a}) /\ Cardinality({a}) = 1
  BY FS_Singleton
<1>2. b \notin {a} /\ {a, b} = {a} \cup {b}
  OBVIOUS
<1>3. Cardinality({a} \cup {b}) = 2
  BY <1>1, <1>2, FS_AddElement
<1>. QED BY <1>2, <1>3

LEMMA Halves == \A n \in Nat : n \div 2 \in Nat /\ n % 2 \in Nat /\ 2 * (n \div 2) + (n % 2) = n
OBVIOUS

\* settle_holdem and update: whoever wins, the two pay-outs are natural numbers and add
\* up to the two buy-ins, odd chip included.
THEOREM PayoutsAddUp ==
    ASSUME NEW h, Sound(h), NEW w \in Winners(h)
    PROVE  /\ Payout(h, w) \in [Side -> Nat]
           /\ Payout(h, w)[0] + Payout(h, w)[1] = 2 * BuyIn
<1>1. h \in HandType /\ Matched(h)
  BY DEF Sound
<1>2. /\ h.stack[0] \in Nat /\ h.stack[1] \in Nat /\ h.pot \in Nat
      /\ h.stack[0] + h.stack[1] + h.pot = 2 * BuyIn
  BY <1>1, HandParts, HeadsUpAssumption DEF Matched, Side
<1>3. CASE w = {0} \/ w = {1}
  <2>1. Cardinality(w) = 1
    BY <1>3, FS_Singleton
  <2>2. h.pot \div 1 = h.pot /\ h.pot % 1 = 0
    BY <1>2
  <2>3. \A i \in Side : Payout(h, w)[i] = h.stack[i] + IF i \in w THEN h.pot ELSE 0
    BY <1>1, <1>2, <1>3, <2>1, <2>2 DEF Payout, Side
  <2>4. Payout(h, w) = [i \in Side |-> Payout(h, w)[i]]
    BY DEF Payout
  <2> HIDE DEF Payout
  <2>. QED BY <1>2, <1>3, <2>3, <2>4 DEF Side
<1>4. CASE w = {0, 1}
  <2>1. Cardinality(w) = 2
    <3>1. 0 # 1
      OBVIOUS
    <3>2. Cardinality({0, 1}) = 2
      BY <3>1, PairSize, Zenon
    <3>. QED BY <1>4, <3>2
  <2>2. /\ h.pot \div 2 \in Nat /\ h.pot % 2 \in Nat
        /\ 2 * (h.pot \div 2) + (h.pot % 2) = h.pot
    BY <1>2, Halves
  <2>3. /\ Payout(h, w)[0] = h.stack[0] + (h.pot \div 2) + (h.pot % 2)
        /\ Payout(h, w)[1] = h.stack[1] + (h.pot \div 2)
    <3>1. 0 \in w /\ 1 \in w /\ w # {1}
      BY <1>4
    <3>. QED BY <1>2, <2>1, <2>2, <3>1 DEF Payout, Side
  <2>4. Payout(h, w) = [i \in Side |-> Payout(h, w)[i]]
    BY DEF Payout
  <2> HIDE DEF Payout
  <2>5. Payout(h, w)[0] \in Nat /\ Payout(h, w)[1] \in Nat
        /\ Payout(h, w)[0] + Payout(h, w)[1] = 2 * BuyIn
    BY <1>2, <2>2, <2>3, HeadsUpAssumption
  <2>. QED BY <2>4, <2>5 DEF Side
<1>. QED BY <1>1, <1>3, <1>4, WinnerSets

-----------------------------------------------------------------------------
(***************************************************************************)
(* Rooms.  The invariant says, row by row, who sits where, that the hand   *)
(* is sound and against the bot has the player to move, and who has paid.  *)
(***************************************************************************)
Staked(row) == row.status \in {"active", "settled"}

Seating(row) ==
    /\ Staked(row) =>
          /\ row.seats[0] # Nobody
          /\ row.mode = "pvp" => row.seats[1] \notin {Nobody, row.seats[0]}
          /\ row.mode = "bot" => row.seats[1] = Nobody
    /\ row.status = "waiting" => row.mode = "pvp" /\ row.seats[0] # Nobody /\ row.seats[1] = Nobody

Playing(row) ==
    /\ row.hand # NoHand => Sound(row.hand)
    /\ row.status = "active" =>
          /\ row.hand # NoHand /\ ~Over(row.hand)
          /\ row.mode = "bot" => row.hand.current = 0

Payers(r) == {u \in User : <<r, u>> \in staked}

RoomsOK ==
    /\ room \in [Room -> RowType]
    /\ staked \subseteq Room \X User
    /\ \A r \in Room : Seating(room[r]) /\ Playing(room[r])
    /\ \A r \in Room : Payers(r) = IF Staked(room[r]) THEN Members(room[r]) ELSE {}

IInv == TypeOK /\ RoomsOK

\* A row that has changed without anybody paying or leaving.
Kept(row, new) ==
    /\ new \in RowType
    /\ Staked(new) <=> Staked(row)
    /\ Staked(row) => new.seats = row.seats
    /\ Seating(new) /\ Playing(new)

LEMMA MembersOf ==
    ASSUME NEW row \in RowType
    PROVE  /\ Members(row) = {row.seats[0], row.seats[1]} \ {Nobody}
           /\ Members(row) \subseteq User
BY DEF Members, RowType, Side

LEMMA KeptRows ==
    ASSUME RoomsOK, staked' = staked, DOMAIN room' = Room, room' = [q \in Room |-> room'[q]],
           \A q \in Room : room'[q] = room[q] \/ Kept(room[q], room'[q])
    PROVE  RoomsOK'
<1>1. \A q \in Room : room'[q] \in RowType /\ Seating(room'[q]) /\ Playing(room'[q])
  BY DEF RoomsOK, Kept
<1>2. room' \in [Room -> RowType]
  BY <1>1
<1>3. \A q \in Room : /\ Staked(room'[q]) <=> Staked(room[q])
                      /\ Staked(room[q]) => room'[q].seats = room[q].seats
  BY DEF Kept
<1>4. \A q \in Room : Staked(room[q]) => Members(room'[q]) = Members(room[q])
  BY <1>3 DEF Members
<1>5. \A q \in Room : Payers(q)' = Payers(q)
  BY DEF Payers
<1>6. \A q \in Room : Payers(q)' = IF Staked(room'[q]) THEN Members(room'[q]) ELSE {}
  BY <1>3, <1>4, <1>5 DEF RoomsOK
<1>. QED BY <1>1, <1>2, <1>6 DEF RoomsOK

\* The fields of a row after an operation.
LEMMA RecordedRow ==
    ASSUME NEW row \in RowType
    PROVE  /\ Recorded(row) \in RowType
           /\ Recorded(row).status = row.status /\ Recorded(row).deadline = row.deadline
           /\ Recorded(row).hand = row.hand /\ Recorded(row).mode = row.mode
           /\ Recorded(row).seats = row.seats
BY DEF RowType, Recorded

LEMMA WithFields ==
    ASSUME NEW row \in RowType,
           NEW s, s \in {"absent", "waiting", "active", "settled", "closed"},
           NEW d, d \in Nat \cup {NoDeadline}, NEW h, h \in HandType
    PROVE  LET new == With(row, s, d, h) IN
           /\ new.status = s /\ new.deadline = d /\ new.hand = h
           /\ new.mode = row.mode /\ new.seats = row.seats
           /\ new \in RowType
<1> DEFINE mid == [row EXCEPT !.status = s, !.deadline = d, !.hand = h]
<1>1. /\ mid \in RowType
      /\ mid.status = s /\ mid.deadline = d /\ mid.hand = h
      /\ mid.mode = row.mode /\ mid.seats = row.seats
  BY DEF RowType
<1> HIDE DEF mid
<1>2. Recorded(mid).status = s /\ Recorded(mid).deadline = d /\ Recorded(mid).hand = h
      /\ Recorded(mid).mode = row.mode /\ Recorded(mid).seats = row.seats
      /\ Recorded(mid) \in RowType
  BY <1>1, RecordedRow
<1>. QED BY <1>2 DEF mid, With

LEMMA ClosedKept ==
    ASSUME NEW row \in RowType, Playing(row), row.status = "waiting"
    PROVE  Kept(row, Closed(row))
<1> DEFINE mid == [row EXCEPT !.status = "closed", !.deadline = NoDeadline]
<1>1. /\ mid \in RowType
      /\ mid.status = "closed" /\ mid.hand = row.hand
      /\ mid.mode = row.mode /\ mid.seats = row.seats
  BY DEF RowType
<1>2. Closed(row) = Recorded(mid)
  BY DEF Closed
<1> HIDE DEF mid
<1>3. /\ Closed(row) \in RowType
      /\ Closed(row).status = "closed" /\ Closed(row).hand = row.hand
      /\ Closed(row).mode = row.mode /\ Closed(row).seats = row.seats
  BY <1>1, <1>2, RecordedRow
<1>. QED BY <1>3 DEF Kept, Staked, Seating, Playing

LEMMA DeadlineType == \A row : TurnDeadline(row) \in Nat \cup {NoDeadline}
BY TablesAssumption DEF TurnDeadline

\* The moves of the player and the bot's answer leave a sound hand with the player to move.
LEMMA AnswersAreSound ==
    ASSUME NEW row \in RowType, Playing(row), row.status = "active", NEW m \in Moves(row.hand),
           NEW h \in Answered(row, After(row.hand, m))
    PROVE  Sound(h) /\ (~Over(h) /\ row.mode = "bot" => h.current = 0)
<1> DEFINE mine == After(row.hand, m)
<1>1. Sound(mine)
  BY MovesKeepHandsSound DEF Playing
<1>2. CASE row.mode = "bot" /\ mine.current = 1 /\ ~Over(mine)
  <2>1. PICK a \in BotMoves(mine) : h = After(mine, a)
    BY <1>2 DEF Answered
  <2>2. a \in Moves(mine)
    BY <2>1 DEF BotMoves
  <2>. QED BY <1>1, <1>2, <2>1, <2>2, MovesKeepHandsSound DEF Other
<1>3. CASE ~(row.mode = "bot" /\ mine.current = 1 /\ ~Over(mine))
  <2>1. h = mine
    BY <1>3 DEF Answered
  <2>2. mine.current \in Side
    BY <1>1 DEF Sound, HandType
  <2>. QED BY <1>1, <1>3, <2>1, <2>2 DEF Side
<1>. QED BY <1>2, <1>3

\* update: the row goes on or is settled, and the pay-outs are added to the wallets.
LEMMA UpdatedKeeps ==
    ASSUME IInv, NEW r \in Room, room[r].status = "active", NEW h, Sound(h),
           ~Over(h) /\ room[r].mode = "bot" => h.current = 0,
           Updated(r, room[r], h), staked' = staked
    PROVE  RoomsOK' /\ balance' \in [User -> Nat]
<1> DEFINE row == room[r]
           settled == With(row, "settled", NoDeadline, h)
           active == With(row, "active", TurnDeadline(row), h)
<1>1. row \in RowType /\ Seating(row) /\ Playing(row) /\ h \in HandType
  BY DEF IInv, RoomsOK, Sound
<1>2. h # NoHand /\ Staked(row)
  BY <1>1 DEF HandType, NoHand, Street, Staked
<1>3. Kept(row, settled)
  <2>1. /\ settled.status = "settled" /\ settled.hand = h /\ settled.mode = row.mode
        /\ settled.seats = row.seats /\ settled \in RowType
    <3>1. "settled" \in {"absent", "waiting", "active", "settled", "closed"}
      OBVIOUS
    <3> HIDE DEF row
    <3>. QED BY <1>1, <3>1, WithFields
  <2> HIDE DEF settled, row
  <2>. QED BY <1>1, <1>2, <2>1 DEF Kept, Staked, Seating, Playing
<1>4. ASSUME ~Over(h) PROVE Kept(row, active)
  <2>1. /\ active.status = "active" /\ active.hand = h /\ active.mode = row.mode
        /\ active.seats = row.seats /\ active \in RowType
    BY <1>1, WithFields, DeadlineType
  <2>2. ~Over(h) /\ row.mode = "bot" => h.current = 0
    OBVIOUS
  <2> HIDE DEF active, row
  <2>. QED BY <1>1, <1>2, <1>4, <2>1, <2>2 DEF Kept, Staked, Seating, Playing
<1>5. CASE Over(h)
  <2>1. PICK w \in Winners(h) :
           /\ balance' = [u \in User |-> balance[u] + Won(row, Payout(h, w), u)]
           /\ room' = [room EXCEPT ![r] = settled]
    BY <1>5 DEF Updated
  <2>2. balance' \in [User -> Nat]
    <3>1. Payout(h, w)[0] \in Nat /\ Payout(h, w)[1] \in Nat
      BY PayoutsAddUp DEF Side
    <3>2. \A u \in User : Won(row, Payout(h, w), u) \in Nat
      BY <3>1 DEF Won
    <3>. QED BY <2>1, <3>2 DEF IInv, TypeOK
  <2>3. RoomsOK'
    <3> HIDE DEF settled
    <3>1. room \in [Room -> RowType]
      BY DEF IInv, RoomsOK
    <3>. QED BY <1>3, <2>1, <3>1, KeptRows DEF IInv
  <2>. QED BY <2>2, <2>3
<1>6. CASE ~Over(h)
  <2>1. room' = [room EXCEPT ![r] = active] /\ balance' = balance
    BY <1>6 DEF Updated
  <2> HIDE DEF active
  <2>2. room \in [Room -> RowType]
    BY DEF IInv, RoomsOK
  <2>. QED BY <1>4, <1>6, <2>1, <2>2, KeptRows DEF IInv, TypeOK
<1>. QED BY <1>5, <1>6

\* start: the members pay, the hand is dealt, and other searches may be closed.
LEMMA StartedKeeps ==
    ASSUME IInv, NEW r \in Room, ~Staked(room[r]), NEW row \in RowType,
           row.seats[0] \in User,
           row.mode = "pvp" => row.seats[1] \in User \ {row.seats[0]},
           row.mode = "bot" => row.seats[1] = Nobody,
           \A u \in Members(row) : balance[u] >= BuyIn,
           NEW closing \in SUBSET Room, \A q \in closing : room[q].status = "waiting",
           Started(r, row, closing)
    PROVE  RoomsOK' /\ balance' \in [User -> Nat]
<1> DEFINE active == With(row, "active", TurnDeadline(row), Dealt)
<1>1. /\ active.status = "active" /\ active.hand = Dealt /\ active.mode = row.mode
      /\ active.seats = row.seats /\ active \in RowType
  BY WithFields, DeadlineType, DealtIsSound DEF Sound
<1>2. /\ room' = [q \in Room |-> IF q = r THEN active
                                 ELSE IF q \in closing THEN Closed(room[q]) ELSE room[q]]
      /\ balance' = [u \in User |-> IF u \in Members(row) THEN balance[u] - BuyIn ELSE balance[u]]
      /\ staked' = staked \cup {<<r, u>> : u \in Members(row)}
  BY DEF Started
<1> HIDE DEF active
<1>3. Members(active) = Members(row) /\ Members(row) \subseteq User
  BY <1>1, MembersOf DEF Members
<1>4. Staked(active) /\ Seating(active) /\ Playing(active)
  <2>1. Dealt # NoHand /\ Sound(Dealt) /\ ~Over(Dealt) /\ Dealt.current = 0
    BY DealtIsSound DEF Sound, HandType, NoHand, Street
  <2>2. Nobody \notin User
    BY TablesAssumption
  <2>. QED BY <1>1, <2>1, <2>2 DEF Staked, Seating, Playing
<1>5. \A q \in Room \ {r} : room'[q] = room[q] \/ Kept(room[q], room'[q])
  <2>1. \A q \in closing : Kept(room[q], Closed(room[q]))
    BY ClosedKept DEF IInv, RoomsOK
  <2>. QED BY <1>2, <2>1
<1>6. room'[r] = active
  BY <1>2
<1>7. \A q \in Room : room'[q] \in RowType /\ Seating(room'[q]) /\ Playing(room'[q])
  BY <1>1, <1>4, <1>5, <1>6 DEF Kept, IInv, RoomsOK
<1>8. room' \in [Room -> RowType] /\ staked' \subseteq Room \X User
  BY <1>2, <1>3, <1>7 DEF IInv, RoomsOK
<1>9. \A q \in Room \ {r} : Payers(q)' = IF Staked(room'[q]) THEN Members(room'[q]) ELSE {}
  <2>1. TAKE q \in Room \ {r}
  <2>2. Payers(q)' = Payers(q)
    BY <1>2 DEF Payers
  <2>3. /\ Staked(room'[q]) <=> Staked(room[q])
        /\ Staked(room[q]) => room'[q].seats = room[q].seats
    BY <1>5 DEF Kept
  <2>4. Staked(room[q]) => Members(room'[q]) = Members(room[q])
    BY <2>3 DEF Members
  <2>. QED BY <2>2, <2>3, <2>4 DEF IInv, RoomsOK
<1>10. Payers(r)' = Members(row)
  <2>1. Payers(r) = {}
    BY DEF IInv, RoomsOK
  <2>. QED BY <1>2, <1>3, <2>1 DEF Payers
<1>11. RoomsOK'
  BY <1>3, <1>4, <1>6, <1>7, <1>8, <1>9, <1>10 DEF RoomsOK
<1>12. balance' \in [User -> Nat]
  <2>1. \A u \in User : balance[u] \in Nat /\ BuyIn \in Nat
    BY HeadsUpAssumption DEF IInv, TypeOK
  <2>2. \A u \in Members(row) : balance[u] - BuyIn \in Nat
    BY <1>3, <2>1
  <2>. QED BY <1>2, <2>1, <2>2
<1>. QED BY <1>11, <1>12

-----------------------------------------------------------------------------
(***************************************************************************)
(* Steps.                                                                  *)
(***************************************************************************)

\* The other variables of TypeOK.
RestOK ==
    /\ action \in [ActionId -> [room : Room \cup {NoRoom}, user : User \cup {Nobody}]]
    /\ bag \in [User -> SUBSET Hero]
    /\ due \subseteq Room
    /\ held \subseteq Room

LEMMA Parts == IInv <=> RoomsOK /\ balance \in [User -> Nat] /\ RestOK
BY DEF IInv, TypeOK, RoomsOK, RestOK

LEMMA NewRow ==
    ASSUME NEW u \in User, NEW mode \in {"bot", "pvp"}
    PROVE  /\ NewRoom(u, mode) \in RowType /\ NewRoom(u, mode).mode = mode
           /\ NewRoom(u, mode).seats[0] = u /\ NewRoom(u, mode).seats[1] = Nobody
           /\ NewRoom(u, mode).hand = NoHand
<1> DEFINE n == Cardinality({r \in Room : room[r] # NoRow})
           seats == [i \in Side |-> IF i = 0 THEN u ELSE Nobody]
<1>1. n \in Nat
  <2>1. IsFiniteSet({r \in Room : room[r] # NoRow})
    BY TablesAssumption, FS_Subset
  <2>. QED BY <2>1, FS_CardinalityType
<1>2. seats \in [Side -> User \cup {Nobody}] /\ seats[0] = u /\ seats[1] = Nobody
  BY DEF Side
<1>3. NewRoom(u, mode) = [NoRow EXCEPT !.mode = mode, !.born = n + 1, !.seats = seats]
  BY DEF NewRoom
<1>4. NoRow \in RowType /\ NoRow.hand = NoHand
  BY DEF NoRow, RowType, Side
<1> DEFINE k == n + 1
<1>5. k \in Nat
  BY <1>1
<1>6. NewRoom(u, mode) = [NoRow EXCEPT !.mode = mode, !.born = k, !.seats = seats]
  BY <1>3
<1> HIDE DEF k, n, seats
<1>. QED BY <1>2, <1>4, <1>5, <1>6 DEF RowType

LEMMA NoRowIsFree == ~Staked(NoRow) /\ Seating(NoRow) /\ Playing(NoRow) /\ NoRow \in RowType
<1>1. /\ NoRow.status = "absent" /\ NoRow.hand = NoHand /\ NoRow.mode = "pvp"
      /\ NoRow \in RowType
  BY DEF NoRow, RowType, Side
<1>. QED BY <1>1 DEF Staked, Seating, Playing

\* create, against the bot.
LEMMA PlayBotKeeps ==
    ASSUME IInv, NEW u \in User, NEW r \in Room, NEW id \in ActionId, PlayBot(u, r, id)
    PROVE  RoomsOK' /\ balance' \in [User -> Nat]
<1> DEFINE row == NewRoom(u, "bot")
<1>1. /\ row \in RowType /\ row.mode = "bot" /\ row.seats[0] = u /\ row.seats[1] = Nobody
  BY NewRow
<1>2. Started(r, row, {}) /\ ~Staked(room[r]) /\ balance[u] >= BuyIn
  BY NoRowIsFree DEF PlayBot
<1>3. \A v \in Members(row) : balance[v] >= BuyIn
  BY <1>1, <1>2, MembersOf
<1> HIDE DEF row
<1>. QED BY <1>1, <1>2, <1>3, StartedKeeps

\* create, with the first waiting owner who can pay.
LEMMA MatchKeeps ==
    ASSUME IInv, NEW u \in User, NEW r \in Room, NEW id \in ActionId, Match(u, r, id)
    PROVE  RoomsOK' /\ balance' \in [User -> Nat]
<1> DEFINE row == [room[r] EXCEPT !.seats = [@ EXCEPT ![1] = u]]
<1>1. /\ room[r] \in RowType /\ Seating(room[r]) /\ room[r].mode = "pvp"
      /\ room[r].status = "waiting" /\ InTime(r)
  BY DEF IInv, RoomsOK, Match, Candidates
<1>2. /\ row \in RowType /\ row.mode = "pvp"
      /\ row.seats[0] = room[r].seats[0] /\ row.seats[1] = u
  BY <1>1 DEF RowType, Side
<1>3. room[r].seats[0] \in User
  <2>1. room[r].seats[0] \in User \cup {Nobody}
    BY <1>1 DEF RowType, Side
  <2>. QED BY <1>1, <2>1 DEF Seating
<1>4. u # room[r].seats[0]
  <2>1. room[r].seats[0] \in Members(room[r])
    BY <1>1, <1>3, MembersOf, TablesAssumption
  <2>. QED BY <1>1, <2>1 DEF Match, Searching
<1>5. \A v \in Members(row) : balance[v] >= BuyIn
  BY <1>2, MembersOf DEF Match, Solvent
<1>6. Before(r) \in SUBSET Room /\ \A q \in Before(r) : room[q].status = "waiting"
  BY DEF Before, Candidates
<1>7. Started(r, row, Before(r))
  BY DEF Match
<1>8. ~Staked(room[r])
  BY <1>1 DEF Staked
<1> HIDE DEF row
<1>. QED BY <1>2, <1>3, <1>4, <1>5, <1>6, <1>7, <1>8, StartedKeeps

\* create, when no waiting owner can pay.
LEMMA SearchKeeps ==
    ASSUME IInv, NEW u \in User, NEW r \in Room, NEW id \in ActionId, Search(u, r, id)
    PROVE  RoomsOK'
<1> DEFINE mid == [NewRoom(u, "pvp") EXCEPT !.status = "waiting", !.deadline = SearchTime]
<1>1. /\ mid \in RowType /\ mid.mode = "pvp" /\ mid.seats[0] = u /\ mid.seats[1] = Nobody
      /\ mid.hand = NoHand /\ mid.status = "waiting"
  <2>1. SearchTime \in Nat
    BY TablesAssumption
  <2> DEFINE new == NewRoom(u, "pvp")
  <2>2. /\ new \in RowType /\ new.mode = "pvp" /\ new.seats[0] = u /\ new.seats[1] = Nobody
        /\ new.hand = NoHand
    BY NewRow
  <2> HIDE DEF new
  <2>. QED BY <2>1, <2>2 DEF RowType, new
<1> DEFINE new == Recorded(mid)
<1>2. room' = [q \in Room |-> IF q = r THEN new
                              ELSE IF q \in Candidates THEN Closed(room[q]) ELSE room[q]]
  BY DEF Search
<1> HIDE DEF mid
<1>3. Kept(room[r], new)
  <2>1. /\ new \in RowType /\ new.mode = "pvp" /\ new.seats[0] = u /\ new.seats[1] = Nobody
        /\ new.hand = NoHand /\ new.status = "waiting"
    BY <1>1, RecordedRow
  <2>2. ~Staked(room[r])
    BY NoRowIsFree DEF Search
  <2>. QED BY <2>1, <2>2, TablesAssumption DEF Kept, Staked, Seating, Playing
<1>4. \A q \in Candidates : Kept(room[q], Closed(room[q]))
  BY ClosedKept DEF Candidates, IInv, RoomsOK
<1> HIDE DEF new
<1>5. RoomsOK /\ staked' = staked
  BY DEF IInv, Search
<1>. QED BY <1>2, <1>3, <1>4, <1>5, KeptRows

\* apply: a search that is called off.
LEMMA CancelKeeps ==
    ASSUME IInv, NEW u \in User, NEW r \in Room, NEW id \in ActionId, Cancel(u, r, id)
    PROVE  RoomsOK'
<1>1. /\ RoomsOK /\ staked' = staked /\ room[r].status = "waiting"
      /\ room' = [room EXCEPT ![r] = Closed(room[r])]
  BY DEF IInv, Cancel, Cancellable
<1>2. Kept(room[r], Closed(room[r]))
  BY <1>1, ClosedKept DEF RoomsOK
<1>3. room \in [Room -> RowType]
  BY <1>1 DEF RoomsOK
<1>. QED BY <1>1, <1>2, <1>3, KeptRows

\* A move that is made for the seat to move, by its player or by the timer.
LEMMA MoveKeeps ==
    ASSUME IInv, NEW r \in Room, room[r].status = "active", staked' = staked,
           \E m \in Moves(room[r].hand) : \E h \in Answered(room[r], After(room[r].hand, m)) :
              Updated(r, room[r], h)
    PROVE  RoomsOK' /\ balance' \in [User -> Nat]
<1>0. PICK m \in Moves(room[r].hand) :
         \E h \in Answered(room[r], After(room[r].hand, m)) : Updated(r, room[r], h)
  OBVIOUS
<1>1. PICK h \in Answered(room[r], After(room[r].hand, m)) : Updated(r, room[r], h)
  BY <1>0
<1>2. room[r] \in RowType /\ Playing(room[r])
  BY DEF IInv, RoomsOK
<1>3. Sound(h) /\ (~Over(h) /\ room[r].mode = "bot" => h.current = 0)
  BY <1>2, AnswersAreSound
<1>. QED BY <1>1, <1>3, UpdatedKeeps

\* Time passes.
LEMMA TickKeeps ==
    ASSUME IInv, Tick
    PROVE  RoomsOK'
<1>1. RoomsOK /\ staked' = staked /\ room \in [Room -> RowType]
  BY DEF IInv, RoomsOK, Tick
<1>2. room' = [r \in Room |-> IF room[r].deadline > 0
                              THEN [room[r] EXCEPT !.deadline = room[r].deadline - 1] ELSE room[r]]
  BY DEF Tick
<1>3. ASSUME NEW r \in Room, room[r].deadline > 0
      PROVE  Kept(room[r], [room[r] EXCEPT !.deadline = room[r].deadline - 1])
  <2> DEFINE row == room[r]  d == room[r].deadline - 1
  <2>1. row \in RowType /\ Seating(row) /\ Playing(row)
    BY <1>1 DEF RoomsOK
  <2>2. d \in Nat
    BY <1>3, <2>1 DEF RowType, NoDeadline
  <2> HIDE DEF d
  <2> DEFINE new == [row EXCEPT !.deadline = d]
  <2>3. new \in RowType /\ new.status = row.status /\ new.mode = row.mode
        /\ new.seats = row.seats /\ new.hand = row.hand
    BY <2>1, <2>2 DEF RowType
  <2>4. Kept(row, new)
    <3> HIDE DEF new, row
    <3>. QED BY <2>1, <2>3 DEF Kept, Staked, Seating, Playing
  <2>. QED BY <2>4 DEF d
<1>. QED BY <1>1, <1>2, <1>3, KeptRows

\* A request leaves everything in order, the records of its id included.
LEMMA RequestKeeps ==
    ASSUME IInv, NEW u \in User, NEW r \in Room, NEW id \in ActionId, Request(u, r, id)
    PROVE  IInv'
<1>1. RoomsOK' /\ balance' \in [User -> Nat]
  <2>1. CASE PlayBot(u, r, id)
    BY <2>1, PlayBotKeeps
  <2>2. CASE Match(u, r, id)
    BY <2>2, MatchKeeps
  <2>3. CASE Search(u, r, id)
    BY <2>3, SearchKeeps DEF Search, IInv, TypeOK
  <2>4. CASE Cancel(u, r, id)
    BY <2>4, CancelKeeps DEF Cancel, IInv, TypeOK
  <2>5. CASE PlayMove(u, r, id)
    BY <2>5, MoveKeeps DEF PlayMove
  <2>. QED BY <2>1, <2>2, <2>3, <2>4, <2>5 DEF Request
<1>2. action' \in [ActionId -> [room : Room \cup {NoRoom}, user : User \cup {Nobody}]]
  <2>1. Stored(id, r, u)
    BY DEF Request, PlayBot, Match, Search, Cancel, PlayMove
  <2>. QED BY <2>1 DEF Stored, IInv, TypeOK
<1>3. bag' \in [User -> SUBSET Hero]
  <2>1. CASE PlayBot(u, r, id)
    BY <2>1 DEF PlayBot, IInv, TypeOK
  <2>2. CASE ~PlayBot(u, r, id)
    BY <2>2 DEF Request, Match, Search, Cancel, PlayMove, IInv, TypeOK
  <2>. QED BY <2>1, <2>2
<1>4. due' \subseteq Room /\ held' \subseteq Room
  BY DEF Request, IInv, TypeOK
<1>. QED BY <1>1, <1>2, <1>3, <1>4 DEF IInv, TypeOK, RoomsOK

\* The timer's visit makes a move that is allowed, or ends a search.
LEMMA VisitKeeps ==
    ASSUME IInv, NEW r \in Room, Visit(r)
    PROVE  IInv'
<1> DEFINE row == room[r]
<1>1. RoomsOK' /\ balance' \in [User -> Nat]
  <2>1. CASE ~Due(row)
    <3>1. UNCHANGED <<balance, room, staked>>
      BY <2>1 DEF Visit
    <3>. QED BY <3>1 DEF IInv, TypeOK, RoomsOK, Payers
  <2>2. CASE Due(row) /\ row.status = "waiting"
    <3>1. /\ room' = [room EXCEPT ![r] = Closed(room[r])] /\ staked' = staked
          /\ balance' = balance
      BY <2>2 DEF Visit
    <3>2. Kept(room[r], Closed(room[r])) /\ RoomsOK /\ room \in [Room -> RowType]
      BY <2>2, ClosedKept DEF IInv, RoomsOK
    <3>. QED BY <3>1, <3>2, KeptRows DEF IInv, TypeOK
  <2>3. CASE Due(row) /\ row.status = "active"
    <3>1. /\ \E m \in TimerMoves(row.hand) :
                \E h \in Answered(row, After(row.hand, m)) : Updated(r, row, h)
          /\ staked' = staked
      BY <2>3 DEF Visit
    <3>2. TimerMoves(row.hand) \subseteq Moves(row.hand)
      BY DEF TimerMoves, Moves
    <3>. QED BY <2>3, <3>1, <3>2, MoveKeeps
  <2>4. Due(row) => row.status \in {"waiting", "active"}
    BY DEF Due
  <2>. QED BY <2>1, <2>2, <2>3, <2>4
<1>2. UNCHANGED <<action, bag, held>> /\ due' \subseteq Room
  BY DEF Visit, IInv, TypeOK
<1>. QED BY <1>1, <1>2 DEF IInv, TypeOK, RoomsOK

LEMMA InitIInv == Init => IInv
<1>1. ASSUME Init PROVE IInv
  <2>1. balance \in [User -> Nat] /\ staked = {} /\ due = {} /\ held = {}
        /\ room = [r \in Room |-> NoRow]
    BY <1>1, TablesAssumption DEF Init
  <2>2. action \in [ActionId -> [room : Room \cup {NoRoom}, user : User \cup {Nobody}]]
        /\ bag \in [User -> SUBSET Hero]
    BY <1>1 DEF Init, NoAction
  <2>. QED BY <2>1, <2>2, NoRowIsFree DEF IInv, TypeOK, RoomsOK, Payers
<1>. QED BY <1>1

LEMMA NextIInv == IInv /\ [Next]_vars => IInv'
<1>. SUFFICES ASSUME IInv, [Next]_vars PROVE IInv'
  OBVIOUS
<1>1. ASSUME NEW u \in User, NEW r \in Room, NEW id \in ActionId, Request(u, r, id) PROVE IInv'
  BY <1>1, RequestKeeps
<1>2. ASSUME NEW r \in Room, Visit(r) PROVE IInv'
  BY <1>2, VisitKeeps
<1>3. CASE Scan \/ Restart \/ Release
  <2>1. UNCHANGED <<balance, room, staked, action, bag>>
    BY <1>3 DEF Scan, Restart, Release
  <2>2. due' \subseteq Room /\ held' \subseteq Room
    BY <1>3 DEF Scan, Restart, Release, IInv, TypeOK
  <2>. QED BY <2>1, <2>2 DEF IInv, TypeOK, RoomsOK, Payers
<1>4. ASSUME NEW u \in User, PlayElsewhere(u) PROVE IInv'
  <2>1. UNCHANGED <<room, staked, action, bag, due, held>>
    BY <1>4 DEF PlayElsewhere
  <2>2. balance' \in [User -> Nat]
    BY <1>4, TablesAssumption DEF PlayElsewhere, IInv, TypeOK
  <2>. QED BY <2>1, <2>2 DEF IInv, TypeOK, RoomsOK, Payers
<1>5. CASE Tick
  <2>1. UNCHANGED <<balance, staked, action, bag, due>>
    BY <1>5 DEF Tick
  <2>2. held' \subseteq Room
    BY <1>5 DEF Tick, IInv, TypeOK
  <2>3. RoomsOK'
    BY <1>5, TickKeeps
  <2>. QED BY <2>1, <2>2, <2>3 DEF IInv, TypeOK, RoomsOK
<1>6. CASE UNCHANGED vars
  BY <1>6 DEF vars, IInv, TypeOK, RoomsOK, Payers
<1>7. NewIds \subseteq ActionId /\ Rooms \subseteq Room
  BY DEF NewIds, Rooms, AnyOf
<1>. QED BY <1>1, <1>2, <1>3, <1>4, <1>5, <1>6, <1>7 DEF Next

\* What the invariant means for the promises of the service.
LEMMA IInvMeans == IInv => TypeOK /\ HandsAreSound /\ StakesMatchRoster
<1>. SUFFICES ASSUME IInv PROVE HandsAreSound /\ StakesMatchRoster
  BY DEF IInv
<1>1. ASSUME NEW r \in Room
      PROVE  /\ room[r] \in RowType /\ Seating(room[r]) /\ Playing(room[r])
             /\ Payers(r) = IF Staked(room[r]) THEN Members(room[r]) ELSE {}
  BY DEF IInv, RoomsOK
<1>2. HandsAreSound
  <2>1. SUFFICES ASSUME NEW r \in Room
                 PROVE  /\ room[r].hand # NoHand => Sound(room[r].hand)
                        /\ room[r].status = "active" =>
                              ~Over(room[r].hand) /\ room[r].seats[room[r].hand.current] # Nobody
    BY DEF HandsAreSound, IInv
  <2>2. room[r].hand # NoHand => Sound(room[r].hand)
    BY <1>1 DEF Playing
  <2>3. ASSUME room[r].status = "active"
        PROVE  ~Over(room[r].hand) /\ room[r].seats[room[r].hand.current] # Nobody
    <3>1. /\ room[r].hand.current \in Side /\ ~Over(room[r].hand)
          /\ room[r].mode = "bot" => room[r].hand.current = 0
      BY <1>1, <2>3 DEF Playing, Sound, HandType
    <3>2. /\ room[r].seats[0] # Nobody /\ room[r].mode \in {"bot", "pvp"}
          /\ room[r].mode = "pvp" => room[r].seats[1] # Nobody
      BY <1>1, <2>3 DEF Seating, Staked, RowType
    <3>. QED BY <3>1, <3>2 DEF Side
  <2>. QED BY <2>2, <2>3
<1>3. StakesMatchRoster
  <2>1. SUFFICES ASSUME NEW r \in Room
                 PROVE  /\ {u \in User : <<r, u>> \in staked} =
                              IF room[r].status \in {"active", "settled"} THEN Members(room[r]) ELSE {}
                        /\ room[r].status \in {"active", "settled"} =>
                              Cardinality(Members(room[r])) = IF room[r].mode = "pvp" THEN 2 ELSE 1
    BY DEF StakesMatchRoster
  <2>2. {u \in User : <<r, u>> \in staked} =
            IF room[r].status \in {"active", "settled"} THEN Members(room[r]) ELSE {}
    BY <1>1 DEF Payers, Staked
  <2>3. ASSUME room[r].status \in {"active", "settled"}
        PROVE  Cardinality(Members(room[r])) = IF room[r].mode = "pvp" THEN 2 ELSE 1
    <3>1. /\ room[r].mode \in {"bot", "pvp"} /\ room[r].seats[0] # Nobody
          /\ room[r].mode = "pvp" => room[r].seats[1] \notin {Nobody, room[r].seats[0]}
          /\ room[r].mode = "bot" => room[r].seats[1] = Nobody
      BY <1>1, <2>3 DEF Seating, Staked, RowType
    <3>2. Members(room[r]) = {room[r].seats[0], room[r].seats[1]} \ {Nobody}
      BY <1>1, MembersOf
    <3>3. CASE room[r].mode = "bot"
      <4>1. Members(room[r]) = {room[r].seats[0]}
        BY <3>1, <3>2, <3>3
      <4>. QED BY <3>3, <4>1, FS_Singleton
    <3>4. CASE room[r].mode = "pvp"
      <4>1. /\ Members(room[r]) = {room[r].seats[0], room[r].seats[1]}
            /\ room[r].seats[0] # room[r].seats[1]
        BY <3>1, <3>2, <3>4
      <4>2. Cardinality({room[r].seats[0], room[r].seats[1]}) = 2
        BY <4>1, PairSize, Zenon
      <4>. QED BY <3>4, <4>1, <4>2
    <3>. QED BY <3>1, <3>3, <3>4
  <2>. QED BY <2>2, <2>3
<1>. QED BY <1>2, <1>3

THEOREM AlwaysIInv == Spec => []IInv
BY InitIInv, NextIInv, PTL DEF Spec

\* No wallet is overdrawn by a buy-in, and rows and hands keep their types.
THEOREM TypeCorrect == Spec => []TypeOK
BY AlwaysIInv, IInvMeans, PTL

\* Whatever is played, every hand can go on or be paid out, and never waits for the bot.
THEOREM HandsStaySound == Spec => []HandsAreSound
BY AlwaysIInv, IInvMeans, PTL

\* Exactly the players of a hand have paid for it, and they are two, or one and the bot.
THEOREM StakesStayMatched == Spec => []StakesMatchRoster
BY AlwaysIInv, IInvMeans, PTL

-----------------------------------------------------------------------------
(***************************************************************************)
(* Chips.                                                                  *)
(***************************************************************************)
Tables == [r \in Room |-> OnTable(room[r])]

MoneyInv == elsewhere \in Int /\ MoneyIsConserved

LEMMA TableSum ==
    ASSUME NEW rows
    PROVE  LET f == [r \in Room |-> OnTable(rows[r])] IN
           /\ Total(f) = Sum(f, Room) /\ Sum(f, Room) \in Int
           /\ \A r \in Room : f[r] \in Int
<1> DEFINE f == [r \in Room |-> OnTable(rows[r])]
<1>1. \A r \in Room : f[r] \in Int
  BY HeadsUpAssumption DEF OnTable
<1>2. DOMAIN f = Room
  OBVIOUS
<1> HIDE DEF f
<1>3. Total(f) = Sum(f, Room) /\ Sum(f, Room) \in Int
  BY <1>1, <1>2, SumInt, TablesAssumption DEF Total
<1>. QED BY <1>1, <1>3 DEF f

LEMMA WalletSum ==
    ASSUME NEW b \in [User -> Nat]
    PROVE  Total(b) = Sum(b, User) /\ Sum(b, User) \in Int
BY SumInt, TablesAssumption DEF Total

\* What the wallets, the house and the tables get is together nothing.
LEMMA MoneyMoves ==
    ASSUME IInv, MoneyInv, balance' \in [User -> Nat],
           NEW wallets \in Int, Sum(balance', User) = Sum(balance, User) + wallets,
           NEW others \in Int, elsewhere' = elsewhere + others,
           NEW tables \in Int, Sum(Tables', Room) = Sum(Tables, Room) + tables,
           wallets + others + tables = 0
    PROVE  MoneyInv'
<1>1. /\ Total(balance) = Sum(balance, User) /\ Sum(balance, User) \in Int
      /\ Total(balance') = Sum(balance', User)
  BY WalletSum DEF IInv, TypeOK
<1>2. /\ Total(Tables) = Sum(Tables, Room) /\ Sum(Tables, Room) \in Int
      /\ Total(Tables)' = Sum(Tables', Room)
  BY TableSum DEF Tables
<1>3. /\ MoneyIsConserved <=> Total(balance) + elsewhere + Total(Tables) = 0
      /\ MoneyIsConserved' <=> Total(balance') + elsewhere' + Total(Tables)' = 0
  BY DEF MoneyIsConserved, Tables
<1>. QED BY <1>1, <1>2, <1>3 DEF MoneyInv

\* An operation that only closes searches or stores what is not played leaves the tables' chips.
LEMMA TablesSame ==
    ASSUME \A q \in Room : room'[q].status = "active" <=> room[q].status = "active"
    PROVE  Sum(Tables', Room) = Sum(Tables, Room) + 0
<1>1. \A q \in Room : OnTable(room'[q]) = OnTable(room[q])
  BY DEF OnTable
<1>2. Tables' = Tables
  BY <1>1 DEF Tables
<1>3. Sum(Tables, Room) \in Int
  BY TableSum DEF Tables
<1>. QED BY <1>2, <1>3

\* One table gets chips or pays them out.
LEMMA OneTableChanges ==
    ASSUME NEW r \in Room,
           \A q \in Room \ {r} : room'[q].status = "active" <=> room[q].status = "active"
    PROVE  Sum(Tables', Room) = Sum(Tables, Room) + (OnTable(room'[r]) - OnTable(room[r]))
<1>1. \A q \in Room \ {r} : Tables'[q] = Tables[q]
  BY DEF OnTable, Tables
<1>2. (\A q \in Room : Tables[q] \in Int) /\ Sum(Tables, Room) \in Int
  BY TableSum DEF Tables
<1>3. \A q \in Room : Tables'[q] \in Int
  BY TableSum DEF Tables
<1>4. Sum(Tables', Room) = Sum(Tables, Room) - Tables[r] + Tables'[r]
  BY <1>1, <1>2, <1>3, SumChange, TablesAssumption
<1>5. Tables[r] = OnTable(room[r]) /\ Tables'[r] = OnTable(room'[r])
  BY DEF Tables
<1>6. Tables[r] \in Int /\ Tables'[r] \in Int
  BY <1>2, <1>3
<1> HIDE DEF Tables
<1>. QED BY <1>2, <1>4, <1>5, <1>6

\* update: what the two seats are paid goes to a player's wallet or to the house.
LEMMA UpdatedMoney ==
    ASSUME IInv, MoneyInv, NEW r \in Room, room[r].status = "active", NEW h, Sound(h),
           Updated(r, room[r], h), balance' \in [User -> Nat]
    PROVE  MoneyInv'
<1> DEFINE row == room[r]
<1>1. /\ row \in RowType /\ row.seats[0] \in User \cup {Nobody} /\ row.seats[1] \in User \cup {Nobody}
      /\ room \in [Room -> RowType] /\ h \in HandType
  BY DEF IInv, RoomsOK, RowType, Side, Sound
<1>2. CASE ~Over(h)
  <2>1. /\ room' = [room EXCEPT ![r] = With(row, "active", TurnDeadline(row), h)]
        /\ balance' = balance /\ elsewhere' = elsewhere
    BY <1>2 DEF Updated
  <2>2. With(row, "active", TurnDeadline(row), h).status = "active"
    BY <1>1, WithFields, DeadlineType
  <2>3. \A q \in Room : room'[q].status = "active" <=> room[q].status = "active"
    BY <1>1, <2>1, <2>2
  <2>4. Sum(balance', User) = Sum(balance, User) + 0 /\ elsewhere' = elsewhere + 0
    BY <2>1, WalletSum DEF MoneyInv, IInv, TypeOK
  <2>. QED BY <2>3, <2>4, TablesSame, MoneyMoves
<1>3. CASE Over(h)
  <2>1. PICK w \in Winners(h) :
           /\ balance' = [u \in User |-> balance[u] + Won(row, Payout(h, w), u)]
           /\ elsewhere' = elsewhere + Won(row, Payout(h, w), Nobody)
           /\ room' = [room EXCEPT ![r] = With(row, "settled", NoDeadline, h)]
    BY <1>3 DEF Updated
  <2> DEFINE a == Payout(h, w)[0]  b == Payout(h, w)[1]
             to(i) == [u \in User |-> IF u = row.seats[i] THEN Payout(h, w)[i] ELSE 0]
             left(i) == IF row.seats[i] = Nobody THEN Payout(h, w)[i] ELSE 0
             both == [u \in User |-> to(0)[u] + to(1)[u]]
  <2>2. a \in Nat /\ b \in Nat /\ a + b = 2 * BuyIn
    BY PayoutsAddUp DEF Side
  <2>3. \A u \in User : to(0)[u] \in Int /\ to(1)[u] \in Int /\ both[u] = to(0)[u] + to(1)[u]
    BY <2>2
  <2>4. \A u \in User : Won(row, Payout(h, w), u) = both[u]
    BY <2>2 DEF Won
  <2>5. /\ Sum(to(0), User) = IF row.seats[0] \in User THEN a ELSE 0
        /\ Sum(to(1), User) = IF row.seats[1] \in User THEN b ELSE 0
    <3>1. a \in Int /\ b \in Int /\ IsFiniteSet(User)
      BY <2>2, TablesAssumption
    <3> DEFINE f == to(0)  g == to(1)  s == row.seats[0]  z == row.seats[1]
    <3>2. \A u \in User : f[u] = IF u = s THEN a ELSE 0
      OBVIOUS
    <3>3. \A u \in User : g[u] = IF u = z THEN b ELSE 0
      OBVIOUS
    <3> HIDE DEF a, b, f, g, s, z
    <3>4. Sum(f, User) = IF s \in User THEN a ELSE 0
      BY ONLY <3>1, <3>2, SumSingle
    <3>5. Sum(g, User) = IF z \in User THEN b ELSE 0
      BY ONLY <3>1, <3>3, SumSingle
    <3>. QED BY <3>4, <3>5 DEF a, b, f, g, s, z
  <2>6. Won(row, Payout(h, w), Nobody) = left(0) + left(1)
    BY DEF Won
  <2>7. Sum(to(0), User) + left(0) = a /\ Sum(to(1), User) + left(1) = b
    BY <1>1, <2>2, <2>5, TablesAssumption
  <2>8. left(0) \in Int /\ left(1) \in Int
    BY <2>2
  <2>9. \A u \in User : balance[u] \in Int /\ balance'[u] = balance[u] + both[u]
    BY <2>1, <2>4 DEF IInv, TypeOK
  <2>10. OnTable(row) = 2 * BuyIn /\ OnTable(room'[r]) = 0
    <3>1. With(row, "settled", NoDeadline, h).status = "settled"
      <4>1. "settled" \in {"absent", "waiting", "active", "settled", "closed"}
        OBVIOUS
      <4> HIDE DEF row
      <4>. QED BY <1>1, <4>1, WithFields
    <3>. QED BY <1>1, <2>1, <3>1 DEF OnTable
  <2>11. \A q \in Room \ {r} : room'[q].status = "active" <=> room[q].status = "active"
    BY <1>1, <2>1
  <2> DEFINE all == Sum(to(0), User) + Sum(to(1), User)
  <2> HIDE DEF a, b, to, left, both
  <2>12. Sum(both, User) = all /\ all \in Int
    BY <2>3, SumPlus, SumInt, TablesAssumption
  <2>13. Sum(balance', User) = Sum(balance, User) + all
    BY <2>3, <2>9, <2>12, SumPlus, TablesAssumption
  <2>14. Sum(Tables', Room) = Sum(Tables, Room) + (OnTable(room'[r]) - OnTable(row))
    BY <2>11, OneTableChanges
  <2>15. Sum(Tables', Room) = Sum(Tables, Room) + (-(2 * BuyIn)) /\ -(2 * BuyIn) \in Int
    BY <2>10, <2>14, HeadsUpAssumption
  <2>16. all + (left(0) + left(1)) + (-(2 * BuyIn)) = 0
    <3>1. Sum(to(0), User) \in Int /\ Sum(to(1), User) \in Int
      BY <2>3, SumInt, TablesAssumption
    <3>. QED BY <2>2, <2>7, <2>8, <3>1
  <2>17. elsewhere' = elsewhere + (left(0) + left(1)) /\ left(0) + left(1) \in Int
    BY <2>1, <2>6, <2>8
  <2> HIDE DEF all
  <2>. QED BY <2>12, <2>13, <2>15, <2>16, <2>17, MoneyMoves
<1>. QED BY <1>2, <1>3

\* start: the members' buy-ins, and the house's for the bot, are what lies on the table.
LEMMA StartedMoney ==
    ASSUME IInv, MoneyInv, NEW r \in Room, room[r].status # "active", NEW row \in RowType,
           row.seats[0] \in User,
           row.mode = "pvp" => row.seats[1] \in User \ {row.seats[0]},
           row.mode = "bot" => row.seats[1] = Nobody,
           NEW closing \in SUBSET Room, \A q \in closing : room[q].status = "waiting",
           Started(r, row, closing), balance' \in [User -> Nat]
    PROVE  MoneyInv'
<1> DEFINE active == With(row, "active", TurnDeadline(row), Dealt)
           n == Cardinality(Members(row))
<1>1. /\ room' = [q \in Room |-> IF q = r THEN active
                                 ELSE IF q \in closing THEN Closed(room[q]) ELSE room[q]]
      /\ balance' = [u \in User |-> IF u \in Members(row) THEN balance[u] - BuyIn ELSE balance[u]]
      /\ elsewhere' = elsewhere + (IF row.mode = "bot" THEN -BuyIn ELSE 0)
  BY HeadsUpAssumption DEF Started, MoneyInv
<1>2. active.status = "active"
  BY WithFields, DeadlineType, DealtIsSound DEF Sound
<1>3. \A q \in Room : room[q] \in RowType
  BY DEF IInv, RoomsOK
<1>4. \A q \in closing : Closed(room[q]).status = "closed"
  BY <1>3 DEF Closed, RowType, Recorded
<1> HIDE DEF active
<1>5. \A q \in Room \ {r} : room'[q].status = "active" <=> room[q].status = "active"
  BY <1>1, <1>4
<1>6. room'[r].status = "active"
  BY <1>1, <1>2
<1>7. OnTable(room[r]) = 0 /\ OnTable(room'[r]) = 2 * BuyIn
  BY <1>6 DEF OnTable
<1>8. Sum(Tables', Room) = Sum(Tables, Room) + 2 * BuyIn
  BY <1>5, <1>7, OneTableChanges, HeadsUpAssumption
<1>9. n = IF row.mode = "bot" THEN 1 ELSE 2
  <2>1. Members(row) = {row.seats[0], row.seats[1]} \ {Nobody} /\ row.mode \in {"bot", "pvp"}
    BY MembersOf DEF RowType
  <2>2. CASE row.mode = "bot"
    <3>1. Members(row) = {row.seats[0]}
      BY <2>1, <2>2, TablesAssumption
    <3>. QED BY <2>2, <3>1, FS_Singleton
  <2>3. CASE row.mode = "pvp"
    <3>1. Members(row) = {row.seats[0], row.seats[1]} /\ row.seats[0] # row.seats[1]
      BY <2>1, <2>3, TablesAssumption
    <3>2. Cardinality({row.seats[0], row.seats[1]}) = 2
      BY <3>1, PairSize, Zenon
    <3>. QED BY <2>3, <3>1, <3>2
  <2>. QED BY <2>1, <2>2, <2>3
<1>10. Sum(balance', User) = Sum(balance, User) - BuyIn * n
  <2>1. Members(row) \in SUBSET User
    BY MembersOf
  <2>2. \A u \in User : balance[u] \in Int
    BY DEF IInv, TypeOK
  <2>3. balance' = Charged(balance, User, Members(row), BuyIn)
    BY <1>1 DEF Charged
  <2>4. BuyIn \in Int /\ IsFiniteSet(User)
    BY TablesAssumption, HeadsUpAssumption
  <2>. QED BY <2>1, <2>2, <2>3, <2>4, SumCharged
<1> HIDE DEF n
<1> DEFINE paid == IF row.mode = "bot" THEN -BuyIn ELSE -(2 * BuyIn)
           house == IF row.mode = "bot" THEN -BuyIn ELSE 0
<1>11. Sum(balance, User) \in Int /\ BuyIn \in Int
  BY WalletSum, HeadsUpAssumption DEF IInv, TypeOK
<1>12. /\ Sum(balance', User) = Sum(balance, User) + paid /\ paid \in Int
       /\ elsewhere' = elsewhere + house /\ house \in Int
       /\ paid + house + 2 * BuyIn = 0 /\ 2 * BuyIn \in Int
  BY <1>1, <1>9, <1>10, <1>11
<1> HIDE DEF paid, house
<1>. QED BY <1>8, <1>12, MoneyMoves

LEMMA InitMoney == Init => MoneyInv
<1>. SUFFICES ASSUME Init PROVE MoneyInv
  OBVIOUS
<1>1. balance \in [User -> Nat] /\ \A r \in Room : room[r].status # "active"
  BY TablesAssumption DEF Init, NoRow
<1>2. Total(balance) = Sum(balance, User) /\ Sum(balance, User) \in Int
  BY <1>1, WalletSum
<1>3. Total(Tables) = Sum(Tables, Room) /\ \A r \in Room : Tables[r] = 0
  BY <1>1, TableSum DEF Tables, OnTable
<1>4. Sum(Tables, Room) = 0 * Cardinality(Room)
  BY <1>3, SumConstant, TablesAssumption
<1>5. Cardinality(Room) \in Nat
  BY FS_CardinalityType, TablesAssumption
<1>6. elsewhere = -Total(balance)
  BY DEF Init
<1>7. Total(balance) + elsewhere + Total(Tables) = 0 /\ elsewhere \in Int
  BY <1>2, <1>3, <1>4, <1>5, <1>6
<1>. QED BY <1>7 DEF MoneyInv, MoneyIsConserved, Tables

\* A move that is made for the seat to move, by its player or by the timer.
LEMMA MoveMoney ==
    ASSUME IInv, MoneyInv, NEW r \in Room, room[r].status = "active", balance' \in [User -> Nat],
           \E m \in Moves(room[r].hand) : \E h \in Answered(room[r], After(room[r].hand, m)) :
              Updated(r, room[r], h)
    PROVE  MoneyInv'
<1>0. PICK m \in Moves(room[r].hand) :
         \E h \in Answered(room[r], After(room[r].hand, m)) : Updated(r, room[r], h)
  OBVIOUS
<1>1. PICK h \in Answered(room[r], After(room[r].hand, m)) : Updated(r, room[r], h)
  BY <1>0
<1>2. room[r] \in RowType /\ Playing(room[r])
  BY DEF IInv, RoomsOK
<1>3. Sound(h)
  BY <1>2, AnswersAreSound
<1>. QED BY <1>1, <1>3, UpdatedMoney

\* A step that moves no chips and starts or ends no hand.
LEMMA NoMoneyMoves ==
    ASSUME IInv, MoneyInv, UNCHANGED <<balance, elsewhere>>,
           \A q \in Room : room'[q].status = "active" <=> room[q].status = "active"
    PROVE  MoneyInv'
<1>1. balance' \in [User -> Nat] /\ elsewhere' = elsewhere + 0
  BY DEF IInv, TypeOK, MoneyInv
<1>2. Sum(balance', User) = Sum(balance, User) + 0
  BY WalletSum DEF IInv, TypeOK
<1>. QED BY <1>1, <1>2, TablesSame, MoneyMoves

LEMMA RequestMoney ==
    ASSUME IInv, MoneyInv, NEW u \in User, NEW r \in Room, NEW id \in ActionId, Request(u, r, id)
    PROVE  MoneyInv'
<1>1. balance' \in [User -> Nat]
  BY RequestKeeps DEF IInv, TypeOK
<1>2. CASE PlayBot(u, r, id)
  <2> DEFINE row == NewRoom(u, "bot")
  <2>1. /\ row \in RowType /\ row.mode = "bot" /\ row.seats[0] = u /\ row.seats[1] = Nobody
    BY NewRow
  <2>2. Started(r, row, {}) /\ room[r].status # "active"
    BY <1>2 DEF PlayBot, NoRow
  <2> HIDE DEF row
  <2>. QED BY <1>1, <2>1, <2>2, StartedMoney
<1>3. CASE Match(u, r, id)
  <2> DEFINE row == [room[r] EXCEPT !.seats = [@ EXCEPT ![1] = u]]
  <2>1. /\ room[r] \in RowType /\ Seating(room[r]) /\ room[r].mode = "pvp"
        /\ room[r].status = "waiting" /\ InTime(r)
    BY <1>3 DEF IInv, RoomsOK, Match, Candidates
  <2>2. /\ row \in RowType /\ row.mode = "pvp"
        /\ row.seats[0] = room[r].seats[0] /\ row.seats[1] = u
    BY <2>1 DEF RowType, Side
  <2>3. room[r].seats[0] \in User
    <3>1. room[r].seats[0] \in User \cup {Nobody}
      BY <2>1 DEF RowType, Side
    <3>. QED BY <2>1, <3>1 DEF Seating
  <2>4. u # room[r].seats[0]
    <3>1. room[r].seats[0] \in Members(room[r])
      BY <2>1, <2>3, MembersOf, TablesAssumption
    <3>. QED BY <1>3, <2>1, <3>1 DEF Match, Searching
  <2>5. Before(r) \in SUBSET Room /\ \A q \in Before(r) : room[q].status = "waiting"
    BY DEF Before, Candidates
  <2>6. Started(r, row, Before(r))
    BY <1>3 DEF Match
  <2> HIDE DEF row
  <2>. QED BY <1>1, <2>1, <2>2, <2>3, <2>4, <2>5, <2>6, StartedMoney
<1>4. CASE Search(u, r, id)
  <2> DEFINE mid == [NewRoom(u, "pvp") EXCEPT !.status = "waiting", !.deadline = SearchTime]
  <2>1. room' = [q \in Room |-> IF q = r THEN Recorded(mid)
                                ELSE IF q \in Candidates THEN Closed(room[q]) ELSE room[q]]
    BY <1>4 DEF Search
  <2>2. Recorded(mid).status = "waiting"
    BY DEF Recorded, NewRoom, NoRow
  <2>3. \A q \in Candidates : room[q].status = "waiting" /\ Closed(room[q]).status = "closed"
    BY DEF Candidates, IInv, RoomsOK, RowType, Closed, Recorded
  <2>4. room[r].status = "absent"
    BY <1>4 DEF Search, NoRow
  <2> HIDE DEF mid
  <2>5. \A q \in Room : room'[q].status = "active" <=> room[q].status = "active"
    BY <2>1, <2>2, <2>3, <2>4
  <2>. QED BY <1>4, <2>5, NoMoneyMoves DEF Search
<1>5. CASE Cancel(u, r, id)
  <2>1. /\ room[r].status = "waiting" /\ room \in [Room -> RowType]
        /\ room' = [room EXCEPT ![r] = Closed(room[r])]
    BY <1>5 DEF IInv, RoomsOK, Cancel, Cancellable
  <2>2. Closed(room[r]).status = "closed"
    BY <2>1 DEF RowType, Closed, Recorded
  <2>3. \A q \in Room : room'[q].status = "active" <=> room[q].status = "active"
    BY <2>1, <2>2
  <2>. QED BY <1>5, <2>3, NoMoneyMoves DEF Cancel
<1>6. CASE PlayMove(u, r, id)
  BY <1>1, <1>6, MoveMoney DEF PlayMove
<1>. QED BY <1>2, <1>3, <1>4, <1>5, <1>6 DEF Request

LEMMA VisitMoney ==
    ASSUME IInv, MoneyInv, NEW r \in Room, Visit(r)
    PROVE  MoneyInv'
<1> DEFINE row == room[r]
<1>1. CASE ~Due(row)
  BY <1>1, NoMoneyMoves DEF Visit, Due
<1>2. CASE Due(row) /\ row.status = "waiting"
  <2>1. /\ room' = [room EXCEPT ![r] = Closed(room[r])] /\ UNCHANGED <<balance, elsewhere>>
        /\ room \in [Room -> RowType]
    BY <1>2 DEF Visit, IInv, RoomsOK
  <2>2. Closed(room[r]).status = "closed"
    BY <2>1 DEF RowType, Closed, Recorded
  <2>3. \A q \in Room : room'[q].status = "active" <=> room[q].status = "active"
    BY <1>2, <2>1, <2>2
  <2>. QED BY <2>1, <2>3, NoMoneyMoves
<1>3. CASE Due(row) /\ row.status = "active"
  <2>1. \E m \in Moves(row.hand) : \E h \in Answered(row, After(row.hand, m)) : Updated(r, row, h)
    BY <1>3 DEF Visit, TimerMoves, Moves
  <2>2. balance' \in [User -> Nat]
    BY VisitKeeps DEF IInv, TypeOK
  <2>. QED BY <1>3, <2>1, <2>2, MoveMoney
<1>4. Due(row) => row.status \in {"waiting", "active"}
  BY DEF Due
<1>. QED BY <1>1, <1>2, <1>3, <1>4

\* The chips a player wins elsewhere are lost there.
LEMMA ElsewhereMoney ==
    ASSUME IInv, MoneyInv, NEW u \in User, PlayElsewhere(u)
    PROVE  MoneyInv'
<1>1. PICK b \in Balances : /\ balance' = [balance EXCEPT ![u] = b]
                            /\ elsewhere' = elsewhere + balance[u] - b
                            /\ room' = room
  BY DEF PlayElsewhere
<1>2. balance \in [User -> Nat] /\ b \in Nat
  BY TablesAssumption DEF IInv, TypeOK
<1>3. Sum(balance', User) = Sum(balance, User) - balance[u] + b
  <2>1. \A x \in User : balance[x] \in Int /\ balance'[x] \in Int
    BY <1>1, <1>2
  <2>2. balance'[u] = b /\ \A x \in User \ {u} : balance'[x] = balance[x]
    BY <1>1, <1>2
  <2>. QED BY <2>1, <2>2, SumChange, TablesAssumption
<1>4. Sum(balance, User) \in Int /\ balance[u] \in Int /\ b \in Int /\ elsewhere \in Int
  BY <1>2, WalletSum DEF MoneyInv
<1> DEFINE d == b - balance[u]
<1> DEFINE e == balance[u] - b
<1>5. /\ Sum(balance', User) = Sum(balance, User) + d /\ elsewhere' = elsewhere + e
      /\ d \in Int /\ e \in Int /\ d + e + 0 = 0
  BY <1>1, <1>3, <1>4
<1> HIDE DEF d, e
<1>6. Sum(Tables', Room) = Sum(Tables, Room) + 0
  BY <1>1, TablesSame
<1>7. balance' \in [User -> Nat]
  BY <1>1, <1>2
<1>. QED BY <1>5, <1>6, <1>7, MoneyMoves

LEMMA TickMoney ==
    ASSUME IInv, MoneyInv, Tick
    PROVE  MoneyInv'
<1>1. /\ room' = [r \in Room |-> IF room[r].deadline > 0
                                 THEN [room[r] EXCEPT !.deadline = room[r].deadline - 1] ELSE room[r]]
      /\ UNCHANGED <<balance, elsewhere>>
  BY DEF Tick
<1>2. \A q \in Room : room[q] \in RowType
  BY DEF IInv, RoomsOK
<1>3. \A q \in Room : room'[q].status = room[q].status
  BY <1>1, <1>2 DEF RowType
<1>. QED BY <1>1, <1>3, NoMoneyMoves

LEMMA NextMoney == IInv /\ MoneyInv /\ [Next]_vars => MoneyInv'
<1>. SUFFICES ASSUME IInv, MoneyInv, [Next]_vars PROVE MoneyInv'
  OBVIOUS
<1>1. CASE Scan \/ Restart \/ Release \/ UNCHANGED vars
  BY <1>1, NoMoneyMoves DEF Scan, Restart, Release, vars
<1>2. NewIds \subseteq ActionId /\ Rooms \subseteq Room
  BY DEF NewIds, Rooms, AnyOf
<1>. QED BY <1>1, <1>2, RequestMoney, VisitMoney, ElsewhereMoney, TickMoney DEF Next

(***************************************************************************)
(* Whatever is played, by whomever, and however often searches and hands   *)
(* are cut off: what the wallets, the tables and the house have is         *)
(* together always the same.                                               *)
(***************************************************************************)
THEOREM MoneyStaysConserved == Spec => []MoneyIsConserved
<1>1. MoneyInv => MoneyIsConserved
  BY DEF MoneyInv
<1>. QED BY <1>1, AlwaysIInv, InitMoney, NextMoney, PTL DEF Spec
-----------------------------------------------------------------------------
(***************************************************************************)
(* Hands come to an end.                                                   *)
(***************************************************************************)

\* The moves that one request or one visit of the timer makes, the bot's answer included.
LEMMA AnswersAreNearer ==
    ASSUME NEW row \in RowType, Playing(row), row.status = "active", NEW m \in Moves(row.hand),
           NEW h \in Answered(row, After(row.hand, m))
    PROVE  Left(h) < Left(row.hand)
<1> DEFINE mine == After(row.hand, m)
<1>1. Sound(row.hand) /\ ~Over(row.hand) /\ Sound(mine)
  BY MovesKeepHandsSound DEF Playing
<1>2. Left(mine) \in Nat /\ Left(mine) < Left(row.hand)
  BY <1>1, MovesBringTheEnd
<1>3. Left(row.hand) \in Nat
  BY <1>1, LeftIs DEF Sound
<1>4. CASE row.mode = "bot" /\ mine.current = 1 /\ ~Over(mine)
  <2>1. PICK a \in BotMoves(mine) : h = After(mine, a)
    BY <1>4 DEF Answered
  <2>2. a \in Moves(mine)
    BY <2>1 DEF BotMoves
  <2>3. Left(h) \in Nat /\ Left(h) < Left(mine)
    BY <1>1, <1>4, <2>1, <2>2, MovesBringTheEnd
  <2> HIDE DEF mine
  <2>. QED BY <1>2, <1>3, <2>3
<1>5. CASE ~(row.mode = "bot" /\ mine.current = 1 /\ ~Over(mine))
  <2>1. h = mine
    BY <1>5 DEF Answered
  <2>. QED BY <1>2, <2>1
<1>. QED BY <1>4, <1>5

\* What HandsComeNearer asks of one room.
Nearer(r) ==
    /\ room'[r].status \in {"active", "settled"}
    /\ room'[r].hand = room[r].hand \/ Left(room'[r].hand) < Left(room[r].hand)

LEMMA MoveIsNearer ==
    ASSUME IInv, NEW r \in Room, room[r].status = "active",
           \E m \in Moves(room[r].hand) : \E h \in Answered(room[r], After(room[r].hand, m)) :
              Updated(r, room[r], h),
           NEW q \in Room, room[q].status = "active"
    PROVE  Nearer(q)
<1>0. PICK m \in Moves(room[r].hand) :
         \E h \in Answered(room[r], After(room[r].hand, m)) : Updated(r, room[r], h)
  OBVIOUS
<1>1. PICK h \in Answered(room[r], After(room[r].hand, m)) : Updated(r, room[r], h)
  BY <1>0
<1>2. room[r] \in RowType /\ Playing(room[r]) /\ room \in [Room -> RowType]
  BY DEF IInv, RoomsOK
<1>3. h \in HandType /\ Left(h) < Left(room[r].hand)
  BY <1>2, AnswersAreSound, AnswersAreNearer DEF Sound
<1>4. PICK s \in {"active", "settled"}, d \in Nat \cup {NoDeadline} :
         room' = [room EXCEPT ![r] = With(room[r], s, d, h)]
  BY <1>1, DeadlineType DEF Updated
<1> DEFINE new == With(room[r], s, d, h)
<1>5. new.status = s /\ new.hand = h
  BY <1>2, <1>3, WithFields
<1> HIDE DEF new
<1>6. room' = [room EXCEPT ![r] = new]
  BY <1>4 DEF new
<1>7. CASE q = r
  BY <1>2, <1>3, <1>5, <1>6, <1>7 DEF Nearer
<1>8. CASE q # r
  BY <1>2, <1>6, <1>8 DEF Nearer
<1>. QED BY <1>7, <1>8

\* A new hand, a new search and a search that is called off touch no hand that is played.
LEMMA OtherRequestsAreNearer ==
    ASSUME IInv, NEW u \in User, NEW r \in Room, NEW id \in ActionId,
           PlayBot(u, r, id) \/ Match(u, r, id) \/ Search(u, r, id) \/ Cancel(u, r, id),
           NEW q \in Room, room[q].status = "active"
    PROVE  Nearer(q)
<1>1. SUFFICES room'[q] = room[q]
  BY DEF Nearer
<1>2. room[q] # NoRow /\ q \notin Candidates /\ q \notin Before(r)
  BY DEF NoRow, Candidates, Before
<1>3. CASE PlayBot(u, r, id)
  BY <1>2, <1>3 DEF PlayBot, Started
<1>4. CASE Match(u, r, id)
  BY <1>2, <1>4 DEF Match, Started
<1>5. CASE Search(u, r, id)
  BY <1>2, <1>5 DEF Search
<1>6. CASE Cancel(u, r, id)
  <2>1. q # r /\ room' = [room EXCEPT ![r] = Closed(room[r])] /\ room \in [Room -> RowType]
    BY <1>6 DEF Cancel, Cancellable, IInv, RoomsOK
  <2>. QED BY <2>1
<1>. QED BY <1>3, <1>4, <1>5, <1>6

LEMMA TickIsNearer ==
    ASSUME IInv, Tick, NEW q \in Room, room[q].status = "active"
    PROVE  Nearer(q)
<1>1. room[q] \in RowType
  BY DEF IInv, RoomsOK
<1>2. room'[q] = room[q] \/ room'[q] = [room[q] EXCEPT !.deadline = room[q].deadline - 1]
  BY DEF Tick
<1>3. room'[q].status = room[q].status /\ room'[q].hand = room[q].hand
  BY <1>1, <1>2 DEF RowType
<1>. QED BY <1>3 DEF Nearer

\* No hand is dealt anew, dropped or drawn out: each step that touches one, whoever made it
\* and whatever the bot answers, leaves fewer moves, of which only so many can be made.
THEOREM HandsAlwaysComeNearer == Spec => HandsComeNearer
<1>1. IInv /\ [Next]_vars =>
         [\A r \in Room : room[r].status = "active" =>
             /\ room'[r].status \in {"active", "settled"}
             /\ room'[r].hand = room[r].hand \/ Left(room'[r].hand) < Left(room[r].hand)]_vars
  <2> SUFFICES ASSUME IInv, [Next]_vars, NEW q \in Room, room[q].status = "active",
                      ~UNCHANGED vars
               PROVE  Nearer(q)
    BY DEF Nearer
  <2>1. ASSUME NEW u \in User, NEW r \in Room, NEW id \in ActionId, Request(u, r, id)
        PROVE  Nearer(q)
    <3>1. CASE PlayMove(u, r, id)
      BY <3>1, MoveIsNearer DEF PlayMove
    <3>. QED BY <2>1, <3>1, OtherRequestsAreNearer DEF Request
  <2>2. ASSUME NEW r \in Room, Visit(r) PROVE Nearer(q)
    <3>1. CASE room' = room
      BY <3>1 DEF Nearer
    <3>2. CASE /\ room[r].status = "waiting"
               /\ room' = [room EXCEPT ![r] = Closed(room[r])]
      <4>1. q # r /\ room \in [Room -> RowType]
        BY <3>2 DEF IInv, RoomsOK
      <4>. QED BY <3>2, <4>1 DEF Nearer
    <3>3. CASE /\ room[r].status = "active"
               /\ \E m \in TimerMoves(room[r].hand) :
                     \E h \in Answered(room[r], After(room[r].hand, m)) : Updated(r, room[r], h)
      <4>1. TimerMoves(room[r].hand) \subseteq Moves(room[r].hand)
        BY DEF TimerMoves, Moves
      <4>. QED BY <3>3, <4>1, MoveIsNearer
    <3>. QED BY <2>2, <3>1, <3>2, <3>3 DEF Visit
  <2>3. CASE Scan \/ Restart \/ Release \/ \E u \in User : PlayElsewhere(u)
    BY <2>3 DEF Scan, Restart, Release, PlayElsewhere, Nearer
  <2>4. CASE Tick
    BY <2>4, TickIsNearer
  <2>5. NewIds \subseteq ActionId /\ Rooms \subseteq Room
    BY DEF NewIds, Rooms, AnyOf
  <2>. QED BY <2>1, <2>2, <2>3, <2>4, <2>5 DEF Next
<1>. QED BY <1>1, AlwaysIInv, PTL DEF Spec, HandsComeNearer
=============================================================================
