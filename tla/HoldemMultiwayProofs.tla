------------------------ MODULE HoldemMultiwayProofs ------------------------
(***************************************************************************)
(* Proofs about a hand of Hold'em, for any button, any two to six seats,   *)
(* any blinds and any stacks of at least two big blinds.                   *)
(***************************************************************************)
EXTENDS HoldemMultiway, SumsProofs, FiniteSetTheorems, TLAPS

\* The hand is one of those that a table deals.
DealtHere == [button |-> button, stacks |-> initial] \in Tables

-----------------------------------------------------------------------------
(***************************************************************************)
(* Seats, and going round them.                                            *)
(***************************************************************************)
LEMMA FiniteSeats == \A S \in SUBSET (0..5) : IsFiniteSet(S)
<1>1. 0 \in Int /\ 5 \in Int
  OBVIOUS
<1>2. IsFiniteSet(0..5)
  BY <1>1, FS_Interval
<1> QED
  BY <1>2, FS_Subset

LEMMA SeatFacts ==
    ASSUME DealtHere
    PROVE  /\ Seats \in SUBSET (0..5) /\ IsFiniteSet(Seats) /\ Cardinality(Seats) >= 2
           /\ button \in Seats /\ NoSeat \notin Seats
           /\ \A i \in Seats : initial[i] \in Nat /\ initial[i] >= 2 * BigBlind
<1> DEFINE t == [button |-> button, stacks |-> initial]
<1>1. /\ DOMAIN t.stacks \subseteq 0..5 /\ Cardinality(DOMAIN t.stacks) >= 2
      /\ t.button \in DOMAIN t.stacks
      /\ \A i \in DOMAIN t.stacks : t.stacks[i] \in Nat /\ t.stacks[i] >= 2 * BigBlind
  BY TableAssumption DEF DealtHere
<1>2. t.button = button /\ t.stacks = initial
  OBVIOUS
<1>3. IsFiniteSet(Seats)
  BY <1>1, <1>2, FiniteSeats DEF Seats
<1> QED
  BY <1>1, <1>2, <1>3 DEF Seats, NoSeat

\* A set with at most one member has no two.
LEMMA Few ==
    ASSUME NEW S, IsFiniteSet(S)
    PROVE  /\ Cardinality(S) \in Nat
           /\ Cardinality(S) = 0 <=> S = {}
           /\ Cardinality(S) = 1 <=> S # {} /\ \A x, y \in S : x = y
           /\ Cardinality(S) <= 1 <=> \A x, y \in S : x = y
<1>1. Cardinality(S) \in Nat /\ (Cardinality(S) = 0 <=> S = {})
  BY FS_CardinalityType, FS_EmptySet
<1>2. Cardinality(S) = 1 <=> \E x : S = {x}
  BY FS_Singleton
<1>3. (\E x : S = {x}) <=> S # {} /\ \A x, y \in S : x = y
  OBVIOUS
<1> QED
  BY <1>1, <1>2, <1>3

LEMMA DistanceIs ==
    ASSUME NEW a \in 0..5, NEW i \in 0..5
    PROVE  Distance(a, i) = IF i > a THEN i - a - 1 ELSE i - a + 5
BY DEF Distance

\* Seats lie at different distances, and a seat is the last one behind itself.
LEMMA DistanceFacts ==
    ASSUME NEW a \in 0..5
    PROVE  /\ \A i \in 0..5 : Distance(a, i) \in 0..5
           /\ \A i, j \in 0..5 : Distance(a, i) = Distance(a, j) => i = j
           /\ \A i \in 0..5 : Distance(a, a) <= Distance(a, i) => i = a
           /\ \A i, j \in 0..5 :
                 Distance(a, i) < Distance(a, j) =>
                     Distance(i, j) = Distance(a, j) - Distance(a, i) - 1
BY DistanceIs

LEMMA FirstFacts ==
    ASSUME NEW S \in SUBSET (0..5), S # {}, NEW a \in 0..5
    PROVE  First(S, a) \in S /\ \A j \in S : Distance(a, First(S, a)) <= Distance(a, j)
<1> DEFINE d == [i \in S |-> Distance(a, i)]
           away == {d[i] : i \in S}
<1>1. IsFiniteSet(S)
  BY FiniteSeats
<1>2. IsFiniteSet(away) /\ away # {}
  BY <1>1, FiniteImage
<1>3. \A i \in S : d[i] = Distance(a, i) /\ d[i] \in Int
  BY DistanceFacts
<1>4. away \in SUBSET Int
  BY <1>3
<1>5. Min(away) \in away /\ \A n \in away : Min(away) <= n
  BY <1>2, <1>4, MinOfFinite
<1>6. PICK i \in S : \A j \in S : d[i] <= d[j]
  BY <1>5
<1>7. \E j \in S : \A k \in S : Distance(a, j) <= Distance(a, k)
  BY <1>3, <1>6
<1> QED
  BY <1>7 DEF First

-----------------------------------------------------------------------------
(***************************************************************************)
(* The inductive invariant.                                                *)
(***************************************************************************)
HandType ==
    [stack : [Seats -> Nat], committed : [Seats -> Nat], street : [Seats -> Nat],
     folded : SUBSET Seats, actedTo : [Seats -> Nat \cup {NotActed}], onFullBet : SUBSET Seats,
     current : Seats \cup {NoSeat}, phase : Phases, bet : Nat, fullRaise : Nat \ {0},
     pending : SUBSET Seats, board : {0, 3, 4, 5}]

BoardOf == [pre_flop |-> 0, flop |-> 3, turn |-> 4, river |-> 5]

\* What a seat had put in before this street.
Base(h, i) == h.committed[i] - h.street[i]

ChipsOK(h) ==
    \A i \in Seats : /\ h.stack[i] + h.committed[i] = initial[i]
                     /\ h.street[i] <= h.committed[i] /\ h.street[i] <= h.bet

\* Whoever can bet, or has bet on this street, had paid everything up to then.
BasesOK(h) ==
    \A i, j \in Seats : (i \in Actors(h) \/ h.street[i] > 0) => Base(h, j) <= Base(h, i)

\* Whoever can bet and need not move has moved, and has matched the bet.
SaidOK(h) ==
    \A i \in Actors(h) \ h.pending : h.street[i] = h.bet /\ h.actedTo[i] # NotActed

\* Somebody in the hand has matched the bet and need not move ...
MatchedBySome(h) == \E w \in Alive(h) \ h.pending : h.street[w] = h.bet

\* ... or nobody has moved but to fold, and the big blind moves last.
Bb == BigBlindSeat(button)
OnlyBlinds(h) ==
    /\ h.phase = "pre_flop" /\ h.bet = BigBlind /\ h.street[Bb] = h.bet
    /\ Bb \in Alive(h) /\ Alive(h) \subseteq h.pending /\ Alive(h) \subseteq Actors(h)
    /\ \A j \in Seats : h.street[j] = h.committed[j]

\* A hand that waits for its current seat.
Playing(h) ==
    /\ h.phase \in DOMAIN BoardOf /\ h.board = BoardOf[h.phase]
    /\ h.current \in Actors(h) \cap h.pending
    /\ Alive(h) \ {h.current} # {}
    /\ h.street[h.current] < h.bet \/ Actors(h) \ {h.current} # {}
    /\ BasesOK(h) /\ SaidOK(h)
    /\ \/ h.bet = 0
       \/ MatchedBySome(h)
       \/ OnlyBlinds(h) /\ \A j \in Alive(h) : Distance(Bb, h.current) <= Distance(Bb, j)

\* Nobody has put in more than somebody who is still in the hand.
Led(h) == \E w \in Alive(h) : \A j \in Seats : h.committed[j] <= h.committed[w]

HandOK(h) ==
    /\ h \in HandType /\ ChipsOK(h)
    /\ IF Over(h) THEN Led(h) /\ (Cardinality(Alive(h)) > 1 => h.board = 5) ELSE Playing(h)

\* A hand in the middle of apply_multiway_action: seat i has moved.
MovedOK(h, i) ==
    /\ h \in HandType /\ ChipsOK(h) /\ BasesOK(h) /\ SaidOK(h)
    /\ h.phase \in DOMAIN BoardOf /\ h.board = BoardOf[h.phase]
    /\ Alive(h) # {} /\ i \notin h.pending
    /\ \/ h.bet = 0 /\ Actors(h) # {}
       \/ h.bet > 0 /\ MatchedBySome(h)
       \/ OnlyBlinds(h) /\ \A j \in Alive(h) : Distance(Bb, i) < Distance(Bb, j)

-----------------------------------------------------------------------------
(***************************************************************************)
(* Moves.                                                                  *)
(***************************************************************************)
LEMMA ActorFacts ==
    ASSUME NEW h \in HandType
    PROVE  /\ Actors(h) \subseteq Alive(h) /\ Alive(h) \subseteq Seats
           /\ \A i \in Seats : i \in Alive(h) <=> i \notin h.folded
           /\ \A i \in Seats : i \in Actors(h) <=> i \notin h.folded /\ h.stack[i] > 0
BY DEF Actors, Alive

LEMMA LeastOfTwo ==
    ASSUME NEW a \in Int, NEW b \in Int
    PROVE  Min({a, b}) = IF a <= b THEN a ELSE b
<1>1. \E x \in {a, b} : \A y \in {a, b} : x <= y
  OBVIOUS
<1>2. Min({a, b}) \in {a, b} /\ \A x \in {a, b} : Min({a, b}) <= x
  BY <1>1 DEF Min
<1> QED
  BY <1>2

LEMMA MostOfTwo ==
    ASSUME NEW a \in Int, NEW b \in Int
    PROVE  Max({a, b}) = IF a >= b THEN a ELSE b
<1>1. \E x \in {a, b} : \A y \in {a, b} : x >= y
  OBVIOUS
<1>2. Max({a, b}) \in {a, b} /\ \A x \in {a, b} : x <= Max({a, b})
  BY <1>1 DEF Max
<1> QED
  BY <1>2

\* A fold, a check or call, perhaps for less, or a raise against somebody.
Folds(h, m) == m.fold /\ m.bet = h.bet /\ m.cost = 0
Calls(h, i, m) ==
    /\ ~m.fold /\ m.bet = h.bet
    /\ h.street[i] + m.cost <= h.bet
    /\ h.street[i] + m.cost = h.bet \/ m.cost = h.stack[i]
Raises(h, i, m) ==
    /\ ~m.fold /\ m.bet > h.bet /\ h.street[i] + m.cost = m.bet /\ Actors(h) \ {i} # {}

LEMMA MoveFacts ==
    ASSUME NEW h \in HandType, ChipsOK(h), NEW i \in Seats, NEW m \in Moves(h, i)
    PROVE  /\ i \in Actors(h) /\ h.current = i
           /\ m.bet \in Nat /\ m.bet >= h.bet /\ m.fold \in BOOLEAN
           /\ m.cost \in Nat /\ m.cost <= h.stack[i]
           /\ Folds(h, m) \/ Calls(h, i, m) \/ Raises(h, i, m)
<1>1. h.current = i /\ i \in Actors(h)
  BY ActorFacts DEF Moves, HandType
<1>2. /\ h.stack[i] \in Nat /\ h.street[i] \in Nat /\ h.bet \in Nat /\ h.street[i] <= h.bet
      /\ h.fullRaise \in Nat
  BY DEF HandType, ChipsOK
<1>3. /\ CallCost(h, i) \in Nat /\ CallCost(h, i) <= h.stack[i] /\ CallCost(h, i) <= Debt(h, i)
      /\ CallCost(h, i) = h.stack[i] \/ CallCost(h, i) = Debt(h, i)
  <2>1. Debt(h, i) \in Nat
    BY <1>2 DEF Debt
  <2> QED
    BY <1>2, <2>1, LeastOfTwo DEF CallCost
<1>4. CASE m = [fold |-> TRUE, bet |-> h.bet, cost |-> 0]
  BY <1>1, <1>2, <1>4 DEF Folds
<1>5. CASE m = [fold |-> FALSE, bet |-> h.bet, cost |-> CallCost(h, i)]
  BY <1>1, <1>2, <1>3, <1>5 DEF Calls, Debt
<1>6. CASE MayRaise(h, i) /\ \E n \in RaiseTargets(h, i) :
              m = [fold |-> FALSE, bet |-> n, cost |-> n - h.street[i]]
  <2>1. PICK n \in RaiseTargets(h, i) : m = [fold |-> FALSE, bet |-> n, cost |-> n - h.street[i]]
    BY <1>6
  <2>2. n \in Nat /\ n > h.bet /\ n <= h.street[i] + h.stack[i]
    BY <1>2 DEF RaiseTargets, MaximumRaise
  <2>3. Actors(h) \ {i} # {}
    BY <1>6 DEF MayRaise
  <2> QED
    BY <1>1, <1>2, <2>1, <2>2, <2>3 DEF Raises
<1> QED
  BY <1>4, <1>5, <1>6 DEF Moves

LEMMA BlindSeats ==
    ASSUME DealtHere
    PROVE  /\ Bb \in Seats /\ SmallBlindSeat(button) \in Seats /\ Bb # SmallBlindSeat(button)
           /\ Bb \in 0..5
<1>1. /\ Seats \in SUBSET (0..5) /\ IsFiniteSet(Seats) /\ Cardinality(Seats) >= 2
      /\ button \in Seats /\ button \in 0..5
  BY SeatFacts
<1>2. \E i, j \in Seats : i # j
  <2>1. Cardinality(Seats) \in Nat /\ (Cardinality(Seats) <= 1 <=> \A x, y \in Seats : x = y)
    BY <1>1, Few
  <2>2. ~(Cardinality(Seats) <= 1)
    BY <1>1, <2>1
  <2> QED
    BY <2>1, <2>2
<1>3. First(Seats, button) \in Seats /\ First(Seats, button) # button
  <2>1. /\ First(Seats, button) \in Seats
        /\ \A j \in Seats : Distance(button, First(Seats, button)) <= Distance(button, j)
    BY <1>1, FirstFacts
  <2>2. First(Seats, button) = button => \A j \in Seats : j = button
    BY <1>1, <2>1, DistanceFacts
  <2> QED
    BY <1>2, <2>1, <2>2
<1>4. CASE Cardinality(Seats) = 2
  BY <1>1, <1>3, <1>4 DEF Bb, BigBlindSeat, SmallBlindSeat
<1>5. CASE Cardinality(Seats) # 2
  <2> DEFINE sb == First(Seats, button)
             others == Seats \ {sb}
  <2> HIDE DEF sb
  <2>1. others \in SUBSET (0..5) /\ others # {}
    <3>1. PICK x, y \in Seats : x # y
      BY <1>2
    <3>2. x \in others \/ y \in others
      BY <3>1
    <3> QED
      BY <1>1, <3>2
  <2>2. First(others, button) \in others
    BY <1>1, <2>1, FirstFacts
  <2> QED
    BY <1>1, <1>3, <1>5, <2>2 DEF Bb, BigBlindSeat, SmallBlindSeat, sb
<1> QED
  BY <1>4, <1>5

\* A move leaves the chips where they belong, the other seats as they were, and somebody
\* to match the bet.
LEMMA MovedKeeps ==
    ASSUME DealtHere, NEW h \in HandType, ChipsOK(h), Playing(h),
           NEW i \in Seats, NEW m \in Moves(h, i)
    PROVE  MovedOK(Moved(h, i, m), i)
<1> DEFINE g == Moved(h, i, m)
<1>1. /\ i \in Actors(h) /\ h.current = i /\ i \in Seats /\ i \in 0..5
      /\ m.bet \in Nat /\ m.bet >= h.bet /\ m.fold \in BOOLEAN
      /\ m.cost \in Nat /\ m.cost <= h.stack[i]
      /\ Folds(h, m) \/ Calls(h, i, m) \/ Raises(h, i, m)
  BY MoveFacts, SeatFacts
<1>2. /\ h.stack \in [Seats -> Nat] /\ h.committed \in [Seats -> Nat] /\ h.street \in [Seats -> Nat]
      /\ h.folded \in SUBSET Seats /\ h.pending \in SUBSET Seats /\ h.bet \in Nat
      /\ h.fullRaise \in Nat \ {0} /\ BigBlind \in Nat \ {0}
      /\ h.actedTo \in [Seats -> Nat \cup {NotActed}] /\ h.onFullBet \in SUBSET Seats
  BY MultiwayRules DEF HandType
<1>3. g = Moved(h, i, m)
  OBVIOUS
<1> HIDE DEF g
<1>4.
      /\ g.stack = [h.stack EXCEPT ![i] = h.stack[i] - m.cost]
      /\ g.committed = [h.committed EXCEPT ![i] = h.committed[i] + m.cost]
      /\ g.street = [h.street EXCEPT ![i] = h.street[i] + m.cost]
      /\ g.folded = IF m.fold THEN h.folded \cup {i} ELSE h.folded
      /\ g.actedTo = [h.actedTo EXCEPT ![i] = m.bet]
      /\ g.onFullBet = IF m.bet >= BigBlind THEN h.onFullBet \cup {i} ELSE h.onFullBet \ {i}
      /\ g.bet = m.bet /\ g.phase = h.phase /\ g.board = h.board /\ g.current = h.current
      /\ g.fullRaise = IF m.bet > h.bet /\ m.bet >= MinimumRaise(h)
                       THEN Max({BigBlind, m.bet - h.bet}) ELSE h.fullRaise
      /\ g.pending = (h.pending \ {i})
            \cup IF m.bet > h.bet THEN {j \in Actors(g) \ {i} : g.street[j] < m.bet} ELSE {}
  BY <1>1, <1>3 DEF Moved, Remaining, Challenged, Actors, Alive, HandType
<1>5. g \in HandType
  <2>1. Max({BigBlind, m.bet - h.bet}) \in Nat \ {0}
    BY <1>1, <1>2, MostOfTwo
  <2>2. g \in [stack : {g.stack}, committed : {g.committed}, street : {g.street},
               folded : {g.folded}, actedTo : {g.actedTo}, onFullBet : {g.onFullBet},
               current : {g.current}, phase : {g.phase}, bet : {g.bet}, fullRaise : {g.fullRaise},
               pending : {g.pending}, board : {g.board}]
    BY <1>3 DEF Moved, HandType
  <2>3. /\ g.stack \in [Seats -> Nat] /\ g.committed \in [Seats -> Nat] /\ g.street \in [Seats -> Nat]
        /\ g.actedTo \in [Seats -> Nat \cup {NotActed}]
    BY <1>1, <1>2, <1>4
  <2>4. g.folded \in SUBSET Seats /\ g.onFullBet \in SUBSET Seats
    BY <1>1, <1>2, <1>4
  <2>5. g.pending \in SUBSET Seats
    BY <1>1, <1>2, <1>4 DEF Actors, Alive
  <2>6. /\ g.current \in Seats \cup {NoSeat} /\ g.phase \in Phases /\ g.board \in {0, 3, 4, 5}
        /\ g.bet \in Nat /\ g.fullRaise \in Nat \ {0}
    BY <1>1, <1>2, <1>4, <2>1 DEF HandType
  <2> QED
    BY <2>2, <2>3, <2>4, <2>5, <2>6 DEF HandType
<1>6. /\ g.stack[i] = h.stack[i] - m.cost /\ g.committed[i] = h.committed[i] + m.cost
      /\ g.street[i] = h.street[i] + m.cost /\ g.actedTo[i] = m.bet
      /\ \A j \in Seats \ {i} : /\ g.stack[j] = h.stack[j] /\ g.committed[j] = h.committed[j]
                                /\ g.street[j] = h.street[j] /\ g.actedTo[j] = h.actedTo[j]
      /\ g.bet = m.bet /\ g.phase = h.phase /\ g.board = h.board
      /\ g.folded = IF m.fold THEN h.folded \cup {i} ELSE h.folded
      /\ g.pending = (h.pending \ {i})
            \cup IF m.bet > h.bet THEN {j \in Actors(g) \ {i} : g.street[j] < m.bet} ELSE {}
  BY <1>1, <1>2, <1>4
<1>7. /\ \A j \in Seats \ {i} : /\ j \in Alive(g) <=> j \in Alive(h)
                                /\ j \in Actors(g) <=> j \in Actors(h)
      /\ i \in Alive(g) <=> ~m.fold
      /\ Actors(g) \subseteq Alive(g) /\ Alive(g) \subseteq Seats
      /\ Actors(h) \subseteq Alive(h) /\ Alive(h) \subseteq Seats
  BY <1>1, <1>5, <1>6, ActorFacts
<1>8. \A j \in Seats : /\ h.stack[j] \in Nat /\ h.committed[j] \in Nat /\ h.street[j] \in Nat
                       /\ h.street[j] <= h.bet /\ h.street[j] <= h.committed[j]
                       /\ h.stack[j] + h.committed[j] = initial[j] /\ initial[j] \in Nat
  BY <1>2, SeatFacts DEF ChipsOK
<1>9. ChipsOK(g)
  <2>1. g.street[i] <= m.bet
    BY <1>1, <1>2, <1>6, <1>8 DEF Folds, Calls, Raises
  <2> QED
    BY <1>1, <1>2, <1>6, <1>8, <2>1 DEF ChipsOK
<1>10. BasesOK(g)
  <2>1. \A j \in Seats : Base(g, j) = Base(h, j)
    BY <1>1, <1>6, <1>8 DEF Base
  <2>2. \A j \in Seats : (j \in Actors(g) \/ g.street[j] > 0) => (j \in Actors(h) \/ h.street[j] > 0)
    BY <1>1, <1>6, <1>7
  <2> QED
    BY <2>1, <2>2 DEF BasesOK, Playing
<1>11. SaidOK(g)
  <2> SUFFICES ASSUME NEW j \in Actors(g) \ g.pending
               PROVE  g.street[j] = g.bet /\ g.actedTo[j] # NotActed
    BY DEF SaidOK
  <2>1. j \in Seats
    BY <1>7
  <2>2. CASE j = i
    <3>1. ~m.fold /\ g.stack[i] > 0
      BY <1>5, <1>7, <2>2, ActorFacts
    <3>2. h.street[i] + m.cost = m.bet
      BY <1>1, <1>6, <1>8, <3>1 DEF Folds, Calls, Raises
    <3> QED
      BY <1>1, <1>6, <2>2, <3>2 DEF NotActed
  <2>3. CASE j # i
    <3>1. j \in Actors(h) \ h.pending /\ (m.bet > h.bet => h.street[j] >= m.bet)
      BY <1>1, <1>2, <1>6, <1>7, <1>8, <2>1, <2>3
    <3>2. h.street[j] = h.bet /\ h.actedTo[j] # NotActed
      BY <3>1 DEF SaidOK, Playing
    <3>3. m.bet = h.bet
      BY <1>1, <1>2, <3>1, <3>2
    <3>4. g.street[j] = h.street[j] /\ g.actedTo[j] = h.actedTo[j] /\ g.bet = h.bet
      BY <1>6, <2>1, <2>3, <3>3
    <3> QED
      BY <3>2, <3>4
  <2> QED
    BY <2>2, <2>3
<1>12. Alive(g) # {} /\ i \notin g.pending
  BY <1>1, <1>6, <1>7 DEF Playing
<1>13. \/ g.bet = 0 /\ Actors(g) # {}
       \/ g.bet > 0 /\ MatchedBySome(g)
       \/ OnlyBlinds(g) /\ \A j \in Alive(g) : Distance(Bb, i) < Distance(Bb, j)
  <2>1. CASE Raises(h, i, m)
    <3>1. i \in Alive(g) \ g.pending /\ g.street[i] = g.bet /\ g.bet > 0
      BY <1>1, <1>2, <1>6, <1>7, <1>12, <2>1 DEF Raises
    <3> QED
      BY <3>1 DEF MatchedBySome
  <2>2. CASE h.bet = 0 /\ ~Raises(h, i, m)
    <3>1. g.bet = 0
      BY <1>1, <1>6, <2>2 DEF Folds, Calls
    <3>2. h.street[i] = 0 /\ Actors(h) \ {i} # {}
      BY <1>1, <1>8, <2>2 DEF Playing
    <3> QED
      BY <1>7, <3>1, <3>2
  <2>3. CASE h.bet > 0 /\ MatchedBySome(h) /\ ~Raises(h, i, m)
    <3>1. PICK w \in Alive(h) \ h.pending : h.street[w] = h.bet
      BY <2>3 DEF MatchedBySome
    <3>2. w # i /\ w \in Seats
      BY <1>1, <1>7, <3>1 DEF Playing
    <3>3. g.bet = h.bet /\ w \in Alive(g) \ g.pending /\ g.street[w] = g.bet
      BY <1>1, <1>2, <1>6, <1>7, <2>3, <3>1, <3>2 DEF Folds, Calls
    <3> QED
      BY <2>3, <3>3 DEF MatchedBySome
  <2>4. CASE /\ h.bet > 0 /\ ~Raises(h, i, m) /\ OnlyBlinds(h)
             /\ \A j \in Alive(h) : Distance(Bb, h.current) <= Distance(Bb, j)
    <3>1. Bb \in 0..5 /\ Alive(h) \subseteq 0..5
      BY <1>7, BlindSeats, SeatFacts
    <3>2. i # Bb
      BY <1>1, <2>4, <3>1, DistanceFacts DEF Playing
    <3>3. CASE Folds(h, m)
      <4>1. \A j \in Alive(g) : j \in Alive(h) /\ j # i
        BY <1>7, <3>3 DEF Folds
      <4>2. OnlyBlinds(g)
        <5>1. \A j \in Seats : g.street[j] = g.committed[j]
          BY <1>1, <1>6, <1>8, <2>4 DEF OnlyBlinds
        <5> QED
          BY <1>1, <1>2, <1>6, <1>7, <2>4, <3>2, <3>3, <4>1, <5>1, BlindSeats DEF OnlyBlinds, Folds
      <4>3. \A j \in Alive(g) : Distance(Bb, i) < Distance(Bb, j)
        BY <1>1, <2>4, <3>1, <4>1, DistanceFacts
      <4> QED
        BY <4>2, <4>3
    <3>4. CASE Calls(h, i, m)
      <4>1. h.street[i] + m.cost = h.bet
        <5>1. initial[i] >= 2 * BigBlind /\ h.bet = BigBlind
          BY <2>4, SeatFacts DEF OnlyBlinds
        <5>2. h.street[i] = h.committed[i]
          BY <1>1, <2>4 DEF OnlyBlinds
        <5> QED
          BY <1>1, <1>2, <1>8, <3>4, <5>1, <5>2 DEF Calls
      <4>2. i \in Alive(g) \ g.pending /\ g.street[i] = g.bet
        BY <1>1, <1>6, <1>7, <1>12, <3>4, <4>1 DEF Calls
      <4> QED
        BY <1>1, <1>6, <2>4, <3>4, <4>2 DEF MatchedBySome, Calls
    <3> QED
      BY <1>1, <2>4, <3>3, <3>4
  <2> QED
    BY <1>1, <1>2, <2>1, <2>2, <2>3, <2>4 DEF Playing
<1> QED
  BY <1>5, <1>6, <1>9, <1>10, <1>11, <1>12, <1>13, <1>3 DEF MovedOK, Playing

-----------------------------------------------------------------------------
(***************************************************************************)
(* The progress of the hand after a move.                                  *)
(***************************************************************************)
LEMMA MovedIsLed ==
    ASSUME DealtHere, NEW g, NEW i \in Seats, MovedOK(g, i)
    PROVE  Led(g)
<1>1. /\ g \in HandType /\ ChipsOK(g) /\ BasesOK(g) /\ g.bet \in Nat
      /\ Actors(g) \subseteq Alive(g) /\ Alive(g) \subseteq Seats
  BY ActorFacts DEF MovedOK, HandType
<1>2. \A j \in Seats : /\ g.committed[j] \in Nat /\ g.street[j] \in Nat
                       /\ g.street[j] <= g.bet /\ Base(g, j) = g.committed[j] - g.street[j]
  BY <1>1 DEF HandType, ChipsOK, Base
<1>3. ASSUME NEW w \in Alive(g), g.street[w] = g.bet, w \in Actors(g) \/ g.bet > 0
      PROVE  Led(g)
  <2>1. w \in Seats /\ \A j \in Seats : Base(g, j) <= Base(g, w)
    BY <1>1, <1>2, <1>3 DEF BasesOK
  <2>2. \A j \in Seats : g.committed[j] <= g.committed[w]
    BY <1>1, <1>2, <1>3, <2>1
  <2> QED
    BY <1>3, <2>2 DEF Led
<1>4. CASE g.bet = 0 /\ Actors(g) # {}
  <2>1. PICK w \in Actors(g) : TRUE
    BY <1>4
  <2>2. g.street[w] = g.bet /\ w \in Alive(g)
    BY <1>1, <1>2, <1>4
  <2> QED
    BY <1>3, <2>2
<1>5. CASE g.bet > 0 /\ MatchedBySome(g)
  BY <1>3, <1>5 DEF MatchedBySome
<1>6. CASE OnlyBlinds(g)
  BY <1>3, <1>6, MultiwayRules DEF OnlyBlinds
<1> QED
  BY <1>4, <1>5, <1>6 DEF MovedOK

\* A hand that ends is led by somebody who is still in it.
LEMMA EndedKeeps ==
    ASSUME DealtHere, NEW g, NEW i \in Seats, MovedOK(g, i),
           NEW phase \in {"showdown", "settled"}, NEW board \in {0, 3, 4, 5},
           Cardinality(Alive(g)) = 1 \/ board = 5,
           NEW h, h = Ended(g, phase, board)
    PROVE  HandOK(h)
<1>1. /\ h.stack = g.stack /\ h.committed = g.committed /\ h.street = g.street
      /\ h.folded = g.folded /\ h.actedTo = g.actedTo /\ h.onFullBet = g.onFullBet
      /\ h.bet = g.bet /\ h.fullRaise = g.fullRaise
      /\ h.current = NoSeat /\ h.pending = {} /\ h.phase = phase /\ h.board = board
      /\ h \in HandType
  BY DEF Ended, MovedOK, HandType, Phases
<1>2. Alive(h) = Alive(g)
  BY <1>1 DEF Alive
<1>3. ChipsOK(h) /\ Led(h)
  BY <1>1, <1>2, MovedIsLed DEF MovedOK, ChipsOK, Led
<1>4. Cardinality(Alive(h)) > 1 => h.board = 5
  BY <1>1, <1>2
<1> QED
  BY <1>1, <1>3, <1>4 DEF HandOK, Over

\* The next of some seats is asked.
LEMMA AskedKeeps ==
    ASSUME DealtHere, NEW g, NEW i \in Seats, MovedOK(g, i),
           NEW S \in SUBSET Actors(g), S # {},
           \A j \in Actors(g) \ S : j \notin g.pending,
           \A j \in S : j \in g.pending \/ g.street[j] < g.bet,
           Alive(g) \ {First(S, i)} # {},
           g.street[First(S, i)] < g.bet \/ Actors(g) \ {First(S, i)} # {},
           NEW h, h = [g EXCEPT !.current = First(S, i), !.pending = S]
    PROVE  HandOK(h)
<1>1. /\ g \in HandType /\ ChipsOK(g) /\ BasesOK(g) /\ SaidOK(g) /\ g.bet \in Nat
      /\ g.phase \in DOMAIN BoardOf /\ g.board = BoardOf[g.phase]
      /\ Actors(g) \subseteq Alive(g) /\ Alive(g) \subseteq Seats
      /\ Seats \in SUBSET (0..5) /\ NoSeat \notin Seats
  BY ActorFacts, SeatFacts DEF MovedOK, HandType
<1>2. S \in SUBSET (0..5) /\ S \in SUBSET Seats /\ i \in 0..5
  BY <1>1
<1>3. First(S, i) \in S /\ \A j \in S : Distance(i, First(S, i)) <= Distance(i, j)
  BY <1>2, FirstFacts
<1>4. /\ h.stack = g.stack /\ h.committed = g.committed /\ h.street = g.street
      /\ h.folded = g.folded /\ h.actedTo = g.actedTo /\ h.onFullBet = g.onFullBet
      /\ h.bet = g.bet /\ h.fullRaise = g.fullRaise /\ h.phase = g.phase /\ h.board = g.board
      /\ h.current = First(S, i) /\ h.pending = S
      /\ h \in HandType
  BY <1>1, <1>2, <1>3 DEF HandType
<1>5. Alive(h) = Alive(g) /\ Actors(h) = Actors(g)
  BY <1>4 DEF Alive, Actors
<1>6. ChipsOK(h) /\ BasesOK(h)
  BY <1>1, <1>4, <1>5 DEF ChipsOK, BasesOK, Base
<1>7. SaidOK(h)
  BY <1>1, <1>4, <1>5 DEF SaidOK
<1>8. \/ h.bet = 0
      \/ MatchedBySome(h)
      \/ OnlyBlinds(h) /\ \A j \in Alive(h) : Distance(Bb, h.current) <= Distance(Bb, j)
  <2>1. CASE MatchedBySome(g)
    <3>1. PICK w \in Alive(g) \ g.pending : g.street[w] = g.bet
      BY <2>1 DEF MatchedBySome
    <3>2. w \notin S
      BY <1>1, <3>1
    <3> QED
      BY <1>4, <1>5, <3>1, <3>2 DEF MatchedBySome
  <2>2. CASE OnlyBlinds(g) /\ \A j \in Alive(g) : Distance(Bb, i) < Distance(Bb, j)
    <3>1. S = Alive(g)
      BY <1>1, <2>2 DEF OnlyBlinds
    <3>2. OnlyBlinds(h)
      BY <1>4, <1>5, <2>2, <3>1 DEF OnlyBlinds
    <3>3. Bb \in 0..5
      BY BlindSeats
    <3>4. /\ First(S, i) \in 0..5 /\ Distance(Bb, First(S, i)) \in 0..5 /\ Distance(Bb, i) \in 0..5
          /\ Distance(i, First(S, i)) = Distance(Bb, First(S, i)) - Distance(Bb, i) - 1
      BY <1>2, <1>3, <2>2, <3>1, <3>3, DistanceFacts
    <3>5. ASSUME NEW j \in Alive(g)
          PROVE  Distance(Bb, First(S, i)) <= Distance(Bb, j)
      <4>1. /\ j \in 0..5 /\ Distance(Bb, j) \in 0..5
            /\ Distance(i, j) = Distance(Bb, j) - Distance(Bb, i) - 1
        BY <1>1, <1>2, <2>2, <3>3, DistanceFacts
      <4> QED
        BY <1>3, <3>1, <3>4, <4>1
    <3> QED
      BY <1>4, <1>5, <3>2, <3>5
  <2> QED
    BY <1>4, <2>1, <2>2 DEF MovedOK
<1> QED
  BY <1>1, <1>3, <1>4, <1>5, <1>6, <1>7, <1>8 DEF HandOK, Over, Playing

\* A street is opened for two seats or more that have matched each other.
LEMMA OpenedKeeps ==
    ASSUME DealtHere, NEW g, NEW i \in Seats, MovedOK(g, i),
           g.phase # "river", Actors(g) \cap g.pending = {},
           NEW a \in Actors(g), NEW b \in Actors(g), a # b,
           NEW h, h = StreetOpened(g)
    PROVE  HandOK(h)
<1>1. /\ g \in HandType /\ ChipsOK(g) /\ BasesOK(g) /\ SaidOK(g) /\ g.bet \in Nat
      /\ g.phase \in {"pre_flop", "flop", "turn"} /\ g.board = BoardOf[g.phase]
      /\ Actors(g) \subseteq Alive(g) /\ Alive(g) \subseteq Seats
      /\ Seats \in SUBSET (0..5) /\ NoSeat \notin Seats /\ button \in Seats
  BY ActorFacts, SeatFacts DEF MovedOK, HandType, BoardOf
<1>2. First(Actors(g), button) \in Actors(g)
  BY <1>1, FirstFacts
<1>3. NextStreet[g.phase] \in {"flop", "turn", "river"}
      /\ g.board + Cards[NextStreet[g.phase]] = BoardOf[NextStreet[g.phase]]
      /\ BoardOf[NextStreet[g.phase]] \in {0, 3, 4, 5}
  BY <1>1 DEF NextStreet, Cards, BoardOf
<1>4. /\ h.stack = g.stack /\ h.committed = g.committed /\ h.street = [j \in Seats |-> 0]
      /\ h.folded = g.folded /\ h.bet = 0 /\ h.phase = NextStreet[g.phase]
      /\ h.board = BoardOf[h.phase]
      /\ h.current = First(Actors(g), button) /\ h.pending = Actors(g)
      /\ h \in HandType
  <2>1. /\ h.stack = g.stack /\ h.committed = g.committed /\ h.street = [j \in Seats |-> 0]
        /\ h.folded = g.folded /\ h.bet = 0 /\ h.phase = NextStreet[g.phase]
        /\ h.board = g.board + Cards[NextStreet[g.phase]]
        /\ h.current = First(Actors(g), button) /\ h.pending = Actors(g)
        /\ h.actedTo = [j \in Seats |-> NotActed] /\ h.onFullBet = {}
        /\ h.fullRaise = BigBlind
        /\ h = [stack |-> h.stack, committed |-> h.committed, street |-> h.street,
                folded |-> h.folded, actedTo |-> h.actedTo, onFullBet |-> h.onFullBet,
                current |-> h.current, phase |-> h.phase, bet |-> h.bet,
                fullRaise |-> h.fullRaise, pending |-> h.pending, board |-> h.board]
    BY <1>1 DEF StreetOpened, HandType
  <2>2. /\ h.stack \in [Seats -> Nat] /\ h.committed \in [Seats -> Nat]
        /\ h.folded \in SUBSET Seats /\ h.pending \in SUBSET Seats /\ h.current \in Seats
        /\ h.phase \in Phases /\ h.board \in {0, 3, 4, 5} /\ h.fullRaise \in Nat \ {0}
    BY <1>1, <1>2, <1>3, <2>1, MultiwayRules DEF HandType, Phases
  <2>3. h.street \in [Seats -> Nat] /\ h.actedTo \in [Seats -> Nat \cup {NotActed}]
    BY <2>1
  <2>4. h \in HandType
    BY <2>1, <2>2, <2>3 DEF HandType
  <2> QED
    BY <1>3, <2>1, <2>4
<1>5. Alive(h) = Alive(g) /\ Actors(h) = Actors(g)
  BY <1>4 DEF Alive, Actors
<1>6. \A j \in Seats : /\ g.committed[j] \in Nat /\ g.street[j] \in Nat
                       /\ g.stack[j] + g.committed[j] = initial[j]
                       /\ g.street[j] <= g.bet /\ Base(g, j) = g.committed[j] - g.street[j]
                       /\ h.street[j] = 0 /\ Base(h, j) = g.committed[j]
  BY <1>1, <1>4 DEF HandType, ChipsOK, Base
<1>7. ChipsOK(h)
  BY <1>4, <1>6 DEF ChipsOK
<1>8. BasesOK(h)
  <2> SUFFICES ASSUME NEW k \in Seats, NEW j \in Seats, k \in Actors(h) \/ h.street[k] > 0
               PROVE  Base(h, j) <= Base(h, k)
    BY DEF BasesOK
  <2>1. k \in Actors(g) /\ g.street[k] = g.bet
    BY <1>1, <1>5, <1>6 DEF SaidOK
  <2>2. Base(g, j) <= Base(g, k)
    BY <1>1, <2>1 DEF BasesOK
  <2> QED
    BY <1>1, <1>6, <2>1, <2>2
<1>9. SaidOK(h)
  BY <1>4, <1>5 DEF SaidOK
<1>10. h.phase \in DOMAIN BoardOf
  BY <1>3, <1>4 DEF BoardOf
<1>11. Alive(h) \ {h.current} # {} /\ Actors(h) \ {h.current} # {}
  BY <1>1, <1>5
<1> QED
  BY <1>1, <1>2, <1>4, <1>5, <1>7, <1>8, <1>9, <1>10, <1>11 DEF HandOK, Over, Playing

\* Seats whose betting is done: they have matched the bet, after having had their say when
\* somebody else can bet too.
Done(g) ==
    \A j \in Actors(g) : /\ g.street[j] = g.bet
                         /\ Cardinality(Actors(g)) > 1 => g.actedTo[j] # NotActed

LEMMA AdvancedKeeps ==
    ASSUME DealtHere, NEW g, NEW i \in Seats, MovedOK(g, i), NEW h, h = Advanced(g, i)
    PROVE  HandOK(h) /\ (h.phase # g.phase /\ h.phase # "settled" => Done(g))
<1> DEFINE actors == Actors(g)
           waiting == g.pending \cap actors
           owing == {j \in actors : g.street[j] < g.bet}
<1>1. /\ g \in HandType /\ ChipsOK(g) /\ BasesOK(g) /\ SaidOK(g) /\ g.bet \in Nat
      /\ actors \subseteq Alive(g) /\ Alive(g) \subseteq Seats
      /\ Seats \in SUBSET (0..5) /\ g.board \in {0, 3, 4, 5} /\ i \in 0..5
      /\ Alive(g) # {} /\ i \notin g.pending
      /\ \A j \in Seats : g.street[j] \in Nat /\ g.street[j] <= g.bet
  BY ActorFacts, SeatFacts DEF MovedOK, HandType, ChipsOK
<1>2. /\ Cardinality(Alive(g)) = 1 <=> Alive(g) # {} /\ \A x, y \in Alive(g) : x = y
      /\ Cardinality(actors) \in Nat
      /\ Cardinality(actors) <= 1 <=> \A x, y \in actors : x = y
  <2>1. IsFiniteSet(Alive(g)) /\ IsFiniteSet(actors)
    BY <1>1, FiniteSeats
  <2> QED
    BY <2>1, Few
<1>3. CASE Cardinality(Alive(g)) = 1
  <2>1. h = Ended(g, "settled", g.board)
    BY <1>3 DEF Advanced
  <2>2. HandOK(h)
    BY <1>1, <1>3, <2>1, EndedKeeps
  <2>3. h.phase = "settled"
    BY <1>1, <2>1 DEF Ended, HandType
  <2> QED
    BY <2>2, <2>3
<1>4. CASE Cardinality(Alive(g)) # 1 /\ Cardinality(actors) <= 1 /\ owing # {}
  <2>1. h = [g EXCEPT !.current = First(owing, i), !.pending = owing]
    BY <1>4 DEF Advanced
  <2>2. First(owing, i) \in owing
    BY <1>1, <1>4, FirstFacts
  <2>3. actors = owing /\ Alive(g) \ {First(owing, i)} # {}
    BY <1>1, <1>2, <1>4, <2>2
  <2>4. HandOK(h)
    BY <1>4, <2>1, <2>2, <2>3, AskedKeeps
  <2>5. h.phase = g.phase
    BY <1>1, <2>1 DEF HandType
  <2> QED
    BY <2>4, <2>5
<1>5. CASE Cardinality(Alive(g)) # 1 /\ Cardinality(actors) <= 1 /\ owing = {}
  <2>1. h = Ended(g, "showdown", 5)
    BY <1>5 DEF Advanced, RunOut
  <2>2. HandOK(h)
    BY <2>1, EndedKeeps
  <2>3. ~(Cardinality(Actors(g)) > 1)
    BY <1>2, <1>5
  <2>4. ASSUME NEW j \in Actors(g) PROVE g.street[j] = g.bet
    <3>1. ~(g.street[j] < g.bet) /\ j \in Seats
      BY <1>1, <1>5, <2>4
    <3> QED
      BY <1>1, <3>1
  <2>5. Done(g)
    BY <2>3, <2>4 DEF Done
  <2> QED
    BY <2>2, <2>5
<1>6. CASE Cardinality(Alive(g)) # 1 /\ ~(Cardinality(actors) <= 1) /\ waiting # {}
  <2>1. h = [g EXCEPT !.current = First(waiting, i), !.pending = waiting]
    BY <1>6 DEF Advanced
  <2>2. First(waiting, i) \in waiting
    BY <1>1, <1>6, FirstFacts
  <2>3. actors \ {First(waiting, i)} # {} /\ Alive(g) \ {First(waiting, i)} # {}
    BY <1>1, <1>2, <1>6
  <2>4. HandOK(h)
    BY <1>6, <2>1, <2>3, AskedKeeps
  <2>5. h.phase = g.phase
    BY <1>1, <2>1 DEF HandType
  <2> QED
    BY <2>4, <2>5
<1>7. CASE Cardinality(Alive(g)) # 1 /\ ~(Cardinality(actors) <= 1) /\ waiting = {}
  <2>1. Done(g)
    BY <1>7 DEF Done, SaidOK, MovedOK
  <2>2. CASE g.phase = "river"
    <3>1. h = Ended(g, "showdown", g.board) /\ g.board = 5
      BY <1>7, <2>2 DEF Advanced, MovedOK, BoardOf
    <3> QED
      BY <2>1, <3>1, EndedKeeps
  <2>3. CASE g.phase # "river"
    <3>1. h = StreetOpened(g)
      BY <1>7, <2>3 DEF Advanced
    <3>2. PICK a \in actors, b \in actors : a # b
      BY <1>2, <1>7
    <3> QED
      BY <1>7, <2>1, <2>3, <3>1, <3>2, OpenedKeeps
  <2> QED
    BY <2>2, <2>3
<1> QED
  BY <1>3, <1>4, <1>5, <1>6, <1>7

-----------------------------------------------------------------------------
(***************************************************************************)
(* The deal, and every step.                                               *)
(***************************************************************************)
LEMMA DealtKeeps ==
    ASSUME DealtHere, NEW h, h = Dealt(button, initial)
    PROVE  HandOK(h)
<1>1. /\ Seats \in SUBSET (0..5) /\ IsFiniteSet(Seats) /\ Cardinality(Seats) >= 2
      /\ \A i \in Seats : initial[i] \in Nat /\ initial[i] >= 2 * BigBlind
      /\ Bb \in Seats /\ Bb \in 0..5 /\ Bb # SmallBlindSeat(button) /\ NoSeat \notin Seats
      /\ SmallBlind \in Nat /\ BigBlind \in Nat /\ 0 < SmallBlind /\ SmallBlind < BigBlind
  BY SeatFacts, BlindSeats, MultiwayRules
<1>2. /\ First(Seats, Bb) \in Seats
      /\ \A j \in Seats : Distance(Bb, First(Seats, Bb)) <= Distance(Bb, j)
  BY <1>1, FirstFacts
<1>3. \A i \in Seats : /\ Blind(button, i) \in Nat /\ Blind(button, i) <= BigBlind
                       /\ Blind(button, Bb) = BigBlind
                       /\ initial[i] - Blind(button, i) \in Nat
                       /\ initial[i] - Blind(button, i) > 0
  BY <1>1 DEF Blind, Bb
<1>4. /\ h.stack = [i \in Seats |-> initial[i] - Blind(button, i)]
      /\ h.committed = [i \in Seats |-> Blind(button, i)]
      /\ h.street = [i \in Seats |-> Blind(button, i)]
      /\ h.folded = {} /\ h.current = First(Seats, Bb) /\ h.phase = "pre_flop"
      /\ h.bet = BigBlind /\ h.pending = Seats /\ h.board = 0
      /\ h.actedTo = [i \in Seats |-> NotActed] /\ h.onFullBet = {}
      /\ h.fullRaise = BigBlind
      /\ h = [stack |-> h.stack, committed |-> h.committed, street |-> h.street,
              folded |-> h.folded, actedTo |-> h.actedTo, onFullBet |-> h.onFullBet,
              current |-> h.current, phase |-> h.phase, bet |-> h.bet,
              fullRaise |-> h.fullRaise, pending |-> h.pending, board |-> h.board]
  BY DEF Dealt, Bb
<1>5. h \in HandType
  <2>1. h.stack \in [Seats -> Nat] /\ h.committed \in [Seats -> Nat] /\ h.street \in [Seats -> Nat]
    BY <1>3, <1>4
  <2>2. h.actedTo \in [Seats -> Nat \cup {NotActed}]
    BY <1>4
  <2>3. /\ h.folded \in SUBSET Seats /\ h.onFullBet \in SUBSET Seats /\ h.pending \in SUBSET Seats
        /\ h.current \in Seats /\ h.phase \in Phases /\ h.bet \in Nat /\ h.fullRaise \in Nat \ {0}
        /\ h.board \in {0, 3, 4, 5}
    BY <1>1, <1>2, <1>4 DEF Phases
  <2> QED
    BY <1>4, <2>1, <2>2, <2>3 DEF HandType
<1>6. \A i \in Seats : /\ h.stack[i] + h.committed[i] = initial[i] /\ h.stack[i] > 0
                       /\ h.street[i] = h.committed[i] /\ h.street[i] <= h.bet
                       /\ h.committed[i] \in Nat
  BY <1>1, <1>3, <1>4
<1>7. Alive(h) = Seats /\ Actors(h) = Seats
  BY <1>4, <1>6 DEF Alive, Actors
<1>8. Seats \ {h.current} # {}
  BY <1>1, Few
<1>9. ChipsOK(h) /\ BasesOK(h) /\ SaidOK(h)
  BY <1>4, <1>6, <1>7 DEF ChipsOK, BasesOK, SaidOK, Base
<1>10. OnlyBlinds(h)
  BY <1>1, <1>3, <1>4, <1>6, <1>7 DEF OnlyBlinds
<1> QED
  BY <1>1, <1>2, <1>4, <1>5, <1>7, <1>8, <1>9, <1>10 DEF HandOK, Over, Playing, BoardOf

\* The hand of the next state, seen from this one, is the same hand.
LEMMA SameTable ==
    ASSUME UNCHANGED <<button, initial>>
    PROVE  /\ DealtHere => DealtHere'
           /\ HandOK(hand') => HandOK(hand)'
<1>1. Seats' = Seats
  BY DEF Seats
<1>2. Bb' = Bb
  BY <1>1 DEF Bb, BigBlindSeat, SmallBlindSeat, First, Distance
<1>3. Alive(hand)' = Alive(hand') /\ Actors(hand)' = Actors(hand')
  BY <1>1 DEF Alive, Actors
<1>4. HandType' = HandType
  BY <1>1 DEF HandType
<1>5. ChipsOK(hand') => ChipsOK(hand)'
  BY <1>1 DEF ChipsOK
<1>6. BasesOK(hand') => BasesOK(hand)'
  BY <1>1, <1>3 DEF BasesOK, Base
<1>7. SaidOK(hand') => SaidOK(hand)'
  BY <1>3 DEF SaidOK
<1>8. OnlyBlinds(hand') => OnlyBlinds(hand)'
  BY <1>1, <1>2, <1>3 DEF OnlyBlinds
<1>9. MatchedBySome(hand') => MatchedBySome(hand)'
  BY <1>3 DEF MatchedBySome
<1>10. Playing(hand') => Playing(hand)'
  BY <1>2, <1>3, <1>6, <1>7, <1>8, <1>9 DEF Playing, Distance
<1>11. Led(hand') => Led(hand)'
  BY <1>1, <1>3 DEF Led
<1> QED
  BY <1>3, <1>4, <1>5, <1>10, <1>11 DEF HandOK, Over, DealtHere

-----------------------------------------------------------------------------
(***************************************************************************)
(* The pots.                                                               *)
(***************************************************************************)
Least(a, b) == IF a <= b THEN a ELSE b

LEMMA MatchedFacts ==
    ASSUME DealtHere, NEW h \in HandType
    PROVE  /\ Matched(h) \in [Seats -> Nat]
           /\ \A i \in Seats : Matched(h)[i] <= h.committed[i]
           /\ \A i \in Seats : \A j \in Seats \ {i} :
                 Least(h.committed[i], h.committed[j]) <= Matched(h)[i]
           /\ \A i, j \in Seats :
                 h.committed[i] <= h.committed[j] => Matched(h)[i] <= Matched(h)[j]
<1> DEFINE c == h.committed
           others(i) == {c[j] : j \in Seats \ {i}}
           M == Matched(h)
<1>1. IsFiniteSet(Seats) /\ \A i \in Seats : c[i] \in Nat
  BY SeatFacts DEF HandType
<1>2. ASSUME NEW i \in Seats
      PROVE  /\ Max(others(i)) \in Nat /\ \A j \in Seats \ {i} : c[j] <= Max(others(i))
             /\ M[i] = Least(c[i], Max(others(i)))
  <2>1. PICK j \in Seats : j # i
    <3>1. Cardinality(Seats) \in Nat /\ (Cardinality(Seats) <= 1 <=> \A x, y \in Seats : x = y)
      BY <1>1, Few
    <3>2. ~(Cardinality(Seats) <= 1)
      BY <3>1, SeatFacts
    <3> QED
      BY <3>1, <3>2
  <2>2. IsFiniteSet(others(i))
    <3>1. IsFiniteSet(Seats \ {i})
      BY <1>1, FS_Subset
    <3> QED
      BY <3>1, FiniteImage
  <2>3. others(i) # {} /\ others(i) \in SUBSET Int /\ others(i) \in SUBSET Nat
    BY <1>1, <2>1
  <2>4. Max(others(i)) \in others(i) /\ \A n \in others(i) : n <= Max(others(i))
    BY <2>2, <2>3, MaxOfFinite
  <2>5. M[i] = Min({c[i], Max(others(i))})
    BY DEF Matched
  <2>6. Max(others(i)) \in Nat
    BY <2>3, <2>4
  <2> HIDE DEF c, M
  <2>7. Min({c[i], Max(others(i))}) = IF c[i] <= Max(others(i)) THEN c[i] ELSE Max(others(i))
    BY <1>1, <2>6, LeastOfTwo
  <2> QED
    BY <2>4, <2>5, <2>6, <2>7 DEF Least
<1>3. M \in [Seats -> Nat]
  <2>1. \A i \in Seats : M[i] \in Nat
    BY <1>1, <1>2 DEF Least
  <2>2. M = [i \in Seats |-> M[i]]
    BY DEF Matched
  <2> HIDE DEF M
  <2> QED
    BY <2>1, <2>2
<1> HIDE DEF M, c, others
<1>4. \A i \in Seats : M[i] <= c[i]
  BY <1>1, <1>2 DEF Least
<1>5. ASSUME NEW i \in Seats, NEW j \in Seats \ {i}
      PROVE  Least(c[i], c[j]) <= M[i]
  <2>1. c[j] <= Max(others(i)) /\ Max(others(i)) \in Nat /\ c[i] \in Nat /\ c[j] \in Nat
    BY <1>1, <1>2
  <2> QED
    BY <1>2, <2>1 DEF Least
<1>6. ASSUME NEW i \in Seats, NEW j \in Seats, c[i] <= c[j]
      PROVE  M[i] <= M[j]
  <2>1. CASE i = j
    BY <1>3, <2>1
  <2>2. CASE i # j
    <3>1. Least(c[j], c[i]) <= M[j]
      BY <1>5, <2>2
    <3>2. Least(c[j], c[i]) = c[i]
      BY <1>1, <1>6 DEF Least
    <3> QED
      BY <1>1, <1>3, <1>4, <3>1, <3>2
  <2> QED
    BY <2>1, <2>2
<1> QED
  BY <1>3, <1>4, <1>5, <1>6 DEF M, c

\* The levels and the pots, each a step above the one below it.
Width(h, pot) == pot.level - Below(Levels(h), pot.level)
Of(h, level) == Pot(h, Below(Levels(h), level), level)
UpTo(h, k) == {pot \in Pots(h) : pot.level <= k}

LEMMA LevelFacts ==
    ASSUME DealtHere, NEW h \in HandType
    PROVE  /\ Levels(h) \in SUBSET Nat /\ 0 \notin Levels(h) /\ IsFiniteSet(Levels(h))
           /\ \A i \in Seats : Matched(h)[i] \in Levels(h) \cup {0}
           /\ \A l \in Levels(h) : \E i \in Seats : l = Matched(h)[i]
           /\ \A l \in Levels(h) :
                 /\ Below(Levels(h), l) \in Levels(h) \cup {0} /\ Below(Levels(h), l) < l
                 /\ \A k \in Levels(h) : k < l => k <= Below(Levels(h), l)
<1> DEFINE M == Matched(h)
           L == Levels(h)
<1>1. IsFiniteSet(Seats) /\ M \in [Seats -> Nat]
  BY SeatFacts, MatchedFacts
<1>2. L = {M[i] : i \in Seats} \ {0}
  BY DEF Levels
<1>3. IsFiniteSet(L)
  <2>1. IsFiniteSet({M[i] : i \in Seats})
    BY <1>1, FiniteImage
  <2> QED
    BY <1>2, <2>1, FS_Subset
<1> HIDE DEF M, L
<1>4. L \in SUBSET Nat /\ 0 \notin L
  BY <1>1, <1>2
<1>5. ASSUME NEW l \in L
      PROVE  /\ Below(L, l) \in L \cup {0} /\ Below(L, l) < l
             /\ \A k \in L : k < l => k <= Below(L, l)
  <2> DEFINE lower == {0} \cup {k \in L : k < l}
  <2>1. IsFiniteSet(lower)
    <3>1. IsFiniteSet(L \cup {0})
      BY <1>3, FS_AddElement
    <3> QED
      BY <3>1, FS_Subset
  <2>2. lower # {} /\ lower \in SUBSET Int
    <3>1. 0 \in lower /\ \A n \in lower : n \in Int
      BY <1>4
    <3> QED
      BY <3>1
  <2>3. Max(lower) \in lower /\ \A n \in lower : n <= Max(lower)
    BY <2>1, <2>2, MaxOfFinite
  <2>4. Below(L, l) = Max(lower)
    BY DEF Below
  <2> QED
    BY <1>4, <2>3, <2>4
<1>6. \A i \in Seats : M[i] \in L \cup {0}
  BY <1>2
<1>7. \A l \in L : \E i \in Seats : l = M[i]
  BY <1>2
<1> QED
  BY <1>3, <1>4, <1>5, <1>6, <1>7 DEF M, L

LEMMA PotFacts ==
    ASSUME DealtHere, NEW h \in HandType
    PROVE  /\ IsFiniteSet(Pots(h))
           /\ \A l \in Levels(h) : Of(h, l) \in Pots(h) /\ Of(h, l).level = l
           /\ \A pot \in Pots(h) :
                 /\ pot.level \in Levels(h) /\ pot = Of(h, pot.level)
                 /\ Width(h, pot) \in Nat /\ Width(h, pot) > 0
                 /\ pot.amount = Width(h, pot) * Cardinality(Contributors(h, pot.level))
                 /\ pot.eligible = Eligible(h, Contributors(h, pot.level))
                 /\ pot.amount \in Nat
<1> DEFINE L == Levels(h)
           P == [l \in L |-> Of(h, l)]
<1>1. IsFiniteSet(L) /\ L \in SUBSET Nat
  BY LevelFacts
<1>2. Pots(h) = {P[l] : l \in L}
  BY DEF Pots, Of
<1>3. IsFiniteSet(Pots(h))
  <2>1. IsFiniteSet({P[l] : l \in L})
    <3> HIDE DEF L, P
    <3> QED
      BY <1>1, FiniteImage
  <2> HIDE DEF L, P
  <2> QED
    BY <1>2, <2>1
<1>4. \A l \in L : Of(h, l).level = l /\ Of(h, l) \in Pots(h)
  BY <1>2 DEF Of, Pot
<1>5. ASSUME NEW pot \in Pots(h)
      PROVE  /\ pot.level \in L /\ pot = Of(h, pot.level)
             /\ Width(h, pot) \in Nat /\ Width(h, pot) > 0
             /\ pot.amount = Width(h, pot) * Cardinality(Contributors(h, pot.level))
             /\ pot.eligible = Eligible(h, Contributors(h, pot.level))
             /\ pot.amount \in Nat
  <2>1. pot.level \in L /\ pot = Of(h, pot.level)
    BY <1>2, <1>4
  <2>2. /\ pot.amount = Width(h, pot) * Cardinality(Contributors(h, pot.level))
        /\ pot.eligible = Eligible(h, Contributors(h, pot.level))
    BY <2>1 DEF Of, Pot, Width
  <2>3. Width(h, pot) \in Nat /\ Width(h, pot) > 0
    BY <1>1, <2>1, LevelFacts DEF Width
  <2>4. Cardinality(Contributors(h, pot.level)) \in Nat
    <3>1. IsFiniteSet(Contributors(h, pot.level))
      BY SeatFacts, FS_Subset DEF Contributors
    <3> QED
      BY <3>1, FS_CardinalityType
  <2>5. pot.amount \in Nat
    BY <2>2, <2>3, <2>4
  <2> QED
    BY <2>1, <2>2, <2>3, <2>5
<1> QED
  BY <1>3, <1>4, <1>5

\* The pots up to a level are together as high as the level.
LEMMA LevelSum ==
    ASSUME DealtHere, NEW h \in HandType, NEW w, \A pot \in Pots(h) : w[pot] = Width(h, pot)
    PROVE  \A k \in Levels(h) \cup {0} : Sum(w, UpTo(h, k)) = k
<1> DEFINE L == Levels(h)
           Bad == {k \in L \cup {0} : Sum(w, UpTo(h, k)) # k}
<1> SUFFICES ASSUME Bad # {} PROVE FALSE
  OBVIOUS
<1>1. /\ L \in SUBSET Nat /\ 0 \notin L /\ IsFiniteSet(L) /\ IsFiniteSet(Pots(h))
      /\ \A pot \in Pots(h) : w[pot] \in Int
  BY LevelFacts, PotFacts
<1>2. PICK k \in Bad : \A l \in Bad : k <= l
  <2>1. IsFiniteSet(L \cup {0})
    BY <1>1, FS_AddElement
  <2>2. IsFiniteSet(Bad) /\ Bad \in SUBSET Int
    BY <1>1, <2>1, FS_Subset
  <2>3. Min(Bad) \in Bad /\ \A l \in Bad : Min(Bad) <= l
    BY <2>2, MinOfFinite
  <2> QED
    BY <2>3
<1>3. CASE k = 0
  <2>1. UpTo(h, 0) = {}
    BY <1>1, PotFacts DEF UpTo
  <2> QED
    BY <1>2, <1>3, <2>1, SumEmpty
<1>4. CASE k # 0
  <2> DEFINE b == Below(L, k)
             p == Of(h, k)
  <2>1. /\ k \in L /\ b \in L \cup {0} /\ b < k /\ k \in Nat /\ b \in Nat
        /\ \A l \in L : l < k => l <= b
    BY <1>1, <1>2, <1>4, LevelFacts
  <2>2. p \in Pots(h) /\ p.level = k
    BY <2>1, PotFacts
  <2>3. Sum(w, UpTo(h, b)) = b
    BY <1>1, <1>2, <2>1
  <2>4. w[p] = k - b
    BY <2>2 DEF Width
  <2>5. IsFiniteSet(UpTo(h, k)) /\ p \in UpTo(h, k) /\ \A pot \in UpTo(h, k) : w[pot] \in Int
    BY <1>1, <2>1, <2>2, FS_Subset DEF UpTo
  <2>6. UpTo(h, k) \ {p} = UpTo(h, b)
    <3>1. \A pot \in Pots(h) : pot.level \in L /\ (pot.level = k => pot = p)
      BY PotFacts
    <3> HIDE DEF b, p, L
    <3>2. ASSUME NEW pot \in Pots(h)
          PROVE  (pot.level <= k /\ pot # p) <=> pot.level <= b
      <4>1. pot.level \in Nat /\ pot.level \in L /\ (pot.level = k => pot = p)
        BY <1>1, <3>1
      <4>2. pot.level < k => pot.level <= b
        BY <2>1, <4>1
      <4> QED
        BY <2>1, <2>2, <4>1, <4>2
    <3> QED
      BY <3>2 DEF UpTo
  <2>7. Sum(w, UpTo(h, k)) = w[p] + Sum(w, UpTo(h, k) \ {p})
    BY <2>5, SumRemove
  <2> HIDE DEF b, p
  <2>8. Sum(w, UpTo(h, k)) = k
    BY <2>1, <2>3, <2>4, <2>6, <2>7
  <2> QED
    BY <1>2, <2>8
<1> QED
  BY <1>3, <1>4

\* What each seat put into each pot, and what the pots up to a level took from everybody.
Put(h) ==
    [pot \in Pots(h) |->
        [j \in Seats |-> IF Matched(h)[j] >= pot.level THEN Width(h, pot) ELSE 0]]

LEMMA PutBySeat ==
    ASSUME DealtHere, NEW h \in HandType, NEW k \in Levels(h) \cup {0}, NEW j \in Seats
    PROVE  Sum([pot \in UpTo(h, k) |-> Put(h)[pot][j]], UpTo(h, k)) = Least(k, Matched(h)[j])
<1> DEFINE M == Matched(h)
           n == Least(k, M[j])
           f == [pot \in UpTo(h, k) |-> Put(h)[pot][j]]
           w == [pot \in Pots(h) |-> Width(h, pot)]
<1>1. /\ Levels(h) \in SUBSET Nat /\ M[j] \in Levels(h) \cup {0} /\ IsFiniteSet(Pots(h))
      /\ \A pot \in Pots(h) : pot.level \in Levels(h) /\ Width(h, pot) \in Nat
  BY LevelFacts, PotFacts
<1>2. k \in Nat /\ M[j] \in Nat /\ n \in Levels(h) \cup {0} /\ n <= k /\ n <= M[j]
      /\ (n = k \/ n = M[j]) /\ n \in Nat
  BY <1>1 DEF Least
<1>3. \A pot \in UpTo(h, k) : f[pot] = IF M[j] >= pot.level THEN Width(h, pot) ELSE 0
  BY DEF Put, UpTo
<1> HIDE DEF f, n
<1>4. UpTo(h, n) \in SUBSET UpTo(h, k) /\ IsFiniteSet(UpTo(h, k)) /\ IsFiniteSet(UpTo(h, n))
  <2>1. UpTo(h, n) \in SUBSET UpTo(h, k)
    <3>1. ASSUME NEW pot \in Pots(h), pot.level <= n PROVE pot.level <= k
      <4>1. pot.level \in Nat
        BY <1>1
      <4> QED
        BY <1>2, <3>1, <4>1
    <3> QED
      BY <3>1 DEF UpTo
  <2>2. UpTo(h, k) \in SUBSET Pots(h)
    BY DEF UpTo
  <2> QED
    BY <1>1, <2>1, <2>2, FS_Subset
<1>5. ASSUME NEW pot \in UpTo(h, k)
      PROVE  /\ f[pot] \in Int /\ (pot \notin UpTo(h, n) => f[pot] = 0)
             /\ (pot \in UpTo(h, n) => f[pot] = w[pot])
  <2>1. pot \in Pots(h) /\ pot.level \in Nat /\ pot.level <= k /\ Width(h, pot) \in Nat
    BY <1>1 DEF UpTo
  <2>2. pot \in UpTo(h, n) <=> M[j] >= pot.level
    BY <1>2, <2>1 DEF UpTo
  <2> QED
    BY <1>3, <2>1, <2>2
<1>6. Sum(f, UpTo(h, k)) = Sum(f, UpTo(h, n))
  BY <1>4, <1>5, SumSupport
<1>7. Sum(f, UpTo(h, n)) = Sum(w, UpTo(h, n))
  BY <1>4, <1>5, SumEqual
<1>8. Sum(w, UpTo(h, n)) = n
  <2>1. \A pot \in Pots(h) : w[pot] = Width(h, pot)
    OBVIOUS
  <2> HIDE DEF w
  <2> QED
    BY <1>2, <2>1, LevelSum
<1> QED
  BY <1>6, <1>7, <1>8 DEF f, n

LEMMA PutInPot ==
    ASSUME DealtHere, NEW h \in HandType, NEW pot \in Pots(h)
    PROVE  /\ \A j \in Seats : Put(h)[pot][j] \in Int
           /\ Sum(Put(h)[pot], Seats) = pot.amount
<1> DEFINE f == Put(h)[pot]
           C == Contributors(h, pot.level)
<1>1. /\ IsFiniteSet(Seats) /\ C \in SUBSET Seats /\ Width(h, pot) \in Int
      /\ pot.amount = Width(h, pot) * Cardinality(C)
  BY SeatFacts, PotFacts DEF Contributors
<1>2. \A j \in Seats : f[j] = IF j \in C THEN Width(h, pot) ELSE 0
  BY DEF Put, Contributors
<1> HIDE DEF f, C
<1>3. (\A j \in Seats : f[j] \in Int) /\ IsFiniteSet(C)
  BY <1>1, <1>2, FS_Subset
<1>4. Sum(f, Seats) = Sum(f, C)
  BY <1>1, <1>2, <1>3, SumSupport
<1>5. Sum(f, C) = Width(h, pot) * Cardinality(C)
  BY <1>1, <1>2, <1>3, SumConstant
<1> QED
  BY <1>1, <1>3, <1>4, <1>5 DEF f

\* The pots up to a level hold what every seat put in up to that level.
LEMMA AmountsUpTo ==
    ASSUME DealtHere, NEW h \in HandType, NEW k \in Levels(h) \cup {0},
           NEW a, \A pot \in Pots(h) : a[pot] = pot.amount
    PROVE  Sum(a, UpTo(h, k)) = Sum([j \in Seats |-> Least(k, Matched(h)[j])], Seats)
<1> DEFINE S == UpTo(h, k)
           f == Put(h)
           rows == [pot \in S |-> Sum(f[pot], Seats)]
           columns == [j \in Seats |-> Sum([pot \in S |-> f[pot][j]], S)]
           least == [j \in Seats |-> Least(k, Matched(h)[j])]
<1>1. S \in SUBSET Pots(h) /\ IsFiniteSet(S) /\ IsFiniteSet(Seats)
  BY SeatFacts, PotFacts, FS_Subset DEF UpTo
<1>2. \A pot \in S : \A j \in Seats : f[pot][j] \in Int
  BY <1>1, PutInPot
<1>3. \A pot \in S : rows[pot] = a[pot]
  BY <1>1, PutInPot
<1>4. \A j \in Seats : columns[j] = least[j]
  BY PutBySeat
<1> HIDE DEF f, S, least
<1>5. Sum(rows, S) = Sum(columns, Seats)
  BY <1>1, <1>2, SumSwap
<1> HIDE DEF rows, columns
<1>6. Sum(rows, S) = Sum(a, S) /\ Sum(columns, Seats) = Sum(least, Seats)
  BY <1>1, <1>3, <1>4, SumEqual
<1> QED
  BY <1>5, <1>6 DEF S, least

-----------------------------------------------------------------------------
(***************************************************************************)
(* Dividing one pot.                                                       *)
(***************************************************************************)
Nearer(W, i) == {j \in W : Distance(button, j) < Distance(button, i)}

\* Of some seats, as many have fewer than k nearer to the button as there are to be: the odd
\* chips all find a winner.
LEMMA NearestCount ==
    ASSUME DealtHere, NEW W \in SUBSET Seats
    PROVE  \A k \in 0..Cardinality(W) :
              Cardinality({i \in W : Cardinality(Nearer(W, i)) < k}) = k
<1> DEFINE Front(T, k) == {i \in T : Cardinality(Nearer(T, i)) < k}
           Good == {T \in SUBSET W : \A k \in 0..Cardinality(T) : Cardinality(Front(T, k)) = k}
<1>1. W \in SUBSET (0..5) /\ IsFiniteSet(W) /\ button \in 0..5
  BY SeatFacts, FiniteSeats
<1>2. ASSUME NEW T \in SUBSET W, \A U \in SUBSET T : U # T => U \in Good
      PROVE  T \in Good
  <2> SUFFICES ASSUME NEW k \in 0..Cardinality(T) PROVE Cardinality(Front(T, k)) = k
    OBVIOUS
  <2>1. /\ IsFiniteSet(T) /\ T \in SUBSET (0..5) /\ Cardinality(T) \in Nat /\ k \in Nat
        /\ k <= Cardinality(T)
    <3>1. IsFiniteSet(T) /\ T \in SUBSET (0..5)
      BY <1>1, FS_Subset
    <3>2. Cardinality(T) \in Nat
      BY <3>1, FS_CardinalityType
    <3> QED
      BY <3>1, <3>2
  <2>2. \A i \in T : /\ Nearer(T, i) \in SUBSET (T \ {i}) /\ IsFiniteSet(T \ {i})
                     /\ Cardinality(T \ {i}) = Cardinality(T) - 1
                     /\ IsFiniteSet(Nearer(T, i)) /\ Cardinality(Nearer(T, i)) \in Nat
                     /\ Cardinality(Nearer(T, i)) <= Cardinality(T) - 1
    <3> SUFFICES ASSUME NEW i \in T
                 PROVE  /\ Nearer(T, i) \in SUBSET (T \ {i}) /\ IsFiniteSet(T \ {i})
                        /\ Cardinality(T \ {i}) = Cardinality(T) - 1
                        /\ IsFiniteSet(Nearer(T, i)) /\ Cardinality(Nearer(T, i)) \in Nat
                        /\ Cardinality(Nearer(T, i)) <= Cardinality(T) - 1
      OBVIOUS
    <3>1. Distance(button, i) \in 0..5
      BY <1>1, <2>1, DistanceFacts
    <3>2. Nearer(T, i) \in SUBSET (T \ {i})
      BY <3>1 DEF Nearer
    <3>3. IsFiniteSet(T \ {i}) /\ Cardinality(T \ {i}) = Cardinality(T) - 1
      BY <2>1, FS_RemoveElement
    <3>4. /\ IsFiniteSet(Nearer(T, i)) /\ Cardinality(Nearer(T, i)) \in Nat
          /\ Cardinality(Nearer(T, i)) <= Cardinality(T \ {i})
      BY <3>2, <3>3, FS_Subset, FS_CardinalityType
    <3> QED
      BY <3>2, <3>3, <3>4
  <2>3. CASE k = Cardinality(T)
    <3>1. ASSUME NEW i \in T PROVE Cardinality(Nearer(T, i)) < k
      <4>1. Cardinality(Nearer(T, i)) \in Nat /\ Cardinality(Nearer(T, i)) <= Cardinality(T) - 1
        BY <2>2
      <4> QED
        BY <2>1, <2>3, <4>1
    <3>2. Front(T, k) = T
      BY <3>1
    <3> QED
      BY <2>3, <3>2
  <2>4. CASE k < Cardinality(T)
    <3> DEFINE d == [i \in T |-> Distance(button, i)]
               far == {d[i] : i \in T}
    <3>1. T # {}
      BY <2>1, <2>4, FS_EmptySet
    <3>2. \A i \in T : d[i] = Distance(button, i) /\ d[i] \in 0..5
      BY <1>1, <2>1, DistanceFacts
    <3> HIDE DEF d
    <3>3. IsFiniteSet(far) /\ far # {} /\ far \in SUBSET Int
      <4>1. IsFiniteSet(far)
        BY <2>1, FiniteImage
      <4>2. far # {} /\ far \in SUBSET Int
        BY <3>1, <3>2
      <4> QED
        BY <4>1, <4>2
    <3>4. Max(far) \in far /\ \A n \in far : n <= Max(far)
      BY <3>3, MaxOfFinite
    <3>5. PICK x \in T : \A j \in T : d[j] <= d[x]
      BY <3>4
    <3> DEFINE U == T \ {x}
    <3>6. \A j \in U : Distance(button, j) < Distance(button, x)
      <4> SUFFICES ASSUME NEW j \in U PROVE Distance(button, j) < Distance(button, x)
        OBVIOUS
      <4>1. Distance(button, j) # Distance(button, x)
        BY <1>1, <2>1, DistanceFacts
      <4>2. d[j] <= d[x] /\ d[j] \in 0..5 /\ d[x] \in 0..5
        BY <3>2, <3>5
      <4> QED
        BY <3>2, <4>1, <4>2
    <3>7. \A i \in U : Nearer(T, i) = Nearer(U, i)
      <4> SUFFICES ASSUME NEW i \in U PROVE ~(Distance(button, x) < Distance(button, i))
        BY DEF Nearer
      <4>1. Distance(button, i) \in 0..5 /\ Distance(button, x) \in 0..5
        BY <1>1, <2>1, DistanceFacts
      <4> QED
        BY <3>6, <4>1
    <3>8. Nearer(T, x) = U
      <4>1. ~(Distance(button, x) < Distance(button, x))
        BY <1>1, <2>1, DistanceFacts
      <4> QED
        BY <3>6, <4>1 DEF Nearer
    <3>9. ~(Cardinality(Nearer(T, x)) < k)
      <4>1. Cardinality(Nearer(T, x)) = Cardinality(T) - 1
        BY <2>2, <3>8
      <4> QED
        BY <2>1, <2>4, <4>1
    <3>10. Front(T, k) = Front(U, k)
      BY <3>7, <3>9
    <3>11. U \in Good /\ k \in 0..Cardinality(U)
      <4>1. U \in SUBSET T /\ U # T
        OBVIOUS
      <4>2. Cardinality(U) = Cardinality(T) - 1
        BY <2>2
      <4>3. k \in 0..Cardinality(U)
        BY <2>1, <2>4, <4>2
      <4> HIDE DEF Good
      <4> QED
        BY <1>2, <4>1, <4>3
    <3> QED
      BY <3>10, <3>11
  <2> QED
    BY <2>1, <2>3, <2>4
<1> HIDE DEF Good
<1>3. W \in Good
  BY <1>1, <1>2, SubsetInduction
<1> QED
  BY <1>3 DEF Good

LEMMA Division ==
    ASSUME NEW a \in Nat, NEW n \in Nat, n > 0
    PROVE  /\ a \div n \in Nat /\ a % n \in Nat /\ a % n < n
           /\ a = (a \div n) * n + (a % n)
<1>1. a \div n \in Nat
  OBVIOUS
<1>2. a % n \in Nat /\ a % n < n
  OBVIOUS
<1>3. a = (a \div n) * n + (a % n)
  OBVIOUS
<1> QED
  BY <1>1, <1>2, <1>3

LEMMA SharesOfPot ==
    ASSUME DealtHere, NEW pot, pot.amount \in Nat, pot.eligible \in SUBSET Seats,
           pot.eligible # {}, NEW rank \in [Seats -> Nat]
    PROVE  /\ \A i \in Seats : /\ Shares(pot, rank)[i] \in Nat
                               /\ i \notin Winners(pot, rank) => Shares(pot, rank)[i] = 0
           /\ Sum(Shares(pot, rank), Seats) = pot.amount
<1> DEFINE W == Winners(pot, rank)
           n == Cardinality(W)
           q == pot.amount \div n
           r == pot.amount % n
           front == {i \in W : Cardinality(Nearer(W, i)) < r}
           even == [i \in Seats |-> IF i \in W THEN q ELSE 0]
           odd == [i \in Seats |-> IF i \in front THEN 1 ELSE 0]
           f == Shares(pot, rank)
<1>1. IsFiniteSet(Seats) /\ W \in SUBSET Seats /\ IsFiniteSet(W)
  <2>1. W \in SUBSET Seats
    BY DEF Winners
  <2> QED
    BY <2>1, SeatFacts, FS_Subset
<1>2. W # {}
  <2> DEFINE ranks == {rank[i] : i \in pot.eligible}
  <2>1. IsFiniteSet(pot.eligible)
    BY SeatFacts, FS_Subset
  <2>2. IsFiniteSet(ranks)
    BY <2>1, FiniteImage
  <2>3. ranks # {} /\ ranks \in SUBSET Int
    OBVIOUS
  <2>4. Max(ranks) \in ranks /\ \A x \in ranks : x <= Max(ranks)
    BY <2>2, <2>3, MaxOfFinite
  <2>5. PICK i \in pot.eligible : \A j \in pot.eligible : rank[j] <= rank[i]
    BY <2>4
  <2>6. i \in W
    BY <2>5 DEF Winners
  <2> QED
    BY <2>6
<1>3. n \in Nat /\ n > 0
  <2>1. n \in Nat
    BY <1>1, FS_CardinalityType
  <2>2. n # 0
    BY <1>1, <1>2, FS_EmptySet
  <2> QED
    BY <2>1, <2>2
<1>4. \A i \in Seats : f[i] = IF i \notin W THEN 0
                              ELSE q + IF Cardinality(Nearer(W, i)) < r THEN 1 ELSE 0
  BY DEF Shares, Nearer
<1> HIDE DEF W, n, f
<1>5. q \in Nat /\ r \in Nat /\ r < n /\ pot.amount = q * n + r
  BY <1>3, Division
<1> HIDE DEF q, r
<1>6. \A i \in Seats : even[i] \in Nat /\ odd[i] \in Nat /\ f[i] = even[i] + odd[i]
  BY <1>4, <1>5
<1>7. Sum(f, Seats) = Sum(even, Seats) + Sum(odd, Seats)
  <2> HIDE DEF even, odd
  <2>1. \A i \in Seats : even[i] \in Int /\ odd[i] \in Int /\ f[i] = even[i] + odd[i]
    BY <1>6
  <2> QED
    BY <1>1, <2>1, SumPlus
<1>8. Sum(even, Seats) = q * n
  <2>1. /\ \A i \in Seats : even[i] \in Int
        /\ \A i \in Seats \ W : even[i] = 0
        /\ \A i \in W : even[i] = q
    BY <1>1, <1>5
  <2> HIDE DEF even
  <2>2. Sum(even, Seats) = Sum(even, W)
    BY <1>1, <2>1, SumSupport
  <2>3. Sum(even, W) = q * Cardinality(W)
    BY <1>1, <1>5, <2>1, SumConstant
  <2> QED
    BY <2>2, <2>3 DEF n
<1>9. Sum(odd, Seats) = r
  <2>1. front \in SUBSET W /\ front \in SUBSET Seats /\ IsFiniteSet(front)
    <3>1. front \in SUBSET W /\ front \in SUBSET Seats
      BY <1>1
    <3> QED
      BY <1>1, <3>1, FS_Subset
  <2>2. Cardinality(front) = r
    <3>1. r \in 0..Cardinality(W)
      BY <1>3, <1>5 DEF n
    <3> QED
      BY <1>1, <3>1, NearestCount
  <2> HIDE DEF front
  <2>3. /\ \A i \in Seats : odd[i] \in Int
        /\ \A i \in Seats \ front : odd[i] = 0
        /\ \A i \in front : odd[i] = 1
    BY <2>1
  <2> HIDE DEF odd
  <2>4. Sum(odd, Seats) = Sum(odd, front)
    BY <1>1, <2>1, <2>3, SumSupport
  <2>5. Sum(odd, front) = 1 * Cardinality(front)
    BY <2>1, <2>3, SumConstant
  <2> QED
    BY <1>5, <2>2, <2>4, <2>5
<1>10. Sum(f, Seats) = pot.amount
  BY <1>5, <1>7, <1>8, <1>9
<1>11. \A i \in Seats : f[i] \in Nat /\ (i \notin W => f[i] = 0)
  BY <1>4, <1>5
<1> QED
  BY <1>10, <1>11 DEF f, W

\* Somebody can win every pot, and only somebody who is still in the hand and put in that much.
LEMMA PotsCanBeWon ==
    ASSUME DealtHere, NEW h \in HandType, Led(h), NEW pot \in Pots(h)
    PROVE  /\ pot.eligible # {} /\ pot.eligible \in SUBSET Alive(h)
           /\ \A i \in pot.eligible : pot.level <= Matched(h)[i]
           /\ \A i \in Alive(h) : pot.level <= Matched(h)[i] => i \in pot.eligible
<1> DEFINE M == Matched(h)
<1>1. PICK w \in Alive(h) : \A j \in Seats : h.committed[j] <= h.committed[w]
  BY DEF Led
<1>2. w \in Seats /\ \A j \in Seats : M[j] <= M[w]
  <2>1. w \in Seats
    BY DEF Alive
  <2> QED
    BY <1>1, <2>1, MatchedFacts
<1>3. /\ M \in [Seats -> Nat] /\ \E i \in Seats : pot.level = M[i]
      /\ pot.eligible = Eligible(h, Contributors(h, pot.level))
      /\ Alive(h) \subseteq Seats
  BY MatchedFacts, LevelFacts, PotFacts DEF Alive
<1> HIDE DEF M
<1>4. pot.level <= M[w] /\ pot.level \in Nat
  BY <1>2, <1>3
<1>5. \A i \in Seats : i \in Contributors(h, pot.level) <=> pot.level <= M[i]
  <2>1. \A i \in Seats : i \in Contributors(h, pot.level) <=> M[i] >= pot.level
    BY DEF Contributors, M
  <2> QED
    BY <1>3, <1>4, <2>1
<1>6. CASE Cardinality(Alive(h)) = 1
  <2>1. pot.eligible = Alive(h)
    BY <1>3, <1>6 DEF Eligible
  <2>2. \A i \in Alive(h) : i = w
    <3>1. IsFiniteSet(Alive(h))
      BY <1>3, SeatFacts, FS_Subset
    <3>2. \A x, y \in Alive(h) : x = y
      BY <1>6, <3>1, Few
    <3> QED
      BY <3>2
  <2> QED
    BY <1>4, <2>1, <2>2 DEF M
<1>7. CASE Cardinality(Alive(h)) # 1
  <2>1. pot.eligible = Contributors(h, pot.level) \cap Alive(h)
    BY <1>3, <1>7 DEF Eligible
  <2>2. w \in pot.eligible
    BY <1>2, <1>4, <1>5, <2>1
  <2> QED
    BY <1>3, <1>5, <2>1, <2>2 DEF M
<1> QED
  BY <1>6, <1>7

LEMMA LedCanSettle ==
    ASSUME DealtHere, NEW h \in HandType, Led(h), Cardinality(Alive(h)) > 1 => h.board = 5
    PROVE  CanSettle(h)
BY PotsCanBeWon DEF CanSettle

LEMMA RankingFacts ==
    ASSUME NEW h \in HandType, DealtHere, NEW rank \in Rankings(h)
    PROVE  rank \in [Seats -> Nat]
<1>1. Alive(h) \subseteq Seats
  BY DEF Alive
<1>2. IsFiniteSet(Alive(h))
  BY <1>1, SeatFacts, FS_Subset
<1>3. Cardinality(Alive(h)) \in Nat
  BY <1>2, FS_CardinalityType
<1>4. rank \in [Seats -> 0..Cardinality(Alive(h))]
  BY DEF Rankings
<1> QED
  BY <1>3, <1>4

LEMMA SharesFacts ==
    ASSUME DealtHere, NEW h \in HandType, Led(h), NEW rank \in Rankings(h), NEW pot \in Pots(h)
    PROVE  /\ \A i \in Seats : /\ Shares(pot, rank)[i] \in Nat
                               /\ Shares(pot, rank)[i] <= pot.amount
                               /\ i \notin Winners(pot, rank) => Shares(pot, rank)[i] = 0
           /\ Sum(Shares(pot, rank), Seats) = pot.amount
<1>1. rank \in [Seats -> Nat] /\ pot.amount \in Nat /\ pot.eligible # {} /\ IsFiniteSet(Seats)
      /\ pot.eligible \in SUBSET Seats
  BY RankingFacts, PotFacts, PotsCanBeWon, SeatFacts DEF Alive
<1>2. /\ \A i \in Seats : /\ Shares(pot, rank)[i] \in Nat
                          /\ i \notin Winners(pot, rank) => Shares(pot, rank)[i] = 0
      /\ Sum(Shares(pot, rank), Seats) = pot.amount
  BY <1>1, SharesOfPot
<1>3. \A i \in Seats : Shares(pot, rank)[i] <= Sum(Shares(pot, rank), Seats)
  BY <1>1, <1>2, SumAtLeast
<1> QED
  BY <1>2, <1>3

-----------------------------------------------------------------------------
(***************************************************************************)
(* The settlement of a hand.                                               *)
(***************************************************************************)

\* What seat i gets of each pot.
Won(h, rank, i) == [pot \in Pots(h) |-> Shares(pot, rank)[i]]
Amounts(h) == [pot \in Pots(h) |-> pot.amount]

LEMMA WonFacts ==
    ASSUME DealtHere, NEW h \in HandType, Led(h), NEW rank \in Rankings(h), NEW i \in Seats
    PROVE  /\ \A pot \in Pots(h) : /\ Won(h, rank, i)[pot] \in Nat
                                   /\ Won(h, rank, i)[pot] <= pot.amount
                                   /\ i \notin Winners(pot, rank) => Won(h, rank, i)[pot] = 0
           /\ Sum(Won(h, rank, i), Pots(h)) \in Nat
           /\ (\A pot \in Pots(h) : i \notin Winners(pot, rank))
                 => Sum(Won(h, rank, i), Pots(h)) = 0
<1> DEFINE f == Won(h, rank, i)
<1>1. \A pot \in Pots(h) : f[pot] = Shares(pot, rank)[i]
  BY DEF Won
<1>2. \A pot \in Pots(h) : /\ f[pot] \in Nat /\ f[pot] <= pot.amount
                           /\ i \notin Winners(pot, rank) => f[pot] = 0
  BY <1>1, SharesFacts
<1> HIDE DEF f
<1>3. IsFiniteSet(Pots(h))
  BY PotFacts
<1>4. Sum(f, Pots(h)) \in Nat
  BY <1>2, <1>3, SumNat
<1>5. ASSUME \A pot \in Pots(h) : i \notin Winners(pot, rank)
      PROVE  Sum(f, Pots(h)) = 0
  <2>1. \A pot \in Pots(h) : f[pot] \in Int /\ f[pot] = 0
    BY <1>2, <1>5
  <2>2. {} \in SUBSET Pots(h)
    OBVIOUS
  <2>3. Sum(f, Pots(h)) = Sum(f, {})
    BY <1>3, <2>1, <2>2, SumSupport
  <2> QED
    BY <2>3, SumEmpty
<1> QED
  BY <1>2, <1>4, <1>5 DEF f

\* All pots together hold what was matched.
LEMMA PotsHoldMatched ==
    ASSUME DealtHere, NEW h \in HandType, Led(h)
    PROVE  Sum(Amounts(h), Pots(h)) = Sum(Matched(h), Seats)
<1> DEFINE M == Matched(h)
<1>1. PICK w \in Alive(h) : \A j \in Seats : h.committed[j] <= h.committed[w]
  BY DEF Led
<1>2. w \in Seats
  BY DEF Alive
<1>3. M[w] \in Levels(h) \cup {0} /\ M \in [Seats -> Nat] /\ \A j \in Seats : M[j] <= M[w]
  BY <1>1, <1>2, LevelFacts, MatchedFacts
<1>4. UpTo(h, M[w]) = Pots(h)
  <2>1. ASSUME NEW pot \in Pots(h) PROVE pot.level <= M[w]
    <3>1. \E i \in Seats : pot.level = M[i]
      BY LevelFacts, PotFacts
    <3> QED
      BY <1>3, <3>1
  <2> QED
    BY <2>1 DEF UpTo
<1>5. \A pot \in Pots(h) : Amounts(h)[pot] = pot.amount
  BY DEF Amounts
<1> DEFINE least == [j \in Seats |-> Least(M[w], M[j])]
<1> HIDE DEF M
<1>6. \A j \in Seats : least[j] = M[j]
  BY <1>2, <1>3 DEF Least
<1>7. Sum(Amounts(h), UpTo(h, M[w])) = Sum(least, Seats)
  BY <1>3, <1>5, AmountsUpTo DEF M
<1> HIDE DEF least
<1>8. Sum(least, Seats) = Sum(M, Seats)
  BY <1>6, SeatFacts, SumEqual
<1> QED
  BY <1>4, <1>7, <1>8 DEF M

\* Everything in the pots is won by somebody.
LEMMA PotsAreWon ==
    ASSUME DealtHere, NEW h \in HandType, Led(h), NEW rank \in Rankings(h),
           NEW awards, \A i \in Seats : awards[i] = Sum(Won(h, rank, i), Pots(h))
    PROVE  Sum(awards, Seats) = Sum(Amounts(h), Pots(h))
<1> DEFINE table == [i \in Seats |-> Won(h, rank, i)]
           rows == [i \in Seats |-> Sum(table[i], Pots(h))]
           column == [pot \in Pots(h) |-> [i \in Seats |-> table[i][pot]]]
           columns == [pot \in Pots(h) |-> Sum([i \in Seats |-> table[i][pot]], Seats)]
<1>1. IsFiniteSet(Seats) /\ IsFiniteSet(Pots(h))
  BY SeatFacts, PotFacts
<1>2. \A i \in Seats : \A pot \in Pots(h) : table[i][pot] \in Int
  BY WonFacts
<1>3. \A i \in Seats : rows[i] = awards[i]
  OBVIOUS
<1>4. ASSUME NEW pot \in Pots(h) PROVE columns[pot] = Amounts(h)[pot]
  <2>1. \A i \in Seats : column[pot][i] = Shares(pot, rank)[i]
    BY DEF Won
  <2>2. columns[pot] = Sum(column[pot], Seats)
    OBVIOUS
  <2> HIDE DEF column, columns
  <2>3. Sum(column[pot], Seats) = Sum(Shares(pot, rank), Seats)
    BY <1>1, <2>1, SumEqual
  <2>4. Sum(Shares(pot, rank), Seats) = pot.amount
    BY SharesFacts
  <2> QED
    BY <2>2, <2>3, <2>4 DEF Amounts
<1> HIDE DEF table
<1>5. Sum(rows, Seats) = Sum(columns, Pots(h))
  BY <1>1, <1>2, SumSwap
<1> HIDE DEF rows, columns
<1>6. Sum(rows, Seats) = Sum(awards, Seats) /\ Sum(columns, Pots(h)) = Sum(Amounts(h), Pots(h))
  BY <1>1, <1>3, <1>4, SumEqual
<1> QED
  BY <1>5, <1>6

\* A seat wins at most what everybody put in up to its own contribution.
LEMMA WonAtMost ==
    ASSUME DealtHere, NEW h \in HandType, Led(h), NEW rank \in Rankings(h), NEW i \in Seats
    PROVE  Sum(Won(h, rank, i), Pots(h)) + h.committed[i] - Matched(h)[i]
              <= h.committed[i]
                 + Sum([j \in Seats \ {i} |-> Min({h.committed[i], h.committed[j]})], Seats \ {i})
<1> DEFINE M == Matched(h)
           S == UpTo(h, M[i])
           f == Won(h, rank, i)
           least == [j \in Seats |-> Least(M[i], M[j])]
           caps == [j \in Seats \ {i} |-> Min({h.committed[i], h.committed[j]})]
<1>1. /\ IsFiniteSet(Pots(h)) /\ IsFiniteSet(Seats) /\ IsFiniteSet(Seats \ {i})
      /\ M \in [Seats -> Nat] /\ M[i] \in Levels(h) \cup {0}
      /\ \A j \in Seats : M[j] <= h.committed[j] /\ h.committed[j] \in Nat
      /\ S \in SUBSET Pots(h)
  BY SeatFacts, PotFacts, LevelFacts, MatchedFacts, FS_RemoveElement DEF UpTo, HandType
<1>2. IsFiniteSet(S)
  BY <1>1, FS_Subset
<1>3. \A pot \in Pots(h) : /\ f[pot] \in Int /\ f[pot] <= Amounts(h)[pot]
                           /\ Amounts(h)[pot] \in Int /\ Amounts(h)[pot] = pot.amount
                           /\ i \notin Winners(pot, rank) => f[pot] = 0
  BY WonFacts, PotFacts DEF Amounts
<1>4. \A pot \in Pots(h) \ S : f[pot] = 0
  <2> SUFFICES ASSUME NEW pot \in Pots(h) \ S PROVE i \notin Winners(pot, rank)
    BY <1>3
  <2>1. ~(pot.level <= M[i])
    BY DEF UpTo
  <2>2. i \notin pot.eligible
    BY <2>1, PotsCanBeWon
  <2> QED
    BY <2>2 DEF Winners
<1> HIDE DEF M, S, f
<1>5. Sum(f, Pots(h)) = Sum(f, S)
  BY <1>1, <1>3, <1>4, SumSupport
<1>6. Sum(f, S) <= Sum(Amounts(h), S)
  BY <1>1, <1>2, <1>3, SumAtMost
<1>7. Sum(Amounts(h), S) = Sum(least, Seats)
  BY <1>1, <1>3, AmountsUpTo DEF S, M
<1>8. \A j \in Seats : least[j] \in Int /\ least[i] = M[i]
  BY <1>1 DEF Least
<1>9. \A j \in Seats \ {i} : caps[j] \in Int /\ least[j] <= caps[j]
  <2> SUFFICES ASSUME NEW j \in Seats \ {i} PROVE caps[j] \in Int /\ least[j] <= caps[j]
    OBVIOUS
  <2>1. /\ h.committed[i] \in Int /\ h.committed[j] \in Int /\ M[i] \in Int /\ M[j] \in Int
        /\ M[i] <= h.committed[i] /\ M[j] <= h.committed[j]
    BY <1>1
  <2>2. Min({h.committed[i], h.committed[j]})
           = IF h.committed[i] <= h.committed[j] THEN h.committed[i] ELSE h.committed[j]
    BY <2>1, LeastOfTwo
  <2> QED
    BY <2>1, <2>2 DEF Least
<1> HIDE DEF least, caps
<1>10. Sum(least, Seats) = M[i] + Sum(least, Seats \ {i})
  BY <1>1, <1>8, SumRemove
<1>11. Sum(least, Seats \ {i}) <= Sum(caps, Seats \ {i})
  BY <1>1, <1>8, <1>9, SumAtMost
<1>12. /\ Sum(f, Pots(h)) \in Int /\ Sum(Amounts(h), S) \in Int
       /\ Sum(least, Seats \ {i}) \in Int /\ Sum(caps, Seats \ {i}) \in Int
       /\ M[i] \in Int /\ h.committed[i] \in Int
  <2>1. Sum(f, Pots(h)) \in Int
    BY <1>1, <1>3, SumInt
  <2>2. Sum(Amounts(h), S) \in Int
    BY <1>1, <1>2, <1>3, SumInt
  <2>3. Sum(least, Seats \ {i}) \in Int /\ Sum(caps, Seats \ {i}) \in Int
    BY <1>1, <1>8, <1>9, SumInt
  <2> QED
    BY <1>1, <2>1, <2>2, <2>3
<1>13. Sum(f, Pots(h)) + h.committed[i] - M[i] <= h.committed[i] + Sum(caps, Seats \ {i})
  BY <1>5, <1>6, <1>7, <1>10, <1>11, <1>12
<1> QED
  BY <1>13 DEF f, caps, M

\* What the settlement s of a hand is, whatever the cards were.
SettlementType ==
    [refunds : [Seats -> Nat], awards : [Seats -> Nat], rank : [Seats -> Nat]]

PaidOut(h, s) == Sum(s.awards, Seats) + Sum(s.refunds, Seats) = Sum(h.committed, Seats)

PaidFairly(h, s) ==
    \A i \in Seats :
        /\ s.awards[i] + s.refunds[i]
              <= h.committed[i]
                 + Sum([j \in Seats \ {i} |-> Min({h.committed[i], h.committed[j]})], Seats \ {i})
        /\ i \in h.folded => s.awards[i] + s.refunds[i] = 0

PaidByRank(h, s) ==
    \A i, j \in Alive(h) :
        (s.rank[i] > s.rank[j] /\ h.committed[i] >= h.committed[j]) => s.awards[i] >= s.awards[j]

Settled(h, s) == s \in SettlementType /\ PaidOut(h, s) /\ PaidFairly(h, s) /\ PaidByRank(h, s)

LEMMA SettlementIsSound ==
    ASSUME DealtHere, NEW h \in HandType, Led(h), NEW rank \in Rankings(h),
           NEW s, s = Settlement(h, rank)
    PROVE  Settled(h, s)
<1> DEFINE M == Matched(h)
           c == h.committed
<1>1. /\ IsFiniteSet(Seats) /\ M \in [Seats -> Nat] /\ c \in [Seats -> Nat]
      /\ \A i \in Seats : M[i] <= c[i]
      /\ rank \in [Seats -> Nat] /\ Alive(h) \subseteq Seats
      /\ \A i \in Seats : i \in Alive(h) <=> i \notin h.folded
  BY SeatFacts, MatchedFacts, RankingFacts DEF HandType, Alive
<1>2. /\ s.refunds = [i \in Seats |-> c[i] - M[i]]
      /\ s.awards = [i \in Seats |-> Sum(Won(h, rank, i), Pots(h))]
      /\ s.rank = rank
      /\ s = [refunds |-> s.refunds, awards |-> s.awards, rank |-> s.rank]
  BY DEF Settlement, Won
<1> HIDE DEF M, c
<1>3. \A i \in Seats : /\ s.refunds[i] = c[i] - M[i] /\ s.refunds[i] \in Nat
                       /\ s.awards[i] = Sum(Won(h, rank, i), Pots(h)) /\ s.awards[i] \in Nat
  BY <1>1, <1>2, WonFacts
<1>4. s \in SettlementType
  <2>1. s.refunds \in [Seats -> Nat] /\ s.awards \in [Seats -> Nat] /\ s.rank \in [Seats -> Nat]
    BY <1>1, <1>2, <1>3
  <2> QED
    BY <1>2, <2>1 DEF SettlementType
<1>5. PaidOut(h, s)
  <2>1. Sum(s.awards, Seats) = Sum(M, Seats)
    BY <1>3, PotsAreWon, PotsHoldMatched DEF M
  <2>2. \A i \in Seats : /\ M[i] \in Int /\ s.refunds[i] \in Int /\ c[i] = M[i] + s.refunds[i]
    BY <1>1, <1>3
  <2>3. Sum(c, Seats) = Sum(M, Seats) + Sum(s.refunds, Seats)
    BY <1>1, <2>2, SumPlus
  <2> QED
    BY <2>1, <2>3 DEF PaidOut, c
<1>6. ASSUME NEW i \in Seats, i \notin Alive(h)
      PROVE  s.awards[i] + s.refunds[i] = 0
  <2>1. \A pot \in Pots(h) : i \notin Winners(pot, rank)
    BY <1>6, PotsCanBeWon DEF Winners
  <2>2. s.awards[i] = 0
    BY <1>3, <2>1, WonFacts
  <2>3. PICK w \in Alive(h) : \A j \in Seats : c[j] <= c[w]
    BY DEF Led, c
  <2>4. w \in Seats \ {i}
    BY <1>1, <1>6
  <2>5. Least(c[i], c[w]) <= M[i]
    BY <2>4, MatchedFacts DEF M, c
  <2>6. c[i] = M[i]
    BY <1>1, <2>3, <2>4, <2>5 DEF Least
  <2> QED
    BY <1>1, <1>3, <2>2, <2>6
<1>7. PaidFairly(h, s)
  <2> DEFINE cap(i) == Sum([j \in Seats \ {i} |-> Min({c[i], c[j]})], Seats \ {i})
  <2>1. ASSUME NEW i \in Seats
        PROVE  s.awards[i] + s.refunds[i] <= c[i] + cap(i)
    <3>1. Sum(Won(h, rank, i), Pots(h)) + c[i] - M[i] <= c[i] + cap(i)
      BY WonAtMost DEF M, c
    <3> HIDE DEF cap
    <3>2. s.awards[i] + s.refunds[i] = Sum(Won(h, rank, i), Pots(h)) + c[i] - M[i]
      BY <1>1, <1>3
    <3> QED
      BY <3>1, <3>2
  <2> QED
    BY <1>1, <1>6, <2>1 DEF PaidFairly, c
<1>8. PaidByRank(h, s)
  <2> SUFFICES ASSUME NEW i \in Alive(h), NEW j \in Alive(h), rank[i] > rank[j], c[i] >= c[j]
               PROVE  s.awards[i] >= s.awards[j]
    BY <1>2 DEF PaidByRank, c
  <2>1. M[j] <= M[i] /\ i \in Seats /\ j \in Seats
    <3>1. i \in Seats /\ j \in Seats
      BY <1>1
    <3>2. c[j] <= c[i]
      BY <1>1, <3>1
    <3> QED
      BY <3>1, <3>2, MatchedFacts DEF M, c
  <2>2. ASSUME NEW pot \in Pots(h) PROVE j \notin Winners(pot, rank)
    <3> SUFFICES ASSUME j \in pot.eligible, i \notin pot.eligible PROVE FALSE
      BY <1>1, <2>1 DEF Winners
    <3>1. pot.level <= M[j] /\ ~(pot.level <= M[i])
      BY PotsCanBeWon DEF M
    <3>2. pot.level \in Nat
      BY LevelFacts, PotFacts
    <3> QED
      BY <1>1, <2>1, <3>1, <3>2
  <2>3. s.awards[j] = 0
    BY <1>3, <2>1, <2>2, WonFacts
  <2> QED
    BY <1>3, <2>1, <2>3
<1> QED
  BY <1>4, <1>5, <1>7, <1>8 DEF Settled

-----------------------------------------------------------------------------
(***************************************************************************)
(* The invariant holds, and the theorems.                                  *)
(***************************************************************************)
IInv ==
    /\ DealtHere
    /\ HandOK(hand)
    /\ IF Over(hand) THEN Settled(hand, settlement) ELSE settlement = Undecided

\* A move of the current seat, and where it leaves the hand.
LEMMA AfterMove ==
    ASSUME DealtHere, HandOK(hand), NEW i \in Seats, NEW m \in Moves(hand, i),
           NEW h, h = After(hand, i, m)
    PROVE  /\ HandOK(h) /\ hand.current = i /\ ~Over(hand)
           /\ h.phase # hand.phase /\ h.phase # "settled" => Done(Moved(hand, i, m))
<1>1. hand \in HandType /\ ChipsOK(hand)
  BY DEF HandOK
<1>2. hand.current = i /\ ~Over(hand)
  BY <1>1, MoveFacts, SeatFacts DEF Over
<1>3. Playing(hand)
  BY <1>2 DEF HandOK
<1>4. MovedOK(Moved(hand, i, m), i)
  BY <1>1, <1>3, MovedKeeps
<1>5. Moved(hand, i, m).phase = hand.phase
  BY <1>1 DEF Moved, HandType
<1>6. h = Advanced(Moved(hand, i, m), i)
  BY DEF After
<1> QED
  BY <1>2, <1>4, <1>5, <1>6, AdvancedKeeps

LEMMA OverIsLed ==
    ASSUME DealtHere, NEW h, HandOK(h), Over(h)
    PROVE  h \in HandType /\ Led(h) /\ CanSettle(h)
<1>1. h \in HandType /\ Led(h) /\ (Cardinality(Alive(h)) > 1 => h.board = 5)
  BY DEF HandOK
<1> QED
  BY <1>1, LedCanSettle

LEMMA SameSettlement ==
    ASSUME UNCHANGED <<button, initial>>, Settled(hand', settlement')
    PROVE  Settled(hand, settlement)'
<1>1. Seats' = Seats
  BY DEF Seats
<1>2. Alive(hand)' = Alive(hand')
  BY <1>1 DEF Alive
<1>3. SettlementType' = SettlementType
  BY <1>1 DEF SettlementType
<1>4. PaidOut(hand, settlement)'
  BY <1>1 DEF Settled, PaidOut
<1>5. PaidFairly(hand, settlement)'
  BY <1>1 DEF Settled, PaidFairly
<1>6. PaidByRank(hand, settlement)'
  BY <1>2 DEF Settled, PaidByRank
<1> QED
  BY <1>3, <1>4, <1>5, <1>6 DEF Settled

LEMMA Invariance == Spec => []IInv
<1>1. Init => IInv
  <2> SUFFICES ASSUME Init PROVE IInv
    OBVIOUS
  <2>1. PICK t \in Tables : button = t.button /\ initial = t.stacks
    BY DEF Init
  <2>2. DealtHere
    BY <2>1, TableAssumption DEF DealtHere
  <2>3. HandOK(hand)
    BY <2>2, DealtKeeps DEF Init
  <2>4. ~Over(hand)
    <3>1. hand.current = First(Seats, Bb) /\ Bb \in 0..5 /\ Bb \in Seats
      BY <2>2, BlindSeats DEF Init, Dealt, Bb
    <3>2. First(Seats, Bb) \in Seats
      BY <2>2, <3>1, SeatFacts, FirstFacts
    <3> QED
      BY <2>2, <3>1, <3>2, SeatFacts DEF Over
  <2> QED
    BY <2>2, <2>3, <2>4 DEF Init, IInv
<1>2. IInv /\ [Next]_vars => IInv'
  <2> SUFFICES ASSUME IInv, [Next]_vars PROVE IInv'
    OBVIOUS
  <2>1. CASE UNCHANGED vars
    <3>1. DealtHere' /\ HandOK(hand)'
      <4>1. HandOK(hand') /\ UNCHANGED <<button, initial>> /\ DealtHere
        BY <2>1 DEF IInv, vars
      <4> QED
        BY <4>1, SameTable
    <3>2. CASE Over(hand)
      <4>1. UNCHANGED <<button, initial>> /\ Settled(hand', settlement') /\ Over(hand)'
        BY <2>1, <3>2 DEF IInv, vars, Over
      <4>2. Settled(hand, settlement)'
        BY <4>1, SameSettlement
      <4> QED
        BY <3>1, <4>1, <4>2 DEF IInv
    <3>3. CASE ~Over(hand)
      BY <2>1, <3>1, <3>3 DEF IInv, vars, Over, Undecided, Nothing, Seats
    <3> QED
      BY <3>2, <3>3
  <2>2. ASSUME NEW i \in Seats, Act(i) PROVE IInv'
    <3>1. PICK m \in Moves(hand, i) :
              /\ hand' = After(hand, i, m)
              /\ IF Over(hand')
                 THEN CanSettle(hand') /\ \E rank \in Rankings(hand') : settlement' = Settlement(hand', rank)
                 ELSE settlement' = settlement
              /\ UNCHANGED <<button, initial>>
      BY <2>2 DEF Act
    <3>2. HandOK(hand') /\ ~Over(hand)
      BY <3>1, AfterMove DEF IInv
    <3>3. DealtHere' /\ HandOK(hand)'
      BY <3>1, <3>2, SameTable DEF IInv
    <3>4. CASE Over(hand')
      <4>1. PICK rank \in Rankings(hand') : settlement' = Settlement(hand', rank)
        BY <3>1, <3>4
      <4>2. hand' \in HandType /\ Led(hand')
        BY <3>2, <3>4, OverIsLed DEF IInv
      <4>3. Settled(hand', settlement')
        BY <4>1, <4>2, SettlementIsSound DEF IInv
      <4>4. Settled(hand, settlement)'
        BY <3>1, <4>3, SameSettlement
      <4> QED
        BY <3>3, <3>4, <4>4 DEF IInv, Over
    <3>5. CASE ~Over(hand')
      <4>1. settlement' = Undecided /\ Undecided' = Undecided
        BY <3>1, <3>2, <3>5 DEF IInv, Undecided, Nothing, Seats
      <4> QED
        BY <3>3, <3>5, <4>1 DEF IInv, Over
    <3> QED
      BY <3>4, <3>5
  <2> QED
    BY <2>1, <2>2 DEF Next
<1> QED
  BY <1>1, <1>2, PTL DEF Spec

\* A hand in play always has a move for the seat it asks, and no move that seat may make
\* leads to a hand that settle_multiway rejects, so a table is never stuck on a hand.
THEOREM GoesOn == Spec => []HandGoesOn
<1>1. IInv => HandGoesOn
  <2> SUFFICES ASSUME IInv PROVE TypeOK /\ NoMoveIsRefused
    BY DEF HandGoesOn
  <2>1. hand \in HandType /\ DealtHere /\ HandOK(hand)
    BY DEF IInv, HandOK
  <2>2. settlement \in SettlementType
    BY DEF IInv, Settled, SettlementType, Undecided, Nothing
  <2>3. TypeOK
    BY <2>1, <2>2 DEF TypeOK, HandType, SettlementType, DealtHere
  <2>4. ASSUME ~Over(hand) PROVE Moves(hand, hand.current) # {}
    <3>1. hand.current \in Seats /\ hand.current \notin hand.folded /\ hand.stack[hand.current] # 0
      BY <2>1, <2>4, ActorFacts DEF HandOK, Playing, HandType
    <3> QED
      BY <3>1 DEF Moves
  <2>5. ASSUME ~Over(hand), NEW m \in Moves(hand, hand.current),
               Over(After(hand, hand.current, m))
        PROVE  CanSettle(After(hand, hand.current, m))
    <3> DEFINE h == After(hand, hand.current, m)
    <3>1. hand.current \in Seats
      BY <2>1, <2>5, ActorFacts DEF HandOK, Playing
    <3>2. HandOK(h)
      BY <2>1, <3>1, AfterMove
    <3> HIDE DEF h
    <3>3. Over(h) => CanSettle(h)
      BY <2>1, <3>2, OverIsLed
    <3> QED
      BY <2>5, <3>3 DEF h
  <2> QED
    BY <2>3, <2>4, <2>5 DEF NoMoveIsRefused
<1> QED
  BY <1>1, Invariance, PTL

\* What a seat brought is in front of it or in the pot, and the awards and refunds of
\* settle_multiway pay out exactly what was put in, odd chips included.
THEOREM NoChipIsLost == Spec => []ChipsAreConserved
<1>1. IInv => ChipsAreConserved
  <2> SUFFICES ASSUME IInv PROVE ChipsAreConserved
    OBVIOUS
  <2>1. hand \in HandType /\ ChipsOK(hand)
    BY DEF IInv, HandOK
  <2>2. \A i \in Seats : hand.stack[i] + hand.committed[i] = initial[i]
    BY <2>1 DEF ChipsOK
  <2>3. ASSUME Over(hand)
        PROVE  Total(settlement.awards) + Total(settlement.refunds) = Total(hand.committed)
    <3>1. settlement \in SettlementType /\ PaidOut(hand, settlement)
      BY <2>3 DEF IInv, Settled
    <3>2. /\ DOMAIN settlement.awards = Seats /\ DOMAIN settlement.refunds = Seats
          /\ DOMAIN hand.committed = Seats
      BY <2>1, <3>1 DEF SettlementType, HandType
    <3> QED
      BY <3>1, <3>2 DEF Total, PaidOut
  <2> QED
    BY <2>2, <2>3 DEF ChipsAreConserved
<1> QED
  BY <1>1, Invariance, PTL

\* However the live hands compare, nobody is paid more than was risked against them, a folded
\* seat is paid nothing, and a better hand that risked as much is never paid less.
THEOREM PaysFairly == Spec => []ShowdownIsFair
<1>1. IInv => ShowdownIsFair
  <2> SUFFICES ASSUME IInv, Over(hand) PROVE NobodyWinsMoreThanMatched /\ BetterHandIsPaidMore
    BY DEF ShowdownIsFair, NobodyWinsMoreThanMatched, BetterHandIsPaidMore
  <2>1. PaidFairly(hand, settlement) /\ PaidByRank(hand, settlement)
    BY DEF IInv, Settled
  <2>2. NobodyWinsMoreThanMatched
    BY <2>1 DEF NobodyWinsMoreThanMatched, PaidFairly, Total
  <2>3. BetterHandIsPaidMore
    BY <2>1 DEF BetterHandIsPaidMore, PaidByRank
  <2> QED
    BY <2>2, <2>3
<1> QED
  BY <1>1, Invariance, PTL

\* A street closes only behind seats that have matched the bet, each after having had its
\* say when more than one of them can still bet.
THEOREM ClosesFairly == Spec => StreetClosesFairly
<1> DEFINE Closes ==
        (hand'.phase # hand.phase /\ hand'.phase # "settled") =>
            \E m \in Moves(hand, hand.current) :
                LET h == Moved(hand, hand.current, m)
                IN  /\ After(hand, hand.current, m) = hand'
                    /\ \A i \in Actors(h) :
                          /\ h.street[i] = h.bet
                          /\ Cardinality(Actors(h)) > 1 => h.actedTo[i] # NotActed
<1>1. IInv /\ [Next]_vars => [Closes]_vars
  <2> SUFFICES ASSUME IInv, NEW i \in Seats, Act(i) PROVE Closes
    BY DEF Next
  <2>1. PICK m \in Moves(hand, i) : hand' = After(hand, i, m)
    BY DEF Act
  <2>2. /\ hand.current = i
        /\ hand'.phase # hand.phase /\ hand'.phase # "settled" => Done(Moved(hand, i, m))
    BY <2>1, AfterMove DEF IInv
  <2> QED
    BY <2>1, <2>2 DEF Done
<1> QED
  BY <1>1, Invariance, PTL DEF Spec, StreetClosesFairly

-----------------------------------------------------------------------------
(***************************************************************************)
(* The hand comes to an end, and keeps its promise to the table.           *)
(***************************************************************************)

\* A part of a finite set that is not all of it is smaller.
LEMMA FewerMembers ==
    ASSUME NEW S, IsFiniteSet(S), NEW T \in SUBSET S, T # S
    PROVE  Cardinality(T) < Cardinality(S)
<1>1. IsFiniteSet(T) /\ Cardinality(T) <= Cardinality(S) /\ Cardinality(T) # Cardinality(S)
  BY FS_Subset
<1>2. Cardinality(T) \in Nat /\ Cardinality(S) \in Nat
  BY <1>1, FS_CardinalityType
<1> QED
  BY <1>1, <1>2

\* The promise adds up as the hand does.
LEMMA SameTotal == \A f : Promise!Total(f) = Total(f)
BY DEF Promise!Total, Promise!Sum, Promise!MapThenSumSet, Promise!MapThenFoldSet,
       Total, Sum, MapThenSumSet, MapThenFoldSet

\* What is left of a hand in play, and what a finished one has paid.
LEMMA LeftFacts ==
    ASSUME DealtHere, NEW h, HandOK(h)
    PROVE  /\ h.pending \in SUBSET Seats /\ Cardinality(h.pending) \in 0..6
           /\ h.stack \in [Seats -> Nat] /\ Total(h.stack) = Sum(h.stack, Seats)
           /\ Sum(h.stack, Seats) \in Nat
           /\ ~Over(h) => StreetsLeft[h.phase] \in 0..3
           /\ Left(h) \in Nat
           /\ ~Over(h) => Left(h) > 0
<1>1. h \in HandType /\ h.pending \in SUBSET Seats /\ h.stack \in [Seats -> Nat]
  BY DEF HandOK, HandType
<1>2. IsFiniteSet(Seats) /\ Seats \in SUBSET (0..5)
  BY SeatFacts
<1>3. Cardinality(h.pending) \in 0..6
  <2>1. 0 \in Int /\ 5 \in Int
    OBVIOUS
  <2>2. IsFiniteSet(0..5) /\ Cardinality(0..5) = 6
    <3>1. Cardinality(0..5) = IF 0 > 5 THEN 0 ELSE 5 - 0 + 1
      BY <2>1, FS_Interval
    <3>2. IsFiniteSet(0..5)
      BY <2>1, FS_Interval
    <3> HIDE DEF Cardinality
    <3> QED
      BY <3>1, <3>2
  <2>3. h.pending \subseteq 0..5
    BY <1>1, <1>2
  <2>4. IsFiniteSet(h.pending) /\ Cardinality(h.pending) <= 6
    BY <2>2, <2>3, FS_Subset
  <2> QED
    BY <2>4, FS_CardinalityType
<1>4. Total(h.stack) = Sum(h.stack, Seats) /\ Sum(h.stack, Seats) \in Nat
  <2>1. DOMAIN h.stack = Seats
    BY <1>1
  <2> QED
    BY <1>1, <1>2, <2>1, SumNat DEF Total
<1>5. ~Over(h) => StreetsLeft[h.phase] \in 0..3
  BY DEF HandOK, Playing, BoardOf, StreetsLeft
<1> QED
  BY <1>1, <1>3, <1>4, <1>5 DEF Left

\* A raise costs a chip; a move that is no raise crosses the seat off and costs nothing less
\* than no chip.
LEMMA MovedNears ==
    ASSUME DealtHere, NEW h, HandOK(h), NEW i \in Seats, NEW m \in Moves(h, i),
           NEW g, g = Moved(h, i, m)
    PROVE  /\ g.phase = h.phase /\ g.stack \in [Seats -> Nat]
           /\ \/ Sum(g.stack, Seats) < Sum(h.stack, Seats)
              \/ Sum(g.stack, Seats) <= Sum(h.stack, Seats) /\ g.pending \subseteq h.pending \ {i}
<1>1. h \in HandType /\ ChipsOK(h)
  BY DEF HandOK
<1>2. /\ m.cost \in Nat /\ m.cost <= h.stack[i] /\ m.bet \in Nat
      /\ Folds(h, m) \/ Calls(h, i, m) \/ Raises(h, i, m)
  BY <1>1, MoveFacts
<1>3. h.stack \in [Seats -> Nat] /\ h.street \in [Seats -> Nat] /\ h.bet \in Nat
  BY <1>1 DEF HandType
<1>4. /\ g.phase = h.phase
      /\ g.stack = [h.stack EXCEPT ![i] = h.stack[i] - m.cost]
      /\ m.bet = h.bet => g.pending = h.pending \ {i}
  BY <1>1, <1>2, <1>3 DEF Moved, Remaining, HandType
<1>5. g.stack \in [Seats -> Nat]
  BY <1>2, <1>3, <1>4
<1>6. Sum(g.stack, Seats) = Sum(h.stack, Seats) - m.cost
  <2>1. /\ \A x \in Seats : h.stack[x] \in Int /\ g.stack[x] \in Int
        /\ \A x \in Seats \ {i} : g.stack[x] = h.stack[x]
        /\ g.stack[i] = h.stack[i] - m.cost
    BY <1>3, <1>4, <1>5
  <2>2. IsFiniteSet(Seats)
    BY SeatFacts
  <2>3. Sum(g.stack, Seats) = Sum(h.stack, Seats) - h.stack[i] + g.stack[i]
    BY <2>1, <2>2, SumChange
  <2>4. Sum(h.stack, Seats) \in Int
    BY <2>1, <2>2, SumInt
  <2> QED
    BY <1>2, <1>3, <2>1, <2>3, <2>4
<1>7. Sum(h.stack, Seats) \in Int
  BY LeftFacts
<1>8. CASE Raises(h, i, m)
  <2>1. m.cost > 0
    BY <1>1, <1>2, <1>3, <1>8 DEF Raises, ChipsOK
  <2> QED
    BY <1>2, <1>4, <1>5, <1>6, <1>7, <2>1
<1>9. CASE Folds(h, m) \/ Calls(h, i, m)
  <2>1. g.pending = h.pending \ {i}
    BY <1>4, <1>9 DEF Folds, Calls
  <2> QED
    BY <1>2, <1>4, <1>5, <1>6, <1>7, <2>1
<1> QED
  BY <1>2, <1>8, <1>9

\* Who is asked next was to be asked anyway, or a street has closed.
LEMMA AdvancedNears ==
    ASSUME DealtHere, NEW g, NEW i \in Seats, MovedOK(g, i), NEW h, h = Advanced(g, i), ~Over(h)
    PROVE  /\ h.stack = g.stack
           /\ \/ h.phase = g.phase /\ h.pending \subseteq g.pending
              \/ StreetsLeft[h.phase] = StreetsLeft[g.phase] - 1
<1> DEFINE actors == Actors(g)
           waiting == g.pending \cap actors
           owing == {j \in actors : g.street[j] < g.bet}
<1>1. /\ g \in HandType /\ SaidOK(g) /\ g.phase \in DOMAIN BoardOf /\ g.bet \in Nat
      /\ actors \subseteq Seats /\ \A j \in Seats : g.street[j] \in Nat
  BY ActorFacts DEF MovedOK, HandType
<1>2. owing \subseteq g.pending
  <2>1. ASSUME NEW j \in actors, j \notin g.pending PROVE ~(g.street[j] < g.bet)
    BY <1>1, <2>1 DEF SaidOK
  <2> QED
    BY <2>1
<1>3. \A phase, board : Over(Ended(g, phase, board))
  BY <1>1 DEF Over, Ended, HandType
<1>4. /\ h # Ended(g, "settled", g.board) /\ h # RunOut(g) /\ h # Ended(g, "showdown", g.board)
  BY <1>3 DEF RunOut
<1>5. \/ h = [g EXCEPT !.current = First(owing, i), !.pending = owing]
      \/ h = [g EXCEPT !.current = First(waiting, i), !.pending = waiting]
      \/ h = StreetOpened(g) /\ g.phase # "river"
  BY <1>4 DEF Advanced
<1>6. CASE h = [g EXCEPT !.current = First(owing, i), !.pending = owing]
  BY <1>1, <1>2, <1>6 DEF HandType
<1>7. CASE h = [g EXCEPT !.current = First(waiting, i), !.pending = waiting]
  BY <1>1, <1>7 DEF HandType
<1>8. CASE h = StreetOpened(g) /\ g.phase # "river"
  <2>1. h.stack = g.stack /\ h.phase = NextStreet[g.phase]
    BY <1>1, <1>8 DEF StreetOpened, HandType
  <2>2. g.phase \in {"pre_flop", "flop", "turn"}
    BY <1>1, <1>8 DEF BoardOf
  <2> QED
    BY <2>1, <2>2 DEF NextStreet, StreetsLeft
<1> QED
  BY <1>5, <1>6, <1>7, <1>8

\* Every move brings the hand nearer to its end.
LEMMA MoveNears ==
    ASSUME DealtHere, HandOK(hand), NEW i \in Seats, NEW m \in Moves(hand, i),
           NEW h, h = After(hand, i, m)
    PROVE  Left(h) \in Nat /\ Left(h) < Left(hand)
<1> DEFINE g == Moved(hand, i, m)
           P(x) == Cardinality(x.pending)
           S(x) == Sum(x.stack, Seats)
           R(x) == StreetsLeft[x.phase]
<1>1. HandOK(h) /\ hand.current = i /\ ~Over(hand)
  BY AfterMove
<1>2. hand \in HandType /\ ChipsOK(hand) /\ Playing(hand)
  BY <1>1 DEF HandOK
<1>3. MovedOK(g, i)
  BY <1>2, MovedKeeps
<1>4. h = Advanced(g, i)
  BY DEF After
<1>5. /\ Left(h) \in Nat /\ Left(hand) \in Nat /\ Left(hand) > 0
      /\ P(h) \in 0..6 /\ P(hand) \in 0..6 /\ S(h) \in Nat /\ S(hand) \in Nat
      /\ ~Over(h) => R(h) \in 0..3
      /\ R(hand) \in 0..3
      /\ hand.pending \in SUBSET Seats
      /\ Total(h.stack) = S(h) /\ Total(hand.stack) = S(hand)
  BY <1>1, LeftFacts
<1>6. CASE Over(h)
  BY <1>5, <1>6 DEF Left
<1>7. CASE ~Over(h)
  <2>1. Left(h) = 1 + P(h) + 7 * (R(h) + S(h)) /\ Left(hand) = 1 + P(hand) + 7 * (R(hand) + S(hand))
    BY <1>1, <1>5, <1>7 DEF Left
  <2>2. /\ g.phase = hand.phase
        /\ \/ S(g) < S(hand)
           \/ S(g) <= S(hand) /\ g.pending \subseteq hand.pending \ {i}
    BY MovedNears
  <2>3. /\ h.stack = g.stack
        /\ \/ h.phase = g.phase /\ h.pending \subseteq g.pending
           \/ R(h) = R(g) - 1
    <3> HIDE DEF g
    <3> QED
      BY <1>3, <1>4, <1>7, AdvancedNears
  <2>4. S(h) = S(g) /\ R(g) = R(hand)
    BY <2>2, <2>3
  <2> HIDE DEF g
  <2>5. CASE R(h) = R(hand) - 1
    <3>1. S(h) <= S(hand)
      BY <1>5, <2>2, <2>4
    <3> HIDE DEF P, S, R
    <3> QED
      BY <1>5, <1>7, <2>1, <2>5, <3>1
  <2>6. CASE h.phase = hand.phase /\ S(h) < S(hand)
    <3>1. R(h) = R(hand)
      BY <2>6
    <3> HIDE DEF P, S, R
    <3> QED
      BY <1>5, <1>7, <2>1, <2>6, <3>1
  <2>7. CASE h.phase = hand.phase /\ S(h) <= S(hand) /\ h.pending \subseteq hand.pending \ {i}
    <3>1. R(h) = R(hand)
      BY <2>7
    <3>2. P(h) < P(hand)
      <4>1. IsFiniteSet(hand.pending)
        BY <1>5, SeatFacts, FS_Subset
      <4>2. i \in hand.pending
        BY <1>1, <1>2 DEF Playing
      <4>3. h.pending \subseteq hand.pending /\ h.pending # hand.pending
        BY <2>7, <4>2
      <4> QED
        BY <4>1, <4>3, FewerMembers
    <3> HIDE DEF P, S, R
    <3> QED
      BY <1>5, <1>7, <2>1, <2>7, <3>1, <3>2
  <2> QED
    BY <2>2, <2>3, <2>4, <2>5, <2>6, <2>7
<1> QED
  BY <1>6, <1>7

\* The cash-outs of a finished hand are what its seats brought.
LEMMA CashIsStakes ==
    ASSUME DealtHere, NEW h, HandOK(h), Over(h), NEW s, Settled(h, s),
           NEW cash, cash = [i \in Seats |-> h.stack[i] + s.awards[i] + s.refunds[i]]
    PROVE  cash \in [Seats -> Nat] /\ Total(cash) = Total(initial)
<1> DEFINE paid == [i \in Seats |-> s.awards[i] + s.refunds[i]]
<1>1. /\ s.awards \in [Seats -> Nat] /\ s.refunds \in [Seats -> Nat] /\ PaidOut(h, s)
      /\ h.stack \in [Seats -> Nat] /\ h.committed \in [Seats -> Nat] /\ ChipsOK(h)
      /\ IsFiniteSet(Seats) /\ \A i \in Seats : initial[i] \in Nat
  BY SeatFacts DEF HandOK, HandType, Settled, SettlementType
<1>2. \A i \in Seats : /\ h.stack[i] \in Int /\ h.committed[i] \in Int
                       /\ s.awards[i] \in Int /\ s.refunds[i] \in Int
                       /\ paid[i] \in Int /\ paid[i] = s.awards[i] + s.refunds[i]
                       /\ cash[i] = h.stack[i] + paid[i]
                       /\ initial[i] = h.stack[i] + h.committed[i]
  BY <1>1 DEF ChipsOK
<1>3. cash \in [Seats -> Nat]
  BY <1>1
<1> HIDE DEF paid
<1>4. Sum(paid, Seats) = Sum(s.awards, Seats) + Sum(s.refunds, Seats)
  <2> DEFINE a == s.awards
             b == s.refunds
  <2>1. \A i \in Seats : a[i] \in Int /\ b[i] \in Int /\ paid[i] = a[i] + b[i]
    BY <1>2
  <2> HIDE DEF a, b
  <2>2. Sum(paid, Seats) = Sum(a, Seats) + Sum(b, Seats)
    BY <1>1, <2>1, SumPlus
  <2> QED
    BY <2>2 DEF a, b
<1>5. Sum(cash, Seats) = Sum(h.stack, Seats) + Sum(paid, Seats)
  BY <1>1, <1>2, SumPlus
<1>6. Sum(initial, Seats) = Sum(h.stack, Seats) + Sum(h.committed, Seats)
  BY <1>1, <1>2, SumPlus
<1>7. Sum(cash, Seats) = Sum(initial, Seats)
  BY <1>1, <1>4, <1>5, <1>6 DEF PaidOut
<1>8. DOMAIN cash = Seats /\ DOMAIN initial = Seats
  BY <1>3 DEF Seats
<1> QED
  BY <1>3, <1>7, <1>8 DEF Total

\* Seen from the table the hand is a HandPromise: it asks one of the seats that paid, every
\* move brings it nearer to its end, and the end pays exactly what was brought, so nothing a
\* raise, a short all-in or a side pot does can keep the chips or the table for ever.
THEOREM HandKeepsPromise == Spec => KeepsPromise
<1> USE DEF Promise!Ask, Promise!PayOut, Promise!NoSeat
<1>1. Init => Promise!Init
  <2> SUFFICES ASSUME Init PROVE Promise!Init
    OBVIOUS
  <2>1. PICK t \in Tables : button = t.button /\ initial = t.stacks
    BY DEF Init
  <2>2. DealtHere
    BY <2>1, TableAssumption DEF DealtHere
  <2>3. HandOK(hand)
    BY <2>2, DealtKeeps DEF Init
  <2>4. hand.current \in Seats /\ ~Over(hand)
    <3>1. hand.current = First(Seats, Bb) /\ Bb \in 0..5 /\ Bb \in Seats
      BY <2>2, BlindSeats DEF Init, Dealt, Bb
    <3> QED
      BY <2>2, <3>1, SeatFacts, FirstFacts DEF Over
  <2>5. Left(hand) \in Nat
    BY <2>2, <2>3, LeftFacts
  <2>6. CashOuts = [i \in DOMAIN initial |-> 0]
    BY <2>4 DEF CashOuts, Seats
  <2> QED
    BY <2>1, <2>4, <2>5, <2>6 DEF Promise!Init, Seats
<1>2. IInv /\ [Next]_vars =>
          [Promise!Ask \/ Promise!PayOut]_<<initial, hand.current, Left(hand), CashOuts>>
  <2> SUFFICES ASSUME IInv, [Next]_vars
               PROVE  [Promise!Ask \/ Promise!PayOut]_<<initial, hand.current, Left(hand), CashOuts>>
    OBVIOUS
  <2>1. CASE UNCHANGED vars
    BY <2>1 DEF vars, Left, Over, CashOuts, Seats
  <2>2. ASSUME NEW i \in Seats, Act(i)
        PROVE  Promise!Ask \/ Promise!PayOut
    <3>1. PICK m \in Moves(hand, i) :
              /\ hand' = After(hand, i, m)
              /\ IF Over(hand')
                 THEN CanSettle(hand') /\ \E rank \in Rankings(hand') : settlement' = Settlement(hand', rank)
                 ELSE settlement' = settlement
              /\ UNCHANGED <<button, initial>>
      BY <2>2 DEF Act
    <3>2. HandOK(hand') /\ ~Over(hand) /\ DealtHere
      BY <3>1, AfterMove DEF IInv
    <3>3. Left(hand') \in Nat /\ Left(hand') < Left(hand)
      BY <3>1, MoveNears DEF IInv
    <3>4. Left(hand)' = Left(hand') /\ Seats' = Seats
      BY <3>1 DEF Left, Over, Seats
    <3>5. CASE ~Over(hand')
      <4>1. hand'.current \in Seats
        BY <3>2, <3>5, ActorFacts DEF HandOK, Playing
      <4>2. CashOuts' = CashOuts
        BY <3>2, <3>4, <3>5 DEF CashOuts, Over
      <4> QED
        BY <3>1, <3>2, <3>3, <3>4, <4>1, <4>2 DEF Over, Seats, NoSeat
    <3>6. CASE Over(hand')
      <4>1. PICK rank \in Rankings(hand') : settlement' = Settlement(hand', rank)
        BY <3>1, <3>6
      <4>2. Settled(hand', settlement')
        BY <3>2, <3>6, <4>1, OverIsLed, SettlementIsSound
      <4>3. CashOuts' = [j \in Seats |-> hand'.stack[j] + settlement'.awards[j] + settlement'.refunds[j]]
        BY <3>4, <3>6 DEF CashOuts, Over
      <4>4. CashOuts' \in [Seats -> Nat] /\ Total(CashOuts') = Total(initial)
        BY <3>2, <3>6, <4>2, <4>3, CashIsStakes
      <4> QED
        BY <3>1, <3>2, <3>3, <3>4, <3>6, <4>4, SameTotal DEF Over, Seats, NoSeat
    <3> QED
      BY <3>5, <3>6
  <2> QED
    BY <2>1, <2>2 DEF Next
<1> QED
  BY <1>1, <1>2, Invariance, PTL DEF Spec, KeepsPromise, Promise!Spec
=============================================================================
