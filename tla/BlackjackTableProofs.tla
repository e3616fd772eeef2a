------------------------ MODULE BlackjackTableProofs ------------------------
(***************************************************************************)
(* Proofs about the shared Blackjack tables, for any number of seats,      *)
(* players, tables and bets and for rounds of any length.                  *)
(***************************************************************************)
EXTENDS BlackjackTable, SumsProofs, FiniteSetTheorems, TLAPS

Statuses == {"absent", "waiting", "active", "settled", "closed"}
MemberType == [user : User \cup {Nobody}, leaving : BOOLEAN]
PlayerType == [ready : BOOLEAN, bet : Nat,
               status : {"none", "waiting", "playing", "finished", "leaving"}]
HandType == [bet : Nat, cards : 0..(2 + MaxHits),
             state : {"none", "playing", "natural", "stood", "bust"}]
RowType ==
    [status : Statuses, host : Seat \cup {NoSeat}, members : [Seat -> MemberType],
     players : [Seat -> PlayerType], round : 0..MaxRounds, roster : [Seat -> User \cup {Nobody}],
     hands : [Seat -> HandType], turn : Seat \cup {NoSeat}, deadline : Nat \cup {NoDeadline}]

\* Every seat that is taken has an owner of its own, who leaves only during a round.
SeatsOK(row) ==
    /\ \A i \in Taken(row) : row.members[i].user \in User
    /\ \A i, j \in Taken(row) : i # j => row.members[i].user # row.members[j].user
    /\ \A i \in Seat : row.members[i].leaving => row.status = "active"

\* A hand that can draw has room for one more card.
HandsOK(row) ==
    \A i \in Seat : /\ row.hands[i].state = "none" => row.hands[i] = NoHand
                    /\ row.hands[i].state = "playing" => row.hands[i].cards \in 2..(1 + MaxHits)

RosterOK(row) ==
    row.status = "active" =>
        \A i \in Seat : /\ (row.roster[i] # Nobody) <=> (row.hands[i] # NoHand)
                        /\ row.roster[i] # Nobody => row.members[i].user = row.roster[i]

PlayersOK(row) ==
    \A i \in Seat : /\ (row.players[i] # NoPlayer) <=> (i \in Taken(row))
                    /\ (row.players[i].status = "leaving") <=> row.members[i].leaving
HostOK(row) == IF Staying(row) = {} THEN row.host = NoSeat ELSE row.host \in Staying(row)
OpenOK(row) ==
    /\ Staying(row) = {} => row.status \in {"absent", "active", "closed"}
    /\ row.status \in {"absent", "closed"} => Taken(row) = {}

\* A round that is played waits for an open hand, and nobody is ready for the next one.
NoneReady(row) == \A i \in Seat : ~row.players[i].ready
TurnOK(row) == row.status = "active" => row.turn \in Playing(row) /\ NoneReady(row)

Sound(row) ==
    /\ SeatsOK(row) /\ HandsOK(row) /\ RosterOK(row)
    /\ PlayersOK(row) /\ HostOK(row) /\ OpenOK(row) /\ TurnOK(row)

\* Whoever is shown as ready is a member who has agreed to the bet that is shown.
ReadyOK(row, bets) ==
    \A i \in Seat : row.players[i].ready =>
        /\ i \in Taken(row)
        /\ row.players[i].bet \in Bets /\ bets[row.members[i].user] = row.players[i].bet

TablesOK ==
    /\ table \in [Room -> RowType]
    /\ agreed \in [Room -> [User -> Bets \cup {0}]]
    /\ \A r \in Room : Sound(table[r]) /\ ReadyOK(table[r], agreed[r])

RestOK == due \subseteq Room /\ held \in Room \cup {NoRoom}

IInv == balance \in [User -> Nat] /\ bank \in Int /\ TablesOK /\ RestOK

-----------------------------------------------------------------------------
(***************************************************************************)
(* Seats.                                                                  *)
(***************************************************************************)
LEMMA SeatFacts == IsFiniteSet(Seat) /\ Seat \subseteq Nat /\ NoSeat \notin Seat
<1>1. Capacity \in Nat
  BY TableAssumption
<1>. QED BY <1>1, FS_Interval DEF Seat, NoSeat

LEMMA MinOfSeats == ASSUME NEW S \in SUBSET Seat, S # {} PROVE Min(S) \in S
<1>1. S \in SUBSET Seat /\ IsFiniteSet(Seat) /\ Seat \subseteq Int
  BY SeatFacts
<1>2. IsFiniteSet(S) /\ S \in SUBSET Int
  BY <1>1, FS_Subset
<1>. QED BY <1>2, MinOfFinite

LEMMA RowFields ==
    ASSUME NEW row \in RowType
    PROVE  /\ row.status \in Statuses /\ row.host \in Seat \cup {NoSeat}
           /\ row.members \in [Seat -> MemberType] /\ row.players \in [Seat -> PlayerType]
           /\ row.round \in 0..MaxRounds /\ row.roster \in [Seat -> User \cup {Nobody}]
           /\ row.hands \in [Seat -> HandType] /\ row.turn \in Seat \cup {NoSeat}
           /\ row.deadline \in Nat \cup {NoDeadline}
BY DEF RowType

\* Who sits where is told by the members alone.
LEMMA SameMembers ==
    ASSUME NEW row, NEW new, new.members = row.members
    PROVE  Taken(new) = Taken(row) /\ Staying(new) = Staying(row)
BY DEF Taken, Staying

LEMMA TakenFacts ==
    ASSUME NEW row \in RowType
    PROVE  /\ Staying(row) \subseteq Taken(row) /\ Taken(row) \subseteq Seat
           /\ \A i \in Seat \ Taken(row) : row.members[i] = Empty /\ ~row.members[i].leaving
           /\ \A i \in Taken(row) : i \in Staying(row) \/ row.members[i].leaving
           /\ \A i \in Seat : row.members[i].user \in User => i \in Taken(row)
<1>1. Nobody \notin User
  BY TableAssumption
<1>. QED BY <1>1 DEF Taken, Staying, Empty

LEMMA NextHostFacts ==
    ASSUME NEW row \in RowType
    PROVE  IF Staying(row) = {} THEN NextHost(row) = NoSeat ELSE NextHost(row) \in Staying(row)
<1>1. Staying(row) \in SUBSET Seat
  BY TakenFacts
<1>2. CASE row.host \in Staying(row)
  BY <1>2 DEF NextHost
<1>3. CASE row.host \notin Staying(row)
  BY <1>1, <1>3, MinOfSeats DEF NextHost
<1>. QED BY <1>2, <1>3

\* refresh_lobby: players and host follow the members, and nothing else changes.
LEMMA RefreshedFacts ==
    ASSUME NEW row \in RowType,
           \A i \in Taken(row) : row.players[i].status = "leaving" => row.members[i].leaving
    PROVE  LET new == Refreshed(row) IN
           /\ new \in RowType
           /\ new.members = row.members /\ new.roster = row.roster /\ new.hands = row.hands
           /\ new.turn = row.turn /\ new.deadline = row.deadline /\ new.round = row.round
           /\ new.status = IF Staying(row) = {} /\ row.status # "active" THEN "closed" ELSE row.status
           /\ PlayersOK(new) /\ HostOK(new)
           /\ \A i \in Seat : new.players[i].ready =>
                 i \in Taken(row) /\ row.players[i].ready /\ new.players[i].bet = row.players[i].bet
<1> DEFINE kept(i) == IF row.players[i] = NoPlayer THEN NewPlayer ELSE row.players[i]
           shown(i) == IF row.members[i].leaving THEN [kept(i) EXCEPT !.status = "leaving"] ELSE kept(i)
           players == [i \in Seat |-> IF i \in Taken(row) THEN shown(i) ELSE NoPlayer]
           status == IF Staying(row) = {} /\ row.status # "active" THEN "closed" ELSE row.status
           host == NextHost(row)
           new == Refreshed(row)
<1>1. new = [row EXCEPT !.players = players, !.host = host, !.status = status]
  BY DEF Refreshed
<1>2. \A i \in Seat : /\ (kept(i) \in PlayerType /\ kept(i).status # "none") \/ kept(i) = row.players[i]
                      /\ kept(i).ready => row.players[i].ready /\ kept(i).bet = row.players[i].bet
  BY RowFields DEF NewPlayer, NoPlayer, PlayerType
<1>3. \A i \in Seat : kept(i) \in PlayerType
  BY RowFields DEF NewPlayer, PlayerType
<1>4. ASSUME NEW i \in Seat
      PROVE  /\ players[i] \in PlayerType
             /\ (players[i] # NoPlayer) <=> (i \in Taken(row))
             /\ (players[i].status = "leaving") <=> row.members[i].leaving
             /\ players[i].ready =>
                   i \in Taken(row) /\ row.players[i].ready /\ players[i].bet = row.players[i].bet
  <2>1. CASE i \notin Taken(row)
    <3>1. players[i] = NoPlayer /\ ~row.members[i].leaving
      BY <2>1, TakenFacts
    <3>. QED BY <2>1, <3>1 DEF NoPlayer, PlayerType
  <2>2. CASE i \in Taken(row) /\ row.members[i].leaving
    <3> DEFINE k == kept(i)
    <3>1. k \in PlayerType /\ (k.ready => row.players[i].ready /\ k.bet = row.players[i].bet)
      BY <1>2, <1>3
    <3>2. players[i] = [k EXCEPT !.status = "leaving"]
      BY <2>2
    <3> HIDE DEF players, kept
    <3>. QED BY <2>2, <3>1, <3>2 DEF NoPlayer, PlayerType
  <2>3. CASE i \in Taken(row) /\ ~row.members[i].leaving
    <3>1. players[i] = kept(i)
      BY <2>3
    <3>2. kept(i) # NoPlayer
      BY DEF NewPlayer, NoPlayer
    <3>3. kept(i).status # "leaving"
      BY <2>3 DEF NewPlayer
    <3>. QED BY <1>2, <1>3, <2>3, <3>1, <3>2, <3>3
  <2>. QED BY <2>1, <2>2, <2>3
<1>5. players \in [Seat -> PlayerType]
  BY <1>4
<1> HIDE DEF players, kept, shown
<1>6. host \in Seat \cup {NoSeat} /\ status \in Statuses
  BY NextHostFacts, TakenFacts, RowFields DEF Statuses
<1> HIDE DEF status, host
<1>7. /\ new \in RowType
      /\ new.members = row.members /\ new.roster = row.roster /\ new.hands = row.hands
      /\ new.turn = row.turn /\ new.deadline = row.deadline /\ new.round = row.round
      /\ new.status = status /\ new.players = players /\ new.host = host
  BY <1>1, <1>5, <1>6 DEF RowType
<1> HIDE DEF new
<1>8. Taken(new) = Taken(row) /\ Staying(new) = Staying(row)
  BY <1>7, SameMembers
<1>9. PlayersOK(new)
  BY <1>4, <1>7, <1>8 DEF PlayersOK
<1>10. HostOK(new)
  BY <1>7, <1>8, NextHostFacts DEF HostOK, host
<1>. QED BY <1>4, <1>7, <1>9, <1>10 DEF status, new

-----------------------------------------------------------------------------
(***************************************************************************)
(* A round goes on or is settled.                                          *)
(***************************************************************************)

\* A table in the middle of an operation on its round.
Midway(row) ==
    /\ row \in RowType /\ row.status = "active"
    /\ SeatsOK(row) /\ HandsOK(row) /\ RosterOK(row)

\* update: the members are shown as they are, and none of them is ready.
LEMMA WithPlayersFacts ==
    ASSUME NEW row \in RowType
    PROVE  LET new == WithPlayers(row) IN
           /\ new \in RowType
           /\ new.members = row.members /\ new.roster = row.roster /\ new.hands = row.hands
           /\ new.turn = row.turn /\ new.deadline = row.deadline /\ new.round = row.round
           /\ new.status = row.status
           /\ NoneReady(new)
           /\ \A i \in Taken(row) : new.players[i].status = "leaving" => row.members[i].leaving
<1> DEFINE players == [i \in Seat |-> IF i \in Taken(row) THEN Shown(row, i) ELSE NoPlayer]
<1>1. WithPlayers(row) = [row EXCEPT !.players = players]
  BY DEF WithPlayers
<1>2. ASSUME NEW i \in Seat
      PROVE  /\ players[i] \in PlayerType /\ ~players[i].ready
             /\ i \in Taken(row) => (players[i].status = "leaving" => row.members[i].leaving)
  <2>1. CASE i \notin Taken(row)
    BY <2>1 DEF NoPlayer, PlayerType
  <2>2. CASE i \in Taken(row)
    <3>1. row.hands[i].bet \in Nat
      BY RowFields DEF HandType
    <3>. QED BY <2>2, <3>1 DEF Shown, PlayerType
  <2>. QED BY <2>1, <2>2
<1>3. players \in [Seat -> PlayerType]
  BY <1>2
<1> HIDE DEF players
<1>4. /\ WithPlayers(row) \in RowType /\ WithPlayers(row).players = players
      /\ WithPlayers(row).members = row.members /\ WithPlayers(row).roster = row.roster
      /\ WithPlayers(row).hands = row.hands /\ WithPlayers(row).turn = row.turn
      /\ WithPlayers(row).deadline = row.deadline /\ WithPlayers(row).round = row.round
      /\ WithPlayers(row).status = row.status
  BY <1>1, <1>3 DEF RowType
<1>5. Taken(row) \subseteq Seat
  BY TakenFacts
<1>. QED BY <1>2, <1>4, <1>5 DEF NoneReady

\* update while a hand is open.
LEMMA ContinuedFacts ==
    ASSUME NEW row, Midway(row), Playing(row) # {}
    PROVE  LET new == Continued(row) IN
           /\ new \in RowType /\ Sound(new) /\ NoneReady(new) /\ new.status = "active"
           /\ new.hands = row.hands /\ new.round = row.round
<1> DEFINE mid == [row EXCEPT !.turn = NextTurn(row), !.deadline = TurnTime]
           shown == WithPlayers(mid)
           new == Refreshed(shown)
<1>1. NextTurn(row) \in Playing(row) /\ NextTurn(row) \in Seat
  <2>1. Playing(row) \in SUBSET Seat
    BY DEF Playing
  <2>. QED BY <2>1, MinOfSeats DEF NextTurn
<1>2. TurnTime \in Nat
  BY TableAssumption
<1>3. /\ mid \in RowType /\ mid.status = "active" /\ mid.members = row.members
      /\ mid.roster = row.roster /\ mid.hands = row.hands /\ mid.round = row.round
      /\ mid.turn = NextTurn(row)
  BY <1>1, <1>2 DEF Midway, RowType
<1> HIDE DEF mid
<1>4. /\ shown \in RowType /\ shown.status = "active" /\ shown.members = row.members
      /\ shown.roster = row.roster /\ shown.hands = row.hands /\ shown.round = row.round
      /\ shown.turn = NextTurn(row) /\ NoneReady(shown)
      /\ \A i \in Taken(shown) : shown.players[i].status = "leaving" => shown.members[i].leaving
  BY <1>3, WithPlayersFacts, SameMembers
<1> HIDE DEF shown
<1>5. /\ new \in RowType /\ new.status = "active" /\ new.members = row.members
      /\ new.roster = row.roster /\ new.hands = row.hands /\ new.round = row.round
      /\ new.turn = NextTurn(row) /\ PlayersOK(new) /\ HostOK(new)
      /\ \A i \in Seat : new.players[i].ready => shown.players[i].ready
  BY <1>4, RefreshedFacts
<1>6. new = Continued(row)
  BY DEF Continued, shown, mid
<1> HIDE DEF new
<1>7. NoneReady(new)
  BY <1>4, <1>5 DEF NoneReady
<1>8. Taken(new) = Taken(row) /\ Staying(new) = Staying(row)
  BY <1>5, SameMembers
<1>9. SeatsOK(new) /\ HandsOK(new) /\ RosterOK(new)
  BY <1>5, <1>8 DEF Midway, SeatsOK, HandsOK, RosterOK
<1>10. OpenOK(new) /\ TurnOK(new)
  BY <1>1, <1>5, <1>7 DEF OpenOK, TurnOK, Playing
<1>11. Sound(new)
  BY <1>5, <1>9, <1>10 DEF Sound
<1>. QED BY <1>5, <1>6, <1>7, <1>11

\* update once the round is settled.
LEMMA SettledFacts ==
    ASSUME NEW row, Midway(row)
    PROVE  LET new == Settled(row) IN
           /\ new \in RowType /\ Sound(new) /\ NoneReady(new) /\ new.status # "active"
           /\ new.round = row.round
<1> DEFINE over == [row EXCEPT !.status = "settled", !.turn = NoSeat, !.deadline = NoDeadline,
                               !.members = Vacated(row)]
           shown == WithPlayers(over)
           fresh == Refreshed(shown)
           hands == [i \in Seat |-> NoHand]
           new == [fresh EXCEPT !.hands = hands]
<1>1. /\ Vacated(row) \in [Seat -> MemberType]
      /\ \A i \in Seat : /\ ~Vacated(row)[i].leaving
                         /\ Vacated(row)[i] # Empty => Vacated(row)[i] = row.members[i]
  <2>1. Empty \in MemberType /\ ~Empty.leaving
    BY DEF Empty, MemberType
  <2>2. row.members \in [Seat -> MemberType]
    BY RowFields DEF Midway
  <2>. QED BY <2>1, <2>2 DEF Vacated
<1>2. over \in RowType /\ over.status = "settled" /\ over.members = Vacated(row) /\ over.round = row.round
  BY <1>1 DEF Midway, RowType, Statuses
<1> HIDE DEF over
<1>3. /\ shown \in RowType /\ shown.status = "settled" /\ shown.members = Vacated(row)
      /\ shown.round = row.round /\ NoneReady(shown)
      /\ \A i \in Taken(shown) : shown.players[i].status = "leaving" => shown.members[i].leaving
  BY <1>2, WithPlayersFacts, SameMembers
<1> HIDE DEF shown
<1>4. /\ fresh \in RowType /\ fresh.members = Vacated(row) /\ fresh.round = row.round
      /\ fresh.status = IF Staying(shown) = {} THEN "closed" ELSE "settled"
      /\ PlayersOK(fresh) /\ HostOK(fresh)
      /\ \A i \in Seat : fresh.players[i].ready => shown.players[i].ready
  BY <1>3, RefreshedFacts
<1> HIDE DEF fresh
<1>5. hands \in [Seat -> HandType] /\ \A i \in Seat : hands[i] = NoHand
  <2>1. NoHand \in HandType
    BY TableAssumption DEF NoHand, HandType
  <2>. QED BY <2>1
<1> HIDE DEF hands
<1>6. /\ new \in RowType /\ new.members = Vacated(row) /\ new.round = row.round
      /\ new.status = fresh.status /\ new.players = fresh.players /\ new.host = fresh.host
      /\ new.hands = hands
  BY <1>4, <1>5 DEF RowType
<1>7. new = Settled(row)
  BY DEF Settled, shown, over, fresh, hands
<1> HIDE DEF new
<1>8. NoneReady(new)
  BY <1>3, <1>4, <1>6 DEF NoneReady
<1>9. /\ Taken(new) = Taken(fresh) /\ Staying(new) = Staying(fresh) /\ Staying(new) = Staying(shown)
      /\ Staying(new) = Taken(new)
  <2>1. new.members = fresh.members /\ new.members = shown.members
    BY <1>3, <1>4, <1>6
  <2>2. \A i \in Seat : ~new.members[i].leaving
    BY <1>1, <1>6
  <2>. QED BY <2>1, <2>2, SameMembers DEF Taken, Staying
<1>10. PlayersOK(new) /\ HostOK(new)
  BY <1>4, <1>6, <1>9 DEF PlayersOK, HostOK
<1>11. SeatsOK(new)
  <2>1. \A i \in Taken(new) : i \in Taken(row) /\ new.members[i] = row.members[i]
    BY <1>1, <1>6 DEF Taken
  <2>2. \A i \in Seat : ~new.members[i].leaving
    BY <1>1, <1>6
  <2>. QED BY <2>1, <2>2 DEF Midway, SeatsOK
<1>12. HandsOK(new)
  BY <1>5, <1>6 DEF HandsOK, NoHand
<1>13. new.status # "active" /\ OpenOK(new)
  BY <1>4, <1>6, <1>9 DEF OpenOK
<1>14. Sound(new)
  BY <1>10, <1>11, <1>12, <1>13 DEF Sound, RosterOK, TurnOK
<1>. QED BY <1>6, <1>7, <1>8, <1>13, <1>14

-----------------------------------------------------------------------------
(***************************************************************************)
(* The chips of a round.                                                   *)
(***************************************************************************)
BetsOf(row) == [i \in Seat |-> row.hands[i].bet]

LEMMA OnTableFacts ==
    ASSUME NEW row \in RowType
    PROVE  /\ OnTable(row) \in Int
           /\ \A i \in Seat : BetsOf(row)[i] \in Nat
           /\ OnTable(row) = IF row.status = "active" THEN Sum(BetsOf(row), Seat) ELSE 0
<1>1. \A i \in Seat : BetsOf(row)[i] \in Nat /\ BetsOf(row)[i] \in Int
  BY RowFields DEF BetsOf, HandType
<1>2. Sum(BetsOf(row), Seat) \in Int
  BY <1>1, SeatFacts, SumInt
<1>3. Total(BetsOf(row)) = Sum(BetsOf(row), Seat)
  BY DEF Total, BetsOf
<1>4. OnTable(row) = IF row.status = "active" THEN Total(BetsOf(row)) ELSE 0
  BY DEF OnTable, BetsOf
<1>. QED BY <1>1, <1>2, <1>3, <1>4

\* A hand is paid nothing, its bet, twice its bet or half as much again.
LEMMA PaysFacts ==
    ASSUME NEW hand \in HandType, NEW dealer
    PROVE  Pays(hand, dealer) \subseteq Nat /\ (hand.state = "none" => Pays(hand, dealer) = {0})
<1>1. hand.bet \in Nat
  BY DEF HandType
<1>2. (hand.bet * 3) \div 2 \in Nat
  BY <1>1
<1>3. 2 * hand.bet \in Nat /\ hand.bet + (hand.bet * 3) \div 2 \in Nat
  BY <1>1, <1>2
<1>. QED BY <1>1, <1>3 DEF Pays

\* What is paid goes to the players of the round.
LEMMA PayoutFacts ==
    ASSUME NEW row, Midway(row), NEW dealer, NEW pay \in Payouts(row.hands, dealer)
    PROVE  /\ pay \in [Seat -> Nat] /\ Total(pay) = Sum(pay, Seat) /\ Sum(pay, Seat) \in Int
           /\ \A u : Credited(row, pay, u) = Owned(pay, Seat, row.roster, u)
           /\ \A u : Credited(row, pay, u) \in Nat
           /\ Sum(Gathered(pay, Seat, row.roster, User), User) = Sum(pay, Seat)
<1>1. row \in RowType /\ \A i \in Seat : row.hands[i] \in HandType
  BY RowFields DEF Midway
<1>2. /\ pay \in [Seat -> UNION {Pays(row.hands[i], dealer) : i \in Seat}]
      /\ \A i \in Seat : pay[i] \in Pays(row.hands[i], dealer)
  BY DEF Payouts
<1>3. DOMAIN pay = Seat /\ \A i \in Seat : pay[i] \in Nat
  BY <1>1, <1>2, PaysFacts
<1>4. pay \in [Seat -> Nat]
  BY <1>2, <1>3
<1>5. \A i \in Seat : pay[i] \in Int
  BY <1>3
<1>6. Total(pay) = Sum(pay, Seat) /\ Sum(pay, Seat) \in Int
  BY <1>3, <1>5, SeatFacts, SumInt DEF Total
<1>7. ASSUME NEW u PROVE Credited(row, pay, u) = Owned(pay, Seat, row.roster, u) /\ Credited(row, pay, u) \in Nat
  <2> DEFINE mine == {i \in Seat : row.roster[i] = u}
  <2>1. Credited(row, pay, u) = Sum(pay, mine) /\ Owned(pay, Seat, row.roster, u) = Sum(pay, mine)
    BY DEF Credited, Owned
  <2>2. IsFiniteSet(mine) /\ \A i \in mine : pay[i] \in Nat
    BY <1>3, SeatFacts, FS_Subset
  <2> HIDE DEF mine
  <2>. QED BY <2>1, <2>2, SumNat
<1>8. Sum(Gathered(pay, Seat, row.roster, User), User) = Sum(pay, Seat)
  <2> DEFINE owned == {i \in Seat : row.roster[i] \in User}
  <2>1. Sum(Gathered(pay, Seat, row.roster, User), User) = Sum(pay, owned)
    <3> DEFINE own == row.roster
    <3>1. IsFiniteSet(Seat) /\ IsFiniteSet(User)
      BY SeatFacts, TableAssumption
    <3>2. owned = {i \in Seat : own[i] \in User}
      OBVIOUS
    <3> HIDE DEF own, owned
    <3>3. Sum(Gathered(pay, Seat, own, User), User) = Sum(pay, {i \in Seat : own[i] \in User})
      BY ONLY <1>5, <3>1, SumOfGathered
    <3>. QED BY <3>2, <3>3 DEF own
  <2>2. \A i \in Seat \ owned : pay[i] = 0
    <3>1. SUFFICES ASSUME NEW i \in Seat, row.roster[i] \notin User PROVE pay[i] = 0
      OBVIOUS
    <3>2. row.roster[i] = Nobody
      BY <1>1, <3>1, RowFields
    <3>3. row.hands[i] = NoHand
      BY <3>2 DEF Midway, RosterOK
    <3>. QED BY <1>1, <1>2, <3>3, PaysFacts DEF NoHand
  <2>3. owned \in SUBSET Seat
    OBVIOUS
  <2> HIDE DEF owned
  <2>4. Sum(pay, Seat) = Sum(pay, owned)
    BY <1>5, <2>2, <2>3, SeatFacts, SumSupport
  <2>. QED BY <2>1, <2>4
<1>. QED BY <1>4, <1>6, <1>7, <1>8

\* What update makes of a table in the middle of an operation, and of the chips.
UpdatedTo(r, row, wallets, new) ==
    /\ new \in RowType /\ Sound(new) /\ NoneReady(new) /\ new.round = row.round
    /\ table' = [table EXCEPT ![r] = new]
    /\ balance' \in [User -> Nat] /\ bank' \in Int
    /\ Sum(balance', User) + bank' + OnTable(new) = Sum(wallets, User) + bank + OnTable(row)

LEMMA UpdateOutcome ==
    ASSUME bank \in Int, NEW r, NEW row, Midway(row), NEW wallets \in [User -> Nat], NEW dealers,
           Update(r, row, wallets, dealers)
    PROVE  \E new : UpdatedTo(r, row, wallets, new)
<1>1. row \in RowType /\ row.status = "active"
  BY DEF Midway
<1>2. OnTable(row) \in Int /\ Sum(wallets, User) \in Int
  <2>1. IsFiniteSet(User) /\ \A u \in User : wallets[u] \in Int
    BY TableAssumption
  <2>. QED BY <1>1, <2>1, OnTableFacts, SumInt
<1>3. CASE /\ Playing(row) # {} /\ table' = [table EXCEPT ![r] = Continued(row)]
           /\ balance' = wallets /\ bank' = bank
  <2> DEFINE new == Continued(row)
  <2>1. /\ new \in RowType /\ Sound(new) /\ NoneReady(new) /\ new.status = "active"
        /\ new.hands = row.hands /\ new.round = row.round
    BY <1>3, ContinuedFacts
  <2>2. table' = [table EXCEPT ![r] = new]
    BY <1>3
  <2> HIDE DEF new
  <2>3. OnTable(new) = OnTable(row)
    BY <1>1, <2>1 DEF OnTable
  <2>4. UpdatedTo(r, row, wallets, new)
    BY <1>3, <2>1, <2>2, <2>3 DEF UpdatedTo
  <2>. QED BY <2>4
<1>4. ASSUME NEW dealer, NEW pay \in Payouts(row.hands, dealer),
             balance' = [u \in User |-> wallets[u] + Credited(row, pay, u)],
             bank' = bank + OnTable(row) - Total(pay),
             table' = [table EXCEPT ![r] = Settled(row)]
      PROVE  \E new : UpdatedTo(r, row, wallets, new)
  <2> DEFINE new == Settled(row)
             shares == Gathered(pay, Seat, row.roster, User)
  <2>1. /\ new \in RowType /\ Sound(new) /\ NoneReady(new) /\ new.status # "active"
        /\ new.round = row.round
    BY SettledFacts
  <2>2. table' = [table EXCEPT ![r] = new]
    BY <1>4
  <2> HIDE DEF new
  <2>3. /\ Total(pay) = Sum(pay, Seat) /\ Sum(pay, Seat) \in Int /\ Sum(shares, User) = Sum(pay, Seat)
        /\ \A u : Credited(row, pay, u) \in Nat
        /\ \A u \in User : shares[u] = Credited(row, pay, u)
    BY PayoutFacts DEF Gathered
  <2> HIDE DEF shares
  <2>4. \A u \in User : wallets[u] \in Int /\ shares[u] \in Int /\ balance'[u] = wallets[u] + shares[u]
    BY <1>4, <2>3
  <2>5. Sum(balance', User) = Sum(wallets, User) + Sum(shares, User)
    BY <2>4, TableAssumption, SumPlus
  <2>6. OnTable(new) = 0
    BY <2>1 DEF OnTable
  <2>7. balance' \in [User -> Nat]
    BY <1>4, <2>3
  <2>8. bank' \in Int
    BY <1>2, <1>4, <2>3
  <2>9. Sum(balance', User) + bank' + OnTable(new) = Sum(wallets, User) + bank + OnTable(row)
    BY <1>2, <1>4, <2>3, <2>5, <2>6
  <2>10. UpdatedTo(r, row, wallets, new)
    BY <2>1, <2>2, <2>7, <2>8, <2>9 DEF UpdatedTo
  <2>. QED BY <2>10
<1>. QED BY <1>3, <1>4 DEF Update

-----------------------------------------------------------------------------
(***************************************************************************)
(* Operations.                                                             *)
(***************************************************************************)

\* A table before an operation that changes its members.
Stored(row) == row \in RowType /\ SeatsOK(row) /\ HandsOK(row) /\ RosterOK(row)
               /\ PlayersOK(row) /\ TurnOK(row)

\* join, and the seat of the creator.
LEMMA SatDownFacts ==
    ASSUME NEW row, Stored(row), row.status \in {"waiting", "active", "settled"},
           NEW i \in Seat, i \notin Taken(row), NEW u \in User,
           \A j \in Seat : row.members[j].user # u
    PROVE  LET new == SatDown(row, i, u) IN
           /\ new \in RowType /\ Sound(new)
           /\ new.hands = row.hands /\ new.status = row.status /\ new.round = row.round
           /\ \A j \in Seat : new.players[j].ready =>
                 /\ j \in Taken(row) /\ j \in Taken(new) /\ row.players[j].ready
                 /\ new.players[j].bet = row.players[j].bet /\ new.members[j] = row.members[j]
<1> DEFINE seat == [user |-> u, leaving |-> FALSE]
           mid == [row EXCEPT !.members[i] = seat]
           new == Refreshed(mid)
<1>1. row \in RowType
  BY DEF Stored
<1>2. seat \in MemberType /\ seat # Empty /\ u # Nobody
  BY TableAssumption DEF MemberType, Empty
<1>3. /\ mid \in RowType /\ mid.members = [row.members EXCEPT ![i] = seat]
      /\ mid.players = row.players /\ mid.hands = row.hands /\ mid.status = row.status
      /\ mid.round = row.round /\ mid.roster = row.roster /\ mid.turn = row.turn
  BY <1>1, <1>2 DEF RowType
<1>4. mid.members[i] = seat /\ \A j \in Seat \ {i} : mid.members[j] = row.members[j]
  BY <1>1, <1>3, RowFields
<1>5. new = SatDown(row, i, u)
  BY DEF SatDown
<1> HIDE DEF mid
<1>6. Taken(mid) = Taken(row) \cup {i} /\ i \in Staying(mid)
  BY <1>2, <1>4 DEF Taken, Staying
<1>7. \A j \in Taken(mid) : mid.players[j].status = "leaving" => mid.members[j].leaving
  <2>1. mid.players[i] = NoPlayer
    BY <1>3 DEF Stored, PlayersOK
  <2>. QED BY <1>3, <1>4, <2>1 DEF Stored, PlayersOK, NoPlayer, Taken
<1>8. /\ new \in RowType /\ new.members = mid.members /\ new.roster = row.roster
      /\ new.hands = row.hands /\ new.turn = row.turn /\ new.round = row.round
      /\ new.status = row.status /\ PlayersOK(new) /\ HostOK(new)
      /\ \A j \in Seat : new.players[j].ready =>
            j \in Taken(mid) /\ row.players[j].ready /\ new.players[j].bet = row.players[j].bet
  <2>1. mid \in RowType /\ Staying(mid) # {}
    BY <1>3, <1>6
  <2>2. /\ new \in RowType /\ new.members = mid.members /\ new.roster = mid.roster
        /\ new.hands = mid.hands /\ new.turn = mid.turn /\ new.round = mid.round
        /\ new.status = IF Staying(mid) = {} /\ mid.status # "active" THEN "closed" ELSE mid.status
        /\ PlayersOK(new) /\ HostOK(new)
        /\ \A j \in Seat : new.players[j].ready =>
              j \in Taken(mid) /\ mid.players[j].ready /\ new.players[j].bet = mid.players[j].bet
    BY ONLY <1>7, <2>1, RefreshedFacts
  <2> HIDE DEF new
  <2>. QED BY <1>3, <2>1, <2>2
<1> HIDE DEF new
<1>9. Taken(new) = Taken(row) \cup {i} /\ Staying(new) # {}
  BY <1>6, <1>8, SameMembers
<1>10. ~row.players[i].ready
  BY DEF Stored, PlayersOK, NoPlayer
<1>11. SeatsOK(new)
  <2>1. \A j \in Taken(row) : j \in Seat /\ j # i /\ new.members[j] = row.members[j]
    BY <1>4, <1>8 DEF Taken
  <2>2. new.members[i] = seat /\ \A j \in Seat \ {i} : new.members[j] = row.members[j]
    BY <1>4, <1>8
  <2>. QED BY <1>8, <1>9, <2>1, <2>2 DEF Stored, SeatsOK
<1>12. RosterOK(new)
  <2>1. ASSUME row.status = "active" PROVE row.roster[i] = Nobody
    <3>1. row.roster[i] # Nobody => row.members[i].user \in User
      BY <1>1, <2>1, RowFields DEF Stored, RosterOK
    <3>. QED BY <1>1, <3>1, TakenFacts
  <2>2. \A j \in Seat \ {i} : new.members[j] = row.members[j]
    BY <1>4, <1>8
  <2>. QED BY <1>8, <2>1, <2>2 DEF Stored, RosterOK
<1>13. HandsOK(new) /\ TurnOK(new)
  BY <1>8 DEF Stored, HandsOK, TurnOK, Playing, NoneReady
<1>14. OpenOK(new)
  BY <1>8, <1>9 DEF OpenOK
<1>15. Sound(new)
  BY <1>8, <1>11, <1>12, <1>13, <1>14 DEF Sound
<1>16. ASSUME NEW j \in Seat, new.players[j].ready
       PROVE  /\ j \in Taken(row) /\ j \in Taken(new) /\ row.players[j].ready
              /\ new.players[j].bet = row.players[j].bet /\ new.members[j] = row.members[j]
  <2>1. row.players[j].ready /\ j # i /\ j \in Taken(mid)
    BY <1>8, <1>10, <1>16
  <2>. QED BY <1>4, <1>6, <1>8, <1>9, <1>16, <2>1
<1>. QED BY <1>5, <1>8, <1>15, <1>16

\* apply "leave".
LEMMA LeftFacts ==
    ASSUME NEW row \in RowType, Sound(row), NEW i \in Staying(row)
    PROVE  LET new == Refreshed(Departed(row, i)) IN
           /\ new \in RowType /\ Sound(new)
           /\ new.hands = row.hands /\ new.round = row.round
           /\ (new.status = "active") <=> (row.status = "active")
           /\ \A j \in Seat : new.players[j].ready =>
                 /\ j # i /\ j \in Taken(new) /\ row.players[j].ready
                 /\ new.players[j].bet = row.players[j].bet /\ new.members[j] = row.members[j]
<1> DEFINE playing == row.status = "active" /\ row.roster[i] # Nobody
           seat == IF playing THEN [row.members[i] EXCEPT !.leaving = TRUE] ELSE Empty
           mid == Departed(row, i)
           new == Refreshed(mid)
<1>1. i \in Seat /\ i \in Taken(row) /\ ~row.members[i].leaving /\ row.members[i] \in MemberType
  BY RowFields DEF Staying, Taken
<1>2. seat \in MemberType
  BY <1>1 DEF MemberType, Empty
<1>3. mid = [row EXCEPT !.members = [row.members EXCEPT ![i] = seat]]
  BY DEF Departed, RowType
<1> HIDE DEF mid
<1>4. /\ mid \in RowType /\ mid.members = [row.members EXCEPT ![i] = seat]
      /\ mid.players = row.players /\ mid.hands = row.hands /\ mid.status = row.status
      /\ mid.round = row.round /\ mid.roster = row.roster /\ mid.turn = row.turn
  BY <1>1, <1>2, <1>3 DEF RowType
<1>5. mid.members[i] = seat /\ \A j \in Seat \ {i} : mid.members[j] = row.members[j]
  BY <1>1, <1>4, RowFields
<1>6. seat.user = (IF playing THEN row.members[i].user ELSE Nobody) /\ (seat.leaving <=> playing)
  BY <1>1 DEF MemberType, Empty
<1> HIDE DEF seat
<1>7. \A j \in Taken(mid) : j \in Taken(row) /\ (j # i => mid.members[j] = row.members[j])
  BY <1>1, <1>5 DEF Taken
<1>8. \A j \in Taken(mid) : mid.players[j].status = "leaving" => mid.members[j].leaving
  <2>1. row.players[i].status # "leaving"
    BY <1>1 DEF Sound, PlayersOK
  <2>2. \A j \in Taken(mid) : j \in Seat
    BY DEF Taken
  <2>. QED BY <1>4, <1>7, <2>1, <2>2 DEF Sound, PlayersOK
<1>9. /\ new \in RowType /\ new.members = mid.members /\ new.roster = row.roster
      /\ new.hands = row.hands /\ new.turn = row.turn /\ new.round = row.round
      /\ new.status = IF Staying(mid) = {} /\ row.status # "active" THEN "closed" ELSE row.status
      /\ PlayersOK(new) /\ HostOK(new)
      /\ \A j \in Seat : new.players[j].ready =>
            j \in Taken(mid) /\ row.players[j].ready /\ new.players[j].bet = row.players[j].bet
  <2>1. mid \in RowType
    BY <1>4
  <2>2. /\ new \in RowType /\ new.members = mid.members /\ new.roster = mid.roster
        /\ new.hands = mid.hands /\ new.turn = mid.turn /\ new.round = mid.round
        /\ new.status = IF Staying(mid) = {} /\ mid.status # "active" THEN "closed" ELSE mid.status
        /\ PlayersOK(new) /\ HostOK(new)
        /\ \A j \in Seat : new.players[j].ready =>
              j \in Taken(mid) /\ mid.players[j].ready /\ new.players[j].bet = mid.players[j].bet
    BY ONLY <1>8, <2>1, RefreshedFacts
  <2> HIDE DEF new
  <2>. QED BY <1>4, <2>2
<1> HIDE DEF new
<1>10. Taken(new) = Taken(mid) /\ Staying(new) = Staying(mid)
  BY <1>9, SameMembers
<1>11. row.status \notin {"absent", "closed"}
  BY <1>1 DEF Sound, OpenOK
<1>12. SeatsOK(new)
  <2>1. \A j \in Taken(new) : j \in Taken(row) /\ new.members[j].user = row.members[j].user
    <3>1. i \in Taken(mid) => playing
      BY <1>5 DEF Taken, seat
    <3>. QED BY <1>5, <1>6, <1>7, <1>9, <1>10, <3>1
  <2>2. \A j \in Seat : new.members[j].leaving => new.status = "active"
    BY <1>5, <1>6, <1>9 DEF Sound, SeatsOK
  <2>. QED BY <2>1, <2>2 DEF Sound, SeatsOK
<1>13. RosterOK(new)
  <2>1. \A j \in Seat : row.status = "active" /\ row.roster[j] # Nobody =>
           new.members[j].user = row.members[j].user
    BY <1>5, <1>6, <1>9
  <2>. QED BY <1>9, <2>1 DEF Sound, RosterOK
<1>14. HandsOK(new) /\ TurnOK(new)
  BY <1>9 DEF Sound, HandsOK, TurnOK, Playing, NoneReady
<1>15. OpenOK(new)
  <2>1. row.status # "active" => Staying(mid) = Taken(mid)
    BY <1>5, <1>6 DEF Sound, SeatsOK, Staying, Taken
  <2>. QED BY <1>9, <1>10, <1>11, <2>1 DEF OpenOK
<1>16. Sound(new)
  BY <1>9, <1>12, <1>13, <1>14, <1>15 DEF Sound
<1>17. ASSUME NEW j \in Seat, new.players[j].ready
       PROVE  /\ j # i /\ j \in Taken(new) /\ row.players[j].ready
              /\ new.players[j].bet = row.players[j].bet /\ new.members[j] = row.members[j]
  <2>1. j \in Taken(mid) /\ row.players[j].ready /\ new.players[j].bet = row.players[j].bet
    BY <1>9, <1>17
  <2>2. row.status # "active"
    BY <2>1 DEF Sound, TurnOK, NoneReady
  <2>3. i \notin Taken(mid)
    BY <1>5, <2>2 DEF Taken, seat
  <2>. QED BY <1>7, <1>9, <1>10, <2>1, <2>3
<1>. QED BY <1>9, <1>16, <1>17 DEF new, mid

\* One table changes; what it, the wallets and the house hold together stays the same.
AgreedAt(r) ==
    /\ agreed' \in [Room -> [User -> Bets \cup {0}]]
    /\ \A q \in Room \ {r} : agreed'[q] = agreed[q]
Steps(r, new) ==
    /\ new \in RowType /\ Sound(new) /\ ReadyOK(new, agreed'[r]) /\ AgreedAt(r)
    /\ table' = [table EXCEPT ![r] = new]
    /\ balance' \in [User -> Nat] /\ bank' \in Int
    /\ Sum(balance', User) + bank' + OnTable(new) = Sum(balance, User) + bank + OnTable(table[r])
StepsAt(r) == \E new : Steps(r, new)
SameRound(r) == table'[r].round = table[r].round

LEMMA StepsKeep ==
    ASSUME IInv, NEW r \in Room, StepsAt(r)
    PROVE  TablesOK' /\ balance' \in [User -> Nat] /\ bank' \in Int
<1>1. PICK new : Steps(r, new)
  BY DEF StepsAt
<1>2. /\ table' \in [Room -> RowType] /\ table'[r] = new
      /\ \A q \in Room \ {r} : table'[q] = table[q]
  BY <1>1 DEF Steps, IInv, TablesOK
<1>3. ASSUME NEW q \in Room PROVE Sound(table'[q]) /\ ReadyOK(table'[q], agreed'[q])
  BY <1>1, <1>2 DEF Steps, AgreedAt, IInv, TablesOK
<1>. QED BY <1>1, <1>2, <1>3 DEF Steps, AgreedAt, TablesOK

\* An operation between rounds.
LEMMA QuietStep ==
    ASSUME IInv, NEW r \in Room, NEW new \in RowType, Sound(new), ReadyOK(new, agreed'[r]), AgreedAt(r),
           table' = [table EXCEPT ![r] = new], UNCHANGED <<balance, bank>>,
           OnTable(new) = OnTable(table[r]), new.round = table[r].round
    PROVE  StepsAt(r) /\ SameRound(r)
<1>1. Steps(r, new)
  BY DEF Steps, IInv
<1>2. table'[r] = new
  BY DEF IInv, TablesOK
<1>. QED BY <1>1, <1>2 DEF StepsAt, SameRound

LEMMA AgreedSame == ASSUME IInv, NEW r \in Room, agreed' = agreed PROVE AgreedAt(r)
BY DEF AgreedAt, IInv, TablesOK

LEMMA AgreedChanges ==
    ASSUME IInv, NEW r \in Room, NEW u \in User, NEW bet \in Bets \cup {0},
           agreed' = [agreed EXCEPT ![r][u] = bet]
    PROVE  /\ AgreedAt(r) /\ agreed'[r][u] = bet
           /\ \A v \in User \ {u} : agreed'[r][v] = agreed[r][v]
<1>1. agreed \in [Room -> [User -> Bets \cup {0}]]
  BY DEF IInv, TablesOK
<1> DEFINE mine == [agreed[r] EXCEPT ![u] = bet]
<1>2. /\ mine \in [User -> Bets \cup {0}] /\ mine[u] = bet
      /\ \A v \in User \ {u} : mine[v] = agreed[r][v]
  BY <1>1
<1>3. agreed' = [agreed EXCEPT ![r] = mine]
  OBVIOUS
<1> HIDE DEF mine
<1>4. agreed' \in [Room -> [User -> Bets \cup {0}]] /\ agreed'[r] = mine /\ \A q \in Room \ {r} : agreed'[q] = agreed[q]
  BY <1>1, <1>2, <1>3
<1>. QED BY <1>2, <1>4 DEF AgreedAt

LEMMA RowsOK ==
    ASSUME IInv, NEW r \in Room
    PROVE  table[r] \in RowType /\ Sound(table[r]) /\ ReadyOK(table[r], agreed[r])
BY DEF IInv, TablesOK

\* Readiness that has not changed is as good as it was.
LEMMA StillReady ==
    ASSUME NEW row, NEW new, NEW bets, ReadyOK(row, bets),
           \A j \in Seat : new.players[j].ready =>
              /\ j \in Taken(new) /\ row.players[j].ready
              /\ new.players[j].bet = row.players[j].bet /\ new.members[j] = row.members[j]
    PROVE  ReadyOK(new, bets)
BY DEF ReadyOK

LEMMA SameHands ==
    ASSUME NEW row, NEW new, new.hands = row.hands, (new.status = "active") <=> (row.status = "active")
    PROVE  OnTable(new) = OnTable(row)
BY DEF OnTable

LEMMA CreateSteps ==
    ASSUME IInv, NEW u \in User, NEW r \in Room, Create(u, r)
    PROVE  StepsAt(r) /\ SameRound(r)
<1> DEFINE row == [NoTable EXCEPT !.status = "waiting", !.host = 0]
           new == SatDown(row, 0, u)
<1>1. table[r] = NoTable /\ table' = [table EXCEPT ![r] = new] /\ UNCHANGED <<balance, bank, agreed>>
  BY DEF Create
<1>2. 0 \in Seat /\ Nobody \notin User
  BY TableAssumption DEF Seat
<1>3. /\ row \in RowType /\ row.status = "waiting" /\ row.hands = NoTable.hands
      /\ row.round = NoTable.round
      /\ \A i \in Seat : row.members[i] = Empty /\ row.players[i] = NoPlayer /\ row.hands[i] = NoHand
  <2>1. Empty \in MemberType /\ NoPlayer \in PlayerType /\ NoHand \in HandType
    BY TableAssumption DEF Empty, NoPlayer, NoHand, MemberType, PlayerType, HandType
  <2>2. 0 \in 0..MaxRounds
    BY TableAssumption
  <2>. QED BY <1>2, <2>1, <2>2 DEF RowType, NoTable, Statuses
<1> HIDE DEF row
<1>4. Taken(row) = {}
  BY <1>3 DEF Taken
<1>5. Stored(row)
  BY <1>3, <1>4 DEF Stored, SeatsOK, HandsOK, RosterOK, PlayersOK, TurnOK, Empty, NoPlayer, NoHand
<1>6. \A i \in Seat : row.members[i].user # u
  BY <1>2, <1>3 DEF Empty
<1>7. /\ new \in RowType /\ Sound(new) /\ new.hands = NoTable.hands /\ new.status = "waiting"
      /\ new.round = NoTable.round
      /\ \A j \in Seat : ~new.players[j].ready
  BY <1>2, <1>3, <1>4, <1>5, <1>6, SatDownFacts
<1> HIDE DEF new
<1>8. OnTable(new) = OnTable(table[r])
  BY <1>1, <1>7 DEF OnTable, NoTable
<1>9. ReadyOK(new, agreed'[r])
  BY <1>7 DEF ReadyOK
<1>. QED BY <1>1, <1>7, <1>8, <1>9, AgreedSame, QuietStep

LEMMA JoinSteps ==
    ASSUME IInv, NEW u \in User, NEW r \in Room, Join(u, r)
    PROVE  StepsAt(r) /\ SameRound(r)
<1> DEFINE row == table[r]
           free == Seat \ Taken(row)
           new == SatDown(row, Min(free), u)
<1>1. /\ row.status \notin {"absent", "closed"} /\ free # {}
      /\ \A i \in Seat : row.members[i].user # u
      /\ table' = [table EXCEPT ![r] = new] /\ UNCHANGED <<balance, bank, agreed>>
  BY DEF Join
<1>2. row \in RowType /\ Sound(row) /\ ReadyOK(row, agreed[r])
  BY RowsOK
<1>3. free \in SUBSET Seat
  OBVIOUS
<1> HIDE DEF free
<1>4. Min(free) \in free
  BY <1>1, <1>3, MinOfSeats
<1>5. Min(free) \in Seat /\ Min(free) \notin Taken(row)
  BY <1>4 DEF free
<1>6. row.status \in {"waiting", "active", "settled"} /\ Stored(row)
  BY <1>1, <1>2, RowFields DEF Statuses, Stored, Sound
<1> HIDE DEF row
<1>7. /\ new \in RowType /\ Sound(new)
      /\ new.hands = row.hands /\ new.status = row.status /\ new.round = row.round
      /\ \A j \in Seat : new.players[j].ready =>
            /\ j \in Taken(row) /\ j \in Taken(new) /\ row.players[j].ready
            /\ new.players[j].bet = row.players[j].bet /\ new.members[j] = row.members[j]
  BY <1>1, <1>5, <1>6, SatDownFacts
<1> HIDE DEF new
<1>8. OnTable(new) = OnTable(table[r])
  BY <1>7, SameHands DEF row
<1>9. ReadyOK(new, agreed'[r])
  BY <1>1, <1>2, <1>7, StillReady
<1>. QED BY <1>1, <1>7, <1>8, <1>9, AgreedSame, QuietStep DEF row

LEMMA MemberSeat ==
    ASSUME NEW row, NEW u, IsMember(row, u)
    PROVE  SeatOf(row, u) \in Staying(row) /\ row.members[SeatOf(row, u)].user = u
BY DEF IsMember, SeatOf

LEMMA LeaveSteps ==
    ASSUME IInv, NEW u \in User, NEW r \in Room, Leave(u, r)
    PROVE  StepsAt(r) /\ SameRound(r)
<1> DEFINE row == table[r]
           i == SeatOf(row, u)
           new == Refreshed(Departed(row, i))
<1>1. /\ table' = [table EXCEPT ![r] = new] /\ agreed' = [agreed EXCEPT ![r][u] = 0]
      /\ UNCHANGED <<balance, bank>>
  BY DEF Leave
<1>2. row \in RowType /\ Sound(row) /\ ReadyOK(row, agreed[r])
  BY RowsOK
<1>3. i \in Staying(row) /\ row.members[i].user = u /\ i \in Taken(row)
  BY MemberSeat DEF Leave, Staying
<1> HIDE DEF row, i
<1>4. /\ new \in RowType /\ Sound(new) /\ new.hands = row.hands /\ new.round = row.round
      /\ (new.status = "active") <=> (row.status = "active")
      /\ \A j \in Seat : new.players[j].ready =>
            /\ j # i /\ j \in Taken(new) /\ row.players[j].ready
            /\ new.players[j].bet = row.players[j].bet /\ new.members[j] = row.members[j]
  BY <1>2, <1>3, LeftFacts
<1> HIDE DEF new
<1>5. OnTable(new) = OnTable(table[r])
  BY <1>4, SameHands DEF row
<1>6. AgreedAt(r) /\ \A v \in User \ {u} : agreed'[r][v] = agreed[r][v]
  BY <1>1, AgreedChanges
<1>7. ReadyOK(new, agreed'[r])
  <2>1. SUFFICES ASSUME NEW j \in Seat, new.players[j].ready
                 PROVE  /\ j \in Taken(new) /\ new.players[j].bet \in Bets
                        /\ agreed'[r][new.members[j].user] = new.players[j].bet
    BY DEF ReadyOK
  <2>2. /\ j # i /\ j \in Taken(new) /\ row.players[j].ready
        /\ new.players[j].bet = row.players[j].bet /\ new.members[j] = row.members[j]
    BY <1>4, <2>1
  <2>3. /\ j \in Taken(row) /\ row.players[j].bet \in Bets
        /\ agreed[r][row.members[j].user] = row.players[j].bet
    BY <1>2, <2>2 DEF ReadyOK
  <2>4. row.members[j].user \in User \ {u}
    BY <1>2, <1>3, <2>2, <2>3 DEF Sound, SeatsOK
  <2>. QED BY <1>6, <2>2, <2>3, <2>4
<1>. QED BY <1>1, <1>4, <1>5, <1>6, <1>7, QuietStep DEF row

\* apply "ready" and "unready": one player is shown anew.
LEMMA ShownAnew ==
    ASSUME NEW row \in RowType, Sound(row), row.status # "active", NEW i \in Taken(row),
           NEW player \in PlayerType, player # NoPlayer, player.status = row.players[i].status
    PROVE  LET new == [row EXCEPT !.players[i] = player] IN
           /\ new \in RowType /\ Sound(new) /\ OnTable(new) = OnTable(row) /\ new.round = row.round
           /\ new.members = row.members /\ Taken(new) = Taken(row)
           /\ new.players[i] = player /\ \A j \in Seat \ {i} : new.players[j] = row.players[j]
<1> DEFINE new == [row EXCEPT !.players[i] = player]
           players == [row.players EXCEPT ![i] = player]
<1>1. i \in Seat /\ row.players \in [Seat -> PlayerType]
  BY RowFields DEF Taken
<1>2. /\ players \in [Seat -> PlayerType] /\ players[i] = player
      /\ \A j \in Seat \ {i} : players[j] = row.players[j]
  BY <1>1
<1>3. new = [row EXCEPT !.players = players]
  OBVIOUS
<1> HIDE DEF players, new
<1>4. /\ new \in RowType /\ new.members = row.members /\ new.hands = row.hands /\ new.status = row.status
      /\ new.roster = row.roster /\ new.turn = row.turn /\ new.host = row.host /\ new.players = players
      /\ new.round = row.round
  BY <1>2, <1>3 DEF RowType
<1>5. Taken(new) = Taken(row) /\ Staying(new) = Staying(row)
  BY <1>4, SameMembers
<1>6. PlayersOK(new)
  BY <1>2, <1>4, <1>5 DEF Sound, PlayersOK
<1>7. SeatsOK(new) /\ HandsOK(new) /\ RosterOK(new) /\ HostOK(new) /\ OpenOK(new)
  BY <1>4, <1>5 DEF Sound, SeatsOK, HandsOK, RosterOK, HostOK, OpenOK
<1>8. Sound(new)
  BY <1>4, <1>6, <1>7 DEF Sound, TurnOK
<1>9. OnTable(new) = OnTable(row)
  BY <1>4, SameHands
<1>. QED BY <1>2, <1>4, <1>5, <1>8, <1>9 DEF new

LEMMA PrepareFacts ==
    ASSUME IInv, NEW u \in User, NEW r \in Room, MayPrepare(u, r)
    PROVE  LET row == table[r]  i == SeatOf(row, u) IN
           /\ row \in RowType /\ Sound(row) /\ ReadyOK(row, agreed[r]) /\ row.status # "active"
           /\ i \in Seat /\ i \in Taken(row) /\ i \in Staying(row) /\ row.members[i].user = u
           /\ row.players[i] \in PlayerType /\ row.players[i] # NoPlayer
           /\ \A j \in Taken(row) : ~row.members[j].leaving
           /\ \A j \in Taken(row) \ {i} : row.members[j].user \in User \ {u}
<1> DEFINE row == table[r]  i == SeatOf(row, u)
<1>1. row \in RowType /\ Sound(row) /\ ReadyOK(row, agreed[r])
  BY RowsOK
<1>2. row.status # "active" /\ i \in Staying(row) /\ row.members[i].user = u
  BY MemberSeat DEF MayPrepare
<1>3. i \in Taken(row) /\ i \in Seat
  BY <1>2 DEF Staying, Taken
<1> HIDE DEF row, i
<1>4. row.players[i] \in PlayerType /\ row.players[i] # NoPlayer
  BY <1>1, <1>3, RowFields DEF Sound, PlayersOK
<1>5. \A j \in Taken(row) : ~row.members[j].leaving
  BY <1>1, <1>2 DEF Sound, SeatsOK, Taken
<1>6. \A j \in Taken(row) \ {i} : row.members[j].user \in User \ {u}
  BY <1>1, <1>2, <1>3 DEF Sound, SeatsOK
<1>. QED BY <1>1, <1>2, <1>3, <1>4, <1>5, <1>6 DEF row, i

LEMMA ReadySteps ==
    ASSUME IInv, NEW u \in User, NEW r \in Room, Ready(u, r)
    PROVE  StepsAt(r) /\ SameRound(r)
<1> DEFINE row == table[r]  i == SeatOf(row, u)
<1>1. PICK bet \in Bets :
        /\ MayPrepare(u, r)
        /\ table' = [table EXCEPT ![r].players[i].ready = TRUE, ![r].players[i].bet = bet]
        /\ agreed' = [agreed EXCEPT ![r][u] = bet]
        /\ UNCHANGED <<balance, bank>>
  BY DEF Ready
<1>2. /\ row \in RowType /\ Sound(row) /\ ReadyOK(row, agreed[r]) /\ row.status # "active"
      /\ i \in Seat /\ i \in Taken(row) /\ row.members[i].user = u
      /\ row.players[i] \in PlayerType
      /\ \A j \in Taken(row) \ {i} : row.members[j].user \in User \ {u}
  BY <1>1, PrepareFacts
<1> DEFINE player == [row.players[i] EXCEPT !.ready = TRUE, !.bet = bet]
           new == [row EXCEPT !.players[i] = player]
<1>3. bet \in Nat
  BY TableAssumption
<1>4. /\ player \in PlayerType /\ player.ready /\ player.bet = bet
      /\ player.status = row.players[i].status /\ player # NoPlayer
  BY <1>2, <1>3 DEF PlayerType, NoPlayer
<1>5. table' = [table EXCEPT ![r] = new]
  <2> DEFINE half == [row.players[i] EXCEPT !.ready = TRUE]
             mid == [row EXCEPT !.players[i] = half]
             tables == [table EXCEPT ![r].players[i].ready = TRUE]
  <2>1. table' = [tables EXCEPT ![r].players[i].bet = bet]
    BY <1>1
  <2>2. tables = [table EXCEPT ![r] = mid] /\ table \in [Room -> RowType]
    BY <1>2 DEF IInv, TablesOK, RowType
  <2>3. mid \in RowType /\ mid.players[i] = half /\ new = [mid EXCEPT !.players[i] = player]
    <3>1. half \in PlayerType
      BY <1>2 DEF PlayerType
    <3>2. i \in Seat /\ row \in RowType /\ player \in PlayerType
      BY <1>2, <1>4
    <3> HIDE DEF half, player, row, i
    <3>3. mid \in RowType /\ mid.players = [row.players EXCEPT ![i] = half]
      BY <3>1, <3>2 DEF RowType
    <3>4. mid.players[i] = half
      BY <3>2, <3>3, RowFields
    <3>5. new = [mid EXCEPT !.players[i] = player]
      BY <3>1, <3>2 DEF RowType
    <3>. QED BY <3>3, <3>4, <3>5
  <2>4. player = [half EXCEPT !.bet = bet]
    OBVIOUS
  <2> HIDE DEF half, mid, tables, player, new, row, i
  <2>5. tables[r] = mid /\ tables \in [Room -> RowType] /\ [tables EXCEPT ![r] = new] = [table EXCEPT ![r] = new]
    BY <2>2, <2>3
  <2>6. table' = [tables EXCEPT ![r] = [mid EXCEPT !.players[i] = [half EXCEPT !.bet = bet]]]
    BY <2>1, <2>3, <2>5
  <2>. QED BY <2>3, <2>4, <2>5, <2>6
<1> HIDE DEF row, i, player
<1>6. /\ new \in RowType /\ Sound(new) /\ OnTable(new) = OnTable(row) /\ new.round = row.round
      /\ new.members = row.members /\ Taken(new) = Taken(row)
      /\ new.players[i] = player /\ \A j \in Seat \ {i} : new.players[j] = row.players[j]
  BY <1>2, <1>4, ShownAnew
<1> HIDE DEF new
<1>7. AgreedAt(r) /\ agreed'[r][u] = bet /\ \A v \in User \ {u} : agreed'[r][v] = agreed[r][v]
  BY <1>1, AgreedChanges
<1>8. ReadyOK(new, agreed'[r])
  <2>1. ASSUME NEW j \in Seat, new.players[j].ready
        PROVE  /\ j \in Taken(new) /\ new.players[j].bet \in Bets
               /\ agreed'[r][new.members[j].user] = new.players[j].bet
    <3>1. CASE j = i
      BY <1>2, <1>4, <1>6, <1>7, <3>1
    <3>2. CASE j # i
      <4>1. /\ row.players[j].ready /\ new.players[j] = row.players[j]
        BY <1>6, <2>1, <3>2
      <4>2. /\ j \in Taken(row) /\ row.players[j].bet \in Bets
            /\ agreed[r][row.members[j].user] = row.players[j].bet
        BY <1>2, <4>1 DEF ReadyOK
      <4>. QED BY <1>2, <1>6, <1>7, <3>2, <4>1, <4>2
    <3>. QED BY <3>1, <3>2
  <2>. QED BY <2>1 DEF ReadyOK
<1>. QED BY <1>1, <1>5, <1>6, <1>7, <1>8, QuietStep DEF row

LEMMA UnreadySteps ==
    ASSUME IInv, NEW u \in User, NEW r \in Room, Unready(u, r)
    PROVE  StepsAt(r) /\ SameRound(r)
<1> DEFINE row == table[r]  i == SeatOf(row, u)
           player == [row.players[i] EXCEPT !.ready = FALSE]
           new == [row EXCEPT !.players[i] = player]
<1>1. /\ MayPrepare(u, r)
      /\ table' = [table EXCEPT ![r].players[i].ready = FALSE]
      /\ agreed' = [agreed EXCEPT ![r][u] = 0]
      /\ UNCHANGED <<balance, bank>>
  BY DEF Unready
<1>2. /\ row \in RowType /\ Sound(row) /\ ReadyOK(row, agreed[r]) /\ row.status # "active"
      /\ i \in Seat /\ i \in Taken(row)
      /\ row.players[i] \in PlayerType /\ row.players[i] # NoPlayer
      /\ \A j \in Taken(row) \ {i} : row.members[j].user \in User \ {u}
  BY <1>1, PrepareFacts
<1>3. /\ player \in PlayerType /\ ~player.ready /\ player.bet = row.players[i].bet
      /\ player.status = row.players[i].status
  BY <1>2 DEF PlayerType
<1>4. player # NoPlayer
  <2>1. CASE row.players[i].ready
    <3>1. row.players[i].bet \in Bets /\ 0 \notin Bets
      BY <1>2, <2>1, TableAssumption DEF ReadyOK
    <3>. QED BY <1>3, <3>1 DEF NoPlayer
  <2>2. CASE ~row.players[i].ready
    <3>1. player = row.players[i]
      BY <1>2, <2>2 DEF PlayerType
    <3>. QED BY <1>2, <3>1
  <2>. QED BY <2>1, <2>2
<1>5. table' = [table EXCEPT ![r] = new]
  BY <1>1, <1>2 DEF IInv, TablesOK, RowType
<1> HIDE DEF row, i, player
<1>6. /\ new \in RowType /\ Sound(new) /\ OnTable(new) = OnTable(row) /\ new.round = row.round
      /\ new.members = row.members /\ Taken(new) = Taken(row)
      /\ new.players[i] = player /\ \A j \in Seat \ {i} : new.players[j] = row.players[j]
  BY <1>2, <1>3, <1>4, ShownAnew
<1> HIDE DEF new
<1>7. AgreedAt(r) /\ \A v \in User \ {u} : agreed'[r][v] = agreed[r][v]
  BY <1>1, AgreedChanges
<1>8. ReadyOK(new, agreed'[r])
  <2>1. ASSUME NEW j \in Seat, new.players[j].ready
        PROVE  /\ j \in Taken(new) /\ new.players[j].bet \in Bets
               /\ agreed'[r][new.members[j].user] = new.players[j].bet
    <3>1. j # i /\ row.players[j].ready /\ new.players[j] = row.players[j]
      BY <1>3, <1>6, <2>1
    <3>2. /\ j \in Taken(row) /\ row.players[j].bet \in Bets
          /\ agreed[r][row.members[j].user] = row.players[j].bet
      BY <1>2, <3>1 DEF ReadyOK
    <3>. QED BY <1>2, <1>6, <1>7, <3>1, <3>2
  <2>. QED BY <2>1 DEF ReadyOK
<1>. QED BY <1>1, <1>5, <1>6, <1>7, <1>8, QuietStep DEF row

-----------------------------------------------------------------------------
(***************************************************************************)
(* The round.                                                              *)
(***************************************************************************)

\* update, with the stakes that have been taken from the wallets on the table.
LEMMA UpdateSteps ==
    ASSUME IInv, NEW r \in Room, NEW row, Midway(row), NEW wallets \in [User -> Nat],
           Sum(wallets, User) + OnTable(row) = Sum(balance, User) + OnTable(table[r]),
           NEW dealers, Update(r, row, wallets, dealers), AgreedAt(r)
    PROVE  StepsAt(r) /\ table'[r].round = row.round
<1>1. bank \in Int /\ table \in [Room -> RowType]
  BY DEF IInv, TablesOK
<1>2. PICK new : UpdatedTo(r, row, wallets, new)
  BY <1>1, UpdateOutcome
<1>3. ReadyOK(new, agreed'[r])
  BY <1>2 DEF UpdatedTo, NoneReady, ReadyOK
<1>4. /\ Sum(wallets, User) \in Int /\ Sum(balance, User) \in Int
      /\ OnTable(row) \in Int /\ OnTable(table[r]) \in Int
  <2>1. IsFiniteSet(User) /\ \A u \in User : wallets[u] \in Int /\ balance[u] \in Int
    BY TableAssumption DEF IInv
  <2>. QED BY <1>1, <2>1, SumInt, OnTableFacts DEF Midway
<1>5. Sum(balance', User) + bank' + OnTable(new) = Sum(balance, User) + bank + OnTable(table[r])
  <2>1. Sum(balance', User) + bank' + OnTable(new) = Sum(wallets, User) + bank + OnTable(row)
    BY <1>2 DEF UpdatedTo
  <2>2. Sum(wallets, User) + bank + OnTable(row) = Sum(balance, User) + bank + OnTable(table[r])
    BY <1>1, <1>4
  <2>. QED BY <2>1, <2>2
<1>6. Steps(r, new)
  BY <1>2, <1>3, <1>5 DEF UpdatedTo, Steps
<1>7. table'[r] = new
  BY <1>1, <1>2 DEF UpdatedTo
<1>. QED BY <1>2, <1>6, <1>7 DEF UpdatedTo, StepsAt

\* start: each player stakes the bet of the own seat, and has it.
StakeOf(row, v) == Sum([i \in Taken(row) |-> row.players[i].bet],
                       {i \in Taken(row) : row.members[i].user = v})
Dealing(row, hands) ==
    [row EXCEPT !.status = "active", !.round = @ + 1,
                !.roster = [i \in Seat |-> row.members[i].user], !.hands = hands]

LEMMA StakeFacts ==
    ASSUME NEW row \in RowType, SeatsOK(row), balance \in [User -> Nat],
           \A i \in Taken(row) : Covers(row, i)
    PROVE  /\ \A v \in User : StakeOf(row, v) \in Nat /\ StakeOf(row, v) <= balance[v]
           /\ Sum([v \in User |-> balance[v] - StakeOf(row, v)], User)
                 + Sum([i \in Taken(row) |-> row.players[i].bet], Taken(row)) = Sum(balance, User)
<1> DEFINE bet == [i \in Taken(row) |-> row.players[i].bet]
           own == [i \in Taken(row) |-> row.members[i].user]
           mine(v) == {i \in Taken(row) : row.members[i].user = v}
           wallets == [v \in User |-> balance[v] - StakeOf(row, v)]
           shares == Gathered(bet, Taken(row), own, User)
<1>1. \A i \in Taken(row) : bet[i] \in Nat /\ bet[i] \in Int /\ own[i] \in User /\ balance[own[i]] >= bet[i]
  BY RowFields DEF Taken, PlayerType, SeatsOK, Covers
<1>2. IsFiniteSet(Taken(row)) /\ IsFiniteSet(User)
  <2>1. Taken(row) \in SUBSET Seat
    BY TakenFacts
  <2>. QED BY <2>1, SeatFacts, FS_Subset, TableAssumption
<1>3. \A v : StakeOf(row, v) = Sum(bet, mine(v))
  BY DEF StakeOf
<1>4. \A v : Owned(bet, Taken(row), own, v) = Sum(bet, mine(v))
  <2>1. \A v : {i \in Taken(row) : own[i] = v} = mine(v)
    OBVIOUS
  <2> HIDE DEF bet, own, mine
  <2>. QED BY <2>1 DEF Owned
<1>5. ASSUME NEW v \in User PROVE Sum(bet, mine(v)) \in Nat /\ Sum(bet, mine(v)) <= balance[v]
  <2>1. CASE mine(v) = {}
    <3>1. Sum(bet, mine(v)) = 0
      BY <2>1, SumEmpty
    <3> HIDE DEF bet, mine
    <3>. QED BY <3>1
  <2>2. ASSUME NEW i \in mine(v) PROVE Sum(bet, mine(v)) = bet[i] /\ bet[i] \in Nat /\ bet[i] <= balance[v]
    <3>1. mine(v) = {i}
      BY <2>2 DEF SeatsOK
    <3>2. bet[i] \in Int /\ bet[i] \in Nat /\ balance[own[i]] >= bet[i] /\ own[i] = v
      BY <1>1, <2>2
    <3> HIDE DEF bet, mine, own
    <3>. QED BY <3>1, <3>2, SumOne
  <2> HIDE DEF bet, mine
  <2>. QED BY <2>1, <2>2
<1>6. \A v \in User : StakeOf(row, v) \in Nat /\ StakeOf(row, v) <= balance[v]
  BY <1>3, <1>5
<1>7. \A v \in User : /\ balance[v] \in Int /\ wallets[v] \in Int /\ shares[v] \in Int
                      /\ balance[v] = wallets[v] + shares[v]
  <2>1. \A v \in User : shares[v] = StakeOf(row, v)
    BY <1>3, <1>4 DEF Gathered
  <2>. QED BY <1>6, <2>1
<1>8. Sum(shares, User) = Sum(bet, Taken(row))
  <2>1. {i \in Taken(row) : own[i] \in User} = Taken(row)
    BY <1>1
  <2> HIDE DEF bet, own
  <2>. QED BY <1>1, <1>2, <2>1, SumOfGathered
<1> HIDE DEF bet, own, mine, wallets, shares
<1>9. Sum(balance, User) = Sum(wallets, User) + Sum(shares, User)
  BY <1>2, <1>7, SumPlus
<1>. QED BY <1>6, <1>8, <1>9 DEF bet, wallets

LEMMA DealingFacts ==
    ASSUME NEW row \in RowType, SeatsOK(row), row.round < MaxRounds,
           NEW hands \in DealtHands([i \in Taken(row) |-> row.players[i].bet], Taken(row))
    PROVE  /\ Midway(Dealing(row, hands)) /\ Dealing(row, hands).round = row.round + 1
           /\ OnTable(Dealing(row, hands)) = Sum([i \in Taken(row) |-> row.players[i].bet], Taken(row))
<1> DEFINE bet == [i \in Taken(row) |-> row.players[i].bet]
           roster == [i \in Seat |-> row.members[i].user]
           new == Dealing(row, hands)
<1>1. PICK s \in [Taken(row) -> {"playing", "natural"}] :
         hands = [i \in Seat |-> IF i \in Taken(row) THEN [bet |-> bet[i], cards |-> 2, state |-> s[i]] ELSE NoHand]
  BY DEF DealtHands
<1>2. \A i \in Taken(row) : i \in Seat /\ bet[i] \in Nat /\ bet[i] \in Int
  BY RowFields DEF Taken, PlayerType
<1> HIDE DEF bet
<1>3. ASSUME NEW i \in Seat
      PROVE  /\ hands[i] \in HandType
             /\ i \in Taken(row) => hands[i].bet = bet[i] /\ hands[i] # NoHand /\ hands[i].state # "none"
                                    /\ hands[i].cards \in 2..(1 + MaxHits)
             /\ i \notin Taken(row) => hands[i] = NoHand
  <2>1. MaxHits \in Nat /\ MaxHits >= 1
    BY TableAssumption
  <2>2. 2 \in 0..(2 + MaxHits) /\ 0 \in 0..(2 + MaxHits) /\ 2 \in 2..(1 + MaxHits)
    BY <2>1
  <2>3. CASE i \in Taken(row)
    <3>1. hands[i] = [bet |-> bet[i], cards |-> 2, state |-> s[i]] /\ s[i] \in {"playing", "natural"}
      BY <1>1, <2>3
    <3>. QED BY <1>2, <2>2, <2>3, <3>1 DEF HandType, NoHand
  <2>4. CASE i \notin Taken(row)
    BY <1>1, <2>2, <2>4 DEF HandType, NoHand
  <2>. QED BY <2>3, <2>4
<1>4. hands \in [Seat -> HandType]
  BY <1>1, <1>3
<1>5. roster \in [Seat -> User \cup {Nobody}] /\ \A i \in Seat : roster[i] = row.members[i].user
  BY RowFields DEF MemberType
<1>6. row.round + 1 \in 0..MaxRounds
  BY RowFields, TableAssumption
<1> HIDE DEF roster
<1>7. /\ new \in RowType /\ new.status = "active" /\ new.round = row.round + 1 /\ new.hands = hands
      /\ new.roster = roster /\ new.members = row.members
  BY <1>4, <1>5, <1>6 DEF Dealing, RowType, Statuses, roster
<1> HIDE DEF new
<1>8. Taken(new) = Taken(row)
  BY <1>7, SameMembers
<1>9. SeatsOK(new)
  BY <1>7, <1>8 DEF SeatsOK
<1>10. HandsOK(new)
  BY <1>3, <1>7 DEF HandsOK, NoHand
<1>11. RosterOK(new)
  <2>1. ASSUME NEW i \in Seat PROVE roster[i] # Nobody <=> i \in Taken(row)
    <3>1. i \in Taken(row) => row.members[i].user \in User
      BY DEF SeatsOK
    <3>2. i \notin Taken(row) => row.members[i] = Empty
      BY TakenFacts
    <3>. QED BY <1>5, <3>1, <3>2, TableAssumption DEF Empty
  <2>. QED BY <1>3, <1>5, <1>7, <2>1 DEF RosterOK
<1>12. OnTable(new) = Sum(bet, Taken(row))
  <2>1. \A i \in Seat : /\ BetsOf(new)[i] \in Int
                        /\ i \in Taken(row) => BetsOf(new)[i] = bet[i]
                        /\ i \notin Taken(row) => BetsOf(new)[i] = 0
    BY <1>3, <1>7 DEF BetsOf, NoHand, HandType
  <2>2. Taken(row) \in SUBSET Seat /\ IsFiniteSet(Seat)
    BY TakenFacts, SeatFacts
  <2>3. IsFiniteSet(Taken(row))
    BY <2>2, FS_Subset
  <2>4. Sum(BetsOf(new), Seat) = Sum(BetsOf(new), Taken(row))
    BY <2>1, <2>2, SumSupport
  <2>5. Sum(BetsOf(new), Taken(row)) = Sum(bet, Taken(row))
    BY <2>1, <2>2, <2>3, SumEqual
  <2>. QED BY <1>7, <2>4, <2>5, OnTableFacts
<1>. QED BY <1>7, <1>9, <1>10, <1>11, <1>12 DEF Midway, bet, new

LEMMA StartSteps ==
    ASSUME IInv, NEW u \in User, NEW r \in Room, StartRound(u, r)
    PROVE  StepsAt(r)
<1> DEFINE row == table[r]
           bet == [i \in Taken(row) |-> row.players[i].bet]
           wallets == [v \in User |-> balance[v] - StakeOf(row, v)]
<1>1. PICK hands \in DealtHands(bet, Taken(row)), dealers \in {{"natural"}, {"bust", "stood"}} :
         Update(r, Dealing(row, hands), wallets, dealers)
  BY DEF StartRound, StakeOf, Dealing
<1>2. /\ row.round < MaxRounds /\ \A i \in Taken(row) : Covers(row, i)
      /\ agreed' = [agreed EXCEPT ![r] = [v \in User |-> 0]]
      /\ row.status # "active"
  BY DEF StartRound, MayPrepare
<1>3. row \in RowType /\ SeatsOK(row) /\ balance \in [User -> Nat]
  BY RowsOK DEF Sound, IInv
<1>4. /\ Midway(Dealing(row, hands))
      /\ OnTable(Dealing(row, hands)) = Sum(bet, Taken(row))
  BY <1>2, <1>3, DealingFacts
<1>5. /\ \A v \in User : StakeOf(row, v) \in Nat /\ StakeOf(row, v) <= balance[v]
      /\ Sum(wallets, User) + Sum(bet, Taken(row)) = Sum(balance, User)
  BY <1>2, <1>3, StakeFacts
<1>6. wallets \in [User -> Nat]
  BY <1>3, <1>5
<1>7. OnTable(row) = 0 /\ Sum(balance, User) \in Int
  <2>1. IsFiniteSet(User) /\ \A v \in User : balance[v] \in Int
    BY <1>3, TableAssumption
  <2>. QED BY <1>2, <2>1, SumInt DEF OnTable
<1>8. AgreedAt(r)
  BY <1>2 DEF AgreedAt, IInv, TablesOK
<1> HIDE DEF wallets, bet
<1>9. Sum(wallets, User) + OnTable(Dealing(row, hands)) = Sum(balance, User) + OnTable(row)
  BY <1>4, <1>5, <1>7
<1>. QED BY <1>1, <1>4, <1>6, <1>8, <1>9, UpdateSteps

\* The hand whose turn it is changes.
LEMMA HandFacts ==
    ASSUME NEW row \in RowType, Sound(row), row.status = "active",
           NEW h \in HandType, h.state \in {"playing", "stood", "bust"},
           h.state = "playing" => h.cards \in 2..(1 + MaxHits)
    PROVE  LET new == [row EXCEPT !.hands[row.turn] = h] IN
           /\ Midway(new) /\ new.round = row.round
           /\ OnTable(new) = OnTable(row) - row.hands[row.turn].bet + h.bet
<1> DEFINE i == row.turn
           hands == [row.hands EXCEPT ![i] = h]
           new == [row EXCEPT !.hands = hands]
<1>1. i \in Seat /\ row.hands[i].state = "playing" /\ row.hands \in [Seat -> HandType]
  BY RowFields DEF Sound, TurnOK, Playing
<1>2. hands \in [Seat -> HandType] /\ hands[i] = h /\ \A j \in Seat \ {i} : hands[j] = row.hands[j]
  BY <1>1
<1>3. new = [row EXCEPT !.hands[row.turn] = h]
  OBVIOUS
<1> HIDE DEF hands, i
<1>4. /\ new \in RowType /\ new.status = "active" /\ new.round = row.round /\ new.hands = hands
      /\ new.members = row.members /\ new.roster = row.roster
  BY <1>2 DEF RowType
<1> HIDE DEF new
<1>5. Taken(new) = Taken(row)
  BY <1>4, SameMembers
<1>6. SeatsOK(new)
  BY <1>4, <1>5 DEF Sound, SeatsOK
<1>7. HandsOK(new)
  BY <1>2, <1>4 DEF Sound, HandsOK
<1>8. RosterOK(new)
  <2>1. \A j \in Seat : hands[j] # NoHand <=> row.hands[j] # NoHand
    BY <1>1, <1>2 DEF NoHand
  <2>. QED BY <1>4, <2>1 DEF Sound, RosterOK
<1>9. OnTable(new) = OnTable(row) - row.hands[i].bet + h.bet
  <2>1. /\ \A j \in Seat : BetsOf(row)[j] \in Int /\ BetsOf(new)[j] \in Int
        /\ OnTable(row) = Sum(BetsOf(row), Seat) /\ OnTable(new) = Sum(BetsOf(new), Seat)
    <3>1. \A n \in Nat : n \in Int
      OBVIOUS
    <3>. QED BY <1>4, <3>1, OnTableFacts
  <2>2. /\ BetsOf(row)[i] = row.hands[i].bet /\ BetsOf(new)[i] = h.bet
        /\ \A j \in Seat \ {i} : BetsOf(new)[j] = BetsOf(row)[j]
    BY <1>1, <1>2, <1>4 DEF BetsOf
  <2>3. Sum(BetsOf(new), Seat) = Sum(BetsOf(row), Seat) - BetsOf(row)[i] + BetsOf(new)[i]
    BY <1>1, <2>1, <2>2, SeatFacts, SumChange
  <2>. QED BY <2>1, <2>2, <2>3
<1>10. Midway(new)
  BY <1>4, <1>6, <1>7, <1>8 DEF Midway
<1>. QED BY <1>3, <1>4, <1>9, <1>10 DEF i

\* stand: by the player, or by the timer in the player's place.
LEMMA StandSteps ==
    ASSUME IInv, NEW r \in Room, table[r].status = "active", NEW h \in HandType,
           h.bet = table[r].hands[table[r].turn].bet, h.state \in {"playing", "stood", "bust"},
           h.state = "playing" => h.cards \in 2..(1 + MaxHits),
           Update(r, [table[r] EXCEPT !.hands[table[r].turn] = h], balance, NotNatural),
           agreed' = agreed
    PROVE  StepsAt(r) /\ SameRound(r)
<1> DEFINE row == table[r]
           new == [row EXCEPT !.hands[row.turn] = h]
<1>1. row \in RowType /\ Sound(row) /\ balance \in [User -> Nat]
  BY RowsOK DEF IInv
<1>2. /\ Midway(new) /\ new.round = row.round
      /\ OnTable(new) = OnTable(row) - row.hands[row.turn].bet + h.bet
  BY <1>1, HandFacts
<1>3. Update(r, new, balance, NotNatural) /\ AgreedAt(r) /\ h.bet = row.hands[row.turn].bet
  BY AgreedSame
<1>4. OnTable(row) \in Int /\ h.bet \in Nat
  BY <1>1, OnTableFacts DEF HandType
<1> HIDE DEF new
<1>5. OnTable(new) = OnTable(row)
  BY <1>2, <1>3, <1>4
<1>6. Sum(balance, User) + OnTable(new) = Sum(balance, User) + OnTable(row)
  BY <1>5
<1>. QED BY <1>1, <1>2, <1>3, <1>6, UpdateSteps DEF SameRound

\* double: the second half of the stake is taken from the wallet first.
LEMMA DoubleSteps ==
    ASSUME IInv, NEW u \in User, NEW r \in Room, table[r].status = "active", NEW h \in HandType,
           LET bet == table[r].hands[table[r].turn].bet IN
              /\ h.bet = 2 * bet /\ balance[u] >= bet
              /\ Update(r, [table[r] EXCEPT !.hands[table[r].turn] = h],
                        [balance EXCEPT ![u] = balance[u] - bet], NotNatural),
           h.state \in {"stood", "bust"}, agreed' = agreed
    PROVE  StepsAt(r) /\ SameRound(r)
<1> DEFINE row == table[r]
           new == [row EXCEPT !.hands[row.turn] = h]
           bet == row.hands[row.turn].bet
           wallets == [balance EXCEPT ![u] = balance[u] - bet]
<1>1. row \in RowType /\ Sound(row) /\ balance \in [User -> Nat]
  BY RowsOK DEF IInv
<1>2. row.turn \in Seat /\ row.hands[row.turn] \in HandType
  BY <1>1, RowFields DEF Sound, TurnOK, Playing
<1>3. /\ Midway(new) /\ new.round = row.round /\ OnTable(new) = OnTable(row) - bet + h.bet
  BY <1>1, HandFacts
<1>4. /\ Update(r, new, wallets, NotNatural) /\ AgreedAt(r)
      /\ h.bet = 2 * bet /\ balance[u] >= bet /\ bet \in Nat
  BY <1>2, AgreedSame DEF HandType
<1>5. OnTable(row) \in Int
  BY <1>1, OnTableFacts
<1> HIDE DEF new, bet
<1>6. wallets \in [User -> Nat] /\ wallets[u] = balance[u] - bet
  BY <1>1, <1>4
<1>7. \A v \in User : balance[v] \in Int /\ wallets[v] \in Int
  BY <1>1, <1>6
<1>8. \A v \in User \ {u} : wallets[v] = balance[v]
  BY <1>1
<1> HIDE DEF wallets
<1>9. Sum(wallets, User) = Sum(balance, User) - balance[u] + wallets[u] /\ Sum(balance, User) \in Int
  BY <1>7, <1>8, SumChange, SumInt, TableAssumption
<1>10. Sum(wallets, User) + OnTable(new) = Sum(balance, User) + OnTable(row)
  BY <1>3, <1>4, <1>5, <1>6, <1>7, <1>9
<1>. QED BY <1>1, <1>3, <1>4, <1>6, <1>10, UpdateSteps DEF SameRound

\* What a card makes of a hand that may draw.
LEMMA DrawnFacts ==
    ASSUME NEW hand \in HandType, hand.cards \in 2..(1 + MaxHits), NEW double \in BOOLEAN,
           NEW h \in Drawn(hand, double)
    PROVE  /\ h \in HandType /\ h.state \in {"playing", "stood", "bust"}
           /\ h.bet = (IF double THEN 2 * hand.bet ELSE hand.bet)
           /\ h.state = "playing" => h.cards \in 2..(1 + MaxHits) /\ ~double
<1>1. MaxHits \in Nat /\ hand.bet \in Nat /\ 2 * hand.bet \in Nat
  BY TableAssumption DEF HandType
<1>2. PICK s \in {"stood", "bust"} \cup IF double \/ hand.cards = 1 + MaxHits THEN {} ELSE {"playing"} :
         h = [bet |-> IF double THEN 2 * hand.bet ELSE hand.bet, cards |-> hand.cards + 1, state |-> s]
  BY DEF Drawn
<1>3. hand.cards + 1 \in 0..(2 + MaxHits)
  BY <1>1
<1>4. s = "playing" => ~double /\ hand.cards + 1 \in 2..(1 + MaxHits)
  BY <1>1, <1>2
<1>. QED BY <1>1, <1>2, <1>3, <1>4 DEF HandType

LEMMA PlaySteps ==
    ASSUME IInv, NEW u \in User, NEW r \in Room, Play(u, r)
    PROVE  StepsAt(r) /\ SameRound(r)
<1> DEFINE row == table[r]
           hand == row.hands[row.turn]
           with(h) == [row EXCEPT !.hands[row.turn] = h]
           stood == [hand EXCEPT !.state = "stood"]
<1>1. /\ row.status = "active" /\ agreed' = agreed
      /\ \/ Update(r, with(stood), balance, NotNatural)
         \/ \E h \in Drawn(hand, FALSE) : Update(r, with(h), balance, NotNatural)
         \/ /\ balance[u] >= hand.bet
            /\ \E h \in Drawn(hand, TRUE) :
                  Update(r, with(h), [balance EXCEPT ![u] = balance[u] - hand.bet], NotNatural)
  BY DEF Play
<1>2. row \in RowType /\ Sound(row)
  BY RowsOK
<1>3. /\ row.turn \in Seat /\ hand.state = "playing" /\ hand \in HandType
      /\ hand.cards \in 2..(1 + MaxHits)
  BY <1>1, <1>2, RowFields DEF Sound, TurnOK, HandsOK, Playing
<1>4. CASE Update(r, with(stood), balance, NotNatural)
  <2>1. stood \in HandType /\ stood.state = "stood" /\ stood.bet = hand.bet
    BY <1>3 DEF HandType
  <2>. QED BY <1>1, <1>4, <2>1, StandSteps
<1>5. ASSUME NEW h \in Drawn(hand, FALSE), Update(r, with(h), balance, NotNatural)
      PROVE  StepsAt(r) /\ SameRound(r)
  <2>1. /\ h \in HandType /\ h.state \in {"playing", "stood", "bust"} /\ h.bet = hand.bet
        /\ h.state = "playing" => h.cards \in 2..(1 + MaxHits)
    BY <1>3, DrawnFacts
  <2>. QED BY <1>1, <1>5, <2>1, StandSteps
<1>6. ASSUME NEW h \in Drawn(hand, TRUE), balance[u] >= hand.bet,
             Update(r, with(h), [balance EXCEPT ![u] = balance[u] - hand.bet], NotNatural)
      PROVE  StepsAt(r) /\ SameRound(r)
  <2>1. h \in HandType /\ h.state \in {"stood", "bust"} /\ h.bet = 2 * hand.bet
    BY <1>3, DrawnFacts
  <2>. QED BY <1>1, <1>6, <2>1, DoubleSteps
<1>. QED BY <1>1, <1>4, <1>5, <1>6

LEMMA VisitSteps ==
    ASSUME IInv, NEW r \in Room, Visit(r)
    PROVE  \/ UNCHANGED <<balance, bank, table, agreed>>
           \/ table[r].deadline = 0 /\ StepsAt(r) /\ SameRound(r)
<1> DEFINE row == table[r]
           hand == row.hands[row.turn]
           stood == [hand EXCEPT !.state = "stood"]
<1>1. CASE ~StillDue(row)
  BY <1>1 DEF Visit
<1>2. CASE StillDue(row)
  <2>1. /\ row.status = "active" /\ row.deadline = 0 /\ agreed' = agreed
        /\ Update(r, [row EXCEPT !.hands[row.turn].state = "stood"], balance, NotNatural)
    BY <1>2 DEF Visit, StillDue, Due
  <2>2. row \in RowType /\ Sound(row)
    BY RowsOK
  <2>3. row.turn \in Seat /\ hand \in HandType
    BY <2>1, <2>2, RowFields DEF Sound, TurnOK, Playing
  <2>4. stood \in HandType /\ stood.state = "stood" /\ stood.bet = hand.bet
    BY <2>3 DEF HandType
  <2>5. [row EXCEPT !.hands[row.turn].state = "stood"] = [row EXCEPT !.hands[row.turn] = stood]
    OBVIOUS
  <2>. QED BY <2>1, <2>4, <2>5, StandSteps
<1>. QED BY <1>1, <1>2

-----------------------------------------------------------------------------
(***************************************************************************)
(* The invariant.                                                          *)
(***************************************************************************)
LEMMA RequestSteps ==
    ASSUME IInv, NEW u \in User, NEW r \in Room, Request(u, r)
    PROVE  StepsAt(r) /\ (SameRound(r) \/ StartRound(u, r))
BY CreateSteps, JoinSteps, LeaveSteps, ReadySteps, UnreadySteps, StartSteps, PlaySteps DEF Request

LEMMA RestKeeps == IInv /\ [Next]_vars => RestOK'
<1>. SUFFICES ASSUME IInv, [Next]_vars PROVE RestOK'
  OBVIOUS
<1>1. due \subseteq Room /\ held \in Room \cup {NoRoom}
  BY DEF IInv, RestOK
<1>2. ASSUME NEW u \in User, NEW r \in Room, Request(u, r) PROVE due' = due /\ held' = NoRoom
  BY <1>2 DEF Request, Exclusive, Create, Join, Leave, Ready, Unready, StartRound, Play
<1>3. ASSUME NEW u \in User, PlayElsewhere(u) PROVE due' = due /\ held' = held
  BY <1>3 DEF PlayElsewhere
<1>4. CASE Tick
  BY <1>1, <1>4 DEF Tick, RestOK
<1>5. CASE Scan \/ Restart \/ Release \/ UNCHANGED vars
  BY <1>1, <1>5 DEF Scan, Restart, Release, vars, RestOK
<1>6. ASSUME NEW r \in Room, Visit(r) PROVE due' \subseteq due /\ held' = held
  BY <1>6 DEF Visit
<1>. QED BY <1>1, <1>2, <1>3, <1>4, <1>5, <1>6 DEF Next, RestOK

\* Time passes: deadlines come closer, and nothing else at a table changes.
LEMMA TickTables ==
    ASSUME IInv, Tick
    PROVE  TablesOK' /\ \A r \in Room : /\ OnTable(table'[r]) = OnTable(table[r])
                                        /\ table'[r].round = table[r].round
<1>1. /\ table' = [r \in Room |-> IF table[r].deadline > 0
                                  THEN [table[r] EXCEPT !.deadline = table[r].deadline - 1] ELSE table[r]]
      /\ agreed' = agreed
  BY DEF Tick
<1>2. ASSUME NEW r \in Room
      PROVE  /\ table'[r] \in RowType /\ table'[r].round = table[r].round
             /\ table'[r].members = table[r].members /\ table'[r].players = table[r].players
             /\ table'[r].hands = table[r].hands /\ table'[r].roster = table[r].roster
             /\ table'[r].status = table[r].status /\ table'[r].turn = table[r].turn
             /\ table'[r].host = table[r].host
  <2>1. table[r] \in RowType
    BY RowsOK
  <2>2. CASE table[r].deadline > 0
    <3>1. table[r].deadline - 1 \in Nat
      BY <2>1, <2>2, RowFields DEF NoDeadline
    <3>2. table'[r] = [table[r] EXCEPT !.deadline = table[r].deadline - 1]
      BY <1>1, <2>2
    <3>. QED BY <2>1, <3>1, <3>2 DEF RowType
  <2>3. CASE ~(table[r].deadline > 0)
    BY <1>1, <2>1, <2>3
  <2>. QED BY <2>2, <2>3
<1>3. ASSUME NEW r \in Room PROVE Sound(table'[r]) /\ ReadyOK(table'[r], agreed[r])
  <2> DEFINE row == table[r]  new == table'[r]
  <2>1. Sound(row) /\ ReadyOK(row, agreed[r])
    BY RowsOK
  <2>2. /\ new.members = row.members /\ new.players = row.players
        /\ new.hands = row.hands /\ new.roster = row.roster
        /\ new.status = row.status /\ new.turn = row.turn /\ new.host = row.host
    BY <1>2
  <2> HIDE DEF row, new
  <2>3. Taken(new) = Taken(row) /\ Staying(new) = Staying(row)
    BY <2>2, SameMembers
  <2>4. SeatsOK(new) /\ HandsOK(new) /\ RosterOK(new) /\ PlayersOK(new)
    BY <2>1, <2>2, <2>3 DEF Sound, SeatsOK, HandsOK, RosterOK, PlayersOK
  <2>5. HostOK(new) /\ OpenOK(new) /\ TurnOK(new) /\ ReadyOK(new, agreed[r])
    BY <2>1, <2>2, <2>3 DEF Sound, HostOK, OpenOK, TurnOK, Playing, NoneReady, ReadyOK
  <2>. QED BY <2>4, <2>5 DEF Sound, row, new
<1>4. \A r \in Room : OnTable(table'[r]) = OnTable(table[r])
  BY <1>2, SameHands
<1>5. table' \in [Room -> RowType]
  BY <1>1, <1>2
<1>. QED BY <1>1, <1>2, <1>3, <1>4, <1>5 DEF TablesOK, IInv

LEMMA ElsewhereTypes ==
    ASSUME IInv, NEW u \in User, PlayElsewhere(u)
    PROVE  /\ balance' \in [User -> Nat] /\ bank' \in Int /\ table' = table /\ agreed' = agreed
           /\ Sum(balance', User) + bank' = Sum(balance, User) + bank
<1>1. PICK d \in {-1, 1} : /\ balance[u] + d \in Balances
                           /\ balance' = [balance EXCEPT ![u] = balance[u] + d]
                           /\ bank' = bank - d /\ table' = table /\ agreed' = agreed
  BY DEF PlayElsewhere
<1>2. balance \in [User -> Nat] /\ bank \in Int
  BY DEF IInv
<1>3. balance[u] + d \in Nat
  BY <1>1, TableAssumption
<1>4. balance' \in [User -> Nat] /\ balance'[u] = balance[u] + d
  BY <1>1, <1>2, <1>3
<1>5. \A v \in User : balance[v] \in Int /\ balance'[v] \in Int
  BY <1>2, <1>4
<1>6. \A v \in User \ {u} : balance'[v] = balance[v]
  BY <1>1, <1>2
<1>7. Sum(balance', User) = Sum(balance, User) - balance[u] + balance'[u] /\ Sum(balance, User) \in Int
  BY <1>5, <1>6, SumChange, SumInt, TableAssumption
<1>. QED BY <1>1, <1>2, <1>4, <1>5, <1>7

LEMMA InitIInv == Init => IInv
<1>. SUFFICES ASSUME Init PROVE IInv
  OBVIOUS
<1>1. balance \in [User -> Nat]
  BY TableAssumption DEF Init
<1>2. Sum(balance, User) \in Int /\ Total(balance) = Sum(balance, User)
  <2>1. \A u \in User : balance[u] \in Int
    BY <1>1
  <2>. QED BY <1>1, <2>1, SumInt, TableAssumption DEF Total
<1>3. bank \in Int
  BY <1>2 DEF Init
<1>4. /\ NoTable \in RowType /\ NoTable.status = "absent" /\ NoTable.host = NoSeat
      /\ \A i \in Seat : /\ NoTable.members[i] = Empty /\ NoTable.players[i] = NoPlayer
                         /\ NoTable.hands[i] = NoHand
  <2>1. Empty \in MemberType /\ NoPlayer \in PlayerType /\ NoHand \in HandType
    BY TableAssumption DEF Empty, NoPlayer, NoHand, MemberType, PlayerType, HandType
  <2>2. 0 \in 0..MaxRounds
    BY TableAssumption
  <2>. QED BY <2>1, <2>2 DEF RowType, NoTable, Statuses
<1>5. Taken(NoTable) = {} /\ Staying(NoTable) = {}
  BY <1>4 DEF Taken, Staying
<1>6. /\ SeatsOK(NoTable) /\ HandsOK(NoTable) /\ RosterOK(NoTable) /\ PlayersOK(NoTable)
      /\ HostOK(NoTable) /\ OpenOK(NoTable) /\ TurnOK(NoTable)
  BY <1>4, <1>5 DEF SeatsOK, HandsOK, RosterOK, PlayersOK, HostOK, OpenOK, TurnOK, Empty, NoPlayer, NoHand
<1>7. Sound(NoTable) /\ \A bets : ReadyOK(NoTable, bets)
  BY <1>4, <1>6 DEF Sound, ReadyOK, NoPlayer
<1>8. TablesOK
  BY <1>4, <1>7 DEF Init, TablesOK
<1>. QED BY <1>1, <1>3, <1>8 DEF IInv, RestOK, Init

LEMMA NextIInv == IInv /\ [Next]_vars => IInv'
<1>. SUFFICES ASSUME IInv, [Next]_vars PROVE IInv'
  OBVIOUS
<1>1. RestOK'
  BY RestKeeps
<1>2. ASSUME NEW u \in User, NEW r \in Room, Request(u, r)
      PROVE  TablesOK' /\ balance' \in [User -> Nat] /\ bank' \in Int
  BY <1>2, RequestSteps, StepsKeep
<1>3. ASSUME NEW u \in User, PlayElsewhere(u)
      PROVE  TablesOK' /\ balance' \in [User -> Nat] /\ bank' \in Int
  BY <1>3, ElsewhereTypes DEF IInv, TablesOK
<1>4. Tick => TablesOK' /\ balance' \in [User -> Nat] /\ bank' \in Int
  <2>1. Tick => balance' = balance /\ bank' = bank
    BY DEF Tick
  <2>. QED BY <2>1, TickTables DEF IInv
<1>5. UNCHANGED <<balance, bank, table, agreed>> =>
         TablesOK' /\ balance' \in [User -> Nat] /\ bank' \in Int
  BY DEF IInv, TablesOK
<1>6. ASSUME NEW r \in Room, Visit(r)
      PROVE  TablesOK' /\ balance' \in [User -> Nat] /\ bank' \in Int
  <2>1. CASE StepsAt(r)
    BY <2>1, StepsKeep
  <2>. QED BY <1>5, <1>6, <2>1, VisitSteps
<1>7. TablesOK' /\ balance' \in [User -> Nat] /\ bank' \in Int
  BY <1>2, <1>3, <1>4, <1>5, <1>6 DEF Next, Scan, Restart, Release, vars, IInv
<1>. QED BY <1>1, <1>7 DEF IInv

LEMMA AlwaysIInv == Spec => []IInv
<1>1. Init => IInv
  BY InitIInv
<1>2. IInv /\ [Next]_vars => IInv'
  BY NextIInv
<1>. QED BY <1>1, <1>2, PTL DEF Spec

\* The rows, their copy in the public state and the roster of the round tell the same
\* story after every operation, whoever joins, leaves, plays or is stood for.
THEOREM CopiesStayInStep == Spec => []CopiesAgree
<1>1. IInv => CopiesAgree
  <2>. SUFFICES ASSUME IInv PROVE CopiesAgree
    OBVIOUS
  <2>1. TypeOK
    BY DEF IInv, TablesOK, RestOK, TypeOK, RowType, Statuses, MemberType, PlayerType, HandType
  <2>2. LobbyMirrorsMembers
    <3>1. ASSUME NEW r \in Room
          PROVE  LET row == table[r] IN
                 /\ \A i \in Seat :
                       /\ (row.players[i] # NoPlayer) = (i \in Taken(row))
                       /\ (row.players[i].status = "leaving") = row.members[i].leaving
                       /\ \A j \in Taken(row) \ {i} : row.members[i].user # row.members[j].user
                 /\ IF Staying(row) = {} THEN row.host = NoSeat ELSE row.host \in Staying(row)
                 /\ (Staying(row) = {}) => row.status \in {"absent", "active", "closed"}
                 /\ row.status \in {"absent", "closed"} => Taken(row) = {}
      <4> DEFINE row == table[r]
      <4>1. row \in RowType /\ Sound(row)
        BY RowsOK
      <4> HIDE DEF row
      <4>2. \A i \in Seat : row.members[i].leaving \in BOOLEAN
        BY <4>1, RowFields DEF MemberType
      <4>3. ASSUME NEW i \in Seat, NEW j \in Taken(row) \ {i}
            PROVE  row.members[i].user # row.members[j].user
        <5>1. row.members[j].user \in User
          BY <4>1 DEF Sound, SeatsOK
        <5>2. CASE i \in Taken(row)
          BY <4>1, <5>2 DEF Sound, SeatsOK
        <5>3. CASE i \notin Taken(row)
          BY <4>1, <5>1, <5>3, TakenFacts, TableAssumption DEF Empty
        <5>. QED BY <5>2, <5>3
      <4>4. \A i \in Seat : /\ (row.players[i] # NoPlayer) = (i \in Taken(row))
                            /\ (row.players[i].status = "leaving") = row.members[i].leaving
        BY <4>1, <4>2 DEF Sound, PlayersOK
      <4>5. /\ IF Staying(row) = {} THEN row.host = NoSeat ELSE row.host \in Staying(row)
            /\ (Staying(row) = {}) => row.status \in {"absent", "active", "closed"}
            /\ row.status \in {"absent", "closed"} => Taken(row) = {}
        BY <4>1 DEF Sound, HostOK, OpenOK
      <4>. QED BY <4>3, <4>4, <4>5 DEF row
    <3>. QED BY <3>1 DEF LobbyMirrorsMembers
  <2>3. RosterKeepsItsSeats
    <3>1. \A r \in Room : RosterOK(table[r]) /\ SeatsOK(table[r])
      BY RowsOK DEF Sound
    <3>. QED BY <3>1 DEF RosterKeepsItsSeats, RosterOK, SeatsOK
  <2>. QED BY <2>1, <2>2, <2>3 DEF CopiesAgree
<1>. QED BY <1>1, AlwaysIInv, PTL

-----------------------------------------------------------------------------
(***************************************************************************)
(* What a step may do.                                                     *)
(***************************************************************************)

\* A step at one table leaves the others alone.
LEMMA StepsElsewhere ==
    ASSUME IInv, NEW r \in Room, StepsAt(r)
    PROVE  \A q \in Room \ {r} : table'[q] = table[q]
BY DEF StepsAt, Steps, IInv, TablesOK

\* Whoever starts a round finds everybody at the table ready.
LEMMA StartAgreed ==
    ASSUME IInv, NEW u \in User, NEW r \in Room, StartRound(u, r), NEW i \in Taken(table[r])
    PROVE  /\ agreed[r][table[r].members[i].user] # 0
           /\ agreed[r][table[r].members[i].user] = table[r].players[i].bet
<1>1. Sound(table[r]) /\ ReadyOK(table[r], agreed[r])
  BY RowsOK
<1>2. i \in Seat /\ table[r].players[i] # NoPlayer
  BY <1>1 DEF Sound, PlayersOK, Taken
<1>3. table[r].players[i].ready
  BY <1>2 DEF StartRound
<1>4. 0 \notin Bets
  BY TableAssumption
<1>. QED BY <1>1, <1>2, <1>3, <1>4 DEF ReadyOK

LEMMA NextRounds ==
    ASSUME IInv, [Next]_vars, NEW q \in Room, table'[q].round # table[q].round
    PROVE  \E u \in User : StartRound(u, q)
<1>1. ASSUME NEW u \in User, NEW r \in Room, Request(u, r)
      PROVE  StartRound(u, q)
  <2>1. StepsAt(r) /\ (SameRound(r) \/ StartRound(u, r))
    BY <1>1, RequestSteps
  <2>2. q = r
    BY <2>1, StepsElsewhere
  <2>. QED BY <2>1, <2>2 DEF SameRound
<1>2. ASSUME NEW r \in Room, Visit(r) PROVE FALSE
  <2>1. table' # table
    OBVIOUS
  <2>2. StepsAt(r) /\ SameRound(r)
    BY <1>2, <2>1, VisitSteps
  <2>. QED BY <2>2, StepsElsewhere DEF SameRound
<1>3. CASE Tick
  BY <1>3, TickTables
<1>4. table' # table
  OBVIOUS
<1>. QED BY <1>1, <1>2, <1>3, <1>4 DEF Next, PlayElsewhere, Scan, Restart, Release, vars

\* When a round starts, every stake is the bet that this very player has agreed to for
\* this round at this table, although seats and bets are stored apart from the players.
THEOREM StakesStayAgreed == Spec => StakesAreAgreed
<1>1. IInv /\ [Next]_vars =>
        [\A r \in Room :
           table'[r].round # table[r].round =>
              \A i \in Taken(table[r]) :
                  /\ agreed[r][table[r].members[i].user] # 0
                  /\ agreed[r][table[r].members[i].user] = table[r].players[i].bet]_vars
  BY NextRounds, StartAgreed
<1>. QED BY <1>1, AlwaysIInv, PTL DEF Spec, StakesAreAgreed

\* A table that the timer takes off its list is only stood for when its deadline has
\* passed, however old the list is.
THEOREM TimerStaysPatient == Spec => TimerIsNeverEarly
<1>1. ASSUME IInv, [Next]_vars, NEW q \in Room, q \in due, q \notin due', table'[q] # table[q]
      PROVE  table[q].deadline = 0
  <2>1. ASSUME NEW u \in User, NEW r \in Room, Request(u, r) PROVE due' = due
    BY <2>1 DEF Request, Create, Join, Leave, Ready, Unready, StartRound, Play
  <2>2. ASSUME NEW r \in Room, Visit(r) PROVE table[q].deadline = 0
    <3>1. q = r
      BY <1>1, <2>2 DEF Visit
    <3>. QED BY <1>1, <2>2, <3>1, VisitSteps
  <2>. QED BY <1>1, <2>1, <2>2 DEF Next, PlayElsewhere, Scan, Restart, Tick, Release, vars
<1>2. IInv /\ [Next]_vars =>
        [\A r \in Room :
           (r \in due /\ r \notin due' /\ table'[r] # table[r]) => table[r].deadline = 0]_vars
  BY <1>1
<1>. QED BY <1>2, AlwaysIInv, PTL DEF Spec, TimerIsNeverEarly

-----------------------------------------------------------------------------
(***************************************************************************)
(* Money.                                                                  *)
(***************************************************************************)
Tables == [r \in Room |-> OnTable(table[r])]
MoneyInv == Sum(balance, User) + bank + Sum(Tables, Room) = 0

LEMMA TablesType ==
    ASSUME NEW rows \in [Room -> RowType]
    PROVE  LET f == [r \in Room |-> OnTable(rows[r])] IN
           f \in [Room -> Int] /\ Sum(f, Room) \in Int
<1> DEFINE f == [r \in Room |-> OnTable(rows[r])]
<1>1. \A r \in Room : OnTable(rows[r]) \in Int
  BY OnTableFacts
<1>2. f \in [Room -> Int]
  BY <1>1
<1>3. \A r \in Room : f[r] \in Int
  BY <1>2
<1> HIDE DEF f
<1>4. Sum(f, Room) \in Int
  BY <1>3, SumInt, TableAssumption
<1>. QED BY <1>2, <1>4 DEF f

LEMMA WalletsType == ASSUME NEW b \in [User -> Nat] PROVE Sum(b, User) \in Int
<1>1. \A u \in User : b[u] \in Int
  OBVIOUS
<1>. QED BY <1>1, SumInt, TableAssumption

\* What one table gets, the wallets and the house lose.
LEMMA StepsMoney ==
    ASSUME IInv, IInv', MoneyInv, NEW r \in Room, StepsAt(r)
    PROVE  MoneyInv'
<1>1. PICK new : Steps(r, new)
  BY DEF StepsAt
<1>2. /\ Tables \in [Room -> Int] /\ Tables' \in [Room -> Int]
      /\ Sum(Tables, Room) \in Int /\ Sum(Tables', Room) \in Int
      /\ Sum(balance, User) \in Int /\ Sum(balance', User) \in Int
      /\ bank \in Int /\ bank' \in Int
  BY TablesType, WalletsType DEF IInv, TablesOK, Tables
<1>3. Tables[r] = OnTable(table[r]) /\ Tables'[r] = OnTable(new)
  BY <1>1 DEF Tables, Steps, IInv, TablesOK
<1>4. \A q \in Room \ {r} : Tables'[q] = Tables[q]
  BY StepsElsewhere DEF Tables
<1>5. \A q \in Room : Tables[q] \in Int /\ Tables'[q] \in Int
  BY <1>2
<1>6. Sum(Tables', Room) = Sum(Tables, Room) - Tables[r] + Tables'[r]
  BY <1>4, <1>5, SumChange, TableAssumption
<1>7. Sum(balance', User) + bank' + Tables'[r] = Sum(balance, User) + bank + Tables[r]
  BY <1>1, <1>3 DEF Steps
<1>8. Tables[r] \in Int /\ Tables'[r] \in Int
  BY <1>5
<1>9. Sum(balance, User) + bank + Sum(Tables, Room) = 0
  BY DEF MoneyInv
<1>10. Sum(balance', User) + bank' + Sum(Tables', Room) = 0
  BY <1>2, <1>6, <1>7, <1>8, <1>9
<1>. QED BY <1>10 DEF MoneyInv

\* The wallets and the house change with each other, and no table does.
LEMMA ElsewhereMoney ==
    ASSUME IInv, MoneyInv, \A q \in Room : OnTable(table'[q]) = OnTable(table[q]),
           Sum(balance', User) + bank' = Sum(balance, User) + bank
    PROVE  MoneyInv'
<1>1. Tables' = Tables
  BY DEF Tables
<1>. QED BY <1>1 DEF MoneyInv

LEMMA NextMoney == IInv /\ IInv' /\ MoneyInv /\ [Next]_vars => MoneyInv'
<1>. SUFFICES ASSUME IInv, IInv', MoneyInv, [Next]_vars PROVE MoneyInv'
  OBVIOUS
<1>1. ASSUME NEW u \in User, NEW r \in Room, Request(u, r) PROVE MoneyInv'
  BY <1>1, RequestSteps, StepsMoney
<1>2. UNCHANGED <<balance, bank, table>> => MoneyInv'
  BY ElsewhereMoney
<1>3. ASSUME NEW u \in User, PlayElsewhere(u) PROVE MoneyInv'
  BY <1>3, ElsewhereTypes, ElsewhereMoney
<1>4. ASSUME NEW r \in Room, Visit(r) PROVE MoneyInv'
  BY <1>2, <1>4, VisitSteps, StepsMoney
<1>5. ASSUME Tick PROVE MoneyInv'
  <2>1. balance' = balance /\ bank' = bank
    BY <1>5 DEF Tick
  <2>. QED BY <1>5, <2>1, TickTables, ElsewhereMoney
<1>. QED BY <1>1, <1>2, <1>3, <1>4, <1>5 DEF Next, Scan, Restart, Release, vars

LEMMA InitMoney == Init => MoneyInv
<1>. SUFFICES ASSUME Init PROVE MoneyInv
  OBVIOUS
<1>1. IInv
  BY InitIInv
<1>2. Sum(balance, User) \in Int
  BY <1>1, WalletsType DEF IInv
<1>3. bank = -Sum(balance, User)
  BY <1>1 DEF Init, Total, IInv
<1>4. \A r \in Room : Tables[r] = 0
  BY DEF Init, Tables, OnTable, NoTable
<1>5. Sum(Tables, Room) = 0 * Cardinality(Room)
  BY <1>4, SumConstant, TableAssumption
<1>6. Cardinality(Room) \in Nat
  BY FS_CardinalityType, TableAssumption
<1>. QED BY <1>2, <1>3, <1>5, <1>6 DEF MoneyInv

\* Chips move between wallets, tables and the house and are neither made nor lost.
THEOREM MoneyStaysConserved == Spec => []MoneyIsConserved
<1>1. Init => MoneyInv
  BY InitMoney
<1>2. IInv /\ IInv' /\ MoneyInv /\ [Next]_vars => MoneyInv'
  BY NextMoney
<1>3. IInv /\ MoneyInv => MoneyIsConserved
  <2>. SUFFICES ASSUME IInv, MoneyInv PROVE MoneyIsConserved
    OBVIOUS
  <2>1. Total(balance) = Sum(balance, User)
    BY DEF Total, IInv
  <2>2. Total(Tables) = Sum(Tables, Room)
    BY DEF Total, Tables
  <2>. QED BY <2>1, <2>2 DEF MoneyInv, MoneyIsConserved, Tables
<1>. QED BY <1>1, <1>2, <1>3, AlwaysIInv, PTL DEF Spec
=============================================================================
