-------------------------- MODULE HoldemTableProofs --------------------------
(***************************************************************************)
(* Proofs about the six-seat tables, for any number of seats, players,     *)
(* rooms and buy-ins and hands of any length.                              *)
(***************************************************************************)
EXTENDS HoldemTable, SumsProofs, FiniteSetTheorems, TLAPS

Statuses == {"absent", "waiting", "active", "settled", "closed"}

RowType ==
    [status : Statuses, buyIn : BuyIns \cup {0}, deadline : Nat \cup {NoDeadline}, version : Nat,
     seats : [Seat -> User \cup {Nobody}], turn : Seat \cup {NoSeat}, left : 0..MaxMoves]

ActionType ==
    [room : Room \cup {NoRoom}, user : User \cup {Nobody}, type : {"none", "create", "cancel", "move"}]

\* The hand of the table has been paid for.
Staked(row) == row.status \in {"active", "settled"}

\* Nobody sits on two seats, a table that waits is not full, and a player is to move.
Distinct(row) ==
    \A i, j \in Seat : row.seats[i] = row.seats[j] => i = j \/ row.seats[i] = Nobody
Seating(row) ==
    /\ Distinct(row)
    /\ row.status = "waiting" => Cardinality(Members(row)) < Capacity
    /\ row.status = "active" => row.turn \in Occupied(row)

\* A player sits at one live table, and one table of a buy-in is open.
Apart ==
    /\ \A r, q \in Room : Live(room[r]) /\ Live(room[q]) /\ r # q =>
          Members(room[r]) \cap Members(room[q]) = {}
    /\ OneOpenTable

Payers(r) == {u \in User : <<r, u>> \in staked}

\* The records tell who sits where: everybody at a table has a search on record that
\* is not cancelled, and nobody else has.
Search(r, u) == [room |-> r, user |-> u, type |-> "create"]
RecordsOK ==
    /\ \A id \in ActionId :
          /\ (action[id].type = "create" /\ id \notin cancelled) \/ action[id].type = "move" =>
                action[id].room \in Room /\ action[id].user \in Members(room[action[id].room])
          /\ action[id].type = "move" => Staked(room[action[id].room])
          /\ id \in cancelled => action[id].type = "create"
    /\ \A r \in Room, u \in User : u \in Members(room[r]) =>
          \E id \in ActionId \ cancelled : action[id] = Search(r, u)

RestOK ==
    /\ action \in [ActionId -> ActionType]
    /\ cancelled \subseteq ActionId
    /\ due \subseteq Room
    /\ held \in Room \cup {NoRoom}

RoomsOK ==
    /\ room \in [Room -> RowType]
    /\ \A r \in Room : Seating(room[r])
    /\ Apart
    /\ staked \subseteq Room \X User
    /\ \A r \in Room : Payers(r) = IF Staked(room[r]) THEN Members(room[r]) ELSE {}

MoneyInv == elsewhere \in Int /\ MoneyIsConserved

IInv == balance \in [User -> Nat] /\ RestOK /\ RoomsOK /\ RecordsOK

-----------------------------------------------------------------------------
(***************************************************************************)
(* Seats.                                                                  *)
(***************************************************************************)
LEMMA SeatFacts == /\ IsFiniteSet(Seat) /\ Cardinality(Seat) = Capacity
                   /\ Capacity \in Nat /\ Capacity >= 2
                   /\ Seat \subseteq Nat /\ NoSeat \notin Seat
<1>1. Capacity \in Nat /\ Capacity >= 2
  BY TableAssumption
<1>. QED BY <1>1, FS_Interval DEF Seat, NoSeat

LEMMA MembersFacts ==
    ASSUME NEW row \in RowType
    PROVE  /\ Members(row) \subseteq User
           /\ IsFiniteSet(Members(row)) /\ Cardinality(Members(row)) \in Nat
           /\ Members(row) = {row.seats[i] : i \in Seat} \ {Nobody}
<1>1. Members(row) \subseteq User /\ Members(row) = {row.seats[i] : i \in Seat} \ {Nobody}
  BY DEF Members, Occupied, RowType
<1>. QED BY <1>1, TableAssumption, FS_Subset, FS_CardinalityType

LEMMA BuyInNat == ASSUME NEW row \in RowType PROVE row.buyIn \in Nat
<1>1. \A b \in BuyIns : b \in Nat
  BY TableAssumption
<1>2. row.buyIn \in BuyIns \cup {0}
  BY DEF RowType
<1>. QED BY <1>1, <1>2

\* depart: nobody else moves.
LEMMA WithoutFacts ==
    ASSUME NEW row \in RowType, NEW leaving \in SUBSET User
    PROVE  LET rest == Without(row, leaving) IN
           /\ rest \in RowType
           /\ Members(rest) = Members(row) \ leaving
           /\ Distinct(row) => Distinct(rest)
           /\ rest.status = row.status /\ rest.buyIn = row.buyIn /\ rest.deadline = row.deadline
<1> DEFINE rest == Without(row, leaving)
           seats == [i \in Seat |-> IF row.seats[i] \in leaving THEN Nobody ELSE row.seats[i]]
<1>1. rest = [row EXCEPT !.seats = seats]
  BY DEF Without
<1>2. seats \in [Seat -> User \cup {Nobody}]
  BY DEF RowType
<1>3. /\ rest \in RowType /\ rest.seats = seats
      /\ rest.status = row.status /\ rest.buyIn = row.buyIn /\ rest.deadline = row.deadline
  BY <1>1, <1>2 DEF RowType
<1>4. Members(rest) = Members(row) \ leaving
  BY <1>3, MembersFacts, TableAssumption
<1>5. Distinct(row) => Distinct(rest)
  BY <1>3 DEF Distinct
<1>. QED BY <1>3, <1>4, <1>5

\* A player who joins gets a seat that was free.
LEMMA SeatedFacts ==
    ASSUME NEW row \in RowType, Distinct(row), NEW u \in User, u \notin Members(row),
           Cardinality(Members(row)) < Capacity
    PROVE  LET new == Seated(row, u) IN
           /\ new \in RowType
           /\ new = [row EXCEPT !.seats = new.seats]
           /\ Members(new) = Members(row) \cup {u}
           /\ Distinct(new)
           /\ Cardinality(Members(new)) = Cardinality(Members(row)) + 1
<1> DEFINE free == Seat \ Occupied(row)
           seats == [row.seats EXCEPT ![Min(free)] = u]
           new == Seated(row, u)
<1>1. free # {}
  <2>1. SUFFICES ASSUME Occupied(row) = Seat PROVE FALSE
    BY DEF Occupied
  <2>2. row.seats \in [Seat -> Members(row)]
    BY <2>1 DEF Members, RowType
  <2>3. PICK i, j \in Seat : i # j /\ row.seats[i] = row.seats[j]
    <3>1. Cardinality(Members(row)) < Cardinality(Seat)
      BY SeatFacts
    <3>2. IsFiniteSet(Seat) /\ IsFiniteSet(Members(row))
      BY SeatFacts, MembersFacts
    <3>. QED BY <2>2, <3>1, <3>2, FS_PigeonHole
  <2>. QED BY <2>1, <2>3 DEF Distinct, Occupied
<1>2. Min(free) \in free
  <2>1. free \in SUBSET Seat /\ IsFiniteSet(Seat) /\ Seat \subseteq Int
    BY SeatFacts
  <2>2. IsFiniteSet(free) /\ free \in SUBSET Int
    BY <2>1, FS_Subset
  <2>. QED BY <1>1, <2>2, MinOfFinite
<1>3. new = [row EXCEPT !.seats = seats]
  BY DEF Seated
<1> HIDE DEF free
<1>4. /\ Min(free) \in Seat /\ row.seats[Min(free)] = Nobody
      /\ row.seats \in [Seat -> User \cup {Nobody}] /\ Nobody \notin User
  BY <1>2, TableAssumption DEF free, Occupied, RowType
<1>5. /\ seats \in [Seat -> User \cup {Nobody}] /\ seats[Min(free)] = u
      /\ \A i \in Seat \ {Min(free)} : seats[i] = row.seats[i]
  BY <1>4
<1> HIDE DEF seats
<1>6. new \in RowType /\ new.seats = seats
  BY <1>3, <1>5 DEF RowType
<1>7. Members(new) = Members(row) \cup {u}
  <2>1. Members(row) = {row.seats[i] : i \in Seat} \ {Nobody}
    BY MembersFacts
  <2>2. Members(new) = {seats[i] : i \in Seat} \ {Nobody}
    BY <1>6, MembersFacts
  <2>. QED BY <1>4, <1>5, <2>1, <2>2
<1>8. \A i \in Seat : row.seats[i] # u
  BY <1>4, MembersFacts
<1>9. Distinct(new)
  BY <1>5, <1>6, <1>8 DEF Distinct
<1>10. Cardinality(Members(new)) = Cardinality(Members(row)) + 1
  BY <1>7, MembersFacts, FS_AddElement
<1>. QED BY <1>3, <1>6, <1>7, <1>9, <1>10

\* What the other parts of operations do with a row.
LEMMA RecordedFacts ==
    ASSUME NEW row \in RowType
    PROVE  LET new == Recorded(row) IN
           /\ new \in RowType /\ new.status = row.status /\ new.buyIn = row.buyIn
           /\ new.deadline = row.deadline /\ new.seats = row.seats /\ new.turn = row.turn
           /\ new.version = row.version + 1
BY DEF RowType, Recorded

LEMMA ClosedFacts ==
    ASSUME NEW row \in RowType
    PROVE  LET new == Recorded(Closed(row)) IN
           /\ new \in RowType /\ new.status = "closed" /\ new.seats = row.seats
           /\ new.buyIn = row.buyIn
<1> DEFINE new == Closed(row)
<1>1. new \in RowType /\ new.status = "closed" /\ new.seats = row.seats /\ new.buyIn = row.buyIn
  BY DEF RowType, Closed, Statuses
<1> HIDE DEF new
<1>2. Recorded(new) \in RowType /\ Recorded(new).status = "closed"
      /\ Recorded(new).seats = row.seats /\ Recorded(new).buyIn = row.buyIn
  BY <1>1, RecordedFacts
<1>. QED BY <1>2 DEF new

LEMMA TurnFacts ==
    ASSUME NEW row \in RowType, NEW i \in Seat, NEW left \in 0..MaxMoves
    PROVE  LET new == Recorded(Turn([row EXCEPT !.left = left], i)) IN
           /\ new \in RowType /\ new.status = "active" /\ new.seats = row.seats
           /\ new.buyIn = row.buyIn /\ new.turn = i
<1> DEFINE mid == [row EXCEPT !.left = left]
<1>1. mid \in RowType /\ mid.seats = row.seats /\ mid.buyIn = row.buyIn
  BY DEF RowType
<1> HIDE DEF mid
<1> DEFINE new == Turn(mid, i)
<1>2. new \in RowType /\ new.status = "active" /\ new.seats = row.seats
      /\ new.buyIn = row.buyIn /\ new.turn = i
  <2>1. TurnTime \in Nat
    BY TableAssumption
  <2>. QED BY <1>1, <2>1 DEF RowType, Turn, Statuses
<1> HIDE DEF new
<1>3. /\ Recorded(new) \in RowType /\ Recorded(new).status = "active"
      /\ Recorded(new).seats = row.seats /\ Recorded(new).buyIn = row.buyIn /\ Recorded(new).turn = i
  BY <1>2, RecordedFacts
<1>. QED BY <1>3 DEF new, mid

\* Who sits at a table is told by the seats alone.
LEMMA SameSeats ==
    ASSUME NEW row, NEW new, new.seats = row.seats
    PROVE  Members(new) = Members(row) /\ Occupied(new) = Occupied(row) /\ (Distinct(new) <=> Distinct(row))
BY DEF Members, Occupied, Distinct

-----------------------------------------------------------------------------
(***************************************************************************)
(* Operations.                                                             *)
(***************************************************************************)

\* One row changes: nobody comes to a second table, no second table is open, and the
\* players of a hand pay when it starts.
LEMMA RowChanges ==
    ASSUME RoomsOK, NEW r \in Room, NEW new \in RowType, Seating(new),
           room' = [room EXCEPT ![r] = new],
           Live(new) => \A u \in Members(new) : (Live(room[r]) /\ u \in Members(room[r])) \/ ~Searching(u),
           \A q \in Room \ {r} :
              ~(/\ new.status = "waiting" /\ room[q].status = "waiting" /\ room[q].buyIn = new.buyIn
                /\ new.deadline > 0 /\ room[q].deadline > 0),
           NEW paying \in SUBSET User, staked' = staked \cup {<<r, u>> : u \in paying},
           IF Staked(room[r]) THEN Staked(new) /\ Members(new) = Members(room[r]) /\ paying = {}
           ELSE paying = IF Staked(new) THEN Members(new) ELSE {}
    PROVE  RoomsOK'
<1>1. room' \in [Room -> RowType] /\ room'[r] = new /\ \A q \in Room \ {r} : room'[q] = room[q]
  BY DEF RoomsOK
<1>2. \A q \in Room : Seating(room'[q])
  BY <1>1 DEF RoomsOK
<1>3. Apart'
  <2>1. ASSUME NEW p \in Room, NEW q \in Room, Live(room'[p]), Live(room'[q]), p # q
        PROVE  Members(room'[p]) \cap Members(room'[q]) = {}
    <3>1. ASSUME NEW s \in Room, s # r, Live(new), Live(room[s])
          PROVE  Members(new) \cap Members(room[s]) = {}
      <4>1. SUFFICES ASSUME NEW u \in Members(new), u \in Members(room[s]) PROVE FALSE
        OBVIOUS
      <4>2. Live(room[r]) /\ u \in Members(room[r])
        BY <3>1, <4>1 DEF Searching
      <4>. QED BY <3>1, <4>1, <4>2 DEF RoomsOK, Apart
    <3>2. CASE p # r /\ q # r
      BY <1>1, <2>1, <3>2 DEF RoomsOK, Apart
    <3>3. CASE p = r
      BY <1>1, <2>1, <3>1, <3>3
    <3>4. CASE q = r
      BY <1>1, <2>1, <3>1, <3>4
    <3>. QED BY <3>2, <3>3, <3>4
  <2>2. OneOpenTable'
    <3>1. SUFFICES ASSUME NEW p \in Room, NEW q \in Room, p # q,
                          room'[p].status = "waiting", room'[q].status = "waiting",
                          room'[p].buyIn = room'[q].buyIn, room'[p].deadline > 0, room'[q].deadline > 0
                   PROVE  FALSE
      BY DEF OneOpenTable
    <3>2. CASE p # r /\ q # r
      BY <1>1, <3>1, <3>2 DEF RoomsOK, Apart, OneOpenTable
    <3>3. CASE p = r
      BY <1>1, <3>1, <3>3
    <3>4. CASE q = r
      BY <1>1, <3>1, <3>4
    <3>. QED BY <3>2, <3>3, <3>4
  <2>. QED BY <2>1, <2>2 DEF Apart
<1>4. staked' \subseteq Room \X User
  BY DEF RoomsOK
<1>5. ASSUME NEW q \in Room
      PROVE  Payers(q)' = IF Staked(room'[q]) THEN Members(room'[q]) ELSE {}
  <2>1. Payers(q) = IF Staked(room[q]) THEN Members(room[q]) ELSE {}
    BY DEF RoomsOK
  <2>2. CASE q = r
    <3>1. Payers(r)' = Payers(r) \cup paying
      BY DEF Payers
    <3>. QED BY <1>1, <2>1, <2>2, <3>1
  <2>3. CASE q # r
    <3>1. Payers(q)' = Payers(q)
      BY <2>3 DEF Payers
    <3>. QED BY <1>1, <2>1, <2>3, <3>1
  <2>. QED BY <2>2, <2>3
<1>. QED BY <1>1, <1>2, <1>3, <1>4, <1>5 DEF RoomsOK

\* The records after an operation: somebody may have come, whose search is stored now,
\* others may have left, whose searches are cancelled now, or a move is stored.
LEMMA RecordsChange ==
    ASSUME IInv, NEW r \in Room, NEW new \in RowType, room' = [room EXCEPT ![r] = new],
           NEW coming \in SUBSET User, NEW leaving \in SUBSET User, coming \cap leaving = {},
           Members(new) = (Members(room[r]) \cup coming) \ leaving,
           cancelled' = cancelled \cup Searches(r, leaving),
           Staked(room[r]) => Staked(new) /\ leaving = {},
           \/ action' = action /\ coming = {}
           \/ \E id \in ActionId, u \in User, type \in {"create", "cancel", "move"} :
                 /\ action[id] = NoAction /\ Stored(id, r, u, type)
                 /\ coming = IF type = "create" THEN {u} ELSE {}
                 /\ type = "move" => u \in Members(new) /\ Staked(new)
    PROVE  RecordsOK'
<1>1. /\ room \in [Room -> RowType] /\ action \in [ActionId -> ActionType]
      /\ cancelled \subseteq ActionId /\ RecordsOK
  BY DEF IInv, RoomsOK, RestOK
<1>2. room'[r] = new /\ \A q \in Room \ {r} : room'[q] = room[q]
  BY <1>1
<1>3. \A q \in Room : Staked(room[q]) => Staked(room'[q])
  BY <1>2
<1>4. \A q \in Room, u \in User :
         u \in Members(room[q]) => u \in Members(room'[q]) \/ (q = r /\ u \in leaving)
  BY <1>2
<1>5. \A id \in ActionId : action[id].type \in {"none", "create", "cancel", "move"}
  BY <1>1 DEF ActionType
\* What is on record already.
<1>6. ASSUME NEW id \in ActionId, action'[id] = action[id]
      PROVE  /\ (action'[id].type = "create" /\ id \notin cancelled') \/ action'[id].type = "move" =>
                   action'[id].room \in Room /\ action'[id].user \in Members(room'[action'[id].room])
             /\ action'[id].type = "move" => Staked(room'[action'[id].room])
             /\ id \in cancelled' => action'[id].type = "create"
  <2> DEFINE q == action[id].room  v == action[id].user
  <2>1. /\ (action[id].type = "create" /\ id \notin cancelled) \/ action[id].type = "move" =>
              q \in Room /\ v \in Members(room[q])
        /\ action[id].type = "move" => Staked(room[q])
        /\ id \in cancelled => action[id].type = "create"
    BY <1>1 DEF RecordsOK
  <2>2. id \in Searches(r, leaving) => action[id].type = "create"
    BY DEF Searches
  <2>3. ASSUME action[id].type = "create", id \notin cancelled'
        PROVE  q \in Room /\ v \in Members(room'[q])
    <3>1. q \in Room /\ v \in Members(room[q])
      BY <2>1, <2>3
    <3>2. ~(q = r /\ v \in leaving)
      BY <2>3 DEF Searches
    <3>3. v \in User
      BY <1>1, <3>1, MembersFacts
    <3>. QED BY <1>4, <3>1, <3>2, <3>3
  <2>4. ASSUME action[id].type = "move"
        PROVE  q \in Room /\ v \in Members(room'[q]) /\ Staked(room'[q])
    <3>1. q \in Room /\ v \in Members(room[q]) /\ Staked(room[q])
      BY <2>1, <2>4
    <3>2. v \in User
      BY <1>1, <3>1, MembersFacts
    <3>. QED BY <1>3, <1>4, <3>1, <3>2
  <2>. QED BY <1>6, <2>1, <2>2, <2>3, <2>4
\* Whose search is on record.
<1>7. ASSUME NEW q \in Room, NEW v \in User, v \in Members(room'[q]), ~(q = r /\ v \in coming)
      PROVE  \E id \in ActionId \ cancelled' : action[id] = Search(q, v)
  <2>1. v \in Members(room[q])
    BY <1>2, <1>7
  <2>2. PICK id \in ActionId \ cancelled : action[id] = Search(q, v)
    BY <1>1, <2>1 DEF RecordsOK
  <2>3. id \notin Searches(r, leaving)
    BY <1>2, <1>7, <2>2 DEF Searches, Search
  <2>. QED BY <2>2, <2>3
<1>8. CASE action' = action /\ coming = {}
  <2>1. \A id \in ActionId : action'[id] = action[id]
    BY <1>8
  <2>2. \A q \in Room, u \in User : u \in Members(room'[q]) =>
           \E id \in ActionId \ cancelled' : action'[id] = Search(q, u)
    BY <1>7, <1>8
  <2>. QED BY <1>6, <2>1, <2>2 DEF RecordsOK, Search
<1>9. ASSUME NEW id \in ActionId, NEW u \in User, NEW type \in {"create", "cancel", "move"},
             action[id] = NoAction, Stored(id, r, u, type),
             coming = IF type = "create" THEN {u} ELSE {},
             type = "move" => u \in Members(new) /\ Staked(new)
      PROVE  RecordsOK'
  <2>1. /\ action'[id] = [room |-> r, user |-> u, type |-> type]
        /\ \A other \in ActionId \ {id} : action'[other] = action[other]
    BY <1>1, <1>9 DEF Stored
  <2>2. id \notin cancelled'
    <3>1. action[id].type = "none"
      BY <1>9 DEF NoAction
    <3>. QED BY <1>1, <3>1 DEF RecordsOK, Searches
  <2>3. type = "create" => u \in Members(new)
    BY <1>9
  <2>4. /\ (action'[id].type = "create" /\ id \notin cancelled') \/ action'[id].type = "move" =>
              action'[id].room \in Room /\ action'[id].user \in Members(room'[action'[id].room])
        /\ action'[id].type = "move" => Staked(room'[action'[id].room])
        /\ id \in cancelled' => action'[id].type = "create"
    BY <1>2, <1>9, <2>1, <2>2, <2>3
  <2>5. ASSUME NEW q \in Room, NEW v \in User, v \in Members(room'[q])
        PROVE  \E other \in ActionId \ cancelled' : action'[other] = Search(q, v)
    <3>1. CASE q = r /\ v \in coming
      <4>1. type = "create" /\ v = u
        BY <1>9, <3>1
      <4>2. action'[id] = Search(q, v)
        BY <2>1, <3>1, <4>1 DEF Search
      <4>. QED BY <2>2, <4>2
    <3>2. CASE ~(q = r /\ v \in coming)
      <4>1. PICK other \in ActionId \ cancelled' : action[other] = Search(q, v)
        BY <1>7, <2>5, <3>2
      <4>2. other # id
        BY <1>9, <4>1 DEF NoAction, Search
      <4>. QED BY <2>1, <4>1, <4>2
    <3>. QED BY <3>1, <3>2
  <2>6. \A other \in ActionId :
           /\ (action'[other].type = "create" /\ other \notin cancelled') \/ action'[other].type = "move" =>
                 action'[other].room \in Room /\ action'[other].user \in Members(room'[action'[other].room])
           /\ action'[other].type = "move" => Staked(room'[action'[other].room])
           /\ other \in cancelled' => action'[other].type = "create"
    BY <1>6, <2>1, <2>4
  <2>. QED BY <2>5, <2>6 DEF RecordsOK, Search
<1>. QED BY <1>8, <1>9

\* start: whoever cannot pay has left, and the others wait on, go, or play and have paid.
Paying(new) == IF new.status = "active" THEN Members(new) ELSE {}
StartedAs(r, row, new) ==
    /\ new \in RowType /\ Seating(new) /\ new.status \in {"waiting", "active", "closed"}
    /\ Members(new) = Members(row) \ Insolvent(row)
    /\ new.buyIn = row.buyIn
    /\ new.status = "waiting" => new.deadline = row.deadline
    /\ room' = [room EXCEPT ![r] = new]
    /\ staked' = staked \cup {<<r, u>> : u \in Paying(new)}
    /\ balance' = [u \in User |-> IF u \in Paying(new) THEN balance[u] - row.buyIn ELSE balance[u]]
    /\ cancelled' = cancelled \cup Searches(r, Insolvent(row))

LEMMA StartOutcome ==
    ASSUME balance \in [User -> Nat], NEW r \in Room, NEW row \in RowType, Distinct(row),
           row.status = "waiting", Start(r, row)
    PROVE  \E new : StartedAs(r, row, new)
<1> DEFINE leaving == Insolvent(row)
           rest == Without(row, leaving)
           n == Cardinality(Members(rest))
           over == row.deadline = 0
<1>1. leaving \in SUBSET User /\ Members(row) \subseteq User
  BY MembersFacts DEF Insolvent
<1>2. /\ rest \in RowType /\ Members(rest) = Members(row) \ leaving /\ Distinct(rest)
      /\ rest.status = "waiting" /\ rest.buyIn = row.buyIn /\ rest.deadline = row.deadline
  BY <1>1, WithoutFacts
<1>3. cancelled' = cancelled \cup Searches(r, leaving)
  BY DEF Start
<1>4. CASE /\ n < Capacity /\ ~over
           /\ room' = [room EXCEPT ![r] = Recorded(rest)]
           /\ UNCHANGED <<balance, staked>>
  <2> DEFINE new == Recorded(rest)
  <2>1. /\ new \in RowType /\ new.status = "waiting" /\ new.buyIn = row.buyIn
        /\ new.deadline = row.deadline /\ new.seats = rest.seats
    BY <1>2, RecordedFacts
  <2>2. Members(new) = Members(rest) /\ Distinct(new)
    BY <1>2, <2>1, SameSeats
  <2> HIDE DEF new, rest
  <2>3. Seating(new)
    BY <1>4, <2>1, <2>2 DEF Seating
  <2>4. Paying(new) = {}
    BY <2>1 DEF Paying
  <2>5. /\ staked' = staked \cup {<<r, u>> : u \in Paying(new)}
        /\ balance' = [u \in User |-> IF u \in Paying(new) THEN balance[u] - row.buyIn ELSE balance[u]]
    BY <1>4, <2>4
  <2>6. room' = [room EXCEPT ![r] = new]
    BY <1>4 DEF new
  <2>7. StartedAs(r, row, new)
    BY <1>2, <1>3, <2>1, <2>2, <2>3, <2>5, <2>6 DEF StartedAs
  <2>. QED BY <2>7
<1>5. CASE /\ n < 2 /\ over
           /\ room' = [room EXCEPT ![r] = Recorded(Closed(rest))]
           /\ UNCHANGED <<balance, staked>>
  <2> DEFINE new == Recorded(Closed(rest))
  <2>1. /\ new \in RowType /\ new.status = "closed" /\ new.buyIn = row.buyIn
        /\ new.seats = rest.seats
    BY <1>2, ClosedFacts
  <2>2. Members(new) = Members(rest) /\ Distinct(new)
    BY <1>2, <2>1, SameSeats
  <2> HIDE DEF new, rest
  <2>3. Seating(new)
    BY <2>1, <2>2 DEF Seating
  <2>4. Paying(new) = {}
    BY <2>1 DEF Paying
  <2>5. /\ staked' = staked \cup {<<r, u>> : u \in Paying(new)}
        /\ balance' = [u \in User |-> IF u \in Paying(new) THEN balance[u] - row.buyIn ELSE balance[u]]
    BY <1>5, <2>4
  <2>6. room' = [room EXCEPT ![r] = new]
    BY <1>5 DEF new
  <2>7. StartedAs(r, row, new)
    BY <1>2, <1>3, <2>1, <2>2, <2>3, <2>5, <2>6 DEF StartedAs
  <2>. QED BY <2>7
<1>6. CASE /\ n >= 2 /\ (n = Capacity \/ over)
           /\ balance' = [u \in User |-> IF u \in Members(rest)
                                         THEN balance[u] - row.buyIn ELSE balance[u]]
           /\ staked' = staked \cup {<<r, u>> : u \in Members(rest)}
           /\ \E i \in Occupied(rest) :
                 room' = [room EXCEPT ![r] =
                             Recorded(Turn([rest EXCEPT !.left = MaxMoves], i))]
  <2>1. PICK i \in Occupied(rest) :
           room' = [room EXCEPT ![r] = Recorded(Turn([rest EXCEPT !.left = MaxMoves], i))]
    BY <1>6
  <2> DEFINE new == Recorded(Turn([rest EXCEPT !.left = MaxMoves], i))
  <2>2. i \in Seat /\ MaxMoves \in 0..MaxMoves
    BY TableAssumption DEF Occupied
  <2>3. /\ new \in RowType /\ new.status = "active" /\ new.seats = rest.seats
        /\ new.buyIn = row.buyIn /\ new.turn = i
    BY <1>2, <2>2, TurnFacts
  <2>4. Members(new) = Members(rest) /\ Distinct(new) /\ Occupied(new) = Occupied(rest)
    BY <1>2, <2>3, SameSeats
  <2>5. room' = [room EXCEPT ![r] = new]
    BY <2>1
  <2> HIDE DEF new, rest
  <2>6. Seating(new)
    BY <2>3, <2>4 DEF Seating
  <2>7. Paying(new) = Members(rest)
    BY <2>3, <2>4 DEF Paying
  <2>8. StartedAs(r, row, new)
    BY <1>2, <1>3, <1>6, <2>3, <2>4, <2>5, <2>6, <2>7 DEF StartedAs
  <2>. QED BY <2>8
<1>. QED BY <1>4, <1>5, <1>6 DEF Start

\* Whoever pays the buy-in has it.
LEMMA StartWallets ==
    ASSUME balance \in [User -> Nat], NEW r \in Room, NEW row \in RowType, NEW new, StartedAs(r, row, new)
    PROVE  balance' \in [User -> Nat]
<1>1. row.buyIn \in Nat
  BY BuyInNat
<1>2. ASSUME NEW u \in User, u \in Paying(new) PROVE balance[u] - row.buyIn \in Nat
  <2>1. u \in Members(row) /\ u \notin Insolvent(row)
    BY <1>2 DEF StartedAs, Paying
  <2>2. ~(balance[u] < row.buyIn)
    BY <2>1 DEF Insolvent
  <2>3. balance[u] \in Nat
    OBVIOUS
  <2>. QED BY <1>1, <2>2, <2>3
<1>. QED BY <1>2 DEF StartedAs

\* update: somebody else is to move, or the hand is settled.
PlayedAs(r, row, new) ==
    /\ new \in RowType /\ Seating(new) /\ Staked(new) /\ new.seats = row.seats
    /\ room' = [room EXCEPT ![r] = new]
    /\ \/ new.status = "active" /\ new.buyIn = row.buyIn /\ balance' = balance
       \/ new.status = "settled"
          /\ \E cash \in CashOuts(row) : balance' = [u \in User |-> balance[u] + cash[u]]

LEMMA PlayedOutcome ==
    ASSUME NEW r \in Room, NEW row \in RowType, Distinct(row), row.status = "active", Played(r, row)
    PROVE  \E new : PlayedAs(r, row, new)
<1>1. CASE /\ row.left > 1
           /\ \E i \in Occupied(row) :
                 room' = [room EXCEPT ![r] = Recorded(Turn([row EXCEPT !.left = @ - 1], i))]
           /\ UNCHANGED balance
  <2>1. PICK i \in Occupied(row) :
           room' = [room EXCEPT ![r] = Recorded(Turn([row EXCEPT !.left = row.left - 1], i))]
    BY <1>1
  <2> DEFINE new == Recorded(Turn([row EXCEPT !.left = row.left - 1], i))
  <2>2. i \in Seat /\ row.left - 1 \in 0..MaxMoves
    BY <1>1, TableAssumption DEF Occupied, RowType
  <2>3. /\ new \in RowType /\ new.status = "active" /\ new.seats = row.seats
        /\ new.buyIn = row.buyIn /\ new.turn = i
    BY <2>2, TurnFacts
  <2>4. Distinct(new) /\ Occupied(new) = Occupied(row)
    BY <2>3, SameSeats
  <2> HIDE DEF new
  <2>5. Seating(new) /\ Staked(new)
    BY <2>3, <2>4 DEF Seating, Staked
  <2>6. PlayedAs(r, row, new)
    BY <1>1, <2>1, <2>3, <2>5 DEF PlayedAs, new
  <2>. QED BY <2>6
<1>2. CASE /\ \E cash \in CashOuts(row) : balance' = [u \in User |-> balance[u] + cash[u]]
           /\ room' = [room EXCEPT ![r] =
                 Recorded([row EXCEPT !.status = "settled", !.deadline = NoDeadline,
                                      !.turn = NoSeat, !.left = 0])]
  <2> DEFINE mid == [row EXCEPT !.status = "settled", !.deadline = NoDeadline,
                                !.turn = NoSeat, !.left = 0]
             new == Recorded(mid)
  <2>1. mid \in RowType /\ mid.status = "settled" /\ mid.seats = row.seats
    <3>1. 0 \in 0..MaxMoves
      BY TableAssumption
    <3>. QED BY <3>1 DEF RowType, Statuses
  <2> HIDE DEF mid
  <2>2. new \in RowType /\ new.status = "settled" /\ new.seats = row.seats
    BY <2>1, RecordedFacts
  <2> HIDE DEF new
  <2>3. Seating(new) /\ Staked(new)
    BY <2>2, SameSeats DEF Seating, Staked
  <2>4. PlayedAs(r, row, new)
    BY <1>2, <2>2, <2>3 DEF PlayedAs, new, mid
  <2>. QED BY <2>4
<1>. QED BY <1>1, <1>2 DEF Played

LEMMA PlayedWallets ==
    ASSUME balance \in [User -> Nat], NEW r \in Room, NEW row \in RowType, NEW new, PlayedAs(r, row, new)
    PROVE  balance' \in [User -> Nat]
<1>1. CASE balance' = balance
  BY <1>1
<1>2. CASE \E cash \in CashOuts(row) : balance' = [u \in User |-> balance[u] + cash[u]]
  <2>1. PICK cash \in CashOuts(row) : balance' = [u \in User |-> balance[u] + cash[u]]
    BY <1>2
  <2>2. \A u \in User : cash[u] \in Nat
    BY DEF CashOuts
  <2>. QED BY <2>1, <2>2
<1>. QED BY <1>1, <1>2 DEF PlayedAs

-----------------------------------------------------------------------------
(***************************************************************************)
(* Steps.                                                                  *)
(***************************************************************************)

\* No other table of this buy-in is open.
Alone(r, row) ==
    \A q \in Room \ {r} :
        ~(/\ row.status = "waiting" /\ room[q].status = "waiting" /\ room[q].buyIn = row.buyIn
          /\ row.deadline > 0 /\ room[q].deadline > 0)

LEMMA AloneAtFirst == ASSUME RoomsOK, NEW r \in Room PROVE Alone(r, room[r])
BY DEF RoomsOK, Apart, OneOpenTable, Alone

\* A player comes to a table, and whoever cannot pay leaves it.
LEMMA ComingKeeps ==
    ASSUME IInv, NEW r \in Room, NEW u \in User, NEW id \in ActionId, NEW new \in RowType,
           Seating(new), new.status \in {"waiting", "active", "closed"}, Alone(r, new),
           room' = [room EXCEPT ![r] = new],
           NEW leaving \in SUBSET User, u \notin leaving,
           Members(new) = (Members(room[r]) \cup {u}) \ leaving,
           staked' = staked \cup {<<r, v>> : v \in Paying(new)},
           cancelled' = cancelled \cup Searches(r, leaving),
           ~Staked(room[r]), Members(room[r]) # {} => Live(room[r]), ~Searching(u),
           action[id] = NoAction, Stored(id, r, u, "create")
    PROVE  RoomsOK' /\ RecordsOK'
<1>1. Members(new) \subseteq User
  BY MembersFacts
<1>2. \A v \in Members(new) : (Live(room[r]) /\ v \in Members(room[r])) \/ ~Searching(v)
  OBVIOUS
<1>3. Paying(new) \in SUBSET User /\ Paying(new) = IF Staked(new) THEN Members(new) ELSE {}
  BY <1>1 DEF Paying, Staked
<1>4. RoomsOK'
  BY <1>2, <1>3, RowChanges DEF Alone, IInv
<1>5. \E a \in ActionId, v \in User, type \in {"create", "cancel", "move"} :
         /\ action[a] = NoAction /\ Stored(a, r, v, type)
         /\ {u} = IF type = "create" THEN {v} ELSE {}
         /\ type = "move" => v \in Members(new) /\ Staked(new)
  OBVIOUS
<1>6. {u} \in SUBSET User /\ {u} \cap leaving = {}
  OBVIOUS
<1>7. RecordsOK'
  BY <1>5, <1>6, RecordsChange
<1>. QED BY <1>4, <1>7

LEMMA NewTableFacts ==
    ASSUME NEW buyIn \in BuyIns
    PROVE  LET new == NewTable(buyIn) IN
           /\ new \in RowType /\ new.status = "waiting" /\ new.buyIn = buyIn
           /\ new.deadline = SearchTime /\ Distinct(new) /\ Members(new) = {}
<1> DEFINE new == NewTable(buyIn)
<1>1. NoRow \in RowType /\ NoRow.seats = [i \in Seat |-> Nobody]
  BY TableAssumption DEF NoRow, RowType, Statuses, NoDeadline, NoSeat
<1>2. /\ new \in RowType /\ new.status = "waiting" /\ new.buyIn = buyIn
      /\ new.deadline = SearchTime /\ new.seats = [i \in Seat |-> Nobody]
  <2>1. SearchTime \in Nat /\ "waiting" \in Statuses
    BY TableAssumption DEF Statuses
  <2>. QED BY <1>1, <2>1 DEF NewTable, RowType
<1>3. Members(new) = {} /\ Distinct(new)
  BY <1>2 DEF Members, Occupied, Distinct
<1>. QED BY <1>2, <1>3

\* A table that was not played waits now, or its hand has been started.
OpensOrStarts(r, new) ==
    /\ ~Staked(room[r])
    /\ \/ room' = [room EXCEPT ![r] = new] /\ new.status = "waiting" /\ balance' = balance
       \/ \E row \in RowType : StartedAs(r, row, new)

\* create.
LEMMA CreateKeeps ==
    ASSUME IInv, NEW u \in User, NEW id \in ActionId, Create(u, id)
    PROVE  /\ balance' \in [User -> Nat] /\ RoomsOK' /\ RecordsOK'
           /\ \E r \in Room : \E new : OpensOrStarts(r, new)
<1>1. Rooms \subseteq Room
  BY DEF Rooms, AnyOf
<1>2. PICK buyIn \in BuyIns, r \in Room :
        LET old == IF Candidates(buyIn) = {} THEN NewTable(buyIn) ELSE room[r]
            row == Seated(old, u)
        IN  /\ action[id] = NoAction
            /\ ~Searching(u)
            /\ IF Candidates(buyIn) = {} THEN room[r] = NoRow ELSE r \in Candidates(buyIn)
            /\ balance[u] >= buyIn
            /\ IF Cardinality(Members(row)) = Capacity
               THEN Start(r, row)
               ELSE /\ room' = [room EXCEPT ![r] = Recorded(row)]
                    /\ UNCHANGED <<balance, staked, cancelled>>
            /\ Stored(id, r, u, "create")
  BY <1>1 DEF Create
<1> DEFINE old == IF Candidates(buyIn) = {} THEN NewTable(buyIn) ELSE room[r]
           row == Seated(old, u)
<1>3. /\ room \in [Room -> RowType] /\ balance \in [User -> Nat] /\ Seating(room[r])
  BY DEF IInv, RoomsOK
\* The table that is joined or opened.
<1>4. /\ old \in RowType /\ old.status = "waiting" /\ old.buyIn = buyIn /\ Distinct(old)
      /\ Cardinality(Members(old)) < Capacity /\ Members(old) = Members(room[r])
      /\ Alone(r, old) /\ ~Staked(room[r]) /\ (Members(room[r]) # {} => Live(room[r]))
  <2>1. CASE Candidates(buyIn) = {}
    <3>1. room[r] = NoRow /\ old = NewTable(buyIn)
      BY <1>2, <2>1
    <3>2. ~Staked(NoRow) /\ Members(NoRow) = {}
      BY DEF NoRow, Staked, Members, Occupied
    <3>3. \A q \in Room \ {r} : room[q].status = "waiting" /\ room[q].buyIn = buyIn => ~(room[q].deadline > 0)
      BY <1>3, <2>1 DEF Candidates, InTime, IInv, RoomsOK, Seating
    <3>4. Cardinality({}) < Capacity
      BY FS_EmptySet, SeatFacts
    <3>. QED BY <3>1, <3>2, <3>3, <3>4, NewTableFacts DEF Alone
  <2>2. CASE Candidates(buyIn) # {}
    <3>1. r \in Candidates(buyIn) /\ old = room[r]
      BY <1>2, <2>2
    <3>2. Alone(r, room[r])
      BY AloneAtFirst DEF IInv
    <3>. QED BY <1>3, <3>1, <3>2 DEF Candidates, Seating, Live, Staked
  <2>. QED BY <2>1, <2>2
<1>5. u \notin Members(old)
  BY <1>2, <1>4 DEF Searching
<1> HIDE DEF old
<1>6. /\ row \in RowType /\ Members(row) = Members(old) \cup {u} /\ Distinct(row)
      /\ row.status = "waiting" /\ row.buyIn = buyIn /\ row.deadline = old.deadline
      /\ Cardinality(Members(row)) = Cardinality(Members(old)) + 1
  BY <1>4, <1>5, SeatedFacts DEF Seated, RowType
<1>7. action[id] = NoAction /\ Stored(id, r, u, "create") /\ ~Searching(u) /\ balance[u] >= buyIn
  BY <1>2
<1>8. /\ Cardinality(Members(row)) = Capacity => Start(r, row)
      /\ Cardinality(Members(row)) # Capacity =>
            /\ room' = [room EXCEPT ![r] = Recorded(row)]
            /\ UNCHANGED <<balance, staked, cancelled>>
  BY <1>2 DEF old
<1> HIDE DEF row
<1>9. CASE Cardinality(Members(row)) = Capacity
  <2>1. PICK new : StartedAs(r, row, new)
    BY <1>3, <1>6, <1>8, <1>9, StartOutcome
  <2>2. Insolvent(row) \in SUBSET User /\ u \notin Insolvent(row)
    <3>1. row.buyIn \in Nat /\ row.buyIn = buyIn /\ balance[u] \in Nat
      BY <1>3, <1>6, BuyInNat
    <3>2. ~(balance[u] < row.buyIn)
      BY <1>7, <3>1
    <3>. QED BY <1>6, <3>2, MembersFacts DEF Insolvent
  <2>3. Alone(r, new)
    BY <1>4, <1>6, <2>1 DEF Alone, StartedAs
  <2>4. Members(new) = (Members(room[r]) \cup {u}) \ Insolvent(row)
    BY <1>4, <1>6, <2>1 DEF StartedAs
  <2>5. RoomsOK' /\ RecordsOK'
    BY <1>4, <1>7, <2>1, <2>2, <2>3, <2>4, ComingKeeps DEF StartedAs
  <2>6. OpensOrStarts(r, new)
    BY <1>4, <1>6, <2>1 DEF OpensOrStarts
  <2>. QED BY <1>3, <1>6, <2>1, <2>5, <2>6, StartWallets
<1>10. CASE Cardinality(Members(row)) # Capacity
  <2> DEFINE new == Recorded(row)
  <2>1. /\ new \in RowType /\ new.status = "waiting" /\ new.buyIn = buyIn
        /\ new.deadline = row.deadline /\ new.seats = row.seats
    BY <1>6, RecordedFacts
  <2>2. Members(new) = Members(row) /\ Distinct(new)
    BY <1>6, <2>1, SameSeats
  <2>3. room' = [room EXCEPT ![r] = new] /\ UNCHANGED <<balance, staked, cancelled>>
    BY <1>8, <1>10
  <2> HIDE DEF new
  <2>4. Cardinality(Members(new)) < Capacity
    <3>1. Cardinality(Members(old)) \in Nat /\ Capacity \in Nat
      BY <1>4, MembersFacts, SeatFacts
    <3>. QED BY <1>4, <1>6, <1>10, <2>2, <3>1
  <2>5. Seating(new)
    BY <2>1, <2>2, <2>4 DEF Seating
  <2>6. Alone(r, new)
    BY <1>4, <1>6, <2>1 DEF Alone
  <2>7. Paying(new) = {} /\ Searches(r, {}) = {}
    BY <2>1 DEF Paying, Searches
  <2>8. Members(new) = (Members(room[r]) \cup {u}) \ {}
    BY <1>4, <1>6, <2>2
  <2>9. staked' = staked \cup {<<r, v>> : v \in Paying(new)} /\ cancelled' = cancelled \cup Searches(r, {})
    BY <2>3, <2>7
  <2>10. RoomsOK' /\ RecordsOK'
    <3>1. {} \in SUBSET User /\ u \notin {} /\ new.status \in {"waiting", "active", "closed"}
      BY <2>1
    <3>. QED BY <1>4, <1>7, <2>1, <2>3, <2>5, <2>6, <2>8, <2>9, <3>1, ComingKeeps
  <2>11. OpensOrStarts(r, new)
    BY <1>4, <2>1, <2>3 DEF OpensOrStarts
  <2>. QED BY <1>3, <2>3, <2>10, <2>11
<1>. QED BY <1>9, <1>10

\* apply, with {"action": "cancel"}.
LEMMA CancelKeeps ==
    ASSUME IInv, NEW u \in User, NEW r \in Room, NEW id \in ActionId, Cancel(u, r, id)
    PROVE  RoomsOK' /\ RecordsOK'
<1> DEFINE row == Without(room[r], {u})
           mid == IF Members(row) = {} THEN Closed(row) ELSE row
           new == Recorded(mid)
<1>1. /\ action[id] = NoAction /\ room[r].status = "waiting"
      /\ room' = [room EXCEPT ![r] = new] /\ cancelled' = cancelled \cup Searches(r, {u})
      /\ Stored(id, r, u, "cancel") /\ staked' = staked
  BY DEF Cancel, Cancellable
<1>2. room[r] \in RowType /\ Seating(room[r])
  BY DEF IInv, RoomsOK
<1>3. /\ row \in RowType /\ Members(row) = Members(room[r]) \ {u} /\ Distinct(row)
      /\ row.status = "waiting" /\ row.buyIn = room[r].buyIn /\ row.deadline = room[r].deadline
  <2>1. {u} \in SUBSET User /\ Distinct(room[r])
    BY <1>2 DEF Seating
  <2>. QED BY <1>1, <1>2, <2>1, WithoutFacts
<1> HIDE DEF row
<1>4. /\ new \in RowType /\ new.seats = row.seats /\ new.buyIn = row.buyIn
      /\ new.status = "closed" \/ (new.status = "waiting" /\ new.deadline = row.deadline)
  <2>1. CASE Members(row) = {}
    BY <1>3, <2>1, ClosedFacts
  <2>2. CASE Members(row) # {}
    BY <1>3, <2>2, RecordedFacts
  <2>. QED BY <2>1, <2>2
<1>5. Members(new) = Members(room[r]) \ {u} /\ Distinct(new)
  BY <1>3, <1>4, SameSeats
<1> HIDE DEF new
<1>6. Seating(new)
  <2>1. Cardinality(Members(new)) <= Cardinality(Members(room[r]))
    BY <1>2, <1>5, MembersFacts, FS_Subset
  <2>2. Cardinality(Members(new)) \in Nat /\ Cardinality(Members(room[r])) \in Nat /\ Capacity \in Nat
    BY <1>2, <1>4, MembersFacts, SeatFacts
  <2>3. Cardinality(Members(room[r])) < Capacity
    BY <1>1, <1>2 DEF Seating
  <2>. QED BY <1>4, <1>5, <2>1, <2>2, <2>3 DEF Seating
<1>7. Alone(r, new)
  BY <1>1, <1>3, <1>4, AloneAtFirst DEF Alone, IInv
<1>8. RoomsOK'
  <2>1. ~Staked(room[r]) /\ ~Staked(new) /\ Live(room[r])
    BY <1>1, <1>4 DEF Staked, Live
  <2>2. staked' = staked \cup {<<r, v>> : v \in {}} /\ {} \in SUBSET User
    BY <1>1
  <2>. QED BY <1>1, <1>4, <1>5, <1>6, <1>7, <2>1, <2>2, RowChanges DEF Alone, IInv
<1>9. RecordsOK'
  <2>1. \E a \in ActionId, v \in User, type \in {"create", "cancel", "move"} :
           /\ action[a] = NoAction /\ Stored(a, r, v, type)
           /\ {} = IF type = "create" THEN {v} ELSE {}
           /\ type = "move" => v \in Members(new) /\ Staked(new)
    BY <1>1
  <2>2. ~Staked(room[r]) /\ Members(new) = (Members(room[r]) \cup {}) \ {u}
    BY <1>1, <1>5 DEF Staked
  <2>3. {} \in SUBSET User /\ {u} \in SUBSET User
    OBVIOUS
  <2>. QED BY <1>1, <1>4, <2>1, <2>2, <2>3, RecordsChange
<1>. QED BY <1>8, <1>9

\* A move of the hand leaves everybody where they sit.
LEMMA PlayedKeeps ==
    ASSUME IInv, NEW r \in Room, room[r].status = "active", Played(r, room[r]),
           staked' = staked, cancelled' = cancelled,
           \/ action' = action
           \/ \E id \in ActionId, u \in Members(room[r]) :
                 action[id] = NoAction /\ Stored(id, r, u, "move")
    PROVE  balance' \in [User -> Nat] /\ RoomsOK' /\ RecordsOK'
<1>1. room[r] \in RowType /\ Seating(room[r]) /\ balance \in [User -> Nat]
  BY DEF IInv, RoomsOK
<1>2. PICK new : PlayedAs(r, room[r], new)
  BY <1>1, PlayedOutcome DEF Seating
<1>3. /\ new \in RowType /\ Seating(new) /\ Staked(new) /\ room' = [room EXCEPT ![r] = new]
      /\ Members(new) = Members(room[r]) /\ Staked(room[r]) /\ Live(room[r])
  BY <1>2, SameSeats DEF PlayedAs, Staked, Live
<1>4. RoomsOK'
  <2>1. new.status # "waiting"
    BY <1>3 DEF Staked
  <2>2. staked' = staked \cup {<<r, v>> : v \in {}} /\ {} \in SUBSET User
    OBVIOUS
  <2>. QED BY <1>3, <2>1, <2>2, RowChanges DEF IInv
<1>5. RecordsOK'
  <2>1. \/ action' = action
        \/ \E a \in ActionId, v \in User, type \in {"create", "cancel", "move"} :
              /\ action[a] = NoAction /\ Stored(a, r, v, type)
              /\ {} = IF type = "create" THEN {v} ELSE {}
              /\ type = "move" => v \in Members(new) /\ Staked(new)
    <3>1. Members(room[r]) \subseteq User
      BY <1>1, MembersFacts
    <3>. QED BY <1>3, <3>1
  <2>2. Members(new) = (Members(room[r]) \cup {}) \ {} /\ cancelled' = cancelled \cup Searches(r, {})
    BY <1>3 DEF Searches
  <2>3. {} \in SUBSET User
    OBVIOUS
  <2>. QED BY <1>3, <2>1, <2>2, <2>3, RecordsChange
<1>. QED BY <1>1, <1>2, <1>4, <1>5, PlayedWallets

LEMMA MoveKeeps ==
    ASSUME IInv, NEW u \in User, NEW r \in Room, NEW id \in ActionId, Move(u, r, id)
    PROVE  balance' \in [User -> Nat] /\ RoomsOK' /\ RecordsOK'
<1>1. room[r] \in RowType /\ Seating(room[r])
  BY DEF IInv, RoomsOK
<1>2. u \in Members(room[r])
  BY <1>1 DEF Move, Seating, Members
<1>. QED BY <1>2, PlayedKeeps DEF Move

\* A search that is over, with the players it has.
EndedAs(r, new, leaving) ==
    /\ new \in RowType /\ Seating(new) /\ new.status \in {"waiting", "active", "closed"}
    /\ Members(new) = Members(room[r]) \ leaving
    /\ new.buyIn = room[r].buyIn
    /\ new.status = "waiting" => new.deadline = room[r].deadline
    /\ room' = [room EXCEPT ![r] = new]
    /\ staked' = staked \cup {<<r, u>> : u \in Paying(new)}
    /\ cancelled' = cancelled \cup Searches(r, leaving)
    /\ balance' \in [User -> Nat]

LEMMA VisitKeeps ==
    ASSUME IInv, NEW r \in Room, Visit(r)
    PROVE  balance' \in [User -> Nat] /\ RoomsOK' /\ RecordsOK'
<1>1. room[r] \in RowType /\ Seating(room[r]) /\ balance \in [User -> Nat] /\ action' = action
  BY DEF IInv, RoomsOK, Visit
<1>2. CASE ~StillDue(room[r])
  <2>1. UNCHANGED <<balance, room, staked, action, cancelled>>
    BY <1>2 DEF Visit
  <2>. QED BY <1>1, <2>1 DEF IInv, RoomsOK, RecordsOK, Apart, OneOpenTable, Payers
<1>3. CASE StillDue(room[r]) /\ room[r].status = "waiting"
  <2>1. \E new : \E leaving \in SUBSET User : EndedAs(r, new, leaving)
    <3>1. CASE Cardinality(Members(room[r])) >= 2
      <4>1. Start(r, room[r])
        BY <1>3, <3>1 DEF Visit
      <4>2. PICK new : StartedAs(r, room[r], new)
        BY <1>1, <1>3, <4>1, StartOutcome DEF Seating
      <4>3. Insolvent(room[r]) \in SUBSET User
        BY <1>1, MembersFacts DEF Insolvent
      <4>4. balance' \in [User -> Nat]
        BY <1>1, <4>2, StartWallets
      <4>5. EndedAs(r, new, Insolvent(room[r]))
        BY <4>2, <4>4 DEF StartedAs, EndedAs
      <4>. QED BY <4>3, <4>5
    <3>2. CASE ~(Cardinality(Members(room[r])) >= 2)
      <4> DEFINE new == Recorded(Closed(room[r]))
      <4>1. room' = [room EXCEPT ![r] = new] /\ UNCHANGED <<balance, staked, cancelled>>
        BY <1>3, <3>2 DEF Visit
      <4>2. /\ new \in RowType /\ new.status = "closed" /\ new.buyIn = room[r].buyIn
            /\ new.seats = room[r].seats
        BY <1>1, ClosedFacts
      <4> HIDE DEF new
      <4>3. Members(new) = Members(room[r]) \ {} /\ Seating(new)
        BY <1>1, <4>2, SameSeats DEF Seating
      <4>4. Paying(new) = {} /\ Searches(r, {}) = {}
        BY <4>2 DEF Paying, Searches
      <4>5. EndedAs(r, new, {})
        BY <1>1, <4>1, <4>2, <4>3, <4>4 DEF EndedAs
      <4>. QED BY <4>5
    <3>. QED BY <3>1, <3>2
  <2>2. PICK new : \E leaving \in SUBSET User : EndedAs(r, new, leaving)
    BY <2>1
  <2>3. PICK leaving \in SUBSET User : EndedAs(r, new, leaving)
    BY <2>2
  <2>4. ~Staked(room[r]) /\ Live(room[r])
    BY <1>3 DEF Staked, Live
  <2>5. Paying(new) \in SUBSET User /\ Paying(new) = IF Staked(new) THEN Members(new) ELSE {}
    BY <2>3, MembersFacts DEF EndedAs, Paying, Staked
  <2>6. Alone(r, new)
    BY <1>3, <2>3, AloneAtFirst DEF EndedAs, Alone, IInv
  <2>7. RoomsOK'
    BY <2>3, <2>4, <2>5, <2>6, RowChanges DEF EndedAs, Alone, IInv
  <2>8. RecordsOK'
    <3>1. {} \in SUBSET User /\ Members(new) = (Members(room[r]) \cup {}) \ leaving
      BY <2>3 DEF EndedAs
    <3>. QED BY <1>1, <2>3, <2>4, <3>1, RecordsChange DEF EndedAs
  <2>. QED BY <2>3, <2>7, <2>8 DEF EndedAs
<1>4. CASE StillDue(room[r]) /\ room[r].status = "active"
  BY <1>1, <1>4, PlayedKeeps DEF Visit
<1>. QED BY <1>2, <1>3, <1>4 DEF StillDue, Due, Live

\* Time passes: nobody moves, and no more tables are open than before.
LEMMA TickKeeps ==
    ASSUME IInv, Tick
    PROVE  RoomsOK' /\ RecordsOK'
<1>1. /\ room \in [Room -> RowType] /\ \A q \in Room : Seating(room[q])
      /\ UNCHANGED <<staked, action, cancelled>>
  BY DEF IInv, RoomsOK, Tick
<1>2. room' = [q \in Room |-> IF room[q].deadline > 0
                              THEN [room[q] EXCEPT !.deadline = room[q].deadline - 1] ELSE room[q]]
  BY DEF Tick
<1>3. ASSUME NEW q \in Room
      PROVE  /\ room'[q] \in RowType /\ room'[q].status = room[q].status
             /\ room'[q].seats = room[q].seats /\ room'[q].turn = room[q].turn
             /\ room'[q].buyIn = room[q].buyIn
             /\ room'[q].deadline > 0 => room[q].deadline > 0
  <2> DEFINE d == room[q].deadline - 1
  <2>1. CASE room[q].deadline > 0
    <3>1. d \in Nat
      BY <1>1, <2>1 DEF RowType, NoDeadline
    <3>2. room'[q] = [room[q] EXCEPT !.deadline = d]
      BY <1>2, <2>1
    <3> HIDE DEF d
    <3>. QED BY <1>1, <2>1, <3>1, <3>2 DEF RowType
  <2>2. CASE ~(room[q].deadline > 0)
    BY <1>1, <1>2, <2>2
  <2>. QED BY <2>1, <2>2
<1>4. room' \in [Room -> RowType]
  <2>1. room' = [q \in Room |-> room'[q]]
    BY <1>2
  <2>. QED BY <1>3, <2>1
<1>5. \A q \in Room : /\ Members(room'[q]) = Members(room[q])
                      /\ Occupied(room'[q]) = Occupied(room[q])
                      /\ Distinct(room'[q]) <=> Distinct(room[q])
  BY <1>3, SameSeats
<1>6. \A q \in Room : Seating(room'[q])
  BY <1>1, <1>3, <1>5 DEF Seating
<1>7. Apart'
  BY <1>3, <1>5 DEF IInv, RoomsOK, Apart, OneOpenTable, Live
<1>8. \A q \in Room : Payers(q)' = IF Staked(room'[q]) THEN Members(room'[q]) ELSE {}
  BY <1>1, <1>3, <1>5 DEF IInv, RoomsOK, Payers, Staked
<1>9. RoomsOK'
  BY <1>1, <1>4, <1>6, <1>7, <1>8 DEF IInv, RoomsOK
<1>10. RecordsOK'
  <2>1. \A id \in ActionId : (action[id].type = "create" /\ id \notin cancelled) \/ action[id].type = "move" =>
           action[id].room \in Room
    BY DEF IInv, RecordsOK
  <2>. QED BY <1>1, <1>3, <1>5, <2>1 DEF IInv, RecordsOK, Search, Staked
<1>. QED BY <1>9, <1>10

LEMMA RequestKeeps ==
    ASSUME IInv, NEW u \in User, NEW id \in ActionId, Request(u, id)
    PROVE  IInv'
<1>1. balance' \in [User -> Nat] /\ RoomsOK' /\ RecordsOK'
  <2>1. CASE Create(u, id)
    BY <2>1, CreateKeeps
  <2>2. ASSUME NEW r \in Room, Cancel(u, r, id) PROVE balance' \in [User -> Nat] /\ RoomsOK' /\ RecordsOK'
    BY <2>2, CancelKeeps DEF Cancel, IInv
  <2>3. ASSUME NEW r \in Room, Move(u, r, id) PROVE balance' \in [User -> Nat] /\ RoomsOK' /\ RecordsOK'
    BY <2>3, MoveKeeps
  <2>. QED BY <2>1, <2>2, <2>3 DEF Request
<1>2. RestOK'
  <2>1. PICK r \in Room, type \in {"create", "cancel", "move"} : Stored(id, r, u, type)
    BY DEF Request, Create, Cancel, Move, Rooms, AnyOf
  <2>2. action' \in [ActionId -> ActionType]
    BY <2>1 DEF Stored, IInv, RestOK, ActionType
  <2>3. cancelled' \subseteq ActionId
    <3>1. cancelled \subseteq ActionId
      BY DEF IInv, RestOK
    <3>. QED BY <3>1 DEF Request, Create, Cancel, Move, Start, Searches
  <2>4. due' \subseteq Room /\ held' \in Room \cup {NoRoom}
    BY DEF Request, Create, Cancel, Move, Exclusive, IInv, RestOK
  <2>. QED BY <2>2, <2>3, <2>4 DEF RestOK
<1>. QED BY <1>1, <1>2 DEF IInv

LEMMA InitIInv == Init => IInv
<1>. SUFFICES ASSUME Init PROVE IInv
  OBVIOUS
<1>1. balance \in [User -> Nat] /\ staked = {} /\ cancelled = {} /\ room = [r \in Room |-> NoRow]
  BY TableAssumption DEF Init
<1>2. /\ NoRow \in RowType /\ NoRow.status = "absent" /\ NoRow.seats = [i \in Seat |-> Nobody]
  BY TableAssumption DEF NoRow, RowType, Statuses, NoDeadline, NoSeat
<1>3. Members(NoRow) = {} /\ Seating(NoRow) /\ ~Live(NoRow) /\ ~Staked(NoRow)
  BY <1>2 DEF Members, Occupied, Seating, Distinct, Live, Staked
<1>4. RestOK
  BY DEF Init, RestOK, ActionType, NoAction
<1>5. RoomsOK
  BY <1>1, <1>2, <1>3 DEF RoomsOK, Apart, OneOpenTable, Payers
<1>6. RecordsOK
  BY <1>1, <1>3 DEF RecordsOK, Init, NoAction
<1>. QED BY <1>1, <1>4, <1>5, <1>6 DEF IInv

LEMMA NextIInv == IInv /\ [Next]_vars => IInv'
<1>. SUFFICES ASSUME IInv, [Next]_vars PROVE IInv'
  OBVIOUS
<1>1. ASSUME NEW u \in User, NEW id \in ActionId, Request(u, id) PROVE IInv'
  BY <1>1, RequestKeeps
<1>2. ASSUME NEW u \in User, PlayElsewhere(u) PROVE IInv'
  <2>1. balance' \in [User -> Nat] /\ UNCHANGED <<room, staked, action, cancelled, due, held>>
    BY <1>2, TableAssumption DEF PlayElsewhere, IInv
  <2>. QED BY <2>1 DEF IInv, RestOK, RoomsOK, RecordsOK, Apart, OneOpenTable, Payers
<1>3. ASSUME NEW r \in Room, Visit(r) PROVE IInv'
  <2>1. balance' \in [User -> Nat] /\ RoomsOK' /\ RecordsOK'
    BY <1>3, VisitKeeps
  <2>2. RestOK'
    BY <1>3 DEF Visit, Start, Searches, IInv, RestOK
  <2>. QED BY <2>1, <2>2 DEF IInv
<1>4. CASE Scan \/ Restart \/ Release
  <2>1. UNCHANGED <<balance, room, staked, action, cancelled>>
    BY <1>4 DEF Scan, Restart, Release
  <2>2. due' \subseteq Room /\ held' \in Room \cup {NoRoom}
    BY <1>4 DEF Scan, Restart, Release, IInv, RestOK
  <2>. QED BY <2>1, <2>2 DEF IInv, RestOK, RoomsOK, RecordsOK, Apart, OneOpenTable, Payers
<1>5. CASE Tick
  <2>1. RestOK' /\ balance' = balance
    BY <1>5 DEF Tick, IInv, RestOK
  <2>. QED BY <1>5, <2>1, TickKeeps DEF IInv
<1>6. CASE UNCHANGED vars
  BY <1>6 DEF vars, IInv, RestOK, RoomsOK, RecordsOK, Apart, OneOpenTable, Payers
<1>7. NewIds \subseteq ActionId
  BY DEF NewIds, AnyOf
<1>. QED BY <1>1, <1>2, <1>3, <1>4, <1>5, <1>6, <1>7 DEF Next, Timer

-----------------------------------------------------------------------------
(***************************************************************************)
(* What the invariant means for the promises of the service.               *)
(***************************************************************************)
LEMMA MeansSeating == IInv /\ elsewhere \in Int => SeatingIsSound
<1>. SUFFICES ASSUME IInv, elsewhere \in Int PROVE SeatingIsSound
  OBVIOUS
<1>1. TypeOK
  BY DEF IInv, RestOK, RoomsOK, TypeOK, RowType, ActionType, Statuses
<1>2. ASSUME NEW u \in User
      PROVE  Cardinality({at \in Room \X Seat : Live(room[at[1]]) /\ room[at[1]].seats[at[2]] = u}) <= 1
  <2> DEFINE seats == {at \in Room \X Seat : Live(room[at[1]]) /\ room[at[1]].seats[at[2]] = u}
  <2>1. ASSUME NEW a \in seats, NEW b \in seats PROVE a = b
    <3>1. /\ a[1] \in Room /\ a[2] \in Seat /\ Live(room[a[1]]) /\ room[a[1]].seats[a[2]] = u
          /\ b[1] \in Room /\ b[2] \in Seat /\ Live(room[b[1]]) /\ room[b[1]].seats[b[2]] = u
          /\ a = <<a[1], a[2]>> /\ b = <<b[1], b[2]>>
      OBVIOUS
    <3>2. u # Nobody
      BY TableAssumption
    <3>3. u \in Members(room[a[1]]) /\ u \in Members(room[b[1]])
      BY <3>1, <3>2 DEF Members, Occupied
    <3>4. a[1] = b[1]
      BY <3>1, <3>3 DEF IInv, RoomsOK, Apart
    <3>5. Distinct(room[a[1]])
      BY <3>1 DEF IInv, RoomsOK, Seating
    <3>6. a[2] = b[2]
      BY <3>1, <3>2, <3>4, <3>5 DEF Distinct
    <3>. QED BY <3>1, <3>4, <3>6
  <2> HIDE DEF seats
  <2>2. CASE seats = {}
    <3>1. Cardinality(seats) = 0
      BY <2>2, FS_EmptySet
    <3>. QED BY <3>1 DEF seats
  <2>3. CASE seats # {}
    <3>1. PICK a \in seats : TRUE
      BY <2>3
    <3>2. seats = {a}
      BY <2>1, <3>1
    <3>3. Cardinality(seats) = 1
      BY <3>2, FS_Singleton
    <3>. QED BY <3>3 DEF seats
  <2>. QED BY <2>2, <2>3
<1>3. OneLiveTable
  BY <1>2 DEF OneLiveTable
<1>. QED BY <1>1, <1>3 DEF SeatingIsSound, IInv, RoomsOK, Apart

LEMMA MeansStakes == IInv => StakesMatchRoster
BY DEF IInv, RoomsOK, Payers, Staked, StakesMatchRoster

\* A search that was cancelled is not the one that has been paid for: who sits at the
\* table has another one on record.
LEMMA MeansRetries == IInv => RetriesAreAnswered
<1>. SUFFICES ASSUME IInv, NEW id \in ActionId
              PROVE  /\ (action[id].type = "create" /\ id \notin cancelled) \/ action[id].type = "move"
                           => action[id].user \in Members(room[action[id].room])
                     /\ id \in cancelled =>
                           <<action[id].room, action[id].user>> \notin staked
                           \/ \E other \in ActionId \ ({id} \cup cancelled) : action[other] = action[id]
  BY DEF RetriesAreAnswered
<1>1. ASSUME id \in cancelled, <<action[id].room, action[id].user>> \in staked
      PROVE  \E other \in ActionId \ ({id} \cup cancelled) : action[other] = action[id]
  <2> DEFINE r == action[id].room  u == action[id].user
  <2>1. r \in Room /\ u \in User /\ u \in Payers(r)
    BY <1>1 DEF IInv, RoomsOK, Payers
  <2>2. u \in Members(room[r])
    BY <2>1 DEF IInv, RoomsOK
  <2>3. PICK other \in ActionId \ cancelled : action[other] = Search(r, u)
    BY <2>1, <2>2 DEF IInv, RecordsOK
  <2>4. action[id].type = "create" /\ action[id] \in ActionType
    BY <1>1 DEF IInv, RecordsOK, RestOK
  <2>5. action[id] = Search(r, u)
    BY <2>4 DEF ActionType, Search
  <2>. QED BY <1>1, <2>3, <2>5
<1>. QED BY <1>1 DEF IInv, RecordsOK

-----------------------------------------------------------------------------
(***************************************************************************)
(* Chips.                                                                  *)
(***************************************************************************)
Tables == [r \in Room |-> OnTable(room[r])]

LEMMA OnTableNat == ASSUME NEW row \in RowType PROVE OnTable(row) \in Nat
<1>1. row.buyIn \in Nat /\ Cardinality(Members(row)) \in Nat
  BY MembersFacts, BuyInNat
<1>2. \A n, m \in Nat : n * m \in Nat
  OBVIOUS
<1>. QED BY <1>1, <1>2 DEF OnTable

LEMMA TableSum ==
    ASSUME NEW rows \in [Room -> RowType]
    PROVE  LET f == [r \in Room |-> OnTable(rows[r])] IN
           /\ Total(f) = Sum(f, Room) /\ Sum(f, Room) \in Int
           /\ \A r \in Room : f[r] \in Int
<1> DEFINE f == [r \in Room |-> OnTable(rows[r])]
<1>1. \A r \in Room : f[r] \in Int
  BY OnTableNat
<1>2. DOMAIN f = Room
  OBVIOUS
<1> HIDE DEF f
<1>3. Total(f) = Sum(f, Room) /\ Sum(f, Room) \in Int
  BY <1>1, <1>2, SumInt, TableAssumption DEF Total
<1>. QED BY <1>1, <1>3 DEF f

LEMMA WalletSum ==
    ASSUME NEW b \in [User -> Nat]
    PROVE  Total(b) = Sum(b, User) /\ Sum(b, User) \in Int
BY SumInt, TableAssumption DEF Total

\* What the wallets, other games and the tables get is together nothing.
LEMMA MoneyMoves ==
    ASSUME IInv, IInv', MoneyInv,
           NEW wallets \in Int, Sum(balance', User) = Sum(balance, User) + wallets,
           NEW others \in Int, elsewhere' = elsewhere + others,
           NEW tables \in Int, Sum(Tables', Room) = Sum(Tables, Room) + tables,
           wallets + others + tables = 0
    PROVE  MoneyInv'
<1>1. /\ Total(balance) = Sum(balance, User) /\ Sum(balance, User) \in Int
      /\ Total(balance') = Sum(balance', User)
  BY WalletSum DEF IInv
<1>2. /\ Total(Tables) = Sum(Tables, Room) /\ Sum(Tables, Room) \in Int
      /\ Total(Tables)' = Sum(Tables', Room)
  BY TableSum DEF Tables, IInv, RoomsOK
<1>3. /\ MoneyIsConserved <=> Total(balance) + elsewhere + Total(Tables) = 0
      /\ MoneyIsConserved' <=> Total(balance') + elsewhere' + Total(Tables)' = 0
  BY DEF MoneyIsConserved, Tables
<1>. QED BY <1>1, <1>2, <1>3 DEF MoneyInv

\* A step that moves no chips, and starts or ends no hand.
LEMMA NoMoneyMoves ==
    ASSUME IInv, IInv', MoneyInv, UNCHANGED <<balance, elsewhere>>,
           \A q \in Room : OnTable(room'[q]) = OnTable(room[q])
    PROVE  MoneyInv'
<1>1. Tables' = Tables
  BY DEF Tables
<1>2. Sum(Tables, Room) \in Int /\ Sum(balance, User) \in Int
  BY TableSum, WalletSum DEF Tables, IInv, RoomsOK
<1>3. /\ Sum(balance', User) = Sum(balance, User) + 0 /\ elsewhere' = elsewhere + 0
      /\ Sum(Tables', Room) = Sum(Tables, Room) + 0
  BY <1>1, <1>2 DEF MoneyInv
<1>. QED BY <1>3, MoneyMoves

\* What one table gets, the wallets lose.
LEMMA OneTableChanges ==
    ASSUME IInv, IInv', MoneyInv, NEW r \in Room, NEW new, room' = [room EXCEPT ![r] = new],
           elsewhere' = elsewhere,
           Sum(balance', User) = Sum(balance, User) + (OnTable(room[r]) - OnTable(new))
    PROVE  MoneyInv'
<1>1. room \in [Room -> RowType] /\ room' \in [Room -> RowType] /\ room'[r] = new
  BY DEF IInv, RoomsOK
<1>2. /\ \A q \in Room \ {r} : Tables'[q] = Tables[q]
      /\ Tables[r] = OnTable(room[r]) /\ Tables'[r] = OnTable(new)
  BY <1>1 DEF Tables
<1>3. /\ \A q \in Room : Tables[q] \in Int /\ Tables'[q] \in Int
      /\ Sum(Tables, Room) \in Int
  BY <1>1, TableSum DEF Tables
<1>4. Sum(Tables', Room) = Sum(Tables, Room) - Tables[r] + Tables'[r]
  BY <1>2, <1>3, SumChange, TableAssumption
<1> DEFINE d == OnTable(room[r]) - OnTable(new)
           e == OnTable(new) - OnTable(room[r])
<1>5. OnTable(room[r]) \in Int /\ OnTable(new) \in Int
  BY <1>2, <1>3
<1>6. /\ d \in Int /\ e \in Int /\ d + 0 + e = 0
      /\ Sum(Tables', Room) = Sum(Tables, Room) + e /\ elsewhere' = elsewhere + 0
  BY <1>2, <1>3, <1>4, <1>5 DEF MoneyInv
<1>7. Sum(balance', User) = Sum(balance, User) + d
  OBVIOUS
<1> HIDE DEF d, e
<1>. QED BY <1>6, <1>7, MoneyMoves

\* start: each of the players of the hand has put a buy-in on the table.
LEMMA StartMoney ==
    ASSUME IInv, IInv', MoneyInv, NEW r \in Room, NEW row \in RowType, NEW new,
           StartedAs(r, row, new), OnTable(room[r]) = 0, elsewhere' = elsewhere
    PROVE  MoneyInv'
<1>1. /\ new \in RowType /\ room' = [room EXCEPT ![r] = new] /\ new.buyIn = row.buyIn
      /\ \A u \in User : balance'[u] = IF u \in Paying(new) THEN balance[u] - row.buyIn ELSE balance[u]
  BY DEF StartedAs
<1>2. row.buyIn \in Int /\ Paying(new) \in SUBSET User /\ \A u \in User : balance[u] \in Int
  <2>1. row.buyIn \in Nat /\ Members(new) \subseteq User
    BY <1>1, BuyInNat, MembersFacts
  <2>2. \A u \in User : balance[u] \in Nat
    BY DEF IInv
  <2>. QED BY <2>1, <2>2 DEF Paying
<1>3. Sum(balance', User) = Sum(balance, User) - row.buyIn * Cardinality(Paying(new))
  <2>1. balance' = Charged(balance, User, Paying(new), row.buyIn)
    BY DEF StartedAs, Charged
  <2>. QED BY <1>2, <2>1, SumCharged, TableAssumption
<1>4. OnTable(new) = row.buyIn * Cardinality(Paying(new))
  <2>1. CASE new.status = "active"
    BY <1>1, <2>1 DEF OnTable, Paying
  <2>2. CASE new.status # "active"
    <3>1. Paying(new) = {} /\ Cardinality({}) = 0 /\ row.buyIn * 0 = 0
      BY <1>2, <2>2, FS_EmptySet DEF Paying
    <3>. QED BY <2>2, <3>1 DEF OnTable
  <2>. QED BY <2>1, <2>2
<1>5. OnTable(new) \in Nat /\ Sum(balance, User) \in Int
  BY <1>1, OnTableNat, WalletSum DEF IInv
<1>6. Sum(balance', User) = Sum(balance, User) + (OnTable(room[r]) - OnTable(new))
  BY <1>3, <1>4, <1>5
<1>. QED BY <1>1, <1>6, OneTableChanges

\* update: the players get back together what lies on the table.
LEMMA PlayedMoney ==
    ASSUME IInv, IInv', MoneyInv, NEW r \in Room, room[r].status = "active", NEW new,
           PlayedAs(r, room[r], new), elsewhere' = elsewhere
    PROVE  MoneyInv'
<1>1. room[r] \in RowType /\ balance \in [User -> Nat]
  BY DEF IInv, RoomsOK
<1>2. new \in RowType /\ room' = [room EXCEPT ![r] = new] /\ Members(new) = Members(room[r])
  BY SameSeats DEF PlayedAs
<1>3. OnTable(room[r]) \in Nat /\ Sum(balance, User) \in Int
  BY <1>1, OnTableNat, WalletSum
<1>4. CASE new.status = "active" /\ new.buyIn = room[r].buyIn /\ balance' = balance
  <2>1. OnTable(new) = OnTable(room[r])
    BY <1>2, <1>4 DEF OnTable
  <2>2. Sum(balance', User) = Sum(balance, User) + (OnTable(room[r]) - OnTable(new))
    BY <1>3, <1>4, <2>1
  <2>. QED BY <1>2, <2>2, OneTableChanges
<1>5. ASSUME new.status = "settled",
             NEW cash \in CashOuts(room[r]), balance' = [u \in User |-> balance[u] + cash[u]]
      PROVE  MoneyInv'
  <2>1. cash \in [User -> Nat]
    BY DEF CashOuts
  <2>2. Total(cash) = OnTable(room[r])
    BY DEF CashOuts, OnTable
  <2>3. Total(cash) = Sum(cash, User)
    BY <2>1, WalletSum
  <2>4. \A u \in User : balance[u] \in Int /\ cash[u] \in Int /\ balance'[u] = balance[u] + cash[u]
    BY <1>1, <1>5, <2>1
  <2>5. Sum(balance', User) = Sum(balance, User) + Sum(cash, User)
    BY <2>4, SumPlus, TableAssumption
  <2>6. OnTable(new) = 0
    BY <1>5 DEF OnTable
  <2>7. Sum(balance', User) = Sum(balance, User) + (OnTable(room[r]) - OnTable(new))
    BY <1>3, <2>2, <2>3, <2>5, <2>6
  <2>. QED BY <1>2, <2>7, OneTableChanges
<1>. QED BY <1>4, <1>5 DEF PlayedAs

LEMMA PlayedStepMoney ==
    ASSUME IInv, IInv', MoneyInv, NEW r \in Room, room[r].status = "active", Played(r, room[r]),
           elsewhere' = elsewhere
    PROVE  MoneyInv'
<1>1. room[r] \in RowType /\ Distinct(room[r])
  BY DEF IInv, RoomsOK, Seating
<1>. QED BY <1>1, PlayedOutcome, PlayedMoney

LEMMA OpensOrStartsMoney ==
    ASSUME IInv, IInv', MoneyInv, NEW r \in Room, NEW new, OpensOrStarts(r, new), elsewhere' = elsewhere
    PROVE  MoneyInv'
<1>1. OnTable(room[r]) = 0 /\ room \in [Room -> RowType]
  BY DEF OpensOrStarts, Staked, OnTable, IInv, RoomsOK
<1>2. CASE room' = [room EXCEPT ![r] = new] /\ new.status = "waiting" /\ balance' = balance
  <2>1. \A q \in Room : OnTable(room'[q]) = OnTable(room[q])
    BY <1>1, <1>2 DEF OnTable
  <2>. QED BY <1>2, <2>1, NoMoneyMoves
<1>3. CASE \E row \in RowType : StartedAs(r, row, new)
  BY <1>1, <1>3, StartMoney
<1>. QED BY <1>2, <1>3 DEF OpensOrStarts

LEMMA RequestMoney ==
    ASSUME IInv, IInv', MoneyInv, NEW u \in User, NEW id \in ActionId, Request(u, id)
    PROVE  MoneyInv'
<1>1. CASE Create(u, id)
  <2>1. elsewhere' = elsewhere
    BY <1>1 DEF Create
  <2>2. PICK r \in Room : \E new : OpensOrStarts(r, new)
    BY <1>1, CreateKeeps
  <2>3. PICK new : OpensOrStarts(r, new)
    BY <2>2
  <2>. QED BY <2>1, <2>3, OpensOrStartsMoney
<1>2. ASSUME NEW r \in Room, Cancel(u, r, id) PROVE MoneyInv'
  <2> DEFINE row == Without(room[r], {u})
  <2>1. /\ room[r].status = "waiting" /\ room \in [Room -> RowType]
        /\ room' = [room EXCEPT ![r] = Recorded(IF Members(row) = {} THEN Closed(row) ELSE row)]
        /\ UNCHANGED <<balance, elsewhere>>
    BY <1>2 DEF Cancel, Cancellable, IInv, RoomsOK
  <2>2. row \in RowType /\ row.status = "waiting"
    <3>1. {u} \in SUBSET User
      OBVIOUS
    <3>. QED BY <2>1, <3>1, WithoutFacts
  <2>3. Recorded(row).status = "waiting" /\ Recorded(Closed(row)).status = "closed"
    BY <2>2, RecordedFacts, ClosedFacts
  <2> HIDE DEF row
  <2>4. \A q \in Room : OnTable(room'[q]) = OnTable(room[q])
    BY <2>1, <2>3 DEF OnTable
  <2>. QED BY <2>1, <2>4, NoMoneyMoves
<1>3. ASSUME NEW r \in Room, Move(u, r, id) PROVE MoneyInv'
  BY <1>3, PlayedStepMoney DEF Move
<1>. QED BY <1>1, <1>2, <1>3 DEF Request

LEMMA VisitMoney ==
    ASSUME IInv, IInv', MoneyInv, NEW r \in Room, Visit(r)
    PROVE  MoneyInv'
<1>1. room[r] \in RowType /\ Distinct(room[r]) /\ room \in [Room -> RowType] /\ elsewhere' = elsewhere
  BY DEF IInv, RoomsOK, Seating, Visit
<1>2. CASE ~StillDue(room[r])
  BY <1>2, NoMoneyMoves DEF Visit
<1>3. CASE StillDue(room[r]) /\ room[r].status = "waiting"
  <2>1. CASE Start(r, room[r])
    <3>1. PICK new : StartedAs(r, room[r], new)
      BY <1>1, <1>3, <2>1, StartOutcome DEF IInv
    <3>2. OpensOrStarts(r, new)
      BY <1>1, <1>3, <3>1 DEF OpensOrStarts, Staked
    <3>. QED BY <1>1, <3>2, OpensOrStartsMoney
  <2>2. CASE room' = [room EXCEPT ![r] = Recorded(Closed(room[r]))] /\ balance' = balance
    <3>1. Recorded(Closed(room[r])).status = "closed"
      BY <1>1, ClosedFacts
    <3>2. \A q \in Room : OnTable(room'[q]) = OnTable(room[q])
      BY <1>1, <1>3, <2>2, <3>1 DEF OnTable
    <3>. QED BY <1>1, <2>2, <3>2, NoMoneyMoves
  <2>. QED BY <1>3, <2>1, <2>2 DEF Visit
<1>4. CASE StillDue(room[r]) /\ room[r].status = "active"
  BY <1>1, <1>4, PlayedStepMoney DEF Visit
<1>. QED BY <1>2, <1>3, <1>4 DEF StillDue, Due, Live

\* The chip a player wins elsewhere is lost there.
LEMMA ElsewhereMoney ==
    ASSUME IInv, IInv', MoneyInv, NEW u \in User, PlayElsewhere(u)
    PROVE  MoneyInv'
<1>1. PICK d \in {-1, 1} : /\ balance' = [balance EXCEPT ![u] = balance[u] + d]
                           /\ elsewhere' = elsewhere - d
                           /\ room' = room
  BY DEF PlayElsewhere
<1>2. /\ balance \in [User -> Nat] /\ balance' \in [User -> Nat]
      /\ Sum(balance, User) \in Int /\ Sum(Tables, Room) \in Int /\ elsewhere \in Int
  BY WalletSum, TableSum DEF IInv, RoomsOK, Tables, MoneyInv
<1>3. Sum(balance', User) = Sum(balance, User) - balance[u] + balance'[u]
  <2>1. \A x \in User : balance[x] \in Int /\ balance'[x] \in Int
    BY <1>2
  <2>2. \A x \in User \ {u} : balance'[x] = balance[x]
    BY <1>1, <1>2
  <2>. QED BY <2>1, <2>2, SumChange, TableAssumption
<1>4. balance[u] \in Int /\ balance'[u] = balance[u] + d
  BY <1>1, <1>2
<1> DEFINE e == -d
<1>5. /\ Sum(balance', User) = Sum(balance, User) + d /\ elsewhere' = elsewhere + e
      /\ d \in Int /\ e \in Int /\ d + e + 0 = 0
  BY <1>1, <1>2, <1>3, <1>4
<1> HIDE DEF e
<1>6. Sum(Tables', Room) = Sum(Tables, Room) + 0
  BY <1>1, <1>2 DEF Tables
<1>. QED BY <1>5, <1>6, MoneyMoves

LEMMA InitMoney == Init => MoneyInv
<1>. SUFFICES ASSUME Init PROVE MoneyInv
  OBVIOUS
<1>1. IInv
  BY InitIInv
<1>2. Total(balance) = Sum(balance, User) /\ Sum(balance, User) \in Int
  BY <1>1, WalletSum DEF IInv
<1>3. \A r \in Room : Tables[r] = 0
  BY DEF Init, Tables, OnTable, NoRow
<1>4. Total(Tables) = Sum(Tables, Room)
  BY <1>1, TableSum DEF Tables, IInv, RoomsOK
<1>5. Sum(Tables, Room) = 0 * Cardinality(Room)
  BY <1>3, SumConstant, TableAssumption
<1>6. Cardinality(Room) \in Nat
  BY FS_CardinalityType, TableAssumption
<1>7. elsewhere = -Total(balance)
  BY DEF Init
<1>8. Total(balance) + elsewhere + Total(Tables) = 0 /\ elsewhere \in Int
  BY <1>2, <1>4, <1>5, <1>6, <1>7
<1>. QED BY <1>8 DEF MoneyInv, MoneyIsConserved, Tables

LEMMA NextMoney == IInv /\ IInv' /\ MoneyInv /\ [Next]_vars => MoneyInv'
<1>. SUFFICES ASSUME IInv, IInv', MoneyInv, [Next]_vars PROVE MoneyInv'
  OBVIOUS
<1>1. CASE Scan \/ Restart \/ Release \/ UNCHANGED vars
  BY <1>1, NoMoneyMoves DEF Scan, Restart, Release, vars
<1>2. CASE Tick
  <2>1. \A q \in Room : room'[q].status = room[q].status /\ room'[q].buyIn = room[q].buyIn
                        /\ room'[q].seats = room[q].seats
    BY <1>2 DEF Tick, IInv, RoomsOK, RowType
  <2>2. \A q \in Room : OnTable(room'[q]) = OnTable(room[q])
    BY <2>1, SameSeats DEF OnTable
  <2>. QED BY <1>2, <2>2, NoMoneyMoves DEF Tick
<1>3. NewIds \subseteq ActionId
  BY DEF NewIds, AnyOf
<1>. QED BY <1>1, <1>2, <1>3, RequestMoney, VisitMoney, ElsewhereMoney DEF Next, Timer

-----------------------------------------------------------------------------
(***************************************************************************)
(* When the timer acts.                                                    *)
(***************************************************************************)
LEMMA TimerStep ==
    ASSUME IInv, [Next]_vars, NEW r \in Room, room'[r].version # room[r].version, action' = action
    PROVE  room[r].deadline = 0
<1>1. room \in [Room -> RowType] /\ action \in [ActionId -> ActionType]
  BY DEF IInv, RoomsOK, RestOK
<1>2. ASSUME NEW u \in User, NEW id \in NewIds, Request(u, id) PROVE FALSE
  <2>1. PICK q \in Room, type \in {"create", "cancel", "move"} :
           action[id] = NoAction /\ Stored(id, q, u, type)
    BY <1>2 DEF Request, Create, Cancel, Move, Rooms, AnyOf
  <2>2. id \in ActionId
    BY DEF NewIds, AnyOf
  <2>3. action'[id].type = type /\ action[id].type = "none"
    BY <1>1, <2>1, <2>2 DEF Stored, NoAction
  <2>. QED BY <2>3
<1>3. ASSUME NEW q \in Room, Visit(q) PROVE room[r].deadline = 0
  <2>1. CASE q = r
    BY <1>3, <2>1 DEF Visit, StillDue, Due
  <2>2. CASE q # r
    <3>1. room'[r] = room[r]
      BY <1>1, <1>3, <2>2 DEF Visit, Start, Played
    <3>. QED BY <3>1
  <2>. QED BY <2>1, <2>2
<1>4. CASE Tick
  <2>1. room'[r].version = room[r].version
    BY <1>1, <1>4 DEF Tick, RowType
  <2>. QED BY <2>1
<1>5. CASE Scan \/ Restart \/ Release \/ UNCHANGED vars \/ \E u \in User : PlayElsewhere(u)
  BY <1>5 DEF Scan, Restart, Release, PlayElsewhere, vars
<1>. QED BY <1>2, <1>3, <1>4, <1>5 DEF Next, Timer

-----------------------------------------------------------------------------
(***************************************************************************)
(* Theorems of the service.                                                *)
(***************************************************************************)
THEOREM AlwaysIInv == Spec => []IInv
BY InitIInv, NextIInv, PTL DEF Spec

LEMMA AlwaysMoney == Spec => []MoneyInv
BY AlwaysIInv, InitMoney, NextMoney, PTL DEF Spec

\* However searches are joined, left, cut short by an empty wallet or ended by the timer,
\* nobody sits at two tables or on two seats and the players of a buy-in are not split.
THEOREM SeatingStaysSound == Spec => []SeatingIsSound
<1>1. MoneyInv => elsewhere \in Int
  BY DEF MoneyInv
<1>. QED BY <1>1, AlwaysIInv, AlwaysMoney, MeansSeating, PTL

\* Whoever leaves, times out or becomes insolvent on the way, chips are neither made nor lost.
THEOREM MoneyStaysConserved == Spec => []MoneyIsConserved
<1>1. MoneyInv => MoneyIsConserved
  BY DEF MoneyInv
<1>. QED BY <1>1, AlwaysMoney, PTL

\* Exactly the players of a hand have paid for it.
THEOREM StakesStayMatched == Spec => []StakesMatchRoster
BY AlwaysIInv, MeansStakes, PTL

\* A repeated request always finds its player at the table, or its search cancelled and unpaid.
THEOREM RetriesStayAnswered == Spec => []RetriesAreAnswered
BY AlwaysIInv, MeansRetries, PTL

\* The timer never acts for a player whose time has not run out.
THEOREM TimerStaysPatient == Spec => TimerIsNeverEarly
<1>1. IInv /\ [Next]_vars =>
         [\A r \in Room :
             (room'[r].version # room[r].version /\ action' = action) => room[r].deadline = 0]_vars
  BY TimerStep
<1>. QED BY <1>1, AlwaysIInv, PTL DEF Spec, TimerIsNeverEarly
=============================================================================
