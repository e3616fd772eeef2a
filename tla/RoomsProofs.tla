---------------------------- MODULE RoomsProofs ----------------------------
(***************************************************************************)
(* Proofs about the slot and solo Blackjack rooms, for any number of       *)
(* rooms, requests, action ids and sockets, any machine and any bets, and  *)
(* about what a Blackjack hand is worth, which machine is shown, and the   *)
(* photos of opponents.                                                    *)
(***************************************************************************)
EXTENDS Rooms, SlotOperations, SumsProofs, FiniteSetTheorems, TLAPS

RoundType == [bet : Nat, hand : HandType]
OutcomeType == [action : {"spin", "deal", "hit", "stand", "double"}, stake : Nat,
                payout : Nat, round : RoundType]
RecordType == [room : Room \cup {NoRoom}, version : Nat, stake : Nat, payout : Nat,
               action : {"none", "spin", "deal", "hit", "stand", "double"}]
RequestType == [room : Room \cup {NoRoom}, id : ActionId, row : Row, version : Nat]

\* A room is locked by one request, which knows what is committed there.
LocksOK ==
    \A s \in Session : pc[s] = "locked" =>
        /\ request[s].room \in Room /\ room[request[s].room].created
        /\ request[s].row = room[request[s].room]
        /\ \A t \in Session : (pc[t] = "locked" /\ request[t].room = request[s].room) => t = s

\* Every record belongs to a room, and the records of a room count its versions.
HistoryOK ==
    /\ \A id \in ActionId : record[id] # NoRecord => record[id].room \in Room
    /\ \A r \in Room :
          /\ {record[id].version : id \in History(r)} = 1..room[r].version
          /\ Cardinality(History(r)) = room[r].version

ListenersOK == \A k \in Socket : stage[k] # "closed" => sub[k] \in Room

IInv == TypeOK /\ LocksOK /\ ListenersOK /\ HistoryOK /\ NoEventIsMissed

-----------------------------------------------------------------------------
(***************************************************************************)
(* What an action may do.                                                  *)
(***************************************************************************)
LEMMA DrawsType ==
    ASSUME NEW hands \in SUBSET HandType
    PROVE  Draws(hands, PlayerCards) \subseteq HandType
<1>1. PlayerCards \subseteq Nat
  BY CardsHaveValues DEF Ace
<1>2. ASSUME NEW hand \in hands, NEW card \in PlayerCards PROVE With(hand, card) \in HandType
  BY <1>1 DEF With, HandType
<1>. QED BY <1>2 DEF Draws

LEMMA NoRoundType == NoRound \in RoundType
BY DEF NoRound, NoHand, RoundType, HandType

LEMMA PayoutType ==
    ASSUME NEW bet \in Nat, NEW player, NEW dealer
    PROVE  Payout(bet, player, dealer) \in Nat
<1>1. 2 * bet \in Nat /\ bet + (bet * 3) \div 2 \in Nat
  OBVIOUS
<1>. QED BY <1>1 DEF Payout

LEMMA StoodType ==
    ASSUME NEW action \in {"deal", "hit", "stand", "double"}, NEW stake \in Nat, NEW bet \in Nat,
           NEW hand, NEW o \in Stood(action, stake, bet, hand)
    PROVE  o \in OutcomeType /\ o.round = NoRound
<1>1. PICK pay \in Payouts(bet, hand) : o = Outcome(action, stake, pay, NoRound)
  BY DEF Stood
<1>2. pay \in Nat
  BY PayoutType DEF Payouts
<1>. QED BY <1>1, <1>2, NoRoundType DEF Outcome, OutcomeType

\* A line pays a multiple of the bet, and so does a spin.
LEMMA SpinPaysType ==
    ASSUME NEW bet \in Nat, NEW pay \in SpinPayouts(bet)
    PROVE  pay \in Nat
<1>1. PICK stop \in Stops, active \in (SUBSET Line) \ {{}} : pay = SpinPays(stop, bet, active)
  BY DEF SpinPayouts
<1> DEFINE f == [l \in active |-> LinePays(Symbols(stop, l), bet)]
<1>2. \A l \in active : f[l] \in Nat
  <2>1. \A symbols : LinePays(symbols, bet) \in Nat
    <3>1. \A symbol \in DOMAIN Paytable : bet * Paytable[symbol] \in Nat
      <4>1. \A symbol \in DOMAIN Paytable : Paytable[symbol] \in Nat
        BY SlotAssumption
      <4>. QED BY <4>1
    <3>. QED BY <3>1 DEF LinePays
  <2>. QED BY <2>1
<1>3. IsFiniteSet(active)
  <2>1. Paylines \in Seq([Column -> 1..VisibleRows])
    BY SlotAssumption
  <2>2. Line = 1..Len(Paylines) /\ Len(Paylines) \in Nat
    BY <2>1 DEF Line
  <2>3. IsFiniteSet(Line)
    BY <2>2, FS_Interval
  <2>. QED BY <2>3, FS_Subset
<1> HIDE DEF f
<1>. QED BY <1>1, <1>2, <1>3, SumNat DEF SpinPays, f

LEMMA SpinsType ==
    ASSUME NEW o \in Spins
    PROVE  o \in OutcomeType /\ o.action = "spin"
<1>1. PICK bet \in Bets : \E pay \in SpinPayouts(bet) : o = Outcome("spin", bet, pay, NoRound)
  BY DEF Spins
<1>2. bet \in Nat
  BY RoomAssumption
<1>. QED BY <1>1, <1>2, SpinPaysType, NoRoundType DEF Outcome, OutcomeType

\* A round that goes on is either dealt for its bet or played for the bet that it had.
GoesOn(o, row) ==
    o.round # NoRound =>
        \/ o.action = "deal" /\ o.stake = o.round.bet
        \/ o.action # "deal" /\ o.stake = 0 /\ row.round # NoRound /\ o.round.bet = row.round.bet

LEMMA DealsType ==
    ASSUME NEW o \in Deals, NEW row
    PROVE  o \in OutcomeType /\ GoesOn(o, row)
<1>1. PICK bet \in Bets, hand \in FirstHands : o \in Dealt(bet, hand)
  BY DEF Deals
<1>2. bet \in Nat
  BY RoomAssumption
<1>3. hand \in HandType
  <2>1. {NoHand} \in SUBSET HandType
    BY DEF NoHand, HandType
  <2>2. Draws({NoHand}, PlayerCards) \in SUBSET HandType
    BY <2>1, DrawsType
  <2>. QED BY <2>2, DrawsType DEF FirstHands, TwoCards
<1>4. CASE o = Outcome("deal", bet, Payout(bet, Value(hand), DealerNatural), NoRound)
  BY <1>2, <1>4, PayoutType, NoRoundType DEF Outcome, OutcomeType, GoesOn
<1>5. CASE o \in Stood("deal", bet, bet, hand)
  BY <1>2, <1>5, StoodType DEF GoesOn
<1>6. CASE o = Outcome("deal", bet, 0, Round(bet, hand))
  BY <1>2, <1>3, <1>6 DEF Outcome, OutcomeType, Round, RoundType, GoesOn
<1>. QED BY <1>1, <1>4, <1>5, <1>6 DEF Dealt

LEMMA HitsType ==
    ASSUME NEW row, row.round \in RoundType, row.round # NoRound, NEW o \in Hits(row.round)
    PROVE  o \in OutcomeType /\ GoesOn(o, row)
<1> DEFINE round == row.round
<1>1. round.bet \in Nat /\ round.hand \in HandType
  BY DEF RoundType
<1>2. PICK hand \in Draws({round.hand}, PlayerCards) :
         \/ o \in Stood("hit", 0, round.bet, hand)
         \/ o = Outcome("hit", 0, 0, Round(round.bet, hand))
  BY DEF Hits
<1>3. hand \in HandType
  <2>1. {round.hand} \in SUBSET HandType
    BY <1>1
  <2>. QED BY <2>1, DrawsType
<1>4. CASE o \in Stood("hit", 0, round.bet, hand)
  BY <1>1, <1>4, StoodType DEF GoesOn
<1>5. CASE o = Outcome("hit", 0, 0, Round(round.bet, hand))
  BY <1>1, <1>3, <1>5 DEF Outcome, OutcomeType, Round, RoundType, GoesOn
<1>. QED BY <1>2, <1>4, <1>5

LEMMA OutcomesType ==
    ASSUME NEW r \in Room, NEW row \in Row, NEW o \in Outcomes(r, row)
    PROVE  o \in OutcomeType /\ (r \notin SlotRooms => GoesOn(o, row))
<1> DEFINE round == row.round
<1>1. round \in RoundType /\ round.bet \in Nat /\ 2 * round.bet \in Nat
  BY DEF Row, RoundType
<1>2. CASE r \in SlotRooms
  BY <1>2, SpinsType DEF Outcomes
<1>3. CASE r \notin SlotRooms /\ round = NoRound
  BY <1>3, DealsType DEF Outcomes
<1>4. CASE r \notin SlotRooms /\ round # NoRound
  <2>1. CASE o \in Stood("stand", 0, round.bet, round.hand)
    BY <1>1, <2>1, StoodType DEF GoesOn
  <2>2. CASE o \in Hits(round)
    BY <1>1, <1>4, <2>2, HitsType
  <2>3. CASE o \in Doubles(round)
    <3>1. PICK hand : o \in Stood("double", round.bet, 2 * round.bet, hand)
      BY <2>3 DEF Doubles
    <3>. QED BY <1>1, <3>1, StoodType DEF GoesOn
  <2>. QED BY <1>4, <2>1, <2>2, <2>3 DEF Outcomes
<1>. QED BY <1>2, <1>3, <1>4

-----------------------------------------------------------------------------
(***************************************************************************)
(* A commit.                                                               *)
(***************************************************************************)

\* What a commit writes when the action o is recorded under id.
Writes(r, id, o, new) ==
    /\ new = [room |-> r, version |-> room[r].version + 1, action |-> o.action,
              stake |-> o.stake, payout |-> o.payout]
    /\ record[id] = NoRecord
    /\ balance' = balance - o.stake + o.payout
    /\ room' = [room EXCEPT ![r] = [room[r] EXCEPT !.version = room[r].version + 1, !.round = o.round]]
    /\ record' = [record EXCEPT ![id] = new]

LEMMA CommitFacts ==
    ASSUME TypeOK, LocksOK, NEW s \in Session, Commit(s)
    PROVE  /\ request[s].room \in Room /\ request[s].id \in ActionId
           /\ \E o \in Outcomes(request[s].room, room[request[s].room]) : \E new :
                 /\ o \in OutcomeType /\ o.stake <= balance
                 /\ request[s].room \notin SlotRooms => GoesOn(o, room[request[s].room])
                 /\ Writes(request[s].room, request[s].id, o, new)
           /\ pc' = [pc EXCEPT ![s] = "publish"]
           /\ request' = [request EXCEPT ![s].version = room[request[s].room].version + 1,
                                         ![s].row = NoRow]
<1> DEFINE r == request[s].room
           id == request[s].id
<1>1. r \in Room /\ request[s].row = room[r] /\ room[r] \in Row /\ id \in ActionId
  BY DEF Commit, LocksOK, TypeOK
<1>2. PICK o \in Outcomes(r, room[r]) :
         /\ Affordable(o)
         /\ balance' = balance - o.stake + o.payout
         /\ room' = [room EXCEPT ![r] = [room[r] EXCEPT !.version = room[r].version + 1, !.round = o.round]]
         /\ record' = [record EXCEPT ![id] =
               [room |-> r, version |-> room[r].version + 1, action |-> o.action,
                stake |-> o.stake, payout |-> o.payout]]
  BY <1>1 DEF Commit
<1>3. o \in OutcomeType /\ (r \notin SlotRooms => GoesOn(o, room[r]))
  BY <1>1, OutcomesType
<1>4. record[id] = NoRecord
  BY DEF Commit, Unused
<1>5. /\ pc' = [pc EXCEPT ![s] = "publish"]
      /\ request' = [request EXCEPT ![s].version = room[r].version + 1, ![s].row = NoRow]
  BY <1>1 DEF Commit
<1>. QED BY <1>1, <1>2, <1>3, <1>4, <1>5 DEF Writes, Affordable

LEMMA WritesFacts ==
    ASSUME TypeOK, NEW r \in Room, NEW id \in ActionId, NEW o \in OutcomeType, o.stake <= balance,
           NEW new, Writes(r, id, o, new)
    PROVE  /\ balance' \in Nat /\ balance' = balance - o.stake + o.payout
           /\ room' \in [Room -> Row] /\ record' \in [ActionId -> RecordType]
           /\ room'[r].version = room[r].version + 1 /\ room'[r].round = o.round
           /\ \A q \in Room \ {r} : room'[q] = room[q]
           /\ record'[id] = new /\ new.room = r /\ new.version = room[r].version + 1
           /\ new.action = o.action /\ new.stake = o.stake /\ new.payout = o.payout
           /\ \A d \in ActionId \ {id} : record'[d] = record[d]
<1>1. room[r] \in Row /\ room[r].version + 1 \in Nat /\ o.round \in RoundType
  BY DEF TypeOK, Row, OutcomeType
<1>2. [room[r] EXCEPT !.version = room[r].version + 1, !.round = o.round] \in Row
  BY <1>1 DEF Row, RoundType
<1>3. new \in RecordType
  BY <1>1 DEF Writes, RecordType, OutcomeType
<1>4. balance - o.stake + o.payout \in Nat
  BY DEF TypeOK, OutcomeType
<1>5. /\ room' \in [Room -> Row] /\ \A q \in Room \ {r} : room'[q] = room[q]
      /\ room'[r] = [room[r] EXCEPT !.version = room[r].version + 1, !.round = o.round]
  BY <1>2 DEF Writes, TypeOK
<1>6. /\ record' \in [ActionId -> RecordType] /\ record'[id] = new
      /\ \A d \in ActionId \ {id} : record'[d] = record[d]
  BY <1>3 DEF Writes, TypeOK, RecordType
<1>7. room'[r].version = room[r].version + 1 /\ room'[r].round = o.round
  BY <1>1, <1>5 DEF Row
<1>. QED BY <1>4, <1>5, <1>6, <1>7 DEF Writes

-----------------------------------------------------------------------------
(***************************************************************************)
(* Types.                                                                  *)
(***************************************************************************)
LEMMA EmptyTypes == NoRow \in Row /\ NoRecord \in RecordType /\ NoRequest \in RequestType
<1>1. NoRow \in Row
  BY NoRoundType DEF NoRow, Row, RoundType
<1>2. (CHOOSE id \in ActionId : TRUE) \in ActionId
  BY RoomAssumption
<1>. QED BY <1>1, <1>2 DEF NoRecord, NoRequest, RecordType, RequestType

LEMMA BusTypes ==
    ASSUME BusTypeOK, NEW k \in Socket
    PROVE  /\ \A r \in Room : Subscribe(k, r) => BusTypeOK'
           /\ \A version \in Nat : ReadSnapshot(k, version) => BusTypeOK'
           /\ SendSnapshot(k) \/ SendEvent(k) \/ Disconnect(k) => BusTypeOK'
<1>1. \A r \in Room : Subscribe(k, r) => BusTypeOK'
  BY DEF Subscribe, BusTypeOK
<1>2. \A version \in Nat : ReadSnapshot(k, version) => BusTypeOK'
  BY DEF ReadSnapshot, BusTypeOK
<1>3. SendSnapshot(k) => BusTypeOK'
  BY DEF SendSnapshot, BusTypeOK
<1>4. SendEvent(k) => BusTypeOK'
  <2> SUFFICES ASSUME SendEvent(k) PROVE BusTypeOK'
    OBVIOUS
  <2>1. queue[k] \in Seq(Nat) /\ queue[k] # <<>> /\ newest[k] \in Nat
    BY DEF SendEvent, BusTypeOK
  <2>2. Head(queue[k]) \in Nat /\ Tail(queue[k]) \in Seq(Nat)
    BY <2>1
  <2>3. Larger(newest[k], Head(queue[k])) \in Nat
    BY <2>1, <2>2 DEF Larger
  <2>. QED BY <2>2, <2>3 DEF SendEvent, BusTypeOK
<1>5. Disconnect(k) => BusTypeOK'
  BY DEF Disconnect, Disconnected, BusTypeOK
<1>. QED BY <1>1, <1>2, <1>3, <1>4, <1>5

LEMMA PublishTypes ==
    ASSUME BusTypeOK, NEW r, NEW version \in Nat, Publish(r, version)
    PROVE  BusTypeOK'
<1>1. \A k \in Socket : Append(queue[k], version) \in Seq(Nat)
  BY DEF BusTypeOK
<1>. QED BY <1>1 DEF Publish, BusTypeOK

LEMMA TypeStep == TypeOK /\ LocksOK /\ ListenersOK /\ [Next]_vars => TypeOK'
<1> SUFFICES ASSUME TypeOK, LocksOK, ListenersOK, [Next]_vars PROVE TypeOK'
  OBVIOUS
<1>1. BusTypeOK
  BY DEF TypeOK
<1>2. ASSUME NEW r \in Room, Create(r) PROVE TypeOK'
  <2>1. room[r] \in Row
    BY DEF TypeOK
  <2>2. [room[r] EXCEPT !.created = TRUE] \in Row
    BY <2>1 DEF Row
  <2>3. room' \in [Room -> Row]
    BY <1>2, <2>2 DEF Create, TypeOK
  <2>. QED BY <1>2, <2>3 DEF Create, TypeOK, busVars, BusTypeOK
<1>3. ASSUME NEW s \in Session, NEW r \in Room, NEW id \in ActionId, Begin(s, r, id) PROVE TypeOK'
  <2>1. [room |-> r, id |-> id, row |-> room[r], version |-> 0] \in RequestType
    BY DEF TypeOK, RequestType
  <2>2. request' \in [Session -> RequestType] /\ pc' \in [Session -> {"idle", "locked", "publish"}]
    BY <1>3, <2>1 DEF Begin, TypeOK, RequestType
  <2>. QED BY <1>3, <2>2 DEF Begin, TypeOK, busVars, BusTypeOK, RequestType
<1>4. ASSUME NEW s \in Session, NEW r \in Room, NEW id \in ActionId, Replay(s, r, id) PROVE TypeOK'
  <2>1. [room |-> r, id |-> id, row |-> NoRow, version |-> record[id].version] \in RequestType
    BY EmptyTypes DEF TypeOK, RequestType
  <2>2. request' \in [Session -> RequestType] /\ pc' \in [Session -> {"idle", "locked", "publish"}]
    BY <1>4, <2>1 DEF Replay, TypeOK, RequestType
  <2>. QED BY <1>4, <2>2 DEF Replay, TypeOK, busVars, BusTypeOK, RequestType
<1>5. ASSUME NEW s \in Session, Commit(s) PROVE TypeOK'
  <2> DEFINE r == request[s].room
             id == request[s].id
  <2>1. /\ r \in Room /\ id \in ActionId
        /\ pc' = [pc EXCEPT ![s] = "publish"]
        /\ request' = [request EXCEPT ![s].version = room[r].version + 1, ![s].row = NoRow]
    BY <1>5, CommitFacts
  <2>2. balance' \in Nat /\ room' \in [Room -> Row] /\ record' \in [ActionId -> RecordType]
    BY <1>5, CommitFacts, WritesFacts
  <2>3. room[r].version + 1 \in Nat
    BY <2>1 DEF TypeOK, Row
  <2>4. request' \in [Session -> RequestType] /\ pc' \in [Session -> {"idle", "locked", "publish"}]
    BY <2>1, <2>3, EmptyTypes DEF TypeOK, RequestType
  <2>5. BusTypeOK'
    BY <1>1, <1>5 DEF Commit, busVars, BusTypeOK
  <2>. QED BY <2>2, <2>4, <2>5 DEF TypeOK, RecordType, RequestType
<1>6. ASSUME NEW s \in Session, Abort(s) PROVE TypeOK'
  <2>1. request' \in [Session -> RequestType] /\ pc' \in [Session -> {"idle", "locked", "publish"}]
    BY <1>6, EmptyTypes DEF Abort, TypeOK, RequestType
  <2>. QED BY <1>6, <2>1 DEF Abort, TypeOK, busVars, BusTypeOK, RequestType
<1>7. ASSUME NEW s \in Session, PublishEvent(s) PROVE TypeOK'
  <2>1. request' \in [Session -> RequestType] /\ pc' \in [Session -> {"idle", "locked", "publish"}]
    BY <1>7, EmptyTypes DEF PublishEvent, TypeOK, RequestType
  <2>2. request[s].version \in Nat
    BY DEF TypeOK
  <2>3. BusTypeOK'
    BY <1>1, <1>7, <2>2, PublishTypes DEF PublishEvent
  <2>. QED BY <1>7, <2>1, <2>3 DEF PublishEvent, TypeOK, RequestType
<1>8. ASSUME NEW k \in Socket, Connect(k) PROVE TypeOK'
  <2>1. BusTypeOK'
    BY <1>1, <1>8, BusTypes DEF Connect
  <2>. QED BY <1>8, <2>1 DEF Connect, TypeOK, roomVars
<1>9. ASSUME NEW k \in Socket, Serve(k) PROVE TypeOK'
  <2>1. ReadSnapshot(k, room[sub[k]].version) => room[sub[k]].version \in Nat
    <3>1. ReadSnapshot(k, room[sub[k]].version) => sub[k] \in Room
      BY DEF ReadSnapshot, ListenersOK
    <3>. QED BY <3>1 DEF TypeOK, Row
  <2>2. BusTypeOK'
    BY <1>1, <1>9, <2>1, BusTypes DEF Serve
  <2>. QED BY <1>9, <2>2 DEF Serve, TypeOK, roomVars
<1>10. CASE Restart
  <2>1. request' \in [Session -> RequestType] /\ pc' \in [Session -> {"idle", "locked", "publish"}]
    BY <1>10, EmptyTypes DEF Restart, TypeOK, RequestType
  <2>2. BusTypeOK'
    BY <1>1, <1>10 DEF Restart, Disconnected, BusTypeOK
  <2>. QED BY <1>10, <2>1, <2>2 DEF Restart, TypeOK, RequestType
<1>11. CASE UNCHANGED vars
  BY <1>11 DEF vars, roomVars, busVars, TypeOK, BusTypeOK
<1>. QED BY <1>2, <1>3, <1>4, <1>5, <1>6, <1>7, <1>8, <1>9, <1>10, <1>11 DEF Next

-----------------------------------------------------------------------------
(***************************************************************************)
(* Transactions and listeners.                                             *)
(***************************************************************************)

\* A session that is locked after a step was locked before, or has just begun.
LEMMA LocksStep == TypeOK /\ LocksOK /\ [Next]_vars => LocksOK'
<1> SUFFICES ASSUME TypeOK, LocksOK, [Next]_vars PROVE LocksOK'
  OBVIOUS
<1>1. ASSUME NEW r \in Room, Create(r) PROVE LocksOK'
  <2>1. /\ pc' = pc /\ request' = request /\ ~room[r].created
        /\ \A q \in Room \ {r} : room'[q] = room[q]
    BY <1>1 DEF Create, TypeOK
  <2>. QED BY <2>1 DEF LocksOK
<1>2. ASSUME NEW s \in Session, NEW r \in Room, NEW id \in ActionId, Begin(s, r, id) PROVE LocksOK'
  <2>1. /\ room' = room /\ room[r].created /\ ~Locked(r)
        /\ request'[s].room = r /\ request'[s].row = room[r]
        /\ \A t \in Session \ {s} : pc'[t] = pc[t] /\ request'[t] = request[t]
    BY <1>2 DEF Begin, TypeOK
  <2>2. \A t \in Session \ {s} : pc[t] = "locked" => request[t].room # r
    BY <2>1 DEF Locked
  <2>. QED BY <2>1, <2>2 DEF LocksOK
<1>3. ASSUME NEW s \in Session, NEW r \in Room, NEW id \in ActionId, Replay(s, r, id) PROVE LocksOK'
  <2>1. /\ room' = room /\ pc'[s] = "publish"
        /\ \A t \in Session \ {s} : pc'[t] = pc[t] /\ request'[t] = request[t]
    BY <1>3 DEF Replay, TypeOK
  <2>. QED BY <2>1 DEF LocksOK
<1>4. ASSUME NEW s \in Session, Commit(s) PROVE LocksOK'
  <2> DEFINE r == request[s].room
  <2>1. /\ r \in Room /\ pc[s] = "locked" /\ pc'[s] = "publish"
        /\ \A q \in Room \ {r} : room'[q] = room[q]
        /\ \A t \in Session \ {s} : pc'[t] = pc[t] /\ request'[t] = request[t]
    <3>1. /\ pc[s] = "locked" /\ pc'[s] = "publish" /\ r \in Room
          /\ \A t \in Session \ {s} : pc'[t] = pc[t] /\ request'[t] = request[t]
      BY <1>4, CommitFacts DEF Commit, TypeOK
    <3>2. \E row : room' = [room EXCEPT ![r] = row]
      BY <1>4, CommitFacts DEF Writes
    <3>3. \A q \in Room \ {r} : room'[q] = room[q]
      BY <3>2 DEF TypeOK
    <3>. QED BY <3>1, <3>3
  <2>2. \A t \in Session \ {s} : pc[t] = "locked" => request[t].room # r
    BY <2>1 DEF LocksOK
  <2>. QED BY <2>1, <2>2 DEF LocksOK
<1>5. ASSUME NEW s \in Session, Abort(s) \/ PublishEvent(s) PROVE LocksOK'
  <2>1. /\ room' = room /\ pc'[s] = "idle"
        /\ \A t \in Session \ {s} : pc'[t] = pc[t] /\ request'[t] = request[t]
    BY <1>5 DEF Abort, PublishEvent, TypeOK
  <2>. QED BY <2>1 DEF LocksOK
<1>6. ASSUME NEW k \in Socket, Connect(k) \/ Serve(k) PROVE LocksOK'
  BY <1>6 DEF Connect, Serve, roomVars, LocksOK
<1>7. CASE Restart
  BY <1>7 DEF Restart, LocksOK
<1>8. CASE UNCHANGED vars
  BY <1>8 DEF vars, roomVars, LocksOK
<1>. QED BY <1>1, <1>2, <1>3, <1>4, <1>5, <1>6, <1>7, <1>8 DEF Next

\* Requests do not connect or disconnect anybody.
LEMMA RequestsListen ==
    ASSUME \/ \E r \in Room : Create(r)
           \/ \E s \in Session, r \in Room, id \in ActionId : Begin(s, r, id) \/ Replay(s, r, id)
           \/ \E s \in Session : Commit(s) \/ Abort(s) \/ PublishEvent(s)
    PROVE  UNCHANGED <<sub, stage, newest>>
BY DEF Create, Begin, Replay, Commit, Abort, PublishEvent, Publish, busVars

LEMMA ListenersStep == TypeOK /\ ListenersOK /\ [Next]_vars => ListenersOK'
<1> SUFFICES ASSUME TypeOK, ListenersOK, [Next]_vars PROVE ListenersOK'
  OBVIOUS
<1>1. UNCHANGED <<sub, stage>> => ListenersOK'
  BY DEF ListenersOK
<1>2. ASSUME NEW k \in Socket, Connect(k) PROVE ListenersOK'
  BY <1>2 DEF Connect, Subscribe, ListenersOK, TypeOK, BusTypeOK
<1>3. ASSUME NEW k \in Socket, Serve(k) PROVE ListenersOK'
  <2>1. BusTypeOK
    BY DEF TypeOK
  <2>2. ReadSnapshot(k, room[sub[k]].version) \/ SendSnapshot(k) => ListenersOK'
    BY <2>1 DEF ReadSnapshot, SendSnapshot, ListenersOK, BusTypeOK
  <2>3. SendEvent(k) => ListenersOK'
    BY DEF SendEvent, ListenersOK
  <2>4. Disconnect(k) => ListenersOK'
    BY DEF Disconnect, Disconnected, ListenersOK
  <2>. QED BY <1>3, <2>2, <2>3, <2>4 DEF Serve
<1>4. Restart => ListenersOK'
  BY DEF Restart, Disconnected, ListenersOK
<1>. QED BY <1>1, <1>2, <1>3, <1>4, RequestsListen DEF Next, vars, busVars

-----------------------------------------------------------------------------
(***************************************************************************)
(* Records.                                                                *)
(***************************************************************************)

\* Steps other than a commit leave versions, rounds and records alone.
LEMMA OnlyCommits ==
    ASSUME TypeOK, [Next]_vars
    PROVE  \/ \E s \in Session : Commit(s)
           \/ /\ record' = record /\ balance' = balance
              /\ \A r \in Room : room'[r].version = room[r].version /\ room'[r].round = room[r].round
<1>1. ASSUME NEW r \in Room, Create(r)
      PROVE  /\ record' = record /\ balance' = balance
             /\ \A q \in Room : room'[q].version = room[q].version /\ room'[q].round = room[q].round
  <2>1. room'[r] = [room[r] EXCEPT !.created = TRUE] /\ \A q \in Room \ {r} : room'[q] = room[q]
    BY <1>1 DEF Create, TypeOK
  <2>2. room[r] \in Row
    BY DEF TypeOK
  <2>. QED BY <1>1, <2>1, <2>2 DEF Create, Row
<1>. QED BY <1>1
        DEF Next, vars, roomVars, Begin, Replay, Abort, PublishEvent, Connect, Serve, Restart

LEMMA HistoryStep == TypeOK /\ LocksOK /\ HistoryOK /\ [Next]_vars => HistoryOK'
<1> SUFFICES ASSUME TypeOK, LocksOK, HistoryOK, [Next]_vars PROVE HistoryOK'
  OBVIOUS
<1>1. ASSUME NEW s \in Session, Commit(s) PROVE HistoryOK'
  <2>1. PICK r \in Room, id \in ActionId, o \in OutcomeType : \E new :
           o.stake <= balance /\ Writes(r, id, o, new)
    BY <1>1, CommitFacts
  <2>2. PICK new :
           o.stake <= balance /\ Writes(r, id, o, new)
    BY <2>1
  <2> DEFINE v == room[r].version
  <2>4. /\ room'[r].version = v + 1 /\ \A q \in Room \ {r} : room'[q] = room[q]
        /\ record'[id] = new /\ new.room = r /\ new.version = v + 1
        /\ \A d \in ActionId \ {id} : record'[d] = record[d]
    BY <2>2, WritesFacts
  <2>5. record[id] = NoRecord /\ NoRecord.room \notin Room
    BY <2>2, NoRoomAssumption DEF Writes, NoRecord
  <2>6. \A q \in Room : id \notin History(q)
    BY <2>5 DEF History
  <2>7. History(r)' = History(r) \cup {id} /\ \A q \in Room \ {r} : History(q)' = History(q)
    <3>1. \A q : \A d \in ActionId : d \in History(q)' <=> IF d = id THEN q = r ELSE d \in History(q)
      BY <2>4 DEF History
    <3>2. \A q : History(q)' \subseteq ActionId /\ History(q) \subseteq ActionId
      BY DEF History
    <3>3. History(r)' = History(r) \cup {id}
      BY <3>1, <3>2
    <3>4. \A q \in Room \ {r} : History(q)' = History(q)
      BY <2>6, <3>1, <3>2
    <3>. QED BY <3>3, <3>4
  <2>8. v \in Nat
    BY DEF TypeOK, Row
  <2>9. {record'[d].version : d \in History(r)'} = 1..(v + 1)
    <3>1. {record'[d].version : d \in History(r)} = {record[d].version : d \in History(r)}
      <4>1. \A d \in History(r) : record'[d] = record[d]
        BY <2>4, <2>6 DEF History
      <4>. QED BY <4>1
    <3>2. {record'[d].version : d \in History(r)'} = {record'[d].version : d \in History(r)} \cup {v + 1}
      BY <2>4, <2>7
    <3>3. {record[d].version : d \in History(r)} = 1..v
      BY DEF HistoryOK
    <3>. QED BY <2>8, <3>1, <3>2, <3>3
  <2>10. Cardinality(History(r)') = v + 1
    <3>1. IsFiniteSet(History(r))
      BY RoomAssumption, FS_Subset DEF History
    <3>2. Cardinality(History(r)) = v
      BY DEF HistoryOK
    <3>. QED BY <2>6, <2>7, <3>1, <3>2, FS_AddElement
  <2>11. \A q \in Room \ {r} : /\ {record'[d].version : d \in History(q)'} = 1..room'[q].version
                               /\ Cardinality(History(q)') = room'[q].version
    <3> SUFFICES ASSUME NEW q \in Room \ {r}
                 PROVE  /\ {record'[d].version : d \in History(q)'} = 1..room'[q].version
                        /\ Cardinality(History(q)') = room'[q].version
      OBVIOUS
    <3>1. \A d \in History(q) : record'[d] = record[d]
      BY <2>4, <2>6 DEF History
    <3>. QED BY <2>4, <2>7, <3>1 DEF HistoryOK
  <2>12. \A d \in ActionId : record'[d] # NoRecord => record'[d].room \in Room
    BY <2>4 DEF HistoryOK
  <2>13. \A q \in Room : /\ {record'[d].version : d \in History(q)'} = 1..room'[q].version
                          /\ Cardinality(History(q)') = room'[q].version
    BY <2>4, <2>9, <2>10, <2>11
  <2>. QED BY <2>12, <2>13 DEF HistoryOK
<1>2. ASSUME record' = record, \A r \in Room : room'[r].version = room[r].version
      PROVE  HistoryOK'
  <2>1. \A r \in Room : History(r)' = History(r)
    BY <1>2 DEF History
  <2>. QED BY <1>2, <2>1 DEF HistoryOK
<1>. QED BY <1>1, <1>2, OnlyCommits

-----------------------------------------------------------------------------
(***************************************************************************)
(* Events.                                                                 *)
(***************************************************************************)

\* Whoever publishes goes on to publish, and nothing is sent or committed.
LEMMA AwareStays ==
    ASSUME NoEventIsMissed, ListenersOK, UNCHANGED busVars,
           \A r \in Room : room'[r].version = room[r].version,
           \A s \in Session : pc[s] = "publish" => pc'[s] = "publish" /\ request'[s] = request[s]
    PROVE  NoEventIsMissed'
<1>1. ASSUME NEW k \in Socket, stage[k] \in {"read", "open"}
      PROVE  \/ newest[k] >= room'[sub[k]].version
             \/ \E i \in DOMAIN queue[k] : queue[k][i] = room'[sub[k]].version
             \/ \E s \in Session : /\ pc'[s] = "publish"
                                   /\ request'[s].room = sub[k]
                                   /\ request'[s].version = room'[sub[k]].version
  <2>1. sub[k] \in Room
    BY <1>1 DEF ListenersOK
  <2>. QED BY <1>1, <2>1 DEF NoEventIsMissed
<1>. QED BY <1>1 DEF NoEventIsMissed, busVars

\* The one who commits publishes.
LEMMA CommitIsPublished ==
    ASSUME TypeOK, LocksOK, ListenersOK, NoEventIsMissed, NEW s \in Session, Commit(s)
    PROVE  NoEventIsMissed'
<1>1. PICK r \in Room :
         /\ r = request[s].room
         /\ room'[r].version = room[r].version + 1
         /\ \A q \in Room \ {r} : room'[q] = room[q]
         /\ pc[s] = "locked" /\ pc'[s] = "publish"
         /\ request'[s].room = r /\ request'[s].version = room[r].version + 1
         /\ \A t \in Session \ {s} : pc'[t] = pc[t] /\ request'[t] = request[t]
  <2>1. /\ request[s].room \in Room
        /\ \E id \in ActionId, o \in OutcomeType : \E new :
              o.stake <= balance /\ Writes(request[s].room, id, o, new)
        /\ pc' = [pc EXCEPT ![s] = "publish"]
        /\ request' = [request EXCEPT ![s].version = room[request[s].room].version + 1,
                                      ![s].row = NoRow]
    BY CommitFacts
  <2>2. PICK r \in Room : r = request[s].room
    BY <2>1
  <2>3. room'[r].version = room[r].version + 1 /\ \A q \in Room \ {r} : room'[q] = room[q]
    BY <2>1, <2>2, WritesFacts
  <2>4. /\ request'[s].room = r /\ request'[s].version = room[r].version + 1
        /\ \A t \in Session \ {s} : request'[t] = request[t]
    BY <2>1, <2>2 DEF TypeOK
  <2>5. pc'[s] = "publish" /\ \A t \in Session \ {s} : pc'[t] = pc[t]
    BY <2>1 DEF TypeOK
  <2>6. pc[s] = "locked"
    BY DEF Commit
  <2>. QED BY <2>2, <2>3, <2>4, <2>5, <2>6
<1>2. UNCHANGED <<sub, stage, queue, newest>>
  BY DEF Commit, busVars
<1>3. ASSUME NEW k \in Socket, stage[k] \in {"read", "open"}
      PROVE  \/ newest[k] >= room'[sub[k]].version
             \/ \E i \in DOMAIN queue[k] : queue[k][i] = room'[sub[k]].version
             \/ \E t \in Session : /\ pc'[t] = "publish"
                                   /\ request'[t].room = sub[k]
                                   /\ request'[t].version = room'[sub[k]].version
  <2>1. sub[k] \in Room
    BY <1>3 DEF ListenersOK
  <2>2. CASE sub[k] = r
    BY <1>1, <2>2
  <2>3. CASE sub[k] # r
    <3>1. room'[sub[k]] = room[sub[k]]
      BY <1>1, <2>1, <2>3
    <3>2. \A t \in Session : pc[t] = "publish" => pc'[t] = pc[t] /\ request'[t] = request[t]
      BY <1>1
    <3>. QED BY <1>3, <3>1, <3>2 DEF NoEventIsMissed
  <2>. QED BY <2>2, <2>3
<1>. QED BY <1>2, <1>3 DEF NoEventIsMissed

\* What is published waits in the queue of everybody who listens to the room.
LEMMA PublishedWaits ==
    ASSUME TypeOK, NoEventIsMissed, NEW s \in Session, PublishEvent(s)
    PROVE  NoEventIsMissed'
<1>1. /\ UNCHANGED <<room, sub, stage, newest>>
      /\ \A t \in Session \ {s} : pc'[t] = pc[t] /\ request'[t] = request[t]
  BY DEF PublishEvent, Publish, TypeOK
<1>2. \A k \in Socket : queue[k] \in Seq(Nat) /\ request[s].version \in Nat
  BY DEF TypeOK, BusTypeOK
<1>3. \A k \in Socket : queue'[k] = IF sub[k] = request[s].room
                                    THEN Append(queue[k], request[s].version) ELSE queue[k]
  BY DEF PublishEvent, Publish, Subscribers
<1>4. ASSUME NEW k \in Socket, stage[k] \in {"read", "open"}
      PROVE  \/ newest[k] >= room[sub[k]].version
             \/ \E i \in DOMAIN queue'[k] : queue'[k][i] = room[sub[k]].version
             \/ \E t \in Session : /\ pc'[t] = "publish"
                                   /\ request'[t].room = sub[k]
                                   /\ request'[t].version = room[sub[k]].version
  <2>1. \A i \in DOMAIN queue[k] : i \in DOMAIN queue'[k] /\ queue'[k][i] = queue[k][i]
    <3>1. \A q \in Seq(Nat) : \A v \in Nat : \A i \in DOMAIN q :
             i \in DOMAIN Append(q, v) /\ Append(q, v)[i] = q[i]
      OBVIOUS
    <3>2. CASE sub[k] = request[s].room
      <4>1. queue'[k] = Append(queue[k], request[s].version)
        BY <1>3, <3>2
      <4>. QED BY <1>2, <3>1, <4>1
    <3>3. CASE sub[k] # request[s].room
      BY <1>3, <3>3
    <3>. QED BY <3>2, <3>3
  <2>2. CASE \E i \in DOMAIN queue[k] : queue[k][i] = room[sub[k]].version
    BY <2>1, <2>2
  <2>3. ASSUME NEW t \in Session, pc[t] = "publish", request[t].room = sub[k],
               request[t].version = room[sub[k]].version
        PROVE  \/ \E i \in DOMAIN queue'[k] : queue'[k][i] = room[sub[k]].version
               \/ \E u \in Session : /\ pc'[u] = "publish"
                                     /\ request'[u].room = sub[k]
                                     /\ request'[u].version = room[sub[k]].version
    <3>1. CASE t = s
      <4>1. queue'[k] = Append(queue[k], room[sub[k]].version) /\ queue[k] \in Seq(Nat)
            /\ room[sub[k]].version \in Nat
        BY <1>2, <1>3, <2>3, <3>1
      <4>2. /\ Len(queue[k]) + 1 \in DOMAIN queue'[k]
            /\ queue'[k][Len(queue[k]) + 1] = room[sub[k]].version
        BY <4>1
      <4>. QED BY <4>2
    <3>2. CASE t # s
      BY <1>1, <2>3, <3>2
    <3>. QED BY <3>1, <3>2
  <2>. QED BY <1>4, <2>2, <2>3 DEF NoEventIsMissed
<1>. QED BY <1>1, <1>4 DEF NoEventIsMissed

\* An event that leaves the queue is read, and the others move up.
LEMMA SentIsRead ==
    ASSUME TypeOK, ListenersOK, NoEventIsMissed, NEW k \in Socket, SendEvent(k),
           UNCHANGED roomVars
    PROVE  NoEventIsMissed'
<1>1. /\ UNCHANGED <<room, pc, request, sub, stage>>
      /\ \A j \in Socket \ {k} : queue'[j] = queue[j] /\ newest'[j] = newest[j]
      /\ newest'[k] = Larger(newest[k], Head(queue[k])) /\ queue'[k] = Tail(queue[k])
      /\ queue[k] \in Seq(Nat) /\ queue[k] # <<>> /\ newest[k] \in Nat
  BY DEF SendEvent, roomVars, TypeOK, BusTypeOK
<1>2. Head(queue[k]) \in Nat /\ newest'[k] >= newest[k] /\ newest'[k] >= Head(queue[k])
  <2>1. Head(queue[k]) \in Nat
    BY <1>1
  <2>. QED BY <1>1, <2>1 DEF Larger
<1>3. ASSUME stage[k] \in {"read", "open"}, sub[k] \in Room
      PROVE  \/ newest'[k] >= room[sub[k]].version
             \/ \E i \in DOMAIN queue'[k] : queue'[k][i] = room[sub[k]].version
             \/ \E t \in Session : /\ pc[t] = "publish"
                                   /\ request[t].room = sub[k]
                                   /\ request[t].version = room[sub[k]].version
  <2>1. room[sub[k]].version \in Nat
    BY <1>3 DEF TypeOK, Row
  <2>2. CASE newest[k] >= room[sub[k]].version
    <3>1. newest'[k] \in Nat
      BY <1>1, <1>2 DEF Larger
    <3>. QED BY <1>1, <1>2, <2>1, <2>2, <3>1
  <2>3. ASSUME NEW i \in DOMAIN queue[k], queue[k][i] = room[sub[k]].version
        PROVE  \/ newest'[k] >= room[sub[k]].version
               \/ \E j \in DOMAIN queue'[k] : queue'[k][j] = room[sub[k]].version
    <3>1. CASE i = 1
      <4>1. Head(queue[k]) = room[sub[k]].version
        BY <1>1, <2>3, <3>1
      <4>. QED BY <1>2, <4>1
    <3>2. CASE i # 1
      <4>1. i - 1 \in DOMAIN Tail(queue[k]) /\ Tail(queue[k])[i - 1] = queue[k][i]
        BY <1>1, <3>2
      <4>. QED BY <1>1, <2>3, <4>1
    <3>. QED BY <3>1, <3>2
  <2>. QED BY <1>3, <2>2, <2>3 DEF NoEventIsMissed
<1>4. ASSUME NEW j \in Socket, stage[j] \in {"read", "open"}
      PROVE  \/ newest'[j] >= room[sub[j]].version
             \/ \E i \in DOMAIN queue'[j] : queue'[j][i] = room[sub[j]].version
             \/ \E t \in Session : /\ pc[t] = "publish"
                                   /\ request[t].room = sub[j]
                                   /\ request[t].version = room[sub[j]].version
  <2>1. CASE j = k
    BY <1>3, <1>4, <2>1 DEF ListenersOK
  <2>2. CASE j # k
    BY <1>1, <1>4, <2>2 DEF NoEventIsMissed
  <2>. QED BY <2>1, <2>2
<1>. QED BY <1>1, <1>4 DEF NoEventIsMissed

LEMMA EventsStep ==
    TypeOK /\ LocksOK /\ ListenersOK /\ NoEventIsMissed /\ [Next]_vars => NoEventIsMissed'
<1> SUFFICES ASSUME TypeOK, LocksOK, ListenersOK, NoEventIsMissed, [Next]_vars
             PROVE  NoEventIsMissed'
  OBVIOUS
<1>1. ASSUME NEW r \in Room, Create(r) PROVE NoEventIsMissed'
  <2>1. \A q \in Room : room'[q].version = room[q].version
    <3>1. room'[r] = [room[r] EXCEPT !.created = TRUE] /\ \A q \in Room \ {r} : room'[q] = room[q]
      BY <1>1 DEF Create, TypeOK
    <3>2. room[r] \in Row
      BY DEF TypeOK
    <3>. QED BY <3>1, <3>2 DEF Row
  <2>. QED BY <1>1, <2>1, AwareStays DEF Create
<1>2. ASSUME NEW s \in Session, NEW r \in Room, NEW id \in ActionId,
             Begin(s, r, id) \/ Replay(s, r, id)
      PROVE  NoEventIsMissed'
  <2>1. /\ UNCHANGED <<room, busVars>> /\ pc[s] = "idle"
        /\ \A t \in Session \ {s} : pc'[t] = pc[t] /\ request'[t] = request[t]
    BY <1>2 DEF Begin, Replay, TypeOK
  <2>. QED BY <2>1, AwareStays
<1>3. ASSUME NEW s \in Session, Commit(s) PROVE NoEventIsMissed'
  BY <1>3, CommitIsPublished
<1>4. ASSUME NEW s \in Session, Abort(s) PROVE NoEventIsMissed'
  <2>1. /\ UNCHANGED <<room, busVars>> /\ pc[s] = "locked"
        /\ \A t \in Session \ {s} : pc'[t] = pc[t] /\ request'[t] = request[t]
    BY <1>4 DEF Abort, TypeOK
  <2>. QED BY <2>1, AwareStays
<1>5. ASSUME NEW s \in Session, PublishEvent(s) PROVE NoEventIsMissed'
  BY <1>5, PublishedWaits
<1>6. ASSUME NEW k \in Socket, Connect(k) PROVE NoEventIsMissed'
  <2>1. /\ UNCHANGED <<room, pc, request, queue, newest>> /\ stage'[k] = "subscribed"
        /\ \A j \in Socket \ {k} : stage'[j] = stage[j] /\ sub'[j] = sub[j]
    BY <1>6 DEF Connect, Subscribe, roomVars, TypeOK, BusTypeOK
  <2>. QED BY <2>1 DEF NoEventIsMissed
<1>7. ASSUME NEW k \in Socket, Serve(k) PROVE NoEventIsMissed'
  <2>1. UNCHANGED roomVars
    BY <1>7 DEF Serve
  <2>2. CASE ReadSnapshot(k, room[sub[k]].version)
    <3>1. /\ UNCHANGED <<room, pc, request, queue, sub>> /\ newest'[k] = room[sub[k]].version
          /\ \A j \in Socket \ {k} : stage'[j] = stage[j] /\ newest'[j] = newest[j]
          /\ stage[k] # "closed"
      BY <2>1, <2>2 DEF ReadSnapshot, roomVars, TypeOK, BusTypeOK
    <3>2. room[sub[k]].version \in Nat
      BY <3>1 DEF ListenersOK, TypeOK, Row
    <3>3. newest'[k] >= room[sub[k]].version
      BY <3>1, <3>2
    <3>. QED BY <3>1, <3>3 DEF NoEventIsMissed
  <2>3. CASE SendSnapshot(k)
    <3>1. /\ UNCHANGED <<room, pc, request, queue, sub, newest>> /\ stage[k] = "read"
          /\ \A j \in Socket \ {k} : stage'[j] = stage[j]
      BY <2>1, <2>3 DEF SendSnapshot, roomVars, TypeOK, BusTypeOK
    <3>. QED BY <3>1 DEF NoEventIsMissed
  <2>4. CASE SendEvent(k)
    BY <2>1, <2>4, SentIsRead
  <2>5. CASE Disconnect(k)
    BY <2>1, <2>5 DEF Disconnect, Disconnected, roomVars, NoEventIsMissed
  <2>. QED BY <1>7, <2>2, <2>3, <2>4, <2>5 DEF Serve
<1>8. CASE Restart
  BY <1>8 DEF Restart, Disconnected, NoEventIsMissed
<1>9. CASE UNCHANGED vars
  BY <1>9 DEF vars, roomVars, busVars, NoEventIsMissed
<1>. QED BY <1>1, <1>2, <1>3, <1>4, <1>5, <1>6, <1>7, <1>8, <1>9 DEF Next

-----------------------------------------------------------------------------
LEMMA InitIInv == Init => IInv
<1> SUFFICES ASSUME Init PROVE IInv
  OBVIOUS
<1>1. BusTypeOK /\ NoEventIsMissed /\ ListenersOK
  BY DEF Init, BusInit, BusTypeOK, NoEventIsMissed, ListenersOK
<1>2. TypeOK
  <2>1. Opening \in Nat
    BY RoomAssumption
  <2>. QED BY <1>1, <2>1, EmptyTypes DEF Init, TypeOK, RecordType, RequestType
<1>3. LocksOK
  BY DEF Init, LocksOK
<1>4. HistoryOK
  <2>1. \A r \in Room : History(r) = {} /\ room[r].version = 0
    BY NoRoomAssumption DEF Init, History, NoRow, NoRecord
  <2>2. {record[id].version : id \in {}} = {} /\ 1..0 = {} /\ Cardinality({}) = 0
    BY FS_EmptySet
  <2>3. \A r \in Room : /\ {record[id].version : id \in History(r)} = 1..room[r].version
                        /\ Cardinality(History(r)) = room[r].version
    BY <2>1, <2>2
  <2>. QED BY <2>3 DEF Init, HistoryOK
<1>. QED BY <1>1, <1>2, <1>3, <1>4 DEF IInv

LEMMA AlwaysIInv == Spec => []IInv
<1>1. IInv /\ [Next]_vars => IInv'
  BY TypeStep, LocksStep, ListenersStep, HistoryStep, EventsStep DEF IInv
<1>. QED BY <1>1, InitIInv, PTL DEF Spec

\* The recorded actions of a room are its versions from the first to the last, each of
\* them once: whatever the requests do at the same time, no update is lost, and no id is
\* spent in two rooms.
THEOREM RecordsStayTheHistory == Spec => []RecordsAreTheHistory
<1>1. IInv => RecordsAreTheHistory
  BY DEF IInv, HistoryOK, RecordsAreTheHistory
<1>. QED BY <1>1, AlwaysIInv, PTL

\* A socket that has read its snapshot misses no version of its room.
THEOREM NoEventIsEverMissed == Spec => []NoEventIsMissed
<1>1. IInv => NoEventIsMissed
  BY DEF IInv
<1>. QED BY <1>1, AlwaysIInv, PTL

\* The commit of a request is a move of the book: the row it read under the lock is still the
\* row of the room.
LEMMA CommitIsPlay ==
    ASSUME TypeOK, LocksOK, NEW s \in Session, Commit(s)
    PROVE  Book!Play(request[s].room, request[s].id)
<1> DEFINE r == request[s].room
           id == request[s].id
<1>1. /\ pc[s] = "locked" /\ r \in Room /\ room[r].created
      /\ request[s].row = room[r] /\ record[id] = NoRecord
  BY DEF Commit, LocksOK, Unused
<1>2. \E o \in Outcomes(r, room[r]) :
         /\ o.stake <= balance
         /\ balance' = balance - o.stake + o.payout
         /\ room' = [room EXCEPT ![r] = [@ EXCEPT !.version = room[r].version + 1, !.round = o.round]]
         /\ record' = [record EXCEPT ![id] =
               [room |-> r, version |-> room[r].version + 1, action |-> o.action,
                stake |-> o.stake, payout |-> o.payout]]
  BY <1>1 DEF Commit, Affordable
<1>. QED BY <1>1, <1>2 DEF Book!Play

\* Whatever several tabs request at once, repeat, lose or have cut off, what is committed is
\* what one request after the other would have done, each to the rooms and the wallet as the
\* one before it left them.
THEOREM RoomsRefineBook == Spec => IsRoomBook
<1>1. Init => Book!Init
  BY DEF Init, Book!Init
<1>2. IInv /\ [Next]_vars => [Book!Next]_<<balance, room, record>>
  <2> SUFFICES ASSUME IInv, [Next]_vars PROVE Book!Next \/ UNCHANGED <<balance, room, record>>
    OBVIOUS
  <2>1. ASSUME NEW r \in Room, Create(r) PROVE Book!Next
    <3>1. Book!Create(r)
      BY <2>1 DEF Create, Book!Create
    <3>. QED BY <3>1 DEF Book!Next
  <2>2. ASSUME NEW s \in Session, Commit(s) PROVE Book!Next
    <3>1. request[s].room \in Room /\ request[s].id \in ActionId
      BY <2>2, CommitFacts DEF IInv
    <3>2. Book!Play(request[s].room, request[s].id)
      BY <2>2, CommitIsPlay DEF IInv
    <3>. QED BY <3>1, <3>2 DEF Book!Next
  <2>3. ASSUME NEW s \in Session, Abort(s) \/ PublishEvent(s)
        PROVE  UNCHANGED <<balance, room, record>>
    BY <2>3 DEF Abort, PublishEvent
  <2>4. ASSUME NEW s \in Session, NEW r \in Room, NEW id \in ActionId,
               Begin(s, r, id) \/ Replay(s, r, id)
        PROVE  UNCHANGED <<balance, room, record>>
    BY <2>4 DEF Begin, Replay
  <2>5. ASSUME NEW k \in Socket, Connect(k) \/ Serve(k)
        PROVE  UNCHANGED <<balance, room, record>>
    BY <2>5 DEF Connect, Serve, roomVars
  <2>6. Restart \/ UNCHANGED vars => UNCHANGED <<balance, room, record>>
    BY DEF Restart, vars, roomVars
  <2>. QED BY <2>1, <2>2, <2>3, <2>4, <2>5, <2>6 DEF Next
<1>. QED BY <1>1, <1>2, AlwaysIInv, PTL DEF Spec, IsRoomBook, Book!Spec

-----------------------------------------------------------------------------
(***************************************************************************)
(* Money.  The invariant in parts, over any records, rows and balance.     *)
(***************************************************************************)
Moved(rec) == [id \in ActionId |-> rec[id].payout - rec[id].stake]

Of(rec, r) == {id \in ActionId : rec[id].room = r}

SinceDeal(rec, r) ==
    {id \in Of(rec, r) :
        \A deal \in Of(rec, r) : rec[deal].action = "deal" => rec[id].version >= rec[deal].version}

Stakes(rec, r) == [id \in SinceDeal(rec, r) |-> rec[id].stake]

Balanced(rec, money) == money = Opening + Sum(Moved(rec), ActionId)

BetIsPaid(rec, rows, r) ==
    rows[r].round # NoRound => rows[r].round.bet = Sum(Stakes(rec, r), SinceDeal(rec, r))

LEMMA PaidParts ==
    /\ RoundsArePaidFor <=>
          Balanced(record, balance) /\ \A r \in Room \ SlotRooms : BetIsPaid(record, room, r)
    /\ RoundsArePaidFor' <=>
          Balanced(record', balance') /\ \A r \in Room \ SlotRooms : BetIsPaid(record', room', r)
BY DEF RoundsArePaidFor, Balanced, Moved, BetIsPaid, Stakes, SinceDeal, Of, History

\* The wallet moves by what the new record says.
LEMMA CommitBalances ==
    ASSUME TypeOK, NEW r \in Room, NEW id \in ActionId, NEW o \in OutcomeType, o.stake <= balance,
           NEW new, Writes(r, id, o, new), Balanced(record, balance)
    PROVE  Balanced(record', balance')
<1> DEFINE f == Moved(record)
           g == Moved(record')
<1>1. /\ balance' = balance - o.stake + o.payout
      /\ record'[id] = new /\ new.stake = o.stake /\ new.payout = o.payout
      /\ \A d \in ActionId \ {id} : record'[d] = record[d]
  BY WritesFacts
<1>2. record \in [ActionId -> RecordType] /\ record' \in [ActionId -> RecordType]
  <2>1. record \in [ActionId -> RecordType]
    BY DEF TypeOK, RecordType
  <2>. QED BY <2>1, WritesFacts
<1>3. record[id].stake = 0 /\ record[id].payout = 0
  BY DEF Writes, NoRecord
<1>4. f[id] = 0 /\ g[id] = o.payout - o.stake
  BY <1>1, <1>3 DEF Moved
<1>5. \A d \in ActionId \ {id} : g[d] = f[d]
  BY <1>1 DEF Moved
<1>6. \A d \in ActionId : f[d] \in Int
  BY <1>2 DEF Moved, RecordType
<1>7. \A d \in ActionId : g[d] \in Int
  BY <1>2 DEF Moved, RecordType
<1>8. balance \in Int /\ o.stake \in Int /\ o.payout \in Int /\ Opening \in Int
  BY RoomAssumption DEF TypeOK, OutcomeType
<1>9. balance = Opening + Sum(f, ActionId)
  BY DEF Balanced
<1> HIDE DEF f, g
<1>10. Sum(g, ActionId) = Sum(f, ActionId) - f[id] + g[id] /\ Sum(f, ActionId) \in Int
  BY <1>5, <1>6, <1>7, RoomAssumption, SumChange, SumInt
<1>11. balance' = Opening + Sum(g, ActionId)
  BY <1>1, <1>4, <1>8, <1>9, <1>10
<1>. QED BY <1>11 DEF Balanced, g

\* The other rooms have the records they had.
LEMMA OthersStayPaid ==
    ASSUME TypeOK, NEW r \in Room, NEW id \in ActionId, NEW o \in OutcomeType, o.stake <= balance,
           NEW new, Writes(r, id, o, new), NEW q \in Room \ {r}, BetIsPaid(record, room, q)
    PROVE  BetIsPaid(record', room', q)
<1>1. /\ room'[q] = room[q] /\ record'[id] = new /\ new.room = r
      /\ \A d \in ActionId \ {id} : record'[d] = record[d]
  BY WritesFacts
<1>2. record[id].room # q
  BY NoRoomAssumption DEF Writes, NoRecord
<1>3. Of(record', q) = Of(record, q) /\ \A d \in Of(record, q) : record'[d] = record[d]
  <2>1. \A d \in ActionId : record'[d].room = q <=> record[d].room = q
    BY <1>1, <1>2
  <2>2. \A d \in Of(record, q) : d \in ActionId \ {id}
    BY <1>2 DEF Of
  <2>. QED BY <1>1, <2>1, <2>2 DEF Of
<1>4. SinceDeal(record', q) = SinceDeal(record, q)
  <2>1. \A d \in Of(record, q) : d \in SinceDeal(record', q) <=> d \in SinceDeal(record, q)
    BY <1>3 DEF SinceDeal
  <2>2. SinceDeal(record', q) \subseteq Of(record, q) /\ SinceDeal(record, q) \subseteq Of(record, q)
    BY <1>3 DEF SinceDeal
  <2>. QED BY <2>1, <2>2
<1>5. Stakes(record', q) = Stakes(record, q)
  <2>1. \A d \in SinceDeal(record, q) : record'[d].stake = record[d].stake
    BY <1>3 DEF SinceDeal
  <2>. QED BY <1>4, <2>1 DEF Stakes
<1>. QED BY <1>1, <1>4, <1>5 DEF BetIsPaid

\* A deal begins the round it pays for; a card that is drawn goes on with it.
LEMMA RoundStaysPaid ==
    ASSUME TypeOK, HistoryOK, NEW r \in Room, NEW id \in ActionId, NEW o \in OutcomeType,
           o.stake <= balance, GoesOn(o, room[r]), NEW new, Writes(r, id, o, new),
           BetIsPaid(record, room, r)
    PROVE  BetIsPaid(record', room', r)
<1> DEFINE v == room[r].version
           old == SinceDeal(record, r)
           now == SinceDeal(record', r)
           f == Stakes(record, r)
           g == Stakes(record', r)
<1>1. /\ room'[r].round = o.round
      /\ record'[id] = new /\ new.room = r /\ new.version = v + 1 /\ new.action = o.action
      /\ new.stake = o.stake
      /\ \A d \in ActionId \ {id} : record'[d] = record[d]
  BY WritesFacts
<1>2. record[id].room # r
  BY NoRoomAssumption DEF Writes, NoRecord
<1>3. /\ Of(record', r) = Of(record, r) \cup {id} /\ id \notin Of(record, r)
      /\ \A d \in Of(record, r) : record'[d] = record[d]
  <2>1. \A d \in ActionId : record'[d].room = r <=> (record[d].room = r \/ d = id)
    BY <1>1, <1>2
  <2>2. \A d \in Of(record, r) : d \in ActionId \ {id}
    BY <1>2 DEF Of
  <2>. QED BY <1>1, <1>2, <2>1, <2>2 DEF Of
<1>4. v \in Nat /\ \A d \in Of(record, r) : record[d].version \in 1..v
  <2>1. {record[d].version : d \in History(r)} = 1..v
    BY DEF HistoryOK
  <2>2. \A d \in History(r) : record[d].version \in 1..v
    BY <2>1
  <2>. QED BY <2>2 DEF TypeOK, Row, History, Of
<1>5. o.stake \in Nat
  BY DEF OutcomeType
<1> SUFFICES ASSUME o.round # NoRound PROVE o.round.bet = Sum(g, now)
  BY <1>1 DEF BetIsPaid
<1>6. id \in now
  <2>1. \A d \in Of(record', r) : record'[d].version \in 1..(v + 1)
    BY <1>1, <1>3, <1>4
  <2>. QED BY <1>1, <1>3, <1>4, <2>1 DEF SinceDeal
<1>7. g[id] = o.stake
  BY <1>1, <1>6 DEF Stakes
<1>8. CASE o.action = "deal" /\ o.stake = o.round.bet
  <2>1. now = {id}
    <3>1. \A d \in Of(record, r) : d \notin now
      <4>1. ASSUME NEW d \in Of(record, r) PROVE ~(record'[d].version >= record'[id].version)
        BY <1>1, <1>3, <1>4
      <4>. QED BY <1>1, <1>3, <1>8, <4>1 DEF SinceDeal
    <3>2. now \subseteq Of(record, r) \cup {id}
      BY <1>3 DEF SinceDeal
    <3>. QED BY <1>6, <3>1, <3>2
  <2> HIDE DEF f, g, old, now
  <2>2. Sum(g, {id}) = g[id]
    BY <1>5, <1>7, SumOne
  <2>. QED BY <1>7, <1>8, <2>1, <2>2
<1>9. CASE /\ o.action # "deal" /\ o.stake = 0
           /\ room[r].round # NoRound /\ o.round.bet = room[r].round.bet
  <2>1. now = old \cup {id} /\ id \notin old
    <3>1. \A d \in Of(record, r) : d \in now <=> d \in old
      <4>1. \A deal \in Of(record', r) : record'[deal].action = "deal" => deal \in Of(record, r)
        BY <1>1, <1>3, <1>9
      <4>. QED BY <1>3, <4>1 DEF SinceDeal
    <3>2. now \subseteq Of(record, r) \cup {id} /\ old \subseteq Of(record, r)
      BY <1>3 DEF SinceDeal
    <3>. QED BY <1>3, <1>6, <3>1, <3>2
  <2>2. \A d \in old : g[d] = f[d]
    <3>1. \A d \in old : record'[d].stake = record[d].stake
      BY <1>3 DEF SinceDeal
    <3>. QED BY <2>1, <3>1 DEF Stakes
  <2>3. \A d \in now : g[d] \in Int
    <3>1. \A d \in ActionId : record'[d] \in RecordType
      BY WritesFacts
    <3>2. now \subseteq ActionId
      BY DEF SinceDeal, Of
    <3>. QED BY <3>1, <3>2 DEF Stakes, RecordType
  <2>4. IsFiniteSet(now) /\ IsFiniteSet(old)
    <3>1. now \subseteq ActionId /\ old \subseteq ActionId
      BY DEF SinceDeal, Of
    <3>. QED BY <3>1, RoomAssumption, FS_Subset
  <2>5. \A d \in old : f[d] \in Int
    BY <2>1, <2>2, <2>3
  <2>6. room[r].round.bet = Sum(f, old)
    BY <1>9 DEF BetIsPaid
  <2> HIDE DEF f, g, old, now
  <2>7. Sum(g, now) = g[id] + Sum(g, old)
    <3>1. now \ {id} = old
      BY <2>1
    <3>. QED BY <1>6, <2>3, <2>4, <3>1, SumRemove
  <2>8. Sum(g, old) = Sum(f, old) /\ Sum(f, old) \in Int
    BY <2>2, <2>4, <2>5, SumEqual, SumInt
  <2>. QED BY <1>7, <1>9, <2>6, <2>7, <2>8
<1>. QED BY <1>8, <1>9 DEF GoesOn

LEMMA PaidStep == IInv /\ RoundsArePaidFor /\ [Next]_vars => RoundsArePaidFor'
<1> SUFFICES ASSUME IInv, RoundsArePaidFor, [Next]_vars PROVE RoundsArePaidFor'
  OBVIOUS
<1>1. TypeOK /\ LocksOK /\ HistoryOK
  BY DEF IInv
<1>2. Balanced(record, balance) /\ \A r \in Room \ SlotRooms : BetIsPaid(record, room, r)
  BY PaidParts
<1>3. ASSUME NEW s \in Session, Commit(s) PROVE RoundsArePaidFor'
  <2>1. PICK r \in Room, id \in ActionId, o \in OutcomeType : \E new :
           o.stake <= balance /\ (r \notin SlotRooms => GoesOn(o, room[r])) /\ Writes(r, id, o, new)
    BY <1>1, <1>3, CommitFacts
  <2>2. PICK new :
           o.stake <= balance /\ (r \notin SlotRooms => GoesOn(o, room[r])) /\ Writes(r, id, o, new)
    BY <2>1
  <2>3. Balanced(record', balance')
    BY <1>1, <1>2, <2>2, CommitBalances
  <2>4. ASSUME NEW q \in Room \ SlotRooms PROVE BetIsPaid(record', room', q)
    <3>1. CASE q = r
      BY <1>1, <1>2, <2>2, <3>1, RoundStaysPaid
    <3>2. CASE q # r
      BY <1>1, <1>2, <2>2, <3>2, OthersStayPaid
    <3>. QED BY <3>1, <3>2
  <2>. QED BY <2>3, <2>4, PaidParts
<1>4. ASSUME record' = record, balance' = balance, \A r \in Room : room'[r].round = room[r].round
      PROVE  RoundsArePaidFor'
  <2>1. \A r \in Room \ SlotRooms : BetIsPaid(record, room', r)
    BY <1>2, <1>4 DEF BetIsPaid
  <2>. QED BY <1>2, <1>4, <2>1, PaidParts
<1>. QED BY <1>1, <1>3, <1>4, OnlyCommits

LEMMA InitPaid == Init => RoundsArePaidFor
<1> SUFFICES ASSUME Init PROVE RoundsArePaidFor
  OBVIOUS
<1> DEFINE f == Moved(record)
<1>1. \A id \in ActionId : f[id] = 0
  BY DEF Init, NoRecord, Moved
<1>2. balance = Opening /\ Opening \in Int
  BY RoomAssumption DEF Init
<1>3. Sum(f, ActionId) = 0
  <2> HIDE DEF f
  <2>1. Sum(f, ActionId) = 0 * Cardinality(ActionId) /\ Cardinality(ActionId) \in Nat
    BY <1>1, RoomAssumption, SumConstant, FS_CardinalityType
  <2>. QED BY <2>1
<1>4. Balanced(record, balance)
  BY <1>2, <1>3 DEF Balanced
<1>5. \A r \in Room : BetIsPaid(record, room, r)
  BY DEF Init, NoRow, BetIsPaid
<1>. QED BY <1>4, <1>5, PaidParts

\* The bet of every hand has been paid to the last chip since its deal, and the wallet
\* holds what the recorded actions leave it: no action moves it twice, or not at all.
THEOREM RoundsStayPaidFor == Spec => []RoundsArePaidFor
<1>1. Init => RoundsArePaidFor
  BY InitPaid
<1>2. IInv /\ RoundsArePaidFor /\ [Next]_vars => RoundsArePaidFor'
  BY PaidStep
<1>. QED BY <1>1, <1>2, AlwaysIInv, PTL DEF Spec
-----------------------------------------------------------------------------
(***************************************************************************)
(* Blackjack hands.  What the loop over the aces computes, and that the    *)
(* better hand is never paid less, for every hand and every bet.           *)
(***************************************************************************)
\* What the hand counts as when k of its aces are worth one.
Way(hand, k) == hand.sum - 10 * k

\* The values of hands, as hand_value makes them.
ValueType == {v \in [total : Nat, bust : BOOLEAN, natural : BOOLEAN] :
                /\ v.bust <=> v.total > 21
                /\ v.natural => v.total = 21}

\* The loop of hand_value stops after the first ace that is enough, or after the last.
LEMMA HandTotalStops ==
    ASSUME NEW hand \in HandType
    PROVE  \E k \in 0..hand.aces :
              /\ HandTotal(hand) = Way(hand, k)
              /\ Way(hand, k) <= 21 \/ k = hand.aces
              /\ \A j \in 0..hand.aces : Way(hand, j) <= 21 => k <= j
<1> DEFINE enough == (hand.sum - 12) \div 10
           k == IF hand.sum <= 21 THEN 0
                ELSE IF enough <= hand.aces THEN enough ELSE hand.aces
           Tries == {j \in 0..hand.aces : hand.sum - 10 * j <= 21} \cup {hand.aces}
<1>1. hand.sum \in Nat /\ hand.aces \in Nat
  BY DEF HandType
<1>2. k \in 0..hand.aces /\ (Way(hand, k) <= 21 \/ k = hand.aces)
  BY <1>1 DEF Way
<1>3. ASSUME NEW j \in 0..hand.aces, Way(hand, j) <= 21
      PROVE  k <= j
  BY <1>1, <1>3 DEF Way
<1>4. k \in Tries /\ \A j \in Tries : k <= j
  BY <1>1, <1>2, <1>3 DEF Way
<1>5. Min(Tries) = k
  <2> HIDE DEF k
  <2>1. Tries \subseteq Int /\ k \in Int
    BY <1>1, <1>4
  <2>2. Min(Tries) \in Tries /\ \A j \in Tries : Min(Tries) <= j
    BY <1>4 DEF Min
  <2> QED
    BY <1>4, <2>1, <2>2
<1> QED
  BY <1>2, <1>3, <1>5 DEF HandTotal, Way

(***************************************************************************)
(* What hand_value says a hand is worth is the best way of counting its    *)
(* aces: the largest total that is not bust if any is not, and the         *)
(* smallest of all if every one is bust.                                   *)
(***************************************************************************)
THEOREM HandTotalIsBest ==
    ASSUME NEW hand \in HandType
    PROVE  /\ \E k \in 0..hand.aces : HandTotal(hand) = Way(hand, k)
           /\ \A j \in 0..hand.aces :
                 IF HandTotal(hand) <= 21
                 THEN Way(hand, j) <= 21 => Way(hand, j) <= HandTotal(hand)
                 ELSE Way(hand, j) > 21 /\ HandTotal(hand) <= Way(hand, j)
<1>1. PICK k \in 0..hand.aces :
         /\ HandTotal(hand) = Way(hand, k)
         /\ Way(hand, k) <= 21 \/ k = hand.aces
         /\ \A j \in 0..hand.aces : Way(hand, j) <= 21 => k <= j
  BY HandTotalStops
<1>2. hand.sum \in Nat /\ hand.aces \in Nat
  BY DEF HandType
<1> QED
  BY <1>1, <1>2 DEF Way

(***************************************************************************)
(* settle_blackjack never pays the better hand less: against the same      *)
(* dealer and for the same bet, a hand that is not bust gets at least what *)
(* a bust one, or one of a smaller or the same total, would get.  Only a   *)
(* natural, which counts as much as any other twenty-one, is better than   *)
(* its total says.                                                         *)
(***************************************************************************)
THEOREM BetterHandIsPaidNoLess ==
    ASSUME NEW bet \in Nat,
           NEW better \in ValueType, NEW worse \in ValueType, NEW dealer \in ValueType,
           ~better.bust,
           worse.bust \/ worse.total <= better.total,
           worse.natural => better.natural
    PROVE  Payout(bet, worse, dealer) <= Payout(bet, better, dealer)
<1>1. bet <= bet + (bet * 3) \div 2 /\ 2 * bet <= bet + (bet * 3) \div 2
  OBVIOUS
<1>2. bet + (bet * 3) \div 2 \in Nat
  OBVIOUS
<1>3. CASE better.natural /\ ~dealer.natural
  BY <1>1, <1>2, <1>3 DEF Payout, ValueType
<1>4. CASE ~(better.natural /\ ~dealer.natural)
  BY <1>1, <1>2, <1>4 DEF Payout, ValueType
<1> QED
  BY <1>3, <1>4
-----------------------------------------------------------------------------
(***************************************************************************)
(* Slot operations.                                                        *)
(***************************************************************************)
\* The weeks follow each other without a gap.
LEMMA WeeksFollow ==
    ASSUME NEW now \in Int
    PROVE  /\ Weeks(now) \in Nat
           /\ now < (Weeks(now) + 1) * RotationWeek
           /\ Weeks((Weeks(now) + 1) * RotationWeek) = Weeks(now) + 1
           /\ \A later \in Int : (now <= later /\ later < (Weeks(now) + 1) * RotationWeek)
                                    => Weeks(later) = Weeks(now)
BY DEF Weeks, RotationWeek

(***************************************************************************)
(* Without an event, what is announced happens: the operation stays until  *)
(* the time announced, and then the next one announced is shown.           *)
(***************************************************************************)
THEOREM RotationIsKept ==
    ASSUME NEW now \in Int
    PROVE  LET shown == Regular(now) IN
           /\ now < shown.changesAt
           /\ \A later \in Int : (now <= later /\ later < shown.changesAt)
                                    => Regular(later).operation = shown.operation
           /\ Regular(shown.changesAt).operation = shown.next
<1>1. Weeks(now) \in Nat
  BY WeeksFollow
<1> QED
  BY <1>1, WeeksFollow DEF Regular, Schedule

(***************************************************************************)
(* The same with an event, whenever it begins and ends: a client that      *)
(* shows the announced change at the announced time shows what the server  *)
(* would tell it, in the middle of a week, over several weeks or before    *)
(* the rotation has started.                                               *)
(***************************************************************************)
THEOREM AnnouncementsAreKept ==
    ASSUME NEW now \in Int, NEW o \in Override
    PROVE  LET shown == Selected(now, o) IN
           /\ now < shown.changesAt
           /\ \A later \in Int : (now <= later /\ later < shown.changesAt)
                                    => Selected(later, o).operation = shown.operation
           /\ Selected(shown.changesAt, o).operation = shown.next
<1> DEFINE regular == Regular(now)
<1>1. /\ o.starts \in Int /\ o.ends \in Int /\ o.starts < o.ends
  BY DEF Override
<1>2. /\ regular.changesAt \in Int
      /\ now < regular.changesAt
      /\ \A later \in Int : (now <= later /\ later < regular.changesAt)
                               => /\ Regular(later).operation = regular.operation
                                  /\ Regular(later).changesAt = regular.changesAt
      /\ Regular(regular.changesAt).operation = regular.next
  <2>1. Weeks(now) \in Nat
    BY WeeksFollow
  <2>2. regular.changesAt \in Int
    BY <2>1 DEF Regular, Schedule, RotationWeek
  <2> QED
    BY <2>1, <2>2, WeeksFollow DEF Regular, Schedule
<1>3. CASE Running(now, o)
  BY <1>1, <1>3 DEF Selected, Running, Coming, Schedule
<1>4. CASE ~Running(now, o) /\ Coming(now, o)
  <2>1. /\ Selected(now, o).operation = regular.operation
        /\ Selected(now, o).next = o.operation
        /\ Selected(now, o).changesAt = o.starts
    BY <1>4 DEF Selected, Schedule
  <2>2. ASSUME NEW later \in Int, now <= later, later < o.starts
        PROVE  Selected(later, o).operation = regular.operation
    BY <1>1, <1>2, <1>4, <2>2 DEF Selected, Running, Coming, Schedule
  <2>3. Selected(o.starts, o).operation = o.operation
    BY <1>1 DEF Selected, Running, Schedule
  <2> QED
    BY <1>4, <2>1, <2>2, <2>3 DEF Coming
<1>5. CASE ~Running(now, o) /\ ~Coming(now, o)
  <2>1. Selected(now, o) = regular
    BY <1>5 DEF Selected
  <2>2. ASSUME NEW later \in Int, now <= later, later < regular.changesAt
        PROVE  Selected(later, o).operation = regular.operation
    <3>1. ~Running(later, o)
      BY <1>1, <1>2, <1>5, <2>2 DEF Running, Coming
    <3> QED
      BY <1>2, <2>2, <3>1 DEF Selected, Schedule
  <2>3. Selected(regular.changesAt, o).operation = regular.next
    <3>1. ~Running(regular.changesAt, o)
      BY <1>1, <1>2, <1>5 DEF Running, Coming
    <3> QED
      BY <1>2, <3>1 DEF Selected, Schedule
  <2> QED
    BY <1>2, <2>1, <2>2, <2>3
<1> QED
  BY <1>3, <1>4, <1>5

-----------------------------------------------------------------------------
(***************************************************************************)
(* The photos that the rooms show (AvatarCache), for any number of photos, *)
(* viewers and tasks, and any limits.                                      *)
(***************************************************************************)
CONSTANTS Player, Viewer, Task, NoPlayer, NoTask, Slots, MaxCache, Lifetimes, FailureTime,
          Pauses, LoadTime, Window, LoadLimit, ViewLimit, MaxViewers

VARIABLES cache, inflight, task, loads, views, blocked, viewer

A == INSTANCE AvatarCache

\* Of the limits nothing is used but what is assumed there.
LimitsHold == A!LimitsArePositive

Entry == [player : Player, left : A!Left]
WorkType == [pc : {"none", "queued", "loading", "done"},
             player : Player \cup {NoPlayer}, left : 0..LoadTime]
VisitType == [pc : {"away", "checked", "waiting"},
              player : Player \cup {NoPlayer}, task : Task \cup {NoTask}]

Ticks == 1..Window

\* Of a window the first ones to leave are in front.
IsWindow(w) ==
    /\ w \in Seq(Ticks)
    /\ \A i, j \in 1..Len(w) : i < j => w[i] <= w[j]

\* A photo has one entry.
IsCache(c) ==
    /\ c \in Seq(Entry)
    /\ \A i, j \in 1..Len(c) : c[i].player = c[j].player => i = j

Busy == {t \in Task : task[t].pc = "loading"}

WindowsOK == IsWindow(loads) /\ \A v \in Viewer : IsWindow(views[v])

\* A task at work is for a player, and known under it; a task that is not is for nobody.
TasksOK ==
    /\ \A t \in Task : /\ task[t].pc = "none" => task[t].player = NoPlayer
                       /\ task[t].pc # "none" => /\ task[t].player \in Player
                                                 /\ inflight[task[t].player] = t
    /\ \A p \in Player : inflight[p] # NoTask => task[inflight[p]].player = p

ViewersOK ==
    \A v \in Viewer :
        /\ viewer[v].pc # "away" => viewer[v].player \in Player
        /\ viewer[v].pc = "waiting" => /\ viewer[v].task \in Task
                                       /\ task[viewer[v].task].player = viewer[v].player

SlotsOK == IsFiniteSet(Busy) /\ Cardinality(Busy) <= Slots

CacheOK == IsCache(cache) /\ Len(cache) <= MaxCache

ShapesOK ==
    /\ inflight \in [Player -> Task \cup {NoTask}]
    /\ task \in [Task -> WorkType]
    /\ Len(loads) <= LoadLimit
    /\ views \in [Viewer -> Seq(Ticks)]
    /\ blocked \in A!Left
    /\ viewer \in [Viewer -> VisitType]

AvatarInv == ShapesOK /\ WindowsOK /\ TasksOK /\ ViewersOK /\ SlotsOK /\ CacheOK

-----------------------------------------------------------------------------
LEMMA SameSize == \A S : A!Cardinality(S) = Cardinality(S)
BY DEF A!Cardinality, Cardinality

LEMMA Limits ==
    ASSUME LimitsHold
    PROVE  /\ Slots \in Nat /\ Slots > 0 /\ MaxCache \in Nat /\ MaxCache > 0
           /\ LoadTime \in Nat /\ LoadTime > 0
           /\ Window \in Nat /\ Window > 0 /\ LoadLimit \in Nat /\ ViewLimit \in Nat
           /\ FailureTime \in Lifetimes
           /\ \A n \in Lifetimes \cup Pauses : n \in Nat /\ n > 0 /\ n \in A!Left
           /\ NoPlayer \notin Player /\ NoTask \notin Task
<1>1. \A n \in Lifetimes \cup Pauses : n \in Nat /\ n > 0
  BY DEF LimitsHold, A!LimitsArePositive
<1>2. \A n \in Lifetimes \cup Pauses : n \in A!Left
  BY <1>1 DEF A!Left
<1>. QED BY <1>1, <1>2 DEF LimitsHold, A!LimitsArePositive

LEMMA LeftFacts ==
    ASSUME LimitsHold
    PROVE  0 \in A!Left /\ \A n \in A!Left : n \in Nat /\ A!Shorter(n) \in A!Left
<1>1. 0 \in A!Left
  BY Limits DEF A!Left
<1>2. ASSUME NEW n \in A!Left PROVE n \in Nat /\ A!Shorter(n) \in A!Left
  <2>1. PICK m \in Lifetimes \cup Pauses : n \in 0..m
    BY DEF A!Left
  <2>2. m \in Nat
    BY Limits
  <2>3. A!Shorter(n) \in 0..m
    BY <2>1, <2>2 DEF A!Shorter
  <2>. QED BY <2>1, <2>2, <2>3 DEF A!Left
<1>. QED BY <1>1, <1>2

LEMMA RemoveAtFacts ==
    ASSUME NEW S, NEW s \in Seq(S), NEW k \in 1..Len(s)
    PROVE  /\ A!RemoveAt(s, k) \in Seq(S) /\ Len(A!RemoveAt(s, k)) = Len(s) - 1
           /\ \A i \in 1..(Len(s) - 1) : A!RemoveAt(s, k)[i] = s[IF i < k THEN i ELSE i + 1]
<1> DEFINE front == SubSeq(s, 1, k - 1)
           back == SubSeq(s, k + 1, Len(s))
<1>1. /\ front \in Seq(S) /\ Len(front) = k - 1 /\ \A i \in 1..(k - 1) : front[i] = s[i]
  OBVIOUS
<1>2. /\ back \in Seq(S) /\ Len(back) = Len(s) - k
      /\ \A i \in 1..(Len(s) - k) : back[i] = s[k + i]
  OBVIOUS
<1>3. A!RemoveAt(s, k) = front \o back
  BY DEF A!RemoveAt
<1> HIDE DEF front, back
<1>4. front \o back \in Seq(S) /\ Len(front \o back) = Len(s) - 1
  BY <1>1, <1>2
<1>5. \A i \in 1..(Len(s) - 1) :
         (front \o back)[i] = IF i < k THEN front[i] ELSE back[i - (k - 1)]
  BY <1>1, <1>2
<1>6. ASSUME NEW i \in 1..(Len(s) - 1)
      PROVE  (front \o back)[i] = s[IF i < k THEN i ELSE i + 1]
  <2>1. CASE i < k
    BY <1>1, <1>5, <2>1
  <2>2. CASE ~(i < k)
    <3>1. i - (k - 1) \in 1..(Len(s) - k) /\ k + (i - (k - 1)) = i + 1
      BY <2>2
    <3>. QED BY <1>2, <1>5, <2>2, <3>1
  <2>. QED BY <2>1, <2>2
<1>. QED BY <1>3, <1>4, <1>6

LEMMA OthersFacts ==
    ASSUME LimitsHold,
           IsCache(cache), NEW p
    PROVE  /\ IsCache(A!Others(p)) /\ Len(A!Others(p)) <= Len(cache)
           /\ \A i \in 1..Len(A!Others(p)) : A!Others(p)[i].player # p
           /\ (\E i \in 1..Len(cache) : cache[i].player = p) => Len(A!Others(p)) = Len(cache) - 1
<1>1. cache \in Seq(Entry) /\ Len(cache) \in Nat /\ DOMAIN cache = 1..Len(cache)
  BY DEF IsCache
<1>2. CASE \E i \in 1..Len(cache) : cache[i].player = p
  <2> DEFINE k == CHOOSE i \in 1..Len(cache) : cache[i].player = p
  <2>1. k \in 1..Len(cache) /\ cache[k].player = p
    BY <1>2
  <2>2. A!Others(p) = A!RemoveAt(cache, k)
    BY <1>1, <1>2 DEF A!Others
  <2> HIDE DEF k
  <2>3. /\ A!Others(p) \in Seq(Entry) /\ Len(A!Others(p)) = Len(cache) - 1
        /\ \A i \in 1..(Len(cache) - 1) : A!Others(p)[i] = cache[IF i < k THEN i ELSE i + 1]
    BY <1>1, <2>1, <2>2, RemoveAtFacts
  <2> DEFINE from(i) == IF i < k THEN i ELSE i + 1
  <2>4. \A i \in 1..(Len(cache) - 1) : from(i) \in 1..Len(cache) \ {k} /\ A!Others(p)[i] = cache[from(i)]
    BY <1>1, <2>1, <2>3
  <2>5. \A i, j \in 1..(Len(cache) - 1) : from(i) = from(j) => i = j
    BY <1>1, <2>1
  <2> HIDE DEF from
  <2>6. \A i \in 1..(Len(cache) - 1) : A!Others(p)[i].player # p
    BY <2>1, <2>4 DEF IsCache
  <2>7. \A i, j \in 1..(Len(cache) - 1) : A!Others(p)[i].player = A!Others(p)[j].player => i = j
    BY <2>4, <2>5 DEF IsCache
  <2>. QED BY <1>1, <2>3, <2>6, <2>7 DEF IsCache
<1>3. CASE ~\E i \in 1..Len(cache) : cache[i].player = p
  <2>1. A!Others(p) = cache
    BY <1>1, <1>3 DEF A!Others
  <2>2. \A i \in 1..Len(cache) : cache[i].player # p
    BY <1>3
  <2>3. Len(cache) <= Len(cache)
    BY <1>1
  <2>. QED BY <2>1, <2>2, <2>3, Zenon
<1>. QED BY <1>2, <1>3

LEMMA AppendOthers ==
    ASSUME LimitsHold,
           IsCache(cache), NEW e \in Entry
    PROVE  LET all == Append(A!Others(e.player), e)
           IN  IsCache(all) /\ Len(all) = Len(A!Others(e.player)) + 1
<1> DEFINE rest == A!Others(e.player)
           all == Append(rest, e)
<1>1. IsCache(rest) /\ \A i \in 1..Len(rest) : rest[i].player # e.player
  BY OthersFacts
<1> HIDE DEF rest
<1>2. /\ all \in Seq(Entry) /\ Len(all) = Len(rest) + 1 /\ Len(rest) \in Nat
      /\ all[Len(rest) + 1] = e /\ \A i \in 1..Len(rest) : all[i] = rest[i]
  BY <1>1 DEF IsCache
<1> HIDE DEF all
<1>3. ASSUME NEW i \in 1..Len(all), NEW j \in 1..Len(all), all[i].player = all[j].player
      PROVE  i = j
  <2>1. CASE i \in 1..Len(rest) /\ j \in 1..Len(rest)
    BY <1>1, <1>2, <1>3, <2>1 DEF IsCache
  <2>2. CASE i \in 1..Len(rest) /\ j = Len(rest) + 1
    BY <1>1, <1>2, <1>3, <2>2
  <2>3. CASE i = Len(rest) + 1 /\ j \in 1..Len(rest)
    BY <1>1, <1>2, <1>3, <2>3
  <2>4. CASE i = Len(rest) + 1 /\ j = Len(rest) + 1
    BY <2>4
  <2>. QED BY <1>2, <2>1, <2>2, <2>3, <2>4
<1>. QED BY <1>2, <1>3 DEF IsCache, rest, all

LEMMA RememberedFacts ==
    ASSUME LimitsHold,
           IsCache(cache), NEW p \in Player, NEW lifetime \in A!Left
    PROVE  IsCache(A!Remembered(p, lifetime)) /\ Len(A!Remembered(p, lifetime)) <= MaxCache
<1> DEFINE e == [player |-> p, left |-> lifetime]
           all == Append(A!Others(p), e)
<1>1. e \in Entry /\ e.player = p
  BY DEF Entry
<1>2. IsCache(all)
  BY <1>1, AppendOthers
<1>3. A!Remembered(p, lifetime) =
         IF Len(all) > MaxCache THEN SubSeq(all, 1 + Len(all) - MaxCache, Len(all)) ELSE all
  BY DEF A!Remembered
<1> HIDE DEF all
<1>4. all \in Seq(Entry) /\ Len(all) \in Nat
  BY <1>2 DEF IsCache
<1>5. CASE Len(all) > MaxCache
  <2> DEFINE last == SubSeq(all, 1 + Len(all) - MaxCache, Len(all))
  <2>1. /\ last \in Seq(Entry) /\ Len(last) = MaxCache
        /\ \A i \in 1..MaxCache : last[i] = all[Len(all) - MaxCache + i]
    BY <1>4, <1>5, Limits
  <2> HIDE DEF last
  <2>2. \A i, j \in 1..MaxCache : last[i].player = last[j].player => i = j
    <3> SUFFICES ASSUME NEW i \in 1..MaxCache, NEW j \in 1..MaxCache, last[i].player = last[j].player
                 PROVE  i = j
      OBVIOUS
    <3>1. /\ Len(all) - MaxCache + i \in 1..Len(all)
          /\ Len(all) - MaxCache + j \in 1..Len(all)
      BY <1>4, <1>5, Limits
    <3>2. Len(all) - MaxCache + i = Len(all) - MaxCache + j
      BY <1>2, <2>1, <3>1 DEF IsCache
    <3>. QED BY <1>4, <3>2, Limits
  <2>3. A!Remembered(p, lifetime) = last
    BY <1>3, <1>5 DEF last
  <2>4. IsCache(last)
    BY <2>1, <2>2 DEF IsCache
  <2>. QED BY <2>1, <2>3, <2>4, Limits
<1>6. CASE ~(Len(all) > MaxCache)
  BY <1>2, <1>3, <1>4, <1>6, Limits
<1>. QED BY <1>5, <1>6

LEMMA WindowFacts ==
    ASSUME LimitsHold,
           NEW w, IsWindow(w)
    PROVE  /\ w \in Seq(Ticks) /\ Len(w) \in Nat /\ DOMAIN w = 1..Len(w)
           /\ \A i \in 1..Len(w) : w[i] \in Nat /\ 1 <= w[i] /\ w[i] <= Window
<1>1. w \in Seq(Ticks)
  BY DEF IsWindow
<1>2. Len(w) \in Nat /\ DOMAIN w = 1..Len(w) /\ \A i \in 1..Len(w) : w[i] \in Ticks
  BY <1>1
<1>3. \A n \in Ticks : n \in Nat /\ 1 <= n /\ n <= Window
  BY Limits DEF Ticks
<1>. QED BY <1>1, <1>2, <1>3

LEMMA AppendWindow ==
    ASSUME LimitsHold,
           NEW w, IsWindow(w)
    PROVE  IsWindow(Append(w, Window)) /\ Len(Append(w, Window)) = Len(w) + 1
<1>1. /\ w \in Seq(Ticks) /\ Len(w) \in Nat
      /\ \A i \in 1..Len(w) : w[i] \in Nat /\ 1 <= w[i] /\ w[i] <= Window
  BY WindowFacts
<1>0. Window \in Ticks
  BY Limits DEF Ticks
<1>2. /\ Append(w, Window) \in Seq(Ticks) /\ Len(Append(w, Window)) = Len(w) + 1
      /\ Append(w, Window)[Len(w) + 1] = Window
      /\ \A i \in 1..Len(w) : Append(w, Window)[i] = w[i]
  BY <1>0, <1>1
<1>3. \A i, j \in 1..(Len(w) + 1) : i < j => Append(w, Window)[i] <= Append(w, Window)[j]
  <2> SUFFICES ASSUME NEW i \in 1..(Len(w) + 1), NEW j \in 1..(Len(w) + 1), i < j
               PROVE  Append(w, Window)[i] <= Append(w, Window)[j]
    OBVIOUS
  <2>1. CASE j \in 1..Len(w)
    BY <1>1, <1>2, <2>1 DEF IsWindow
  <2>2. CASE j = Len(w) + 1
    BY <1>1, <1>2, <2>2, Limits
  <2>. QED BY <1>1, <2>1, <2>2
<1>. QED BY <1>2, <1>3 DEF IsWindow

LEMMA RecentFacts ==
    ASSUME LimitsHold,
           NEW w, IsWindow(w)
    PROVE  IsWindow(A!Recent(w)) /\ Len(A!Recent(w)) <= Len(w)
<1> DEFINE expired == {i \in DOMAIN w : w[i] = 1}
           gone == Cardinality(expired)
<1>1. /\ w \in Seq(Ticks) /\ Len(w) \in Nat /\ DOMAIN w = 1..Len(w)
      /\ \A i \in 1..Len(w) : w[i] \in Nat /\ 1 <= w[i] /\ w[i] <= Window
  BY WindowFacts
<1>2. IsFiniteSet(expired) /\ gone \in 0..Len(w)
  <2>1. IsFiniteSet(1..Len(w)) /\ Cardinality(1..Len(w)) = Len(w)
    BY <1>1, FS_Interval
  <2>2. expired \in SUBSET (1..Len(w))
    BY <1>1
  <2> HIDE DEF expired
  <2>3. IsFiniteSet(expired) /\ gone <= Len(w)
    BY <2>1, <2>2, FS_Subset
  <2>. QED BY <1>1, <2>3, FS_CardinalityType
<1>3. \A i \in 1..(Len(w) - gone) : w[gone + i] > 1
  <2> SUFFICES ASSUME NEW i \in 1..(Len(w) - gone), ~(w[gone + i] > 1) PROVE FALSE
    OBVIOUS
  <2> DEFINE m == gone + i
  <2>0. m \in 1..Len(w) /\ m > gone /\ m \in Nat
    BY <1>1, <1>2
  <2>1. w[m] = 1
    BY <1>1, <2>0
  <2>2. \A j \in 1..m : w[j] = 1
    BY <1>1, <2>0, <2>1, Limits DEF IsWindow
  <2>3. (1..m) \in SUBSET expired
    <3>1. \A j \in 1..m : j \in 1..Len(w)
      BY <1>1, <2>0
    <3>2. \A j \in 1..m : j \in expired
      BY <1>1, <2>2, <3>1
    <3> HIDE DEF expired, m
    <3>. QED BY <3>2
  <2>4. Cardinality(1..m) = m
    BY <2>0, FS_Interval
  <2>5. Cardinality(1..m) <= gone
    <3> HIDE DEF expired, m
    <3>. QED BY <1>2, <2>3, FS_Subset
  <2> HIDE DEF expired, m
  <2>. QED BY <1>2, <2>0, <2>4, <2>5
<1>4. A!Recent(w) = [i \in 1..(Len(w) - gone) |-> w[gone + i] - 1]
  BY SameSize DEF A!Recent
<1> HIDE DEF expired, gone
<1>5. \A i \in 1..(Len(w) - gone) : gone + i \in 1..Len(w) /\ w[gone + i] - 1 \in Ticks
  <2> SUFFICES ASSUME NEW i \in 1..(Len(w) - gone)
               PROVE  gone + i \in 1..Len(w) /\ w[gone + i] - 1 \in Ticks
    OBVIOUS
  <2>1. gone + i \in 1..Len(w)
    BY <1>1, <1>2
  <2>2. w[gone + i] \in Nat /\ w[gone + i] > 1 /\ w[gone + i] <= Window
    BY <1>1, <1>3, <2>1
  <2>. QED BY <2>1, <2>2, Limits DEF Ticks
<1>6. /\ A!Recent(w) \in Seq(Ticks) /\ Len(A!Recent(w)) = Len(w) - gone
  <2> DEFINE n == Len(w) - gone
             f == [i \in 1..n |-> w[gone + i] - 1]
  <2>1. n \in Nat
    BY <1>1, <1>2
  <2>2. \A i \in 1..n : f[i] \in Ticks
    BY <1>5
  <2>3. A!Recent(w) = f /\ DOMAIN f = 1..n
    BY <1>4
  <2> HIDE DEF n
  <2>4. f \in Seq(Ticks) /\ Len(f) = n
    BY <2>1, <2>2
  <2>. QED BY <2>3, <2>4 DEF n
<1>7. \A i, j \in 1..(Len(w) - gone) : i < j => A!Recent(w)[i] <= A!Recent(w)[j]
  <2> SUFFICES ASSUME NEW i \in 1..(Len(w) - gone), NEW j \in 1..(Len(w) - gone), i < j
               PROVE  A!Recent(w)[i] <= A!Recent(w)[j]
    OBVIOUS
  <2>1. gone + i < gone + j /\ gone + i \in 1..Len(w) /\ gone + j \in 1..Len(w)
    BY <1>1, <1>2
  <2>2. w[gone + i] <= w[gone + j] /\ w[gone + i] \in Nat /\ w[gone + j] \in Nat
    BY <1>1, <2>1 DEF IsWindow
  <2>3. A!Recent(w)[i] = w[gone + i] - 1 /\ A!Recent(w)[j] = w[gone + j] - 1
    BY <1>4
  <2>. QED BY <2>2, <2>3, Limits
<1>. QED BY <1>1, <1>2, <1>6, <1>7 DEF IsWindow

-----------------------------------------------------------------------------
LEMMA InitAvatarInv ==
    ASSUME LimitsHold
    PROVE  A!Init => AvatarInv
<1> SUFFICES ASSUME A!Init PROVE AvatarInv
  OBVIOUS
<1>1. A!NoWork \in WorkType /\ A!NoWork.pc = "none" /\ A!NoWork.player = NoPlayer
  BY Limits DEF A!NoWork, WorkType
<1>2. A!Away \in VisitType /\ A!Away.pc = "away"
  BY DEF A!Away, VisitType
<1>3. IsWindow(<<>>) /\ Len(<<>>) = 0
  BY DEF IsWindow
<1>4. ShapesOK
  BY <1>1, <1>2, <1>3, Limits, LeftFacts DEF A!Init, ShapesOK
<1>5. WindowsOK
  BY <1>3 DEF A!Init, WindowsOK
<1>6. TasksOK /\ ViewersOK
  BY <1>1, <1>2 DEF A!Init, TasksOK, ViewersOK
<1>7. SlotsOK
  <2>1. Busy = {}
    BY <1>1 DEF A!Init, Busy
  <2>. QED BY <2>1, FS_EmptySet, Limits DEF SlotsOK
<1>8. CacheOK
  BY <1>3, Limits DEF A!Init, CacheOK, IsCache
<1>. QED BY <1>4, <1>5, <1>6, <1>7, <1>8 DEF AvatarInv

\* What ends a task at work with an outcome.
Ends(t) == A!Download(t) \/ A!AskedToPause(t) \/ A!TimeOut(t)

LEMMA EndsFacts ==
    ASSUME LimitsHold,
           NEW t \in Task, Ends(t)
    PROVE  /\ task[t].pc \in {"queued", "loading"}
           /\ \E lifetime \in A!Left : A!Done(t, lifetime)
           /\ blocked' = blocked \/ \E pause \in Pauses : blocked' = A!Longer(pause)
BY Limits DEF Ends, A!Download, A!AskedToPause, A!TimeOut, A!Overdue

\* A task that goes on from one place to another.
LEMMA NewPlace ==
    ASSUME LimitsHold,
           ShapesOK, NEW t \in Task, NEW place \in {"none", "queued", "loading", "done"},
           task' = [task EXCEPT ![t].pc = place]
    PROVE  /\ task' \in [Task -> WorkType] /\ task'[t].pc = place
           /\ \A u \in Task : task'[u].player = task[u].player
           /\ \A u \in Task \ {t} : task'[u] = task[u]
<1>1. task[t] \in WorkType
  BY DEF ShapesOK
<1>2. [task[t] EXCEPT !.pc = place] \in WorkType
  BY <1>1 DEF WorkType
<1>3. task' = [task EXCEPT ![t] = [task[t] EXCEPT !.pc = place]]
  OBVIOUS
<1>4. [task[t] EXCEPT !.pc = place].pc = place /\ [task[t] EXCEPT !.pc = place].player = task[t].player
  BY <1>1 DEF WorkType
<1>. QED BY <1>2, <1>3, <1>4 DEF ShapesOK

LEMMA CacheStep ==
    ASSUME LimitsHold
    PROVE  AvatarInv /\ [A!Next]_(A!vars) => CacheOK'
<1> SUFFICES ASSUME AvatarInv, [A!Next]_(A!vars) PROVE CacheOK'
  OBVIOUS
<1>1. IsCache(cache) /\ cache \in Seq(Entry) /\ Len(cache) \in Nat /\ Len(cache) <= MaxCache
  BY DEF AvatarInv, CacheOK, IsCache
<1>2. ASSUME NEW v \in Viewer, A!Hit(v) PROVE CacheOK'
  <2> DEFINE p == viewer[v].player
  <2>1. PICK i \in DOMAIN cache : cache[i].player = p /\ cache' = Append(A!Others(p), cache[i])
    BY <1>2 DEF A!Hit
  <2>2. i \in 1..Len(cache) /\ cache[i] \in Entry
    BY <1>1, <2>1
  <2>3. IsCache(cache') /\ Len(cache') = Len(A!Others(p)) + 1
    BY <1>1, <2>1, <2>2, AppendOthers
  <2>4. Len(A!Others(p)) = Len(cache) - 1
    BY <1>1, <2>1, <2>2, OthersFacts
  <2>. QED BY <1>1, <2>3, <2>4, Limits DEF CacheOK
<1>3. ASSUME NEW t \in Task, Ends(t) PROVE CacheOK'
  <2>1. PICK lifetime \in A!Left : cache' = A!Remembered(task[t].player, lifetime)
    BY <1>3, EndsFacts DEF A!Done
  <2>2. task[t].player \in Player
    BY <1>3, EndsFacts DEF AvatarInv, TasksOK
  <2>. QED BY <1>1, <2>1, <2>2, RememberedFacts DEF CacheOK
<1>4. CASE A!Restart
  BY <1>4, Limits DEF A!Restart, CacheOK, IsCache
<1>5. CASE A!Tick
  <2>1. cache' = [i \in 1..Len(cache) |-> [cache[i] EXCEPT !.left = A!Shorter(@)]]
    BY <1>1, <1>5 DEF A!Tick
  <2>2. \A e \in Entry : /\ [e EXCEPT !.left = A!Shorter(@)] \in Entry
                         /\ [e EXCEPT !.left = A!Shorter(@)].player = e.player
    BY LeftFacts DEF Entry
  <2>3. \A i \in 1..Len(cache) : cache[i] \in Entry
    BY <1>1
  <2>4. \A i \in 1..Len(cache) : cache'[i] \in Entry /\ cache'[i].player = cache[i].player
    BY <2>1, <2>2, <2>3
  <2>5. cache' \in Seq(Entry) /\ Len(cache') = Len(cache)
    BY <1>1, <2>1, <2>4
  <2>. QED BY <1>1, <2>4, <2>5 DEF CacheOK, IsCache
<1>6. CASE UNCHANGED cache
  BY <1>1, <1>6 DEF CacheOK
<1>. QED BY <1>2, <1>3, <1>4, <1>5, <1>6
        DEF A!Next, A!vars, Ends, A!Get, A!Check, A!Share, A!TurnAway, A!Start, A!Leave, A!Acquire, A!Wake

LEMMA WindowsStep ==
    ASSUME LimitsHold
    PROVE  AvatarInv /\ [A!Next]_(A!vars) =>
               WindowsOK' /\ Len(loads') <= LoadLimit /\ views' \in [Viewer -> Seq(Ticks)]
<1> SUFFICES ASSUME AvatarInv, [A!Next]_(A!vars)
             PROVE  WindowsOK' /\ Len(loads') <= LoadLimit /\ views' \in [Viewer -> Seq(Ticks)]
  OBVIOUS
<1>1. /\ IsWindow(loads) /\ Len(loads) \in Nat /\ Len(loads) <= LoadLimit
      /\ \A v \in Viewer : IsWindow(views[v])
      /\ views \in [Viewer -> Seq(Ticks)]
  BY WindowFacts DEF AvatarInv, WindowsOK, ShapesOK
<1>2. ASSUME NEW v \in Viewer, NEW p \in Player, A!Check(v, p)
      PROVE  WindowsOK' /\ Len(loads') <= LoadLimit /\ views' \in [Viewer -> Seq(Ticks)]
  <2>1. IsWindow(Append(views[v], Window)) /\ Append(views[v], Window) \in Seq(Ticks)
    BY <1>1, AppendWindow DEF IsWindow
  <2>2. views' = [views EXCEPT ![v] = Append(views[v], Window)] /\ loads' = loads
    BY <1>2 DEF A!Check
  <2>. QED BY <1>1, <2>1, <2>2 DEF WindowsOK
<1>3. ASSUME NEW v \in Viewer, NEW t \in Task, A!Start(v, t)
      PROVE  WindowsOK' /\ Len(loads') <= LoadLimit /\ views' \in [Viewer -> Seq(Ticks)]
  <2>1. loads' = Append(loads, Window) /\ views' = views /\ Len(loads) < LoadLimit
    BY <1>3 DEF A!Start
  <2>2. IsWindow(loads') /\ Len(loads') = Len(loads) + 1
    BY <1>1, <2>1, AppendWindow
  <2>. QED BY <1>1, <2>1, <2>2, Limits DEF WindowsOK
<1>4. CASE A!Restart
  <2>1. IsWindow(<<>>) /\ Len(<<>>) = 0 /\ <<>> \in Seq(Ticks)
    BY DEF IsWindow
  <2>2. loads' = <<>> /\ views' = [v \in Viewer |-> <<>>]
    BY <1>4 DEF A!Restart
  <2>. QED BY <2>1, <2>2, Limits DEF WindowsOK
<1>5. CASE A!Tick
  <2>1. loads' = A!Recent(loads) /\ views' = [v \in Viewer |-> A!Recent(views[v])]
    BY <1>5 DEF A!Tick
  <2>2. IsWindow(A!Recent(loads)) /\ Len(A!Recent(loads)) <= Len(loads) /\ Len(A!Recent(loads)) \in Nat
    BY <1>1, RecentFacts, WindowFacts
  <2>3. \A v \in Viewer : IsWindow(A!Recent(views[v])) /\ A!Recent(views[v]) \in Seq(Ticks)
    BY <1>1, RecentFacts, WindowFacts
  <2>. QED BY <1>1, <2>1, <2>2, <2>3, Limits DEF WindowsOK
<1>6. CASE UNCHANGED <<loads, views>>
  BY <1>1, <1>6 DEF WindowsOK
<1>7. ASSUME NEW t \in Task, Ends(t) PROVE UNCHANGED <<loads, views>>
  BY <1>7, EndsFacts DEF A!Done
<1>. QED BY <1>2, <1>3, <1>4, <1>5, <1>6, <1>7
        DEF A!Next, A!vars, Ends, A!Get, A!Hit, A!Share, A!TurnAway, A!Leave, A!Acquire, A!Wake

\* What a start is to the tasks.
LEMMA StartFacts ==
    ASSUME LimitsHold,
           AvatarInv, NEW v \in Viewer, NEW t \in Task, A!Start(v, t)
    PROVE  LET p == viewer[v].player IN
           /\ p \in Player /\ inflight[p] = NoTask /\ task[t].pc = "none" /\ blocked = 0
           /\ inflight' = [inflight EXCEPT ![p] = t]
           /\ task' \in [Task -> WorkType]
           /\ task'[t].pc = "queued" /\ task'[t].player = p
           /\ \A u \in Task \ {t} : task'[u] = task[u]
           /\ viewer' = [viewer EXCEPT ![v].pc = "waiting", ![v].task = t]
<1> DEFINE p == viewer[v].player
           work == [pc |-> "queued", player |-> p, left |-> LoadTime]
<1>1. p \in Player
  BY DEF AvatarInv, ViewersOK, A!Start
<1>2. work \in WorkType /\ A!NoWork.pc = "none"
  BY <1>1, Limits DEF WorkType, A!NoWork
<1>3. task' = [task EXCEPT ![t] = work]
  BY DEF A!Start
<1>4. work.pc = "queued" /\ work.player = p
  OBVIOUS
<1> HIDE DEF work
<1>. QED BY <1>1, <1>2, <1>3, <1>4 DEF A!Start, A!Missing, AvatarInv, ShapesOK

\* Clock ticks leave all but the times.
LEMMA TickFacts ==
    ASSUME LimitsHold,
           AvatarInv, A!Tick
    PROVE  /\ task' \in [Task -> WorkType]
           /\ \A t \in Task : task'[t].pc = task[t].pc /\ task'[t].player = task[t].player
           /\ inflight' = inflight /\ viewer' = viewer /\ blocked' = A!Shorter(blocked)
<1>1. task' = [t \in Task |-> [task[t] EXCEPT !.left = A!Shorter(@)]]
  BY DEF A!Tick
<1>2. \A w \in WorkType : /\ [w EXCEPT !.left = A!Shorter(@)] \in WorkType
                          /\ [w EXCEPT !.left = A!Shorter(@)].pc = w.pc
                          /\ [w EXCEPT !.left = A!Shorter(@)].player = w.player
  BY Limits DEF WorkType, A!Shorter
<1>. QED BY <1>1, <1>2 DEF A!Tick, AvatarInv, ShapesOK

LEMMA RestartFacts ==
    ASSUME LimitsHold,
           A!Restart
    PROVE  /\ task' = [t \in Task |-> A!NoWork] /\ A!NoWork \in WorkType
           /\ A!NoWork.pc = "none" /\ A!NoWork.player = NoPlayer
           /\ viewer' = [v \in Viewer |-> A!Away] /\ A!Away \in VisitType /\ A!Away.pc = "away"
           /\ inflight' = [p \in Player |-> NoTask] /\ blocked' = 0
BY Limits DEF A!Restart, A!NoWork, WorkType, A!Away, VisitType

LEMMA TasksStep ==
    ASSUME LimitsHold
    PROVE  AvatarInv /\ [A!Next]_(A!vars) => TasksOK'
<1> SUFFICES ASSUME AvatarInv, [A!Next]_(A!vars) PROVE TasksOK'
  OBVIOUS
<1>1. TasksOK /\ inflight \in [Player -> Task \cup {NoTask}] /\ task \in [Task -> WorkType]
  BY DEF AvatarInv, ShapesOK
<1>2. ASSUME NEW v \in Viewer, NEW t \in Task, A!Start(v, t) PROVE TasksOK'
  <2> DEFINE p == viewer[v].player
  <2>1. /\ p \in Player /\ inflight[p] = NoTask /\ task[t].pc = "none"
        /\ inflight' = [inflight EXCEPT ![p] = t]
        /\ task'[t].pc = "queued" /\ task'[t].player = p
        /\ \A u \in Task \ {t} : task'[u] = task[u]
    BY <1>2, StartFacts
  <2> HIDE DEF p
  <2>2. inflight'[p] = t /\ \A q \in Player \ {p} : inflight'[q] = inflight[q]
    BY <1>1, <2>1
  <2>3. ASSUME NEW u \in Task
        PROVE  /\ task'[u].pc = "none" => task'[u].player = NoPlayer
               /\ task'[u].pc # "none" => /\ task'[u].player \in Player
                                          /\ inflight'[task'[u].player] = u
    <3>1. CASE u = t
      BY <2>1, <2>2, <3>1
    <3>2. CASE u # t
      <4>1. task[u].pc # "none" => task[u].player # p
        BY <1>1, <2>1, Limits DEF TasksOK
      <4>. QED BY <1>1, <2>1, <2>2, <3>2, <4>1 DEF TasksOK
    <3>. QED BY <3>1, <3>2
  <2>4. ASSUME NEW q \in Player, inflight'[q] # NoTask
        PROVE  task'[inflight'[q]].player = q
    <3>1. CASE q = p
      BY <2>1, <2>2, <3>1
    <3>2. CASE q # p
      <4>1. inflight'[q] = inflight[q] /\ inflight[q] \in Task /\ task[inflight[q]].player = q
        BY <1>1, <2>2, <2>4, <3>2 DEF TasksOK
      <4>2. inflight[q] # t
        BY <1>1, <2>1, <4>1, Limits DEF TasksOK
      <4>. QED BY <2>1, <4>1, <4>2
    <3>. QED BY <3>1, <3>2
  <2>. QED BY <2>3, <2>4 DEF TasksOK
<1>3. ASSUME NEW t \in Task, A!Acquire(t) \/ Ends(t) PROVE TasksOK'
  <2>1. PICK place \in {"loading", "done"} : task' = [task EXCEPT ![t].pc = place]
    BY <1>3, EndsFacts DEF A!Acquire, A!Done
  <2>2. /\ task'[t].pc = place /\ \A u \in Task \ {t} : task'[u] = task[u]
        /\ \A u \in Task : task'[u].player = task[u].player
    BY <2>1, NewPlace DEF AvatarInv
  <2>3. task[t].pc # "none" /\ inflight' = inflight
    BY <1>3, EndsFacts DEF A!Acquire, A!Done
  <2>. QED BY <1>1, <2>2, <2>3 DEF TasksOK
<1>4. ASSUME NEW t \in Task, A!Wake(t) PROVE TasksOK'
  <2> DEFINE p == task[t].player
  <2>1. p \in Player /\ inflight[p] = t /\ t # NoTask
    BY <1>1, <1>4, Limits DEF A!Wake, TasksOK
  <2>2. /\ inflight' = [inflight EXCEPT ![p] = NoTask] /\ task' = [task EXCEPT ![t] = A!NoWork]
        /\ A!NoWork.pc = "none" /\ A!NoWork.player = NoPlayer
    BY <1>4 DEF A!Wake, A!NoWork
  <2> HIDE DEF p
  <2>3. /\ inflight'[p] = NoTask /\ \A q \in Player \ {p} : inflight'[q] = inflight[q]
        /\ task'[t] = A!NoWork /\ \A u \in Task \ {t} : task'[u] = task[u]
    BY <1>1, <2>1, <2>2
  <2>4. \A u \in Task \ {t} : task[u].pc # "none" => task[u].player # p
    BY <1>1, <2>1 DEF TasksOK
  <2>5. \A q \in Player \ {p} : inflight[q] # t
    BY <1>1, <2>1 DEF TasksOK, p
  <2>6. ASSUME NEW u \in Task
        PROVE  /\ task'[u].pc = "none" => task'[u].player = NoPlayer
               /\ task'[u].pc # "none" => /\ task'[u].player \in Player
                                          /\ inflight'[task'[u].player] = u
    BY <1>1, <2>2, <2>3, <2>4 DEF TasksOK
  <2>7. ASSUME NEW q \in Player, inflight'[q] # NoTask
        PROVE  task'[inflight'[q]].player = q
    BY <1>1, <2>3, <2>5, <2>7 DEF TasksOK
  <2>. QED BY <2>6, <2>7 DEF TasksOK
<1>5. CASE A!Restart
  BY <1>5, RestartFacts DEF TasksOK
<1>6. CASE A!Tick
  BY <1>1, <1>6, TickFacts DEF TasksOK
<1>7. CASE UNCHANGED <<task, inflight>>
  BY <1>1, <1>7 DEF TasksOK
<1>. QED BY <1>2, <1>3, <1>4, <1>5, <1>6, <1>7
        DEF A!Next, A!vars, Ends, A!Get, A!Check, A!Hit, A!Share, A!TurnAway, A!Leave

LEMMA SlotsStep ==
    ASSUME LimitsHold
    PROVE  AvatarInv /\ [A!Next]_(A!vars) => SlotsOK'
<1> SUFFICES ASSUME AvatarInv, [A!Next]_(A!vars) PROVE SlotsOK'
  OBVIOUS
<1>1. IsFiniteSet(Busy) /\ Cardinality(Busy) <= Slots /\ Cardinality(Busy) \in Nat
  BY FS_CardinalityType DEF AvatarInv, SlotsOK
<1>2. ASSUME NEW t \in Task, A!Acquire(t) PROVE SlotsOK'
  <2>1. /\ task'[t].pc = "loading" /\ task[t].pc = "queued"
        /\ \A u \in Task \ {t} : task'[u] = task[u]
    BY <1>2, NewPlace DEF AvatarInv, A!Acquire
  <2>2. Busy' = Busy \cup {t} /\ t \notin Busy
    BY <2>1 DEF Busy
  <2>3. Cardinality(Busy) < Slots
    BY <1>2, SameSize DEF A!Acquire, Busy
  <2>4. IsFiniteSet(Busy') /\ Cardinality(Busy') = Cardinality(Busy) + 1
    BY <1>1, <2>2, FS_AddElement
  <2>. QED BY <1>1, <2>3, <2>4, Limits DEF SlotsOK
<1>3. CASE Busy' \subseteq Busy
  <2>1. IsFiniteSet(Busy') /\ Cardinality(Busy') <= Cardinality(Busy) /\ Cardinality(Busy') \in Nat
    BY <1>1, <1>3, FS_Subset, FS_CardinalityType
  <2>. QED BY <1>1, <2>1, Limits DEF SlotsOK
<1>4. ASSUME NEW v \in Viewer, NEW t \in Task, A!Start(v, t) PROVE Busy' \subseteq Busy
  BY <1>4, StartFacts DEF Busy
<1>5. ASSUME NEW t \in Task, Ends(t) PROVE Busy' \subseteq Busy
  <2>1. task' = [task EXCEPT ![t].pc = "done"]
    BY <1>5, EndsFacts DEF A!Done
  <2>2. task'[t].pc = "done" /\ \A u \in Task \ {t} : task'[u] = task[u]
    BY <2>1, NewPlace DEF AvatarInv
  <2>. QED BY <2>2 DEF Busy
<1>6. ASSUME NEW t \in Task, A!Wake(t) PROVE Busy' \subseteq Busy
  <2>1. task' = [task EXCEPT ![t] = A!NoWork] /\ A!NoWork.pc = "none"
    BY <1>6 DEF A!Wake, A!NoWork
  <2>. QED BY <2>1 DEF Busy, AvatarInv, ShapesOK
<1>7. CASE A!Restart
  <2>1. Busy' \subseteq Busy
    BY <1>7, RestartFacts DEF Busy
  <2>. QED BY <1>3, <2>1
<1>8. CASE A!Tick
  <2>1. Busy' \subseteq Busy
    BY <1>8, TickFacts DEF Busy
  <2>. QED BY <1>3, <2>1
<1>9. CASE UNCHANGED task
  <2>1. Busy' \subseteq Busy
    BY <1>9 DEF Busy
  <2>. QED BY <1>3, <2>1
<1>. QED BY <1>2, <1>3, <1>4, <1>5, <1>6, <1>7, <1>8, <1>9
        DEF A!Next, A!vars, Ends, A!Get, A!Check, A!Hit, A!Share, A!TurnAway, A!Leave

\* A viewer that goes on; where it goes is in order.
LEMMA OneViewer ==
    ASSUME LimitsHold,
           AvatarInv, NEW v \in Viewer, NEW new \in VisitType, viewer' = [viewer EXCEPT ![v] = new],
           new.pc # "away" => new.player \in Player,
           new.pc = "waiting" => new.task \in Task /\ task'[new.task].player = new.player,
           \A w \in Viewer \ {v} : viewer[w].pc = "waiting" =>
               task'[viewer[w].task].player = task[viewer[w].task].player
    PROVE  ViewersOK' /\ viewer' \in [Viewer -> VisitType]
BY DEF AvatarInv, ShapesOK, ViewersOK

LEMMA ViewersStep ==
    ASSUME LimitsHold
    PROVE  AvatarInv /\ [A!Next]_(A!vars) => ViewersOK' /\ viewer' \in [Viewer -> VisitType]
<1> SUFFICES ASSUME AvatarInv, [A!Next]_(A!vars) PROVE ViewersOK' /\ viewer' \in [Viewer -> VisitType]
  OBVIOUS
<1>1. /\ ViewersOK /\ viewer \in [Viewer -> VisitType] /\ \A v \in Viewer : viewer[v] \in VisitType
      /\ A!Away \in VisitType /\ A!Away.pc = "away"
  BY DEF AvatarInv, ShapesOK, A!Away, VisitType
<1>2. ASSUME NEW v \in Viewer, NEW p \in Player, A!Check(v, p)
      PROVE  ViewersOK' /\ viewer' \in [Viewer -> VisitType]
  <2> DEFINE new == [pc |-> "checked", player |-> p, task |-> NoTask]
  <2>1. new \in VisitType /\ new.pc = "checked" /\ new.player = p
    BY DEF VisitType
  <2>2. viewer' = [viewer EXCEPT ![v] = new] /\ task' = task
    BY <1>2 DEF A!Check
  <2> HIDE DEF new
  <2>. QED BY <2>1, <2>2, OneViewer
<1>3. ASSUME NEW v \in Viewer, A!Hit(v) \/ A!TurnAway(v) \/ A!Leave(v)
      PROVE  ViewersOK' /\ viewer' \in [Viewer -> VisitType]
  <2>1. viewer' = [viewer EXCEPT ![v] = A!Away] /\ task' = task
    BY <1>3 DEF A!Hit, A!TurnAway, A!Leave
  <2>. QED BY <1>1, <2>1, OneViewer
<1>4. ASSUME NEW v \in Viewer, A!Share(v)
      PROVE  ViewersOK' /\ viewer' \in [Viewer -> VisitType]
  <2> DEFINE p == viewer[v].player
             new == [viewer[v] EXCEPT !.pc = "waiting", !.task = inflight[p]]
  <2>1. p \in Player /\ inflight[p] \in Task /\ task[inflight[p]].player = p
    BY <1>4 DEF A!Share, AvatarInv, ShapesOK, ViewersOK, TasksOK
  <2>2. viewer' = [viewer EXCEPT ![v] = new] /\ task' = task
    BY <1>1, <1>4 DEF A!Share
  <2>3. new \in VisitType /\ new.pc = "waiting" /\ new.player = p /\ new.task = inflight[p]
    BY <1>1, <2>1 DEF VisitType
  <2> HIDE DEF new, p
  <2>. QED BY <2>1, <2>2, <2>3, OneViewer
<1>5. ASSUME NEW v \in Viewer, NEW t \in Task, A!Start(v, t)
      PROVE  ViewersOK' /\ viewer' \in [Viewer -> VisitType]
  <2> DEFINE p == viewer[v].player
             new == [viewer[v] EXCEPT !.pc = "waiting", !.task = t]
  <2>1. /\ p \in Player /\ task[t].pc = "none" /\ task'[t].player = p
        /\ \A u \in Task \ {t} : task'[u] = task[u]
        /\ viewer' = [viewer EXCEPT ![v].pc = "waiting", ![v].task = t]
    BY <1>5, StartFacts
  <2>2. viewer' = [viewer EXCEPT ![v] = new]
    BY <1>1, <2>1
  <2>3. new \in VisitType /\ new.pc = "waiting" /\ new.player = p /\ new.task = t
    BY <1>1 DEF VisitType
  <2>4. \A w \in Viewer : viewer[w].pc = "waiting" => viewer[w].task \in Task \ {t}
    BY <1>1, <2>1, Limits DEF AvatarInv, TasksOK, ViewersOK
  <2>5. \A w \in Viewer \ {v} : viewer[w].pc = "waiting" =>
            task'[viewer[w].task].player = task[viewer[w].task].player
    BY <2>1, <2>4
  <2>6. t \in Task /\ task'[new.task].player = new.player
    BY <2>1, <2>3
  <2> HIDE DEF new, p
  <2>. QED BY <2>1, <2>2, <2>3, <2>5, <2>6, OneViewer
<1>6. ASSUME NEW t \in Task, A!Acquire(t) \/ Ends(t)
      PROVE  ViewersOK' /\ viewer' \in [Viewer -> VisitType]
  <2>1. PICK place \in {"loading", "done"} : task' = [task EXCEPT ![t].pc = place]
    BY <1>6, EndsFacts DEF A!Acquire, A!Done
  <2>2. \A u \in Task : task'[u].player = task[u].player
    BY <2>1, NewPlace DEF AvatarInv
  <2>3. viewer' = viewer
    BY <1>6, EndsFacts DEF A!Acquire, A!Done
  <2>. QED BY <1>1, <2>2, <2>3 DEF ViewersOK
<1>7. ASSUME NEW t \in Task, A!Wake(t)
      PROVE  ViewersOK' /\ viewer' \in [Viewer -> VisitType]
  <2>1. \A u \in Task \ {t} : task'[u] = task[u]
    BY <1>7 DEF A!Wake, AvatarInv, ShapesOK
  <2>2. viewer' = [v \in Viewer |-> IF viewer[v].pc = "waiting" /\ viewer[v].task = t
                                    THEN A!Away ELSE viewer[v]]
    BY <1>7 DEF A!Wake
  <2>3. viewer' \in [Viewer -> VisitType]
    BY <1>1, <2>2
  <2>4. \A v \in Viewer : \/ viewer'[v].pc = "away"
                          \/ /\ viewer'[v] = viewer[v]
                             /\ viewer[v].pc = "waiting" => viewer[v].task # t
    BY <1>1, <2>2
  <2>. QED BY <1>1, <2>1, <2>3, <2>4 DEF ViewersOK
<1>8. CASE A!Restart
  BY <1>8, RestartFacts DEF ViewersOK
<1>9. CASE A!Tick
  BY <1>1, <1>9, TickFacts DEF ViewersOK
<1>10. CASE UNCHANGED <<task, viewer>>
  BY <1>1, <1>10 DEF ViewersOK
<1>. QED BY <1>2, <1>3, <1>4, <1>5, <1>6, <1>7, <1>8, <1>9, <1>10 DEF A!Next, A!vars, Ends, A!Get

\* The pause: a start waits for its end, and only the clock shortens it.
LEMMA PauseStep ==
    ASSUME LimitsHold,
           AvatarInv, [A!Next]_(A!vars)
    PROVE  /\ blocked' \in A!Left
           /\ ~A!Restart => blocked' >= blocked - 1 /\ (blocked' < blocked => A!Tick)
<1>1. blocked \in A!Left /\ blocked \in Nat
  BY LeftFacts DEF AvatarInv, ShapesOK
<1>2. ASSUME NEW t \in Task, Ends(t)
      PROVE  blocked' \in A!Left /\ blocked' >= blocked
  <2>1. \A pause \in Pauses : A!Longer(pause) \in A!Left /\ A!Longer(pause) >= blocked
    BY <1>1, Limits DEF A!Longer
  <2>. QED BY <1>1, <1>2, <2>1, EndsFacts
<1>3. CASE A!Restart
  BY <1>3, RestartFacts, LeftFacts
<1>4. CASE A!Tick
  <2>1. blocked' = A!Shorter(blocked)
    BY <1>4, TickFacts
  <2>. QED BY <1>1, <1>4, <2>1, LeftFacts DEF A!Shorter
<1>5. CASE UNCHANGED blocked
  BY <1>1, <1>5
<1>6. A!Restart \/ A!Tick \/ UNCHANGED blocked \/ \E t \in Task : Ends(t)
  BY DEF A!Next, A!vars, Ends, A!Get, A!Check, A!Hit, A!Share, A!TurnAway, A!Start, A!Leave, A!Acquire, A!Wake
<1>7. blocked' >= blocked => blocked' >= blocked - 1 /\ ~(blocked' < blocked)
  <2>1. blocked' \in Nat
    BY <1>1, <1>2, <1>3, <1>4, <1>5, <1>6, LeftFacts
  <2>. QED BY <1>1, <2>1
<1>8. blocked >= blocked
  BY <1>1
<1>. QED BY <1>2, <1>3, <1>4, <1>5, <1>6, <1>7, <1>8

LEMMA TaskShapes ==
    ASSUME LimitsHold,
           AvatarInv, [A!Next]_(A!vars)
    PROVE  /\ task' \in [Task -> WorkType] /\ inflight' \in [Player -> Task \cup {NoTask}]
           /\ ~A!Restart => \A t \in Task : task'[t].pc # "none" =>
                              task[t].pc # "none" \/ blocked = 0
<1>1. task \in [Task -> WorkType] /\ inflight \in [Player -> Task \cup {NoTask}]
  BY DEF AvatarInv, ShapesOK
<1>2. ASSUME NEW v \in Viewer, NEW t \in Task, A!Start(v, t)
      PROVE  task' \in [Task -> WorkType] /\ inflight' \in [Player -> Task \cup {NoTask}] /\ blocked = 0
  BY <1>1, <1>2, StartFacts
<1>3. ASSUME NEW t \in Task, A!Acquire(t) \/ Ends(t)
      PROVE  /\ task' \in [Task -> WorkType] /\ inflight' = inflight
             /\ \A u \in Task : task'[u].pc # "none" => task[u].pc # "none"
  <2>1. PICK place \in {"loading", "done"} : task' = [task EXCEPT ![t].pc = place]
    BY <1>3, EndsFacts DEF A!Acquire, A!Done
  <2>2. task' \in [Task -> WorkType] /\ \A u \in Task \ {t} : task'[u] = task[u]
    BY <2>1, NewPlace DEF AvatarInv
  <2>3. inflight' = inflight /\ task[t].pc # "none"
    BY <1>3, EndsFacts DEF A!Acquire, A!Done
  <2>. QED BY <2>2, <2>3
<1>4. ASSUME NEW t \in Task, A!Wake(t)
      PROVE  /\ task' \in [Task -> WorkType] /\ inflight' \in [Player -> Task \cup {NoTask}]
             /\ \A u \in Task : task'[u].pc # "none" => task[u].pc # "none"
  <2>1. A!NoWork \in WorkType /\ A!NoWork.pc = "none"
    BY Limits DEF A!NoWork, WorkType
  <2>. QED BY <1>1, <1>4, <2>1 DEF A!Wake
<1>5. CASE A!Restart
  BY <1>5, RestartFacts
<1>6. CASE A!Tick
  BY <1>1, <1>6, TickFacts
<1>7. CASE UNCHANGED <<task, inflight>>
  BY <1>1, <1>7
<1>8. \/ \E v \in Viewer, t \in Task : A!Start(v, t)
      \/ \E t \in Task : A!Acquire(t) \/ Ends(t) \/ A!Wake(t)
      \/ A!Restart \/ A!Tick \/ UNCHANGED <<task, inflight>>
  BY DEF A!Next, A!vars, Ends, A!Get, A!Check, A!Hit, A!Share, A!TurnAway, A!Leave
<1>. QED BY <1>1, <1>2, <1>3, <1>4, <1>5, <1>6, <1>7, <1>8

LEMMA NextAvatarInv ==
    ASSUME LimitsHold
    PROVE  AvatarInv /\ [A!Next]_(A!vars) => AvatarInv'
<1> SUFFICES ASSUME AvatarInv, [A!Next]_(A!vars) PROVE AvatarInv'
  OBVIOUS
<1>1. ShapesOK'
  BY WindowsStep, ViewersStep, PauseStep, TaskShapes DEF ShapesOK
<1>. QED BY <1>1, WindowsStep, TasksStep, ViewersStep, SlotsStep, CacheStep DEF AvatarInv

LEMMA SharedByInv ==
    ASSUME LimitsHold
    PROVE  AvatarInv => A!LoadsAreShared
<1> SUFFICES ASSUME AvatarInv PROVE A!LoadsAreShared
  OBVIOUS
<1>1. A!TypeOK
  BY DEF AvatarInv, ShapesOK, WindowsOK, CacheOK, IsCache, IsWindow, A!TypeOK, Entry, Ticks, WorkType, VisitType
<1>2. \A i, j \in DOMAIN cache : cache[i].player = cache[j].player => i = j
  BY DEF AvatarInv, CacheOK, IsCache
<1>3. A!Cardinality({t \in Task : task[t].pc = "loading"}) <= Slots
  BY SameSize DEF AvatarInv, SlotsOK, Busy
<1>. QED BY <1>1, <1>2, <1>3 DEF A!LoadsAreShared, AvatarInv, TasksOK, ViewersOK, CacheOK

(***************************************************************************)
(* The viewers of a photo share its download, for any number of viewers,   *)
(* photos and tasks and any limits: a task is known until it has called    *)
(* back, and downloads, cache and windows stay within their limits.        *)
(***************************************************************************)
THEOREM LoadsShared ==
    ASSUME A!LimitsArePositive
    PROVE  A!Spec => []A!LoadsAreShared
<1>1. LimitsHold
  BY DEF LimitsHold
<1>. QED BY <1>1, InitAvatarInv, NextAvatarInv, SharedByInv, PTL DEF A!Spec

(***************************************************************************)
(* A pause that Telegram asked for is neither shortened by an answer that  *)
(* comes later nor broken by a viewer that comes meanwhile.                *)
(***************************************************************************)
THEOREM PausesKept ==
    ASSUME A!LimitsArePositive
    PROVE  A!Spec => A!PausesAreKept
<1>0. LimitsHold
  BY DEF LimitsHold
<1>1. AvatarInv /\ [A!Next]_(A!vars) =>
        [blocked > 0 =>
          \/ A!Restart
          \/ /\ blocked' >= blocked - 1
             /\ blocked' < blocked => A!Tick
             /\ \A t \in Task : task'[t].pc # "none" => task[t].pc # "none"]_(A!vars)
  BY <1>0, PauseStep, TaskShapes
<1>. QED BY <1>0, <1>1, InitAvatarInv, NextAvatarInv, PTL DEF A!Spec, A!PausesAreKept
=============================================================================
