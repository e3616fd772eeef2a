------------------------------- MODULE Rooms -------------------------------
(***************************************************************************)
(* Slot and solo Blackjack rooms (room_service.py, apply_action).          *)
(* A request is a transaction under the row lock of its room: it is        *)
(* answered from the recorded action if its id is known, refused if it     *)
(* expects an old version, and otherwise moves money, the round and the    *)
(* version, and records the action.  The event is published only after     *)
(* the commit, without the lock, so events may be published in another     *)
(* order than they were committed in, and a repeated request publishes the *)
(* old event once more.                                                    *)
(*                                                                         *)
(* One player owns all the rooms and plays in several tabs, so requests    *)
(* with the same id may reach several rooms at once.  Only the primary key *)
(* of the recorded actions decides between them.                           *)
(***************************************************************************)
EXTENDS EventBus, BlackjackHand, SlotMachine

CONSTANTS
    SlotRooms,     \* the rooms with a slot machine; the others are for Blackjack
    Session,       \* requests that are served at a time
    ActionId,
    Bets,          \* what may be staked
    Opening,       \* the player's balance at first
    MaxHits,       \* bound on the cards a hand can draw
    MaxQueue       \* bound on the events that wait in one queue

ASSUME RoomAssumption ==
    /\ SlotRooms \subseteq Room
    /\ Bets \subseteq Nat \ {0}
    /\ {Opening, MaxHits, MaxQueue} \subseteq Nat
    /\ IsFiniteSet(ActionId) /\ ActionId # {}

VARIABLES
    balance,       \* the player's wallet
    room,          \* room[r]: the GameRoom row with the private round of a Blackjack room
    record,        \* record[id]: the GameAction with this id
    pc,            \* pc[s]: "idle", "locked" (transaction open) or "publish" (committed)
    request        \* request[s]: room and id of a request, the row it read, and the
                   \* version of its event once there is one

roomVars == <<balance, room, record, pc, request>>
vars == <<roomVars, busVars>>

NoRound == [bet |-> 0, hand |-> NoHand]
Round(bet, hand) == [bet |-> bet, hand |-> hand]
NoRow == [created |-> FALSE, version |-> 0, round |-> NoRound]
NoRecord == [room |-> NoRoom, version |-> 0, action |-> "none", stake |-> 0, payout |-> 0]
NoRequest == [room |-> NoRoom, id |-> CHOOSE id \in ActionId : TRUE, row |-> NoRow, version |-> 0]

Init ==
    /\ BusInit
    /\ balance = Opening
    /\ room = [r \in Room |-> NoRow]
    /\ record = [id \in ActionId |-> NoRecord]
    /\ pc = [s \in Session |-> "idle"]
    /\ request = [s \in Session |-> NoRequest]

-----------------------------------------------------------------------------
(***************************************************************************)
(* What an action may do: stake, payout and the round it leaves behind.    *)
(* The random numbers are a choice.                                        *)
(***************************************************************************)
Outcome(action, stake, payout, round) ==
    [action |-> action, stake |-> stake, payout |-> payout, round |-> round]

Spins == UNION {{Outcome("spin", bet, pay, NoRound) : pay \in SpinPayouts(bet)} : bet \in Bets}

\* What the dealer leaves to a hand that has all its cards.
Stood(action, stake, bet, hand) ==
    {Outcome(action, stake, pay, NoRound) : pay \in Payouts(bet, hand)}

\* A natural of either side ends the round at once.
Dealt(bet, hand) ==
    {Outcome("deal", bet, Payout(bet, Value(hand), DealerNatural), NoRound)}
    \cup IF Value(hand).natural THEN Stood("deal", bet, bet, hand)
         ELSE {Outcome("deal", bet, 0, Round(bet, hand))}

Deals == UNION {Dealt(bet, hand) : bet \in Bets, hand \in FirstHands}

\* A hand that draws is bust, has twenty-one and stands, or goes on.
Hits(round) ==
    LET Hit(hand) ==
            IF HandTotal(hand) >= 21 THEN Stood("hit", 0, round.bet, hand)
            ELSE {o \in {Outcome("hit", 0, 0, Round(round.bet, hand))} : hand.cards <= 2 + MaxHits}
    IN  UNION {Hit(hand) : hand \in Draws({round.hand}, PlayerCards)}

\* Mutant: the doubled bet is not paid for, and the hand may draw on.
DoublesUnpaid(round) ==
    IF round.hand.cards = 2
    THEN {Outcome("double", 0, 0, Round(2 * round.bet, hand)) :
            hand \in Draws({round.hand}, PlayerCards)}
    ELSE {}

\* One card more for as much money again, and none after it.
Doubles(round) ==
    IF round.hand.cards = 2
    THEN UNION {Stood("double", round.bet, 2 * round.bet, hand) :
                  hand \in Draws({round.hand}, PlayerCards)}
    ELSE {}

Outcomes(r, row) ==
    IF r \in SlotRooms THEN Spins
    ELSE IF row.round = NoRound THEN Deals
    ELSE Stood("stand", 0, row.round.bet, row.round.hand) \cup Hits(row.round) \cup Doubles(row.round)

-----------------------------------------------------------------------------
(***************************************************************************)
(* Requests.                                                               *)
(***************************************************************************)

\* create_room.
Create(r) ==
    /\ ~room[r].created
    /\ room' = [room EXCEPT ![r].created = TRUE]
    /\ UNCHANGED <<balance, record, pc, request, busVars>>

\* Mutant: the row is read without FOR UPDATE.
LockedByNobody(r) == FALSE

Locked(r) == \E s \in Session : pc[s] = "locked" /\ request[s].room = r

\* The row is locked and read; the id is new, and the expected version is current.
Begin(s, r, id) ==
    /\ pc[s] = "idle"
    /\ room[r].created /\ ~Locked(r)
    /\ record[id] = NoRecord
    /\ pc' = [pc EXCEPT ![s] = "locked"]
    /\ request' = [request EXCEPT ![s] = [room |-> r, id |-> id, row |-> room[r], version |-> 0]]
    /\ UNCHANGED <<balance, room, record, busVars>>

\* The id is recorded for this room: the old event is answered, and published again.
Replay(s, r, id) ==
    /\ pc[s] = "idle"
    /\ ~Locked(r)
    /\ record[id].room = r
    /\ \A k \in Socket : Len(queue[k]) < MaxQueue
    /\ pc' = [pc EXCEPT ![s] = "publish"]
    /\ request' = [request EXCEPT ![s] =
          [room |-> r, id |-> id, row |-> NoRow, version |-> record[id].version]]
    /\ UNCHANGED <<balance, room, record, busVars>>

\* The primary key of game_actions: no other transaction has committed this id.
Unused(id) == record[id] = NoRecord

\* validate_wallet_delta, under the lock of the wallet's row.
Affordable(o) == o.stake <= balance

\* _advance_db: the wallet, the round and the version move together, or not at all.
Commit(s) ==
    LET r == request[s].room
        row == request[s].row
    IN  /\ pc[s] = "locked"
        /\ Unused(request[s].id)
        /\ \E o \in Outcomes(r, row) :
              /\ Affordable(o)
              /\ balance' = balance - o.stake + o.payout
              /\ room' = [room EXCEPT ![r] = [@ EXCEPT !.version = row.version + 1, !.round = o.round]]
              /\ record' = [record EXCEPT ![request[s].id] =
                    [room |-> r, version |-> row.version + 1, action |-> o.action,
                     stake |-> o.stake, payout |-> o.payout]]
        /\ pc' = [pc EXCEPT ![s] = "publish"]
        /\ request' = [request EXCEPT ![s].version = row.version + 1, ![s].row = NoRow]
        /\ UNCHANGED busVars

\* The transaction is rolled back: the action is refused, its id has been committed
\* by another room meanwhile, or the connection is lost.
Abort(s) ==
    /\ pc[s] = "locked"
    /\ pc' = [pc EXCEPT ![s] = "idle"]
    /\ request' = [request EXCEPT ![s] = NoRequest]
    /\ UNCHANGED <<balance, room, record, busVars>>

\* After the commit the event goes to whoever listens.
PublishEvent(s) ==
    /\ pc[s] = "publish"
    /\ Publish(request[s].room, request[s].version)
    /\ pc' = [pc EXCEPT ![s] = "idle"]
    /\ request' = [request EXCEPT ![s] = NoRequest]
    /\ UNCHANGED <<balance, room, record>>

-----------------------------------------------------------------------------
(***************************************************************************)
(* Sockets, and the process they share with the requests.                  *)
(***************************************************************************)
Connect(k) ==
    /\ \E r \in Room : room[r].created /\ Subscribe(k, r)
    /\ UNCHANGED roomVars

Serve(k) ==
    /\ ReadSnapshot(k, room[sub[k]].version) \/ SendSnapshot(k) \/ SendEvent(k) \/ Disconnect(k)
    /\ UNCHANGED roomVars

\* The process restarts: what was committed and not yet published is never published,
\* but nobody is left who listens.
Restart ==
    /\ \E s \in Session : pc[s] # "idle"
    /\ pc' = [s \in Session |-> "idle"]
    /\ request' = [s \in Session |-> NoRequest]
    /\ Disconnected(Socket)
    /\ UNCHANGED <<balance, room, record>>

Next ==
    \/ \E r \in Room : Create(r)
    \/ \E s \in Session, r \in Room, id \in ActionId : Begin(s, r, id) \/ Replay(s, r, id)
    \/ \E s \in Session : Commit(s) \/ Abort(s) \/ PublishEvent(s)
    \/ \E k \in Socket : Connect(k) \/ Serve(k)
    \/ Restart

Spec == Init /\ [][Next]_vars

-----------------------------------------------------------------------------
Row == [created : BOOLEAN, version : Nat, round : [bet : Nat, hand : HandType]]

TypeOK ==
    /\ BusTypeOK
    /\ balance \in Nat
    /\ room \in [Room -> Row]
    /\ record \in [ActionId ->
          [room : Room \cup {NoRoom}, version : Nat, stake : Nat, payout : Nat,
           action : {"none", "spin", "deal", "hit", "stand", "double"}]]
    /\ pc \in [Session -> {"idle", "locked", "publish"}]
    /\ request \in [Session ->
          [room : Room \cup {NoRoom}, id : ActionId, row : Row, version : Nat]]

\* The recorded actions of a room.
History(r) == {id \in ActionId : record[id].room = r}

\* The recorded actions of a room are its versions from the first to the last, each of
\* them once: no update is lost, and no id has been spent in two rooms.
RecordsAreTheHistory ==
    /\ TypeOK
    /\ \A r \in Room :
          /\ {record[id].version : id \in History(r)} = 1..room[r].version
          /\ Cardinality(History(r)) = room[r].version

\* The bet a hand is playing for has been paid to the last chip by the actions since
\* its deal, and the wallet holds what all recorded actions leave it: a repeated
\* action does not move the balance twice.
RoundsArePaidFor ==
    /\ balance = Opening + Sum([id \in ActionId |-> record[id].payout - record[id].stake], ActionId)
    /\ \A r \in Room \ SlotRooms :
          LET since == {id \in History(r) :
                          \A deal \in History(r) : record[deal].action = "deal" =>
                             record[id].version >= record[deal].version}
          IN  room[r].round # NoRound =>
                  room[r].round.bet = Sum([id \in since |-> record[id].stake], since)

\* A socket misses nothing: once it has read its snapshot, the latest version of its
\* room is one it has read or sent, or waits in its queue, or is about to be published.
NoEventIsMissed ==
    \A k \in Socket : stage[k] \in {"read", "open"} =>
        \/ newest[k] >= room[sub[k]].version
        \/ \E i \in DOMAIN queue[k] : queue[k][i] = room[sub[k]].version
        \/ \E s \in Session : /\ pc[s] = "publish"
                              /\ request[s].room = sub[k]
                              /\ request[s].version = room[sub[k]].version

\* A socket emits ordered snapshots and events: what it sends next is never older than
\* what it has sent before.
SocketSendsInOrder ==
    \A k \in Socket : (stage[k] = "open" /\ queue[k] # <<>>) => Head(queue[k]) >= newest[k]

-----------------------------------------------------------------------------
\* The requests of several tabs, with their locks, stale rows, repeated ids, rollbacks and
\* restarts, are a book of single moves: what the commit of one request does, it does to
\* the room and to the wallet as they are at that moment.
Book == INSTANCE RoomBook WITH NewRoom <- NoRow

IsRoomBook == Book!Spec
=============================================================================
