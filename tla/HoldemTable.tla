---------------------------- MODULE HoldemTable ----------------------------
(***************************************************************************)
(* The six-seat Hold'em tables (holdem_table_service.py): matchmaking with *)
(* a search deadline, buy-ins taken when the hand starts, turns with a     *)
(* deadline, the timer that acts for whoever lets it pass, cash-outs, and  *)
(* retries of requests whose answer was lost.                              *)
(*                                                                         *)
(* Each operation is one transaction under the room's row lock and the     *)
(* wallet locks of everybody it pays (Wallet), so it is one action here.   *)
(* Timer passes are not: a pass first lists the rooms that are due and     *)
(* then visits them one transaction at a time.                             *)
(*                                                                         *)
(* The hand itself is HoldemMultiway.  What the table needs of it is that  *)
(* it always has a seat to move or is over after finitely many moves, and  *)
(* that its cash-outs add up to its stakes; moves and cards are otherwise  *)
(* left open.                                                              *)
(***************************************************************************)
EXTENDS Integers, FiniteSets, Sums

CONSTANTS
    User, Room,
    ActionId,          \* ids of client requests
    Nobody, NoRoom,
    Capacity,          \* seats of a table (6 in the code)
    BuyIns,            \* buy-ins on offer
    SearchTime,        \* a search lasts this long (60 s)
    TurnTime,          \* a turn lasts this long (20 s)
    Balances,          \* what a wallet may hold
    MaxMoves           \* bound on the moves of one hand

ASSUME TableAssumption ==
    /\ Capacity \in Nat /\ Capacity >= 2
    /\ BuyIns \subseteq Nat \ {0}
    /\ Balances \subseteq Nat
    /\ {SearchTime, TurnTime, MaxMoves} \subseteq Nat \ {0}
    /\ IsFiniteSet(User) /\ IsFiniteSet(Room)
    /\ Nobody \notin User /\ NoRoom \notin Room

Seat == 0..(Capacity - 1)
NoSeat == -1
NoDeadline == -1    \* deadline_at is NULL

VARIABLES
    balance,      \* balance[u]: the wallet of u
    elsewhere,    \* chips of other games and the bank: all there are, less the players'
    room,         \* room[r]: the GameRoom row with its players; its deadline is the
                  \* time that is left until deadline_at, zero once that has passed
    staked,       \* <<r, u>> with a posted stake operation
    action,       \* action[id]: the recorded GameAction with this id
    cancelled,    \* ids of creations whose search has ended without a hand
    due,          \* rooms the current timer pass still has to visit
    held          \* the room of a request that holds the queue lock, and found the deadline
                  \* of that room ahead before it passed; NoRoom if there is none

vars == <<balance, elsewhere, room, staked, action, cancelled, due, held>>

NoRow == [status |-> "absent", buyIn |-> 0, deadline |-> NoDeadline, version |-> 0,
          seats |-> [i \in Seat |-> Nobody], turn |-> NoSeat, left |-> 0]
NoAction == [room |-> NoRoom, user |-> Nobody, type |-> "none"]

Occupied(row) == {i \in Seat : row.seats[i] # Nobody}
Members(row) == {row.seats[i] : i \in Occupied(row)}

Init ==
    /\ balance \in [User -> Balances]
    /\ elsewhere = -Total(balance)
    /\ room = [r \in Room |-> NoRow]
    /\ staked = {}
    /\ action = [id \in ActionId |-> NoAction]
    /\ cancelled = {}
    /\ due = {}
    /\ held = NoRoom

-----------------------------------------------------------------------------
(***************************************************************************)
(* Parts of operations.                                                    *)
(***************************************************************************)

\* record: every operation bumps the version; a client's id is stored with it.
Recorded(row) == [row EXCEPT !.version = @ + 1]

\* Mutant: a departure leaves the player's search on record as it was.
SearchesForgotten(r, users) == {}

\* depart: players leave the table and their searches count as cancelled.
Without(row, leaving) ==
    [row EXCEPT !.seats = [i \in Seat |-> IF @[i] \in leaving THEN Nobody ELSE @[i]]]
Searches(r, users) ==
    {id \in ActionId : action[id].room = r /\ action[id].type = "create" /\ action[id].user \in users}

Closed(row) == [row EXCEPT !.status = "closed", !.deadline = NoDeadline]

\* The hand moves on to another seat and a new turn begins.
Turn(row, i) == [row EXCEPT !.status = "active", !.turn = i, !.deadline = TurnTime]

Insolvent(row) == {u \in Members(row) : balance[u] < row.buyIn}

\* start of a full or due table: whoever cannot pay departs; too few players
\* for a hand go on waiting, or the table closes when its search is over;
\* otherwise every buy-in is taken and the first seat is asked to move.
Start(r, row) ==
    LET leaving == Insolvent(row)
        rest == Without(row, leaving)
        n == Cardinality(Members(rest))
        over == row.deadline = 0
    IN  /\ cancelled' = cancelled \cup Searches(r, leaving)
        /\ \/ /\ n < Capacity /\ ~over
              /\ room' = [room EXCEPT ![r] = Recorded(rest)]
              /\ UNCHANGED <<balance, staked>>
           \/ /\ n < 2 /\ over
              /\ room' = [room EXCEPT ![r] = Recorded(Closed(rest))]
              /\ UNCHANGED <<balance, staked>>
           \/ /\ n >= 2 /\ (n = Capacity \/ over)
              /\ balance' = [u \in User |-> IF u \in Members(rest)
                                            THEN balance[u] - row.buyIn ELSE balance[u]]
              /\ staked' = staked \cup {<<r, u>> : u \in Members(rest)}
              /\ \E i \in Occupied(rest) :
                    room' = [room EXCEPT ![r] =
                                Recorded(Turn([rest EXCEPT !.left = MaxMoves], i))]

\* Mutant: chips that no seat claims stay in the pot.
CashOutsWithRest(row) ==
    LET stakes == row.buyIn * Cardinality(Members(row))
    IN  {cash \in [User -> 0..stakes] :
            /\ \A u \in User : cash[u] > 0 => u \in Members(row)
            /\ Total(cash) <= stakes}

\* What the hand may pay back: to each member something, together the stakes.
CashOuts(row) ==
    LET stakes == row.buyIn * Cardinality(Members(row))
    IN  {cash \in [User -> 0..stakes] :
            /\ \A u \in User : cash[u] > 0 => u \in Members(row)
            /\ Total(cash) = stakes}

\* update after a move: somebody else is to move, or the hand is over and paid.
Played(r, row) ==
    \/ /\ row.left > 1
       /\ \E i \in Occupied(row) :
             room' = [room EXCEPT ![r] = Recorded(Turn([row EXCEPT !.left = @ - 1], i))]
       /\ UNCHANGED balance
    \/ /\ \E cash \in CashOuts(row) : balance' = [u \in User |-> balance[u] + cash[u]]
       /\ room' = [room EXCEPT ![r] =
             Recorded([row EXCEPT !.status = "settled", !.deadline = NoDeadline,
                                  !.turn = NoSeat, !.left = 0])]

Stored(id, r, u, type) ==
    action' = [action EXCEPT ![id] = [room |-> r, user |-> u, type |-> type]]

-----------------------------------------------------------------------------
(***************************************************************************)
(* Requests.  A request is refused, and changes nothing, unless its guard  *)
(* holds; a request whose id is recorded is answered from the record.      *)
(***************************************************************************)

Live(row) == row.status \in {"waiting", "active"}

\* The deadline was ahead when the request looked; it may pass before the commit.
InTime(r) == room[r].deadline > 0 \/ r = held

\* The request works on this room alone until it commits (_QUEUE_LOCK).
Exclusive(r) == held \in {NoRoom, r} /\ held' = NoRoom

\* Mutant: a table that is being played does not count.
SearchingOnly(u) == \E r \in Room : room[r].status = "waiting" /\ u \in Members(room[r])

Searching(u) == \E r \in Room : Live(room[r]) /\ u \in Members(room[r])

\* Tables a new player may join.
Candidates(buyIn) ==
    {r \in Room : /\ room[r].status = "waiting" /\ room[r].buyIn = buyIn
                  /\ InTime(r)
                  /\ Cardinality(Members(room[r])) < Capacity}

Seated(row, u) ==
    LET free == Seat \ Occupied(row)
    IN  [row EXCEPT !.seats[Min(free)] = u]

NewTable(buyIn) ==
    [NoRow EXCEPT !.status = "waiting", !.buyIn = buyIn, !.deadline = SearchTime]

\* One of them, if there are any.
AnyOf(set) == IF set = {} THEN {} ELSE {CHOOSE x \in set : TRUE}

\* Ids of requests and rooms are made up; which unused one is taken makes no difference.
NewIds == AnyOf({id \in ActionId : action[id] = NoAction})
Rooms == {r \in Room : room[r] # NoRow} \cup AnyOf({r \in Room : room[r] = NoRow})

\* create: join a table that is waiting, or open one; the last seat starts the hand.
Create(u, id) ==
    \E buyIn \in BuyIns, r \in Rooms :
        LET old == IF Candidates(buyIn) = {} THEN NewTable(buyIn) ELSE room[r]
            row == Seated(old, u)
        IN  /\ action[id] = NoAction
            /\ ~Searching(u)
            /\ IF Candidates(buyIn) = {} THEN room[r] = NoRow ELSE r \in Candidates(buyIn)
            /\ balance[u] >= buyIn
            /\ IF Cardinality(Members(row)) = Capacity
               THEN Start(r, row)
               ELSE /\ room' = [room EXCEPT ![r] = Recorded(row)]
                    /\ UNCHANGED <<balance, staked, cancelled>>
            /\ Stored(id, r, u, "create")
            /\ Exclusive(r)
            /\ UNCHANGED <<elsewhere, due>>

\* Mutant: a player may walk away from a hand.
CancellableLive(row) == Live(row)

Cancellable(row) == row.status = "waiting"

\* apply with {"action": "cancel"}: leave a search; the last one closes the table.
Cancel(u, r, id) ==
    LET row == Without(room[r], {u})
    IN  /\ action[id] = NoAction
        /\ u \in Members(room[r])
        /\ Cancellable(room[r])
        /\ room' = [room EXCEPT ![r] = Recorded(IF Members(row) = {} THEN Closed(row) ELSE row)]
        /\ cancelled' = cancelled \cup Searches(r, {u})
        /\ Stored(id, r, u, "cancel")
        /\ Exclusive(r)
        /\ UNCHANGED <<balance, elsewhere, staked, due>>

\* apply with a move of the hand, in time and by the seat that is to move.
Move(u, r, id) ==
    /\ action[id] = NoAction
    /\ room[r].status = "active"
    /\ InTime(r)
    /\ room[r].seats[room[r].turn] = u
    /\ Played(r, room[r])
    /\ Stored(id, r, u, "move")
    /\ Exclusive(r)
    /\ UNCHANGED <<elsewhere, staked, cancelled, due>>

-----------------------------------------------------------------------------
(***************************************************************************)
(* The timer, other games, and time.                                       *)
(***************************************************************************)

\* Mutant: only searches expire.
DueSearch(row) == row.status = "waiting" /\ row.deadline = 0

Due(row) == Live(row) /\ row.deadline = 0

\* expire_due: the list of rooms, read in a transaction of its own.
Scan ==
    /\ due = {}
    /\ due' = {r \in Room : Due(room[r])}
    /\ due' # {}
    /\ UNCHANGED <<balance, elsewhere, room, staked, action, cancelled, held>>

\* Mutant: a room of the list is not asked for its deadline again.
StillLive(row) == Live(row)

\* The deadline read again under the room's lock.
StillDue(row) == Due(row)

\* One room of the list, looked at again under its lock.
Visit(r) ==
    /\ r \in due /\ held = NoRoom
    /\ due' = due \ {r}
    /\ \/ /\ ~StillDue(room[r])
          /\ UNCHANGED <<balance, room, staked, cancelled>>
       \/ /\ StillDue(room[r]) /\ room[r].status = "waiting"
          /\ IF Cardinality(Members(room[r])) >= 2 THEN Start(r, room[r])
             ELSE /\ room' = [room EXCEPT ![r] = Recorded(Closed(room[r]))]
                  /\ UNCHANGED <<balance, staked, cancelled>>
       \/ /\ StillDue(room[r]) /\ room[r].status = "active"
          /\ Played(r, room[r])
          /\ UNCHANGED <<staked, cancelled>>
    /\ UNCHANGED <<elsewhere, action, held>>

\* The pass ends early, cut off by its time limit or by a restart of the process:
\* the rooms are durable, the list is not.
Restart ==
    /\ due # {}
    /\ due' = {}
    /\ UNCHANGED <<balance, elsewhere, room, staked, action, cancelled, held>>

\* The player wins or loses a chip in another game.
PlayElsewhere(u) ==
    \E d \in {-1, 1} :
        /\ balance[u] + d \in Balances
        /\ balance' = [balance EXCEPT ![u] = @ + d]
        /\ elsewhere' = elsewhere - d
        /\ UNCHANGED <<room, staked, action, cancelled, due, held>>

\* Time passes: a deadline comes closer until it is reached, perhaps while a request
\* that still found it ahead is at work on the room.
Tick ==
    /\ \E r \in Room : room[r].deadline > 0
    /\ room' = [r \in Room |-> IF room[r].deadline > 0
                               THEN [room[r] EXCEPT !.deadline = @ - 1] ELSE room[r]]
    /\ held' \in IF held = NoRoom THEN {NoRoom} \cup {r \in Room : room[r].deadline = 1} ELSE {held}
    /\ UNCHANGED <<balance, elsewhere, staked, action, cancelled, due>>

\* The request at work is refused after all, or lost.
Release ==
    /\ held # NoRoom
    /\ held' = NoRoom
    /\ UNCHANGED <<balance, elsewhere, room, staked, action, cancelled, due>>

Request(u, id) == Create(u, id) \/ \E r \in Room : Cancel(u, r, id) \/ Move(u, r, id)
Timer == Scan \/ \E r \in Room : Visit(r)

Next ==
    \/ \E u \in User : PlayElsewhere(u) \/ \E id \in NewIds : Request(u, id)
    \/ Timer
    \/ Restart
    \/ Tick
    \/ Release

Spec == Init /\ [][Next]_vars

-----------------------------------------------------------------------------
TypeOK ==
    /\ balance \in [User -> Nat]
    /\ elsewhere \in Int
    /\ room \in [Room -> [status : {"absent", "waiting", "active", "settled", "closed"},
                          buyIn : BuyIns \cup {0}, deadline : Nat \cup {NoDeadline},
                          version : Nat, seats : [Seat -> User \cup {Nobody}],
                          turn : Seat \cup {NoSeat}, left : 0..MaxMoves]]
    /\ staked \subseteq Room \X User
    /\ action \in [ActionId -> [room : Room \cup {NoRoom}, user : User \cup {Nobody},
                                type : {"none", "create", "cancel", "move"}]]
    /\ cancelled \subseteq ActionId
    /\ due \subseteq Room
    /\ held \in Room \cup {NoRoom}

\* What lies on a table while its hand is played.
OnTable(row) == IF row.status = "active" THEN row.buyIn * Cardinality(Members(row)) ELSE 0

\* Chips move between wallets and tables and are neither made nor lost, whoever
\* leaves, times out or becomes insolvent on the way.
MoneyIsConserved ==
    Total(balance) + elsewhere + Total([r \in Room |-> OnTable(room[r])]) = 0

\* A player sits at one table that is waiting or being played, on one seat of it.
OneLiveTable ==
    \A u \in User :
        Cardinality({at \in Room \X Seat : Live(room[at[1]]) /\ room[at[1]].seats[at[2]] = u}) <= 1

\* Exactly the players of the hand have paid, once each: nobody who left the
\* search or could not pay, and nobody at a table that closed without a hand.
StakesMatchRoster ==
    \A r \in Room :
        {u \in User : <<r, u>> \in staked} =
            IF room[r].status \in {"active", "settled"} THEN Members(room[r]) ELSE {}

\* A repeated request gets an answer, not an access error: a player whose search
\* or move is on record still sits at the table, unless the search was cancelled.
RetriesAreAnswered ==
    \A id \in ActionId :
        /\ (action[id].type = "create" /\ id \notin cancelled) \/ action[id].type = "move"
              => action[id].user \in Members(room[action[id].room])
        /\ id \in cancelled =>
              <<action[id].room, action[id].user>> \notin staked
              \/ \E other \in ActionId \ ({id} \cup cancelled) :
                    action[other] = action[id]

\* Players of one buy-in are not spread over several tables that are still open.
OneOpenTable ==
    \A r, q \in Room :
        (room[r].status = "waiting" /\ room[q].status = "waiting"
         /\ room[r].buyIn = room[q].buyIn /\ room[r].deadline > 0 /\ room[q].deadline > 0) => r = q

\* A search never seats a player twice and never splits the players of one buy-in.
SeatingIsSound == TypeOK /\ OneLiveTable /\ OneOpenTable

\* The timer acts for a player only when that player's own time has run out,
\* however old the list is that it works through.
TimerIsNeverEarly ==
    [][\A r \in Room :
        (room'[r].version # room[r].version /\ action' = action) => room[r].deadline = 0]_vars

-----------------------------------------------------------------------------
\* The timer loop of main.py runs for ever, time passes, requests end, and passes are
\* not interrupted again and again before they reach the same room.
Fairness ==
    /\ WF_vars(Tick) /\ WF_vars(Scan) /\ WF_vars(Release)
    /\ \A r \in Room : SF_vars(Visit(r))

FairSpec == Spec /\ Fairness

\* No table waits or plays for ever, even when every player has gone away.
TablesFinish == \A r \in Room : Live(room[r]) ~> ~Live(room[r])
=============================================================================
