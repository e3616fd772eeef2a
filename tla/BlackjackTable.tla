--------------------------- MODULE BlackjackTable ---------------------------
(***************************************************************************)
(* Shared Blackjack tables (blackjack_table_service.py) and the rounds     *)
(* played at them (games/blackjack_table.py): players join, agree to a     *)
(* bet, play against one dealer in seat order, leave in the middle of a    *)
(* round, and are stood for by the timer when their turn runs out.         *)
(*                                                                         *)
(* A table is stored twice over: the GamePlayer rows say who holds which   *)
(* seat, the public state of the room mirrors them for the clients and is  *)
(* what the next round is started from, and the roster fixes whose money   *)
(* is in the running round.  The three have to agree at every moment.      *)
(*                                                                         *)
(* Operations are transactions under the room's row lock and the wallet    *)
(* locks of its members, hence one action each; a timer pass is not one    *)
(* transaction.  Requests with an old state version are refused, repeated  *)
(* ones are answered from the record, and neither changes anything.        *)
(* Cards are abstracted to what they make of a hand.                       *)
(***************************************************************************)
EXTENDS Integers, FiniteSets, Sums

CONSTANTS
    User, Room,
    Nobody, NoRoom,
    Capacity,          \* seats of a table (3 in the code)
    Bets,              \* bets on offer (25..1000000)
    TurnTime,          \* a turn lasts this long (20 s)
    Balances,          \* what a wallet may hold at first
    MaxHits,           \* bound on the cards one hand can draw
    MaxRounds          \* bound on the rounds of one table

ASSUME TableAssumption ==
    /\ Capacity \in Nat \ {0}
    /\ Bets \subseteq Nat \ {0}
    /\ Balances \subseteq Nat
    /\ {TurnTime, MaxHits} \subseteq Nat \ {0}
    /\ MaxRounds \in Nat
    /\ IsFiniteSet(User) /\ IsFiniteSet(Room)
    /\ Nobody \notin User /\ NoRoom \notin Room

Seat == 0..(Capacity - 1)
NoSeat == -1
NoDeadline == -1    \* deadline_at is NULL

VARIABLES
    balance,      \* balance[u]: the wallet of u
    bank,         \* the chips of the house and other games: all there are, less the players'
    table,        \* table[r]: a GameRoom, its players and its round; the deadline is the
                  \* time that is left until deadline_at, zero once that has passed
    agreed,       \* agreed[r][u]: the bet u last declared ready for, and has not taken
                  \* back or played for since; zero if none (not stored by the code)
    due,          \* rooms the current timer pass still has to visit
    held          \* the room of a request that holds the table lock, and found the deadline
                  \* of that room ahead before it passed; NoRoom if there is none

vars == <<balance, bank, table, agreed, due, held>>

Empty == [user |-> Nobody, leaving |-> FALSE]
NoPlayer == [ready |-> FALSE, bet |-> 0, status |-> "none"]
NewPlayer == [ready |-> FALSE, bet |-> 0, status |-> "waiting"]
NoHand == [bet |-> 0, cards |-> 0, state |-> "none"]

NoTable == [status |-> "absent", host |-> NoSeat,
            members |-> [i \in Seat |-> Empty], players |-> [i \in Seat |-> NoPlayer],
            round |-> 0, roster |-> [i \in Seat |-> Nobody], hands |-> [i \in Seat |-> NoHand],
            turn |-> NoSeat, deadline |-> NoDeadline]

Taken(row) == {i \in Seat : row.members[i] # Empty}
Staying(row) == {i \in Taken(row) : ~row.members[i].leaving}
SeatOf(row, u) == CHOOSE i \in Staying(row) : row.members[i].user = u
IsMember(row, u) == \E i \in Staying(row) : row.members[i].user = u
Playing(row) == {i \in Seat : row.hands[i].state = "playing"}

\* What lies on a table while its round is played.
OnTable(row) == IF row.status = "active" THEN Total([i \in Seat |-> row.hands[i].bet]) ELSE 0

Init ==
    /\ balance \in [User -> Balances]
    /\ bank = -Total(balance)
    /\ table = [r \in Room |-> NoTable]
    /\ agreed = [r \in Room |-> [u \in User |-> 0]]
    /\ due = {}
    /\ held = NoRoom

-----------------------------------------------------------------------------
(***************************************************************************)
(* The table between rounds.                                               *)
(***************************************************************************)

\* Mutant: a host that is leaving stays the host.
NextHostSeated(row) ==
    IF row.host \in Taken(row) THEN row.host
    ELSE IF Staying(row) = {} THEN NoSeat ELSE Min(Staying(row))

\* The host stays the host as long as it stays, then the lowest seat takes over.
NextHost(row) ==
    IF row.host \in Staying(row) THEN row.host
    ELSE IF Staying(row) = {} THEN NoSeat ELSE Min(Staying(row))

\* refresh_lobby: the public players follow the members; a table that nobody stays
\* at is closed once no round is running.
Refreshed(row) ==
    LET kept(i) == IF row.players[i] = NoPlayer THEN NewPlayer ELSE row.players[i]
        shown(i) == IF row.members[i].leaving THEN [kept(i) EXCEPT !.status = "leaving"] ELSE kept(i)
    IN  [row EXCEPT
          !.players = [i \in Seat |-> IF i \in Taken(row) THEN shown(i) ELSE NoPlayer],
          !.host = NextHost(row),
          !.status = IF Staying(row) = {} /\ @ # "active" THEN "closed" ELSE @]

SatDown(row, i, u) == Refreshed([row EXCEPT !.members[i] = [user |-> u, leaving |-> FALSE]])

\* Who has money in the running round keeps the seat until it is settled.
Departed(row, i) ==
    IF row.status = "active" /\ row.roster[i] # Nobody
    THEN [row EXCEPT !.members[i].leaving = TRUE]
    ELSE [row EXCEPT !.members[i] = Empty]

\* create: a new table with its creator as the host.
Create(u, r) ==
    /\ table[r] = NoTable
    /\ table' = [table EXCEPT ![r] = SatDown([NoTable EXCEPT !.status = "waiting", !.host = 0], 0, u)]
    /\ UNCHANGED <<balance, bank, agreed, due>>

\* join: the lowest free seat, at any time; a player who is leaving has to wait for
\* the settlement.  (Joining a table one already sits at changes nothing.)
Join(u, r) ==
    LET free == Seat \ Taken(table[r]) IN
    /\ table[r].status \notin {"absent", "closed"}
    /\ \A i \in Seat : table[r].members[i].user # u
    /\ free # {}
    /\ table' = [table EXCEPT ![r] = SatDown(@, Min(free), u)]
    /\ UNCHANGED <<balance, bank, agreed, due>>

MayPrepare(u, r) ==
    /\ IsMember(table[r], u)
    /\ table[r].status \notin {"closed", "active"}

\* apply "ready": the player declares the bet of the next round.
Ready(u, r) ==
    \E bet \in Bets :
        LET i == SeatOf(table[r], u) IN
        /\ MayPrepare(u, r)
        /\ table' = [table EXCEPT ![r].players[i].ready = TRUE, ![r].players[i].bet = bet]
        /\ agreed' = [agreed EXCEPT ![r][u] = bet]
        /\ UNCHANGED <<balance, bank, due>>

\* apply "unready": the bet stays on display.
Unready(u, r) ==
    /\ MayPrepare(u, r)
    /\ table' = [table EXCEPT ![r].players[SeatOf(table[r], u)].ready = FALSE]
    /\ agreed' = [agreed EXCEPT ![r][u] = 0]
    /\ UNCHANGED <<balance, bank, due>>

\* apply "leave".
Leave(u, r) ==
    /\ IsMember(table[r], u)
    /\ table[r].status # "closed"
    /\ table' = [table EXCEPT ![r] = Refreshed(Departed(@, SeatOf(@, u)))]
    /\ agreed' = [agreed EXCEPT ![r][u] = 0]
    /\ UNCHANGED <<balance, bank, due>>

-----------------------------------------------------------------------------
(***************************************************************************)
(* The round.                                                              *)
(***************************************************************************)

\* What two cards can make of a hand; a dealer's natural ends the round at once.
DealtHands(bet, taken) ==
    {[i \in Seat |-> IF i \in taken THEN [bet |-> bet[i], cards |-> 2, state |-> s[i]] ELSE NoHand] :
        s \in [taken -> {"playing", "natural"}]}

\* One more card: twenty-one stands by itself; a doubled hand takes no other card,
\* and a hand has so many cards at most.
Drawn(hand, double) ==
    {[bet |-> IF double THEN 2 * hand.bet ELSE hand.bet, cards |-> hand.cards + 1, state |-> s] :
        s \in {"stood", "bust"}
              \cup IF double \/ hand.cards = 1 + MaxHits THEN {} ELSE {"playing"}}

\* settle_table: what a hand can be paid against a dealer, a natural three to two.
Pays(hand, dealer) ==
    IF hand.state = "none" THEN {0}
    ELSE IF hand.state = "natural"
         THEN IF dealer = "natural" THEN {hand.bet} ELSE {hand.bet + (hand.bet * 3) \div 2}
    ELSE IF dealer = "natural" \/ hand.state = "bust" THEN {0}
    ELSE IF dealer = "bust" THEN {2 * hand.bet}
    ELSE {0, hand.bet, 2 * hand.bet}

Payouts(hands, dealer) ==
    {pay \in [Seat -> UNION {Pays(hands[i], dealer) : i \in Seat}] :
        \A i \in Seat : pay[i] \in Pays(hands[i], dealer)}

\* Mutant: payouts go to the players who stay.
CreditedStaying(row, pay, u) ==
    LET mine == {i \in Staying(row) : row.members[i].user = u}
    IN  Sum(pay, mine)

\* Payouts go to the roster of the round, whoever has left since.
Credited(row, pay, u) ==
    LET mine == {i \in Seat : row.roster[i] = u}
    IN  Sum(pay, mine)

\* Mutant: a player once ready is ready for the next round.
ShownStillReady(row, i) ==
    [ready |-> row.players[i].ready, bet |-> row.hands[i].bet,
     status |-> IF row.members[i].leaving THEN "leaving"
                ELSE IF row.hands[i] = NoHand THEN "waiting"
                ELSE IF row.hands[i].state = "playing" THEN "playing" ELSE "finished"]

\* How update shows a member; readiness is over.
Shown(row, i) ==
    [ready |-> FALSE, bet |-> row.hands[i].bet,
     status |-> IF row.members[i].leaving THEN "leaving"
                ELSE IF row.hands[i] = NoHand THEN "waiting"
                ELSE IF row.hands[i].state = "playing" THEN "playing" ELSE "finished"]

WithPlayers(row) ==
    [row EXCEPT !.players = [i \in Seat |-> IF i \in Taken(row) THEN Shown(row, i) ELSE NoPlayer]]

\* The open hands are played in seat order.
NextTurn(row) == Min(Playing(row))

\* update while a hand is open: its player has a turn.
Continued(row) ==
    Refreshed(WithPlayers([row EXCEPT !.turn = NextTurn(row), !.deadline = TurnTime]))

\* Mutant: players who are leaving keep their seats.
VacatedByNobody(row) == row.members

\* A settled round lets go of the players who were leaving.
Vacated(row) == [i \in Seat |-> IF row.members[i].leaving THEN Empty ELSE row.members[i]]

\* update once the round is settled (its hands are only history from here on).
Settled(row) ==
    LET over == [row EXCEPT !.status = "settled", !.turn = NoSeat, !.deadline = NoDeadline,
                            !.members = Vacated(row)]
    IN  [Refreshed(WithPlayers(over)) EXCEPT !.hands = [i \in Seat |-> NoHand]]

\* The round goes on from row, with these wallets: the next open hand is asked, or
\* the dealer has played and everybody on the roster is paid.
Update(r, row, wallets, dealers) ==
    \/ /\ Playing(row) # {} /\ "natural" \notin dealers
       /\ table' = [table EXCEPT ![r] = Continued(row)]
       /\ balance' = wallets
       /\ bank' = bank
    \/ /\ Playing(row) = {} \/ "natural" \in dealers
       /\ \E dealer \in dealers : \E pay \in Payouts(row.hands, dealer) :
             /\ balance' = [u \in User |-> wallets[u] + Credited(row, pay, u)]
             /\ bank' = bank + OnTable(row) - Total(pay)
       /\ table' = [table EXCEPT ![r] = Settled(row)]

\* The balance is looked at again, now that it is locked.
Covers(row, i) == balance[row.members[i].user] >= row.players[i].bet

\* apply "start": the host starts a round for everybody at the table.
StartRound(u, r) ==
    LET row == table[r]
        taken == Taken(row)
        bet == [i \in taken |-> row.players[i].bet]
        stake(v) == Sum(bet, {i \in taken : row.members[i].user = v})
    IN  /\ MayPrepare(u, r)
        /\ SeatOf(row, u) = row.host
        /\ row.round < MaxRounds
        /\ \A i \in Seat : row.players[i] # NoPlayer => row.players[i].ready
        /\ \A i \in taken : Covers(row, i)
        /\ \E hands \in DealtHands(bet, taken), dealers \in {{"natural"}, {"bust", "stood"}} :
              Update(r, [row EXCEPT !.status = "active",
                                    !.round = @ + 1,
                                    !.roster = [i \in Seat |-> row.members[i].user],
                                    !.hands = hands],
                     [v \in User |-> balance[v] - stake(v)], dealers)
        /\ agreed' = [agreed EXCEPT ![r] = [v \in User |-> 0]]
        /\ UNCHANGED due

\* The deadline was ahead when the request looked; it may pass before the commit.
InTime(r) == table[r].deadline > 0 \/ r = held

NotNatural == {"bust", "stood"}

\* apply "hit", "stand" or "double", in time and by the seat that is to move; a
\* double is paid for first.
Play(u, r) ==
    LET row == table[r]
        i == row.turn
        hand == row.hands[i]
        with(h) == [row EXCEPT !.hands[i] = h]
    IN  /\ row.status = "active" /\ InTime(r)
        /\ row.members[i] = [user |-> u, leaving |-> FALSE]
        /\ \/ Update(r, with([hand EXCEPT !.state = "stood"]), balance, NotNatural)
           \/ \E h \in Drawn(hand, FALSE) : Update(r, with(h), balance, NotNatural)
           \/ /\ hand.cards = 2
              /\ balance[u] >= hand.bet
              /\ \E h \in Drawn(hand, TRUE) :
                    Update(r, with(h), [balance EXCEPT ![u] = @ - hand.bet], NotNatural)
        /\ UNCHANGED <<agreed, due>>

-----------------------------------------------------------------------------
(***************************************************************************)
(* The timer, other games, and time.                                       *)
(***************************************************************************)

\* Mutant: the timer skips a seat whose player has left.
DueIfPresent(row) ==
    row.status = "active" /\ row.deadline = 0 /\ ~row.members[row.turn].leaving

Due(row) == row.status = "active" /\ row.deadline = 0

\* expire_due: the list of rooms, read in a transaction of its own.
Scan ==
    /\ due = {}
    /\ due' = {r \in Room : Due(table[r])}
    /\ due' # {}
    /\ UNCHANGED <<balance, bank, table, agreed, held>>

\* Mutant: a room of the list is not asked for its deadline again.
StillActive(row) == row.status = "active"

\* Status and deadline read again under the room's lock.
StillDue(row) == Due(row)

\* One room of the list: the hand whose turn it is stands.
Visit(r) ==
    LET row == table[r] IN
    /\ r \in due /\ held = NoRoom
    /\ due' = due \ {r}
    /\ \/ StillDue(row) /\ Update(r, [row EXCEPT !.hands[row.turn].state = "stood"], balance, NotNatural)
       \/ ~StillDue(row) /\ UNCHANGED <<balance, bank, table>>
    /\ UNCHANGED <<agreed, held>>

\* The pass ends early, cut off by its time limit or by a restart of the process.
Restart ==
    /\ due # {}
    /\ due' = {}
    /\ UNCHANGED <<balance, bank, table, agreed, held>>

\* The player loses or wins a chip in another game.
PlayElsewhere(u) ==
    \E d \in {-1, 1} :
        /\ balance[u] + d \in Balances
        /\ balance' = [balance EXCEPT ![u] = @ + d]
        /\ bank' = bank - d
        /\ UNCHANGED <<table, agreed, due, held>>

\* Time passes: a deadline comes closer until it is reached, perhaps while a request
\* that still found it ahead is at work on the room.
Tick ==
    /\ \E r \in Room : table[r].deadline > 0
    /\ table' = [r \in Room |-> IF table[r].deadline > 0
                                THEN [table[r] EXCEPT !.deadline = @ - 1] ELSE table[r]]
    /\ held' \in IF held = NoRoom THEN {NoRoom} \cup {r \in Room : table[r].deadline = 1} ELSE {held}
    /\ UNCHANGED <<balance, bank, agreed, due>>

\* The request works on this room alone until it commits (_TABLE_LOCK).
Exclusive(r) == held \in {NoRoom, r} /\ held' = NoRoom

Request(u, r) ==
    /\ Exclusive(r)
    /\ \/ Create(u, r) \/ Join(u, r) \/ Leave(u, r)
       \/ Ready(u, r) \/ Unready(u, r)
       \/ StartRound(u, r) \/ Play(u, r)

\* The request at work is refused after all, or lost.
Release ==
    /\ held # NoRoom
    /\ held' = NoRoom
    /\ UNCHANGED <<balance, bank, table, agreed, due>>

Next ==
    \/ \E u \in User : PlayElsewhere(u) \/ \E r \in Room : Request(u, r)
    \/ Scan \/ \E r \in Room : Visit(r)
    \/ Restart
    \/ Tick
    \/ Release

Spec == Init /\ [][Next]_vars

-----------------------------------------------------------------------------
TypeOK ==
    /\ balance \in [User -> Nat]
    /\ bank \in Int
    /\ table \in [Room ->
          [status : {"absent", "waiting", "active", "settled", "closed"},
           host : Seat \cup {NoSeat},
           members : [Seat -> [user : User \cup {Nobody}, leaving : BOOLEAN]],
           players : [Seat -> [ready : BOOLEAN, bet : Nat,
                               status : {"none", "waiting", "playing", "finished", "leaving"}]],
           round : 0..MaxRounds,
           roster : [Seat -> User \cup {Nobody}],
           hands : [Seat -> [bet : Nat, cards : 0..(2 + MaxHits),
                             state : {"none", "playing", "natural", "stood", "bust"}]],
           turn : Seat \cup {NoSeat},
           deadline : Nat \cup {NoDeadline}]]
    /\ agreed \in [Room -> [User -> Bets \cup {0}]]
    /\ due \subseteq Room
    /\ held \in Room \cup {NoRoom}

\* Money moves between wallets, tables and the house and is neither made nor lost,
\* whoever leaves before the round is settled.
MoneyIsConserved ==
    Total(balance) + bank + Total([r \in Room |-> OnTable(table[r])]) = 0

\* The public players are the members, each player has one seat, the host is a member
\* who stays, and a table without members is closed or was never opened.
LobbyMirrorsMembers ==
    \A r \in Room :
        LET row == table[r] IN
        /\ \A i \in Seat :
              /\ (row.players[i] # NoPlayer) = (i \in Taken(row))
              /\ (row.players[i].status = "leaving") = row.members[i].leaving
              /\ \A j \in Taken(row) \ {i} : row.members[i].user # row.members[j].user
        /\ IF Staying(row) = {} THEN row.host = NoSeat ELSE row.host \in Staying(row)
        /\ (Staying(row) = {}) => row.status \in {"absent", "active", "closed"}
        /\ row.status \in {"absent", "closed"} => Taken(row) = {}

\* While a round is played its players hold their seats, also the ones who have
\* left: nobody sits down on another player's stake, and every payout has an owner.
RosterKeepsItsSeats ==
    \A r \in Room :
        LET row == table[r] IN
        /\ row.status = "active" =>
              \A i \in Seat : /\ (row.roster[i] # Nobody) = (row.hands[i] # NoHand)
                              /\ row.roster[i] # Nobody => row.members[i].user = row.roster[i]
        /\ \A i \in Seat : row.members[i].leaving => row.status = "active"

\* The rows, their copy in the public state and the roster tell the same story.
CopiesAgree == TypeOK /\ LobbyMirrorsMembers /\ RosterKeepsItsSeats

\* Nobody plays for more than was agreed: when a round starts, each stake is the bet
\* that this very player declared ready for after the previous round, on this table,
\* and has not withdrawn, although seats and bets are stored apart from the players.
StakesAreAgreed ==
    [][\A r \in Room :
          table'[r].round # table[r].round =>
              \A i \in Taken(table[r]) :
                  /\ agreed[r][table[r].members[i].user] # 0
                  /\ agreed[r][table[r].members[i].user] = table[r].players[i].bet]_vars

\* The timer stands for a player only when that player's time has run out, however
\* old the list is that it works through.
TimerIsNeverEarly ==
    [][\A r \in Room :
          (r \in due /\ r \notin due' /\ table'[r] # table[r]) => table[r].deadline = 0]_vars

-----------------------------------------------------------------------------
\* The timer loop of main.py runs for ever, time passes, requests end, and passes are
\* not interrupted again and again before they reach the same room.
Fairness ==
    /\ WF_vars(Tick) /\ WF_vars(Scan) /\ WF_vars(Release)
    /\ \A r \in Room : SF_vars(Visit(r))

FairSpec == Spec /\ Fairness

\* Every round that starts is settled, even when all its players have gone away.
RoundsEnd == \A r \in Room : table[r].status = "active" ~> table[r].status # "active"

\* A player who leaves is let go in the end.
LeaversGetOut ==
    \A r \in Room, i \in Seat : table[r].members[i].leaving ~> ~table[r].members[i].leaving
=============================================================================
