--------------------------- MODULE HeadsUpTables ---------------------------
(***************************************************************************)
(* Heads-up Hold'em (holdem_service.py): players who search wait in a      *)
(* queue; the next one to come is matched with the first owner who can     *)
(* still pay, and owners before that one who cannot are sent away.  Or the *)
(* player plays against the bot of the house, at once and without a        *)
(* deadline.  A timer ends searches and moves for whoever lets a turn pass. *)
(*                                                                         *)
(* A request is one transaction under the process-wide queue lock, the row *)
(* locks and the wallet locks of everybody it looks at, so it is one       *)
(* action.  It has read the clock before it commits.  Requests with an old *)
(* version are refused and recorded ones answered from the record; neither *)
(* changes anything.  There is one buy-in: each has a queue of its own.    *)
(***************************************************************************)
EXTENDS HeadsUp, Sums

CONSTANTS
    User, Room,
    ActionId,          \* ids of client requests
    Nobody, NoRoom,
    Hero,              \* whom the bot may look like
    SearchTime,        \* a search lasts this long (60 s)
    TurnTime,          \* a turn lasts this long (20 s)
    Balances,          \* what a wallet may hold at first and win or lose elsewhere
    Modes              \* which of "bot", "pvp" are played

ASSUME TablesAssumption ==
    /\ {SearchTime, TurnTime} \subseteq Nat \ {0}
    /\ Balances \subseteq Nat
    /\ IsFiniteSet(User) /\ IsFiniteSet(Room)
    /\ Nobody \notin User /\ NoRoom \notin Room
    /\ Hero # {}

NoDeadline == -1       \* deadline_at is NULL
NoHand == [phase |-> "none"]

VARIABLES
    balance,      \* balance[u]: the wallet of u
    elsewhere,    \* chips of other games and the bank: all there are, less the players'
    room,         \* room[r]: the GameRoom row with its players; its deadline is the time
                  \* that is left until deadline_at, zero once that has passed
    staked,       \* <<r, u>> with a posted stake operation
    action,       \* action[id]: room and user of the recorded GameAction with this id
    bag,          \* bag[u]: the heroes u has not met since the bag was last filled
    due,          \* rooms the current timer pass still has to visit
    held          \* rooms whose deadline has passed since the request that holds the
                  \* queue lock found it ahead

vars == <<balance, elsewhere, room, staked, action, bag, due, held>>

NoRow == [status |-> "absent", mode |-> "pvp", deadline |-> NoDeadline, version |-> 0,
          born |-> 0, seats |-> [i \in Side |-> Nobody], hand |-> NoHand]
NoAction == [room |-> NoRoom, user |-> Nobody]

Members(row) == {row.seats[i] : i \in Side} \ {Nobody}

Init ==
    /\ balance \in [User -> Balances]
    /\ elsewhere = -Total(balance)
    /\ room = [r \in Room |-> NoRow]
    /\ staked = {}
    /\ action = [id \in ActionId |-> NoAction]
    /\ bag = [u \in User |-> {}]
    /\ due = {} /\ held = {}

-----------------------------------------------------------------------------
(***************************************************************************)
(* Parts of operations.                                                    *)
(***************************************************************************)

\* record: every operation bumps the version; a client's id is stored with it.
Recorded(row) == [row EXCEPT !.version = @ + 1]
Stored(id, r, u) ==
    /\ action[id] = NoAction
    /\ action' = [action EXCEPT ![id] = [room |-> r, user |-> u]]

Closed(row) == Recorded([row EXCEPT !.status = "closed", !.deadline = NoDeadline])

\* The deadline was ahead when the request looked, although it may have passed since.
InTime(r) == room[r].deadline > 0 \/ r \in held

\* Mutant: no turn runs out, whoever plays.
NeverDue(row) == NoDeadline

\* Only hands of two players have a turn that runs out.
TurnDeadline(row) == IF row.mode = "pvp" THEN TurnTime ELSE NoDeadline

\* choose_bot_action: one or two blinds more, a call, a check, or a fold if it can do neither cheaply (a big blind it always calls).
BotMoves(h) ==
    {m \in Moves(h) :
        \/ m.kind \in {"call", "check"}
        \/ m.kind = "raise" /\ m.amount \in {MinimumRaise(h), Min({MinimumRaise(h) + BigBlind, MaximumRaise(h)})}
        \/ m.kind = "fold" /\ Checks(h) = {} /\ (Calls(h) # {} => Debt(h) > BigBlind)}

\* The bot answers before the request that gave it the turn is done.
Answered(row, h) ==
    IF row.mode = "bot" /\ h.current = 1 /\ ~Over(h) THEN {After(h, m) : m \in BotMoves(h)} ELSE {h}

\* The row with the hand as it now is.
With(row, status, deadline, hand) ==
    Recorded([row EXCEPT !.status = status, !.deadline = deadline, !.hand = hand])

\* What u has won with the seats it plays.
Won(row, pay, u) ==
    (IF row.seats[0] = u THEN pay[0] ELSE 0) + (IF row.seats[1] = u THEN pay[1] ELSE 0)

\* update: the hand goes on, or is paid out to the players; what the bot wins is the house's.
Updated(r, row, h) ==
    IF Over(h)
    THEN \E w \in Winners(h) :
            LET pay == Payout(h, w) IN
                /\ balance' = [u \in User |-> balance[u] + Won(row, pay, u)]
                /\ elsewhere' = elsewhere + Won(row, pay, Nobody)
                /\ room' = [room EXCEPT ![r] = With(row, "settled", NoDeadline, h)]
    ELSE /\ room' = [room EXCEPT ![r] = With(row, "active", TurnDeadline(row), h)]
         /\ UNCHANGED <<balance, elsewhere>>

\* start: every member pays the buy-in, the house pays the bot's.
Started(r, row, closing) ==
    LET paying == Members(row) IN
    /\ balance' = [u \in User |-> IF u \in paying THEN balance[u] - BuyIn ELSE balance[u]]
    /\ elsewhere' = elsewhere - IF row.mode = "bot" THEN BuyIn ELSE 0
    /\ staked' = staked \cup {<<r, u>> : u \in paying}
    /\ room' = [q \in Room |->
          IF q = r THEN With(row, "active", TurnDeadline(row), Dealt)
          ELSE IF q \in closing THEN Closed(room[q]) ELSE room[q]]

-----------------------------------------------------------------------------
(***************************************************************************)
(* Requests.                                                               *)
(***************************************************************************)

\* A search or a hand that keeps a player from another search.
Searching(u) ==
    \E r \in Room : /\ room[r].mode = "pvp" /\ u \in Members(room[r])
                    /\ room[r].status = "active" \/ (room[r].status = "waiting" /\ InTime(r))

Candidates == {r \in Room : room[r].mode = "pvp" /\ room[r].status = "waiting" /\ InTime(r)}
Before(r) == {q \in Candidates : room[q].born < room[r].born}

Solvent(r) == balance[room[r].seats[0]] >= BuyIn

NewRoom(u, mode) ==
    [NoRow EXCEPT !.mode = mode, !.born = Cardinality({r \in Room : room[r] # NoRow}) + 1,
                  !.seats = [i \in Side |-> IF i = 0 THEN u ELSE Nobody]]

\* create, against the bot: the hand starts at once, with a hero out of the player's bag.
PlayBot(u, r, id) ==
    /\ "bot" \in Modes
    /\ room[r] = NoRow
    /\ balance[u] >= BuyIn
    /\ Started(r, NewRoom(u, "bot"), {})
    /\ LET full == IF bag[u] = {} THEN Hero ELSE bag[u]
       IN  \E hero \in full : bag' = [bag EXCEPT ![u] = full \ {hero}]
    /\ Stored(id, r, u)

\* create, with the first waiting owner who can pay.
Match(u, r, id) ==
    /\ "pvp" \in Modes
    /\ ~Searching(u)
    /\ balance[u] >= BuyIn
    /\ r \in Candidates /\ Solvent(r)
    /\ \A q \in Before(r) : ~Solvent(q)
    /\ Started(r, [room[r] EXCEPT !.seats = [@ EXCEPT ![1] = u]], Before(r))
    /\ Stored(id, r, u)
    /\ UNCHANGED bag

\* create, when no waiting owner can pay.
Search(u, r, id) ==
    /\ "pvp" \in Modes
    /\ ~Searching(u)
    /\ balance[u] >= BuyIn
    /\ room[r] = NoRow
    /\ \A q \in Candidates : ~Solvent(q)
    /\ room' = [q \in Room |->
          IF q = r THEN Recorded([NewRoom(u, "pvp") EXCEPT !.status = "waiting", !.deadline = SearchTime])
          ELSE IF q \in Candidates THEN Closed(room[q]) ELSE room[q]]
    /\ Stored(id, r, u)
    /\ UNCHANGED <<balance, elsewhere, staked, bag>>

\* Mutant: a hand can be called off like a search.
CancellableLive(row) == row.mode = "pvp" /\ row.status \in {"waiting", "active"}

Cancellable(row) == row.mode = "pvp" /\ row.status = "waiting"

Cancel(u, r, id) ==
    /\ u \in Members(room[r]) /\ Cancellable(room[r])
    /\ room' = [room EXCEPT ![r] = Closed(@)]
    /\ Stored(id, r, u)
    /\ UNCHANGED <<balance, elsewhere, staked, bag>>

\* apply_move: a move in time, of the seat whose turn it is, and the bot's answer to it.
PlayMove(u, r, id) ==
    LET row == room[r] IN
    /\ row.status = "active"
    /\ row.deadline = NoDeadline \/ InTime(r)
    /\ row.seats[row.hand.current] = u
    /\ \E m \in Moves(row.hand) : \E h \in Answered(row, After(row.hand, m)) : Updated(r, row, h)
    /\ Stored(id, r, u)
    /\ UNCHANGED <<staked, bag>>

Request(u, r, id) ==
    /\ \/ PlayBot(u, r, id) \/ Match(u, r, id) \/ Search(u, r, id)
       \/ Cancel(u, r, id) \/ PlayMove(u, r, id)
    /\ held' = {}
    /\ UNCHANGED due

-----------------------------------------------------------------------------
(***************************************************************************)
(* The timer, other games, and time.                                       *)
(***************************************************************************)
Due(row) == row.status \in {"waiting", "active"} /\ row.deadline = 0

\* expire_due: the list of rooms, read in a transaction of its own.
Scan ==
    /\ due = {}
    /\ due' = {r \in Room : Due(room[r])}
    /\ due' # {}
    /\ UNCHANGED <<balance, elsewhere, room, staked, action, bag, held>>

\* The move the timer makes: a check if there is one, else a fold.
TimerMoves(h) == IF Checks(h) # {} THEN Checks(h) ELSE Folds(h)

\* One room of the list, looked at again under its lock.
Visit(r) ==
    LET row == room[r] IN
    /\ r \in due /\ held = {}
    /\ due' = due \ {r}
    /\ \/ ~Due(row) /\ UNCHANGED <<balance, elsewhere, room>>
       \/ /\ Due(row) /\ row.status = "waiting"
          /\ room' = [room EXCEPT ![r] = Closed(@)]
          /\ UNCHANGED <<balance, elsewhere>>
       \/ /\ Due(row) /\ row.status = "active"
          /\ \E m \in TimerMoves(row.hand) :
                \E h \in Answered(row, After(row.hand, m)) : Updated(r, row, h)
    /\ UNCHANGED <<staked, action, bag, held>>

\* The pass ends early, cut off by its time limit or by a restart of the process.
Restart ==
    /\ due # {}
    /\ due' = {}
    /\ UNCHANGED <<balance, elsewhere, room, staked, action, bag, held>>

\* The player's wallet moves in other games.
PlayElsewhere(u) ==
    \E b \in Balances \ {balance[u]} :
        /\ balance' = [balance EXCEPT ![u] = b]
        /\ elsewhere' = elsewhere + balance[u] - b
        /\ UNCHANGED <<room, staked, action, bag, due, held>>

\* Time passes, perhaps while a request that found deadlines ahead is still at work.
Tick ==
    LET reached == {r \in Room : room[r].deadline = 1} IN
    /\ \E r \in Room : room[r].deadline > 0
    /\ room' = [r \in Room |-> IF room[r].deadline > 0
                               THEN [room[r] EXCEPT !.deadline = @ - 1] ELSE room[r]]
    /\ held' \in IF held = {} THEN {{}, reached} ELSE {held \cup reached}
    /\ UNCHANGED <<balance, elsewhere, staked, action, bag, due>>

\* The request at work is refused after all, or lost.
Release ==
    /\ held # {}
    /\ held' = {}
    /\ UNCHANGED <<balance, elsewhere, room, staked, action, bag, due>>

\* One of them, if there are any.
AnyOf(set) == IF set = {} THEN {} ELSE {CHOOSE x \in set : TRUE}

\* Ids of requests and rooms are made up; which unused one is taken makes no difference.
NewIds == AnyOf({id \in ActionId : action[id] = NoAction})
Rooms == {r \in Room : room[r] # NoRow} \cup AnyOf({r \in Room : room[r] = NoRow})

Next ==
    \/ \E u \in User, r \in Rooms, id \in NewIds : Request(u, r, id)
    \/ Scan \/ \E r \in Room : Visit(r)
    \/ Restart
    \/ \E u \in User : PlayElsewhere(u)
    \/ Tick \/ Release

Spec == Init /\ [][Next]_vars

\* The timer loop of main.py runs for ever, time passes, requests end, and passes are
\* not interrupted again and again before they reach the same room.
Fairness ==
    /\ WF_vars(Tick) /\ WF_vars(Scan) /\ WF_vars(Release)
    /\ \A r \in Room : SF_vars(Visit(r))

FairSpec == Spec /\ Fairness

-----------------------------------------------------------------------------
RowType ==
    [status : {"absent", "waiting", "active", "settled", "closed"}, mode : {"bot", "pvp"},
     deadline : Nat \cup {NoDeadline}, version : Nat, born : Nat,
     seats : [Side -> User \cup {Nobody}], hand : HandType \cup {NoHand}]

\* No wallet is overdrawn and every row is one of a room; what "elsewhere" is,
\* MoneyIsConserved tells.
TypeOK ==
    /\ balance \in [User -> Nat]
    /\ room \in [Room -> RowType]
    /\ staked \subseteq Room \X User
    /\ action \in [ActionId -> [room : Room \cup {NoRoom}, user : User \cup {Nobody}]]
    /\ bag \in [User -> SUBSET Hero]
    /\ due \subseteq Room
    /\ held \subseteq Room

\* What lies on a table while its hand is played, the bot's buy-in included.
OnTable(row) == IF row.status = "active" THEN 2 * BuyIn ELSE 0

\* Chips move between wallets, tables and the house and are neither made nor lost,
\* whoever wins, leaves a search, runs out of time or is sent away from the queue.
MoneyIsConserved == Total(balance) + elsewhere + Total([r \in Room |-> OnTable(room[r])]) = 0

\* Every hand that is played can go on: its seat to move has chips to answer the bet it
\* faces, and that seat is a player's, never the bot's, which would wait for ever; and
\* no wallet has been overdrawn for a buy-in.
HandsAreSound ==
    /\ TypeOK
    /\ \A r \in Room :
          /\ room[r].hand # NoHand => Sound(room[r].hand)
          /\ room[r].status = "active" =>
                ~Over(room[r].hand) /\ room[r].seats[room[r].hand.current] # Nobody

\* Exactly the players of the hand have paid, once each, and a hand between players is
\* between two; whoever searched in vain, cancelled or could not pay has paid nothing.
StakesMatchRoster ==
    \A r \in Room :
        /\ {u \in User : <<r, u>> \in staked} =
              IF room[r].status \in {"active", "settled"} THEN Members(room[r]) ELSE {}
        /\ room[r].status \in {"active", "settled"} =>
              Cardinality(Members(room[r])) = IF room[r].mode = "pvp" THEN 2 ELSE 1

\* Whatever is done to a hand that is played, by its players, the bot or the timer, brings
\* it nearer to its end, and it is neither dropped nor dealt anew.
HandsComeNearer ==
    [][\A r \in Room : room[r].status = "active" =>
          /\ room'[r].status \in {"active", "settled"}
          /\ room'[r].hand = room[r].hand \/ Left(room'[r].hand) < Left(room[r].hand)]_vars

\* No search and no hand between two players goes on for ever, even when both have
\* gone away.  A hand against the bot may: it waits for its player.
HandsFinish ==
    /\ HandsComeNearer
    /\ \A r \in Room :
          (room[r].status \in {"waiting", "active"} /\ room[r].mode = "pvp")
              ~> room[r].status \in {"settled", "closed"}
=============================================================================
