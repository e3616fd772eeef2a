# Бурмалдоза: a TLA+ verification of the casino platform

This directory holds the formal specification of the server side of Бурмалдоза: the wallet with its ledger, the
rooms in which slot and Blackjack are played alone, the shared Blackjack tables, the six-seat Hold'em tables, the
engine of a Hold'em hand, heads-up Hold'em with its queue and its bot, the delivery of room events to clients, the
administrator's adjustments, the opponents' photos, and the order in which all of them take their locks. TLC checks
small instances of what changes state; TLAPS proves what section 4 lists for instances of any size: the safety of the
wallet, a hand of Hold'em with its pots, heads-up Hold'em, the Hold'em and Blackjack tables, the rooms and their events,
the administrator's adjustments, the opponents' photos, the order of the locks, and of some pure computations.

    tlasany Wallet.tla                                # parse
    tlc -workers 2 -config WalletCalls.cfg MCWallet   # check an instance
    tlapm WalletProofs.tla                            # check the proofs

The other modules with proofs are `SumsProofs`, `HoldemMultiwayProofs`, `HeadsUpProofs`, `HoldemTableProofs`,
`BlackjackTableProofs`, `RoomsProofs` and `AdminProofs`. `WalletProofs` also proves what is proved of `LockOrder` and
`Leaderboard`, and `RoomsProofs` what is proved of `AvatarCache` and the modules `Rooms` plays with.

Paths below are relative to the repository; `services/` stands for `apps/api/app/services/`, `games/` for
`packages/domain/src/burmaldoza_domain/games/`.

## 1. The system

One FastAPI process (`apps/api`) serves a Telegram Mini App (`apps/miniapp`) and a bot (`apps/bot`) from one
PostgreSQL database. Requests are coroutines, each with a database session of its own; a timer coroutine runs beside
them. What one request may see of another is decided by the row locks and unique keys of PostgreSQL at READ
COMMITTED, and by two process-wide locks (`_QUEUE_LOCK`, `_TABLE_LOCK`). `holdem_service.py:47` makes the single
process a deployment invariant.

| component | code | state | operations | talks to | what makes it correct |
|---|---|---|---|---|---|
| Wallet and ledger | `services/wallet_service.py`, `economy.py` | wallet rows, operation rows with a unique key, append-only entries | get or create, apply delta, welcome / daily / relief grants, settle round, replay | called by every game inside its transaction | the ledger explains each balance; a key moves money once; grants are paid once or spaced; every answer is backed by the ledger |
| Rooms (slot, solo Blackjack) | `services/room_service.py` | room row with public and private state and a version, recorded actions | create, snapshot, apply action, replay | wallet, event bus | versions and recorded actions agree; the bet of a hand was paid for; retries change nothing |
| Event delivery | `services/event_bus.py`, `routers/rooms.py` | one queue per socket | publish, subscribe, snapshot, send | rooms, tables, timer | no socket misses the latest version |
| Six-seat Hold'em engine | `games/holdem_multiway.py`, `holdem_pots.py` | one hand | create, act, settle | called by the table | no chip is lost; betting closes fairly; pots go to whom they belong; a hand ends |
| Hold'em tables | `services/holdem_table_service.py` | room row, players, recorded actions | search, cancel, move, expire | engine, wallet, timer, events | one live table per player; buy-ins match the roster; money is conserved; retries are answered; tables end |
| Blackjack tables | `services/blackjack_table_service.py`, `games/blackjack_table.py` | room row, players, their copy in the public state, roster | create, join, leave, ready, unready, start, play, expire | wallet, timer, events | the three copies of the players agree; stakes are agreed to; rounds end |
| Timer | `apps/api/app/main.py:21-40` | none | passes over due rooms, one transaction per room, cut off after five seconds | tables | never acts too early, reaches every due room |
| Heads-up Hold'em | `services/holdem_service.py`, `games/holdem.py`, `holdem_bot.py` | room, queue of searches, bag of heroes | search, match, move, expire | wallet, timer | a match takes both buy-ins or neither; a hand can always go on, and never waits for the bot; searches and hands between players end |
| Administrator's adjustments | `services/admin_service.py`, bot `handlers/admin.py` | audit log; cards pending and in flight in the bot's memory | adjust, confirm, cancel | wallet | a confirmed card changes a balance once, with one audit line |
| First login | `dependencies.py`, `routers/auth.py` | user row | upsert, welcome | wallet | one user, one welcome grant |
| Slot | `games/slot*.py` | none | spin, payout, schedule of operations | rooms | payouts follow the paytable; what is announced is shown |
| Solo Blackjack engine | `games/blackjack.py` | one hand | deal, act, settle | rooms, tables | a hand is worth its best total; a better one is not paid less |
| Leaderboard | `routers/leaderboard.py` | none | a query for the list, one for the own place | wallet | list and own place agree |
| Avatars | `services/opponent_avatar.py`, `routers/rooms.py` | cache, downloads under way, windows, pause | check, get, download, restart | Telegram | one download per photo, limits and pauses kept, every viewer answered |
| Lock order | every service of the API | process locks, rows and ids held | transactions | PostgreSQL, event loop | nobody waits in a circle |
| Mini App client | `apps/miniapp/src/lib` | the room it shows | apply snapshot, event, answer | rooms, events | never goes back to an older version |
| Bot commands, contracts, init-data check, schema | | none | | | |

The hard behaviours are: transactions that interleave on wallet rows and idempotency keys; retries of requests whose
answer was lost; room state that outlives the player it was computed for (insolvency, leaving in the middle of a
round); a timer whose list of due rooms is older than the rooms it visits; a process that ends between two commits; and
events that are published after the commit, in no particular order. `PROJECT.json` lists each under `hazards` with the
line where it bites and the properties that watch it.

## 2. Modules

### LedgerBook: what the wallet promises

Three variables: balances, one sequence of entries per user, the owner of each spent key. A step posts one delta, or
the stake and payout of a round, or a round of nothing, under a fresh key; a balance never goes below zero. No
transactions, locks or retries.

### Wallet: how the wallet keeps it (`wallet_service.py`)

`wallet`, `operation` and `book` are the committed tables `wallets`, `wallet_operations` and `ledger_entries`. Each
database session `s` has a program counter `pc[s]`, the call it serves, the time its caller read (`at[s]`), the row it
read under its lock (`row[s]`) and what it returned (`reply[s]`).

| action | code |
|---|---|
| `Begin` | the caller enters `apply_delta`, a claim, or `settle_game_round`; the claim has read the clock before |
| `Lock` | `_db_get_or_create_wallet`: `INSERT ... ON CONFLICT DO NOTHING`, then `SELECT ... FOR UPDATE` |
| `Replay`, `Miss` | `_db_replay`: the key is known and the recorded answer is rebuilt, or refused as another kind of operation; or it is new |
| `Refuse` | the operation's own rule against the locked row: cooldown, welcome stamp, relief threshold, balance |
| `Insert`, `Conflict` | the unique key of `wallet_operations`: the insert waits for whoever is inserting the key, and fails if that one commits |
| `Commit` | entries, balance and stamp become visible together |
| `Lose` | the connection is lost and the transaction rolled back, at any step |
| `Tick` | the wall clock |

A missing row is the same as the row the service would insert (`EmptyRow`), since the insert and the lock are one
transaction. The in-memory store, which only tests use, is not modelled.

### HoldemMultiway: one hand (`holdem_multiway.py`, `holdem_pots.py`)

`hand` is the `MultiwayState`, without cards: how many lie on the board is what the streets depend on. At the showdown
any ranking of the live hands is chosen, which covers every deal. `Act` is `apply_multiway_action` with all it calls:
the move, `_advance` with closing streets and run-outs, and `settle_multiway` with refund, layered pots and odd chips.
Raises choose every legal target between the minimum and the whole stack.

### HandPromise: what a table relies on in a hand

`HandPromise` is the hand as `start` and `update` of `holdem_table_service.py` see it, without cards, bets and pots: it asks
one of the seats that paid (`Ask`), for finitely many moves (`left`), and then pays them together what they brought,
once (`PayOut`). `Promise` in `HoldemMultiway` is the instance: `Left` is the measure of the moves that are left, `CashOuts`
is what `update` computes from stacks, awards and refunds.

### HoldemTable: the tables (`holdem_table_service.py`)

`room[r]` is the row together with its players; `action` is the table of recorded actions, `staked` the stake
operations posted in the ledger, `cancelled` the searches that a repeated creation answers as cancelled. `Create`,
`Cancel` and `Move` are the transactions of `create` and `apply`; each contains the start of the hand or its end if
that is where it leads. `Scan` and `Visit` are the two halves of `expire_due`: the list of due rooms and one
transaction per room. `Restart` throws the rest of a list away, which is what both a restart and the five-second limit
of `main.py` do. Of the hand the table knows that it is over after finitely many moves (`left`) and that the cash-outs
add up to the stakes: that is `HandPromise`, which the engine implements.

Time is how long each deadline still lies ahead. A request reads the clock before it commits, so a move may commit
after its deadline has passed; `held` names the room of such a request, which holds `_QUEUE_LOCK` until it commits or
gives up (`Release`). The timer may have listed the room in between, and has to look again.

### BlackjackTable: shared tables and their rounds (`blackjack_table_service.py`, `games/blackjack_table.py`)

`table[r]` keeps apart what the code keeps apart: the `members` (rows of `game_players`), the `players` (their copy in
the public state, which clients see and rounds are started from), and the `roster` with its `hands` (whose money is in
the running round). The actions are the branches of `create`, `join` and `apply`, plus `Scan`, `Visit`, `Restart`,
`Tick` and `Release` as above. `agreed` is a history variable: what each player last declared ready for. Cards are what
they make of a hand (open, natural, stood, bust), and the dealer's hand is a choice made when the round is settled.

### HeadsUp and HeadsUpTables: two seats (`games/holdem.py`, `holdem_bot.py`, `holdem_service.py`)

`HeadsUp` has no variables: a hand is a record, `Moves` what its seat may do, `After` is `apply_holdem_action` with
`_update_player` and `_advance_street`, `Payout` what `settle_holdem` and `update` pay. Cards are how many lie on the
board, and any ranking of the two hands may come out at the showdown. `Sound` says what a hand in play must look like,
`Left` bounds the moves that are left.

`HeadsUpTables` is the service. `PlayBot`, `Match` and `Search` are the three ways `create` may end: against the bot,
with the first waiting owner who can still pay (`Before` are the ones who cannot and are sent away), or in the queue.
`PlayMove` is `apply_move` with the bot's answer, which is part of the same request; `Cancel`, `Scan`, `Visit`,
`Restart`, `Tick` and `Release` are as at the six-seat tables, but `held` may name several rooms, because `create` looks
at the deadlines of the whole queue. There is one buy-in, as each has a queue of its own; that at most a hundred
candidates are looked at, and that a search at a six-seat table refuses one here, is left out.

### EventBus, RoomBook and Rooms: solo games and event delivery

`EventBus` has the queue of each socket and the steps of `room_events`: subscribe, read the snapshot, send it, send
what is queued. `Rooms` extends it with `apply_action`: `Begin` takes the row lock and looks the id up, `Commit` moves
wallet, round, version and record together, `PublishEvent` comes after the commit and without the lock, and `Replay`
answers a recorded id and publishes the recorded event once more. A transaction holds its row from `Begin` to `Commit`,
but only the primary key of `game_actions` keeps two rooms from recording the same id. The rooms share one wallet: the
same player may play in several tabs. Requests that are refused at once (an old version, an id of another room, a
wrong action) change nothing and are not actions. The wallet is a number here: that its operations are atomic and
idempotent is what `Wallet` shows.

`RoomBook` is what these rooms promise: an action happens at one moment, to the room as it is then, and wallet, round,
version and record move together (`Play`). It has no requests, locks or reads; `Outcomes` is what the engine may answer.
`Book` in `Rooms` is the instance.

`Rooms` plays with cards: a round of it is the bet and what `BlackjackHand` or `SlotMachine` make of it, so that a
double, a natural, a bust dealer or a winning line pay what the engines pay.

### BlackjackHand and SlotMachine: what a bet is paid (`games/blackjack.py`, `games/slot.py`)

A hand is the sum of its cards with aces worth eleven, how many aces and how many cards it has. `HandTotal` is
`hand_value`, `DealerValues` all a dealer may end with, `Payout` the payout. Suits are left out and the deck never runs
out. `SlotMachine` has the reels as rings of symbols: `Stops` are all the places where they may stop, `LinePays` is one
line, with the wild symbol, and the payout of a spin adds up the lines. Strips, lines and paytables are constants, as
the rulesets are data in the code.

### SlotOperations: which machine is shown when (`games/slot_operations.py`)

`Regular` and `Selected` are `_regular` and `select_operation`: four operations in turn by the week, and one event that
may be put in between. There is no state.

### Leaderboard: list and own place (`routers/leaderboard.py`)

`Counted` is the filter on reasons and on the week in Moscow, `Totals` the sum per player, `IsTop` what the ordered
query with its limit returns, `OwnRank` the other query, which counts who is ahead. There is no state.

### Sums: money added up

`Sum` and `Total` add up what a function gives to the members of a set. The wallets, tables, rooms and reels use them.

### AdminCards: adjustments by an administrator (bot `handlers/admin.py`, `services/admin_service.py`)

`pending`, `inflight` and `screen` are the memory of the bot and what its cards in the chat say; `job[j]` is a request on
its way through the API; `balance`, `posting` and `audit` are what is committed. `Show`, `PressOld`, `Confirm`, `Cancel`,
`TimeOut`, `ReceiveError` and `Receive` are the bot's handlers. The bot stops waiting after five seconds
(`api_client.py:17`), but the transaction goes on: `heard` says whether anybody still waits. `Lock`, `Commit`, `Refuse`
and `Fail` are the API's transaction, `RestartBot` and `Age` the restart and the five minutes of a card. `PlayElsewhere`
moves the balance as a game would, so that a repetition finds another balance than the posting left.

### AvatarCache: opponents' photos (`services/opponent_avatar.py`)

A viewer passes `Check` (the windows of `check_viewer`) and then `Hit`s the cache, `Share`s a download, is turned away, or
`Start`s a download of its own. A task waits for the semaphore (`Acquire`), and ends by `Download`, `AskedToPause` or
`TimeOut`; its callback (`Wake`) takes it out of `inflight`. `Leave` is a viewer that hangs up, which does not cancel the
shared task. `Restart` is a new process, `Tick` the clock.

### LockOrder: who waits for whom (all services, `dependencies.py`)

A transaction is the sequence of the exclusive things it still has to take and the set of those it holds until it ends.
`Search`, `LastMove`, `HoldemMove`, `Lobby`, `Round`, `Solo` and `WalletCall` are those sequences, read off each service;
what is done with the things is in the other modules. `InOrder` are the wallets of a set of users as `sorted(...)` orders
them. `Login`, `Insert`, `Conflict` and `Welcome` are all of
`upsert_user`, where two first requests of one player meet.

## 3. What is checked

Properties are written next to the actions they are about, each with the question it answers.

| run | instance | shows |
|---|---|---|
| `wallet_calls` | 2 users, 2 keys, 2 sessions; relief grants and a round; clock up to 1 | `BookExplainsBalance`, `OnePostingPerKey`, `ReplyTellsTheBook`, refinement `IsLedgerBook`, `GrantsAreSpaced`, liveness `EveryCallEnds` |
| `wallet_replay` | 1 user, 2 keys | refutes `ReplayReportsFinalBalance` (see 6) |
| `multiway` | hands of 2, 3 and 4 seats, stacks 4..8 with blinds 1 and 2 | `HandGoesOn`, `ChipsAreConserved`, `ShowdownIsFair`, `StreetClosesFairly`, `HandEnds`, refinement `KeepsPromise` |
| `holdem_table` | 2 tables of 3 seats, 3 players who also play elsewhere, 2 buy-ins, 3 ids | `SeatingIsSound`, `StakesMatchRoster`, `RetriesAreAnswered`, `MoneyIsConserved`, `TimerIsNeverEarly`, `TablesFinish` |
| `blackjack_table` | 1 table of 2 seats, 2 players, 2 rounds | `CopiesAgree`, `MoneyIsConserved`, `StakesAreAgreed`, `TimerIsNeverEarly`, `RoundsEnd`, `LeaversGetOut` |
| `heads_up` | 3 players who also play elsewhere, 2 rooms, 4 ids, stacks of 4 with blinds 1 and 2, 1 hero | `HandsAreSound`, `MoneyIsConserved`, `StakesMatchRoster`, `HandsFinish` |
| `rooms` | a slot and a Blackjack room with their cards and reels, 2 requests at a time, 3 ids, 1 socket | `RecordsAreTheHistory`, `RoundsArePaidFor`, `NoEventIsMissed`, refinement `IsRoomBook` |
| `rooms_order` | the same | refutes `SocketSendsInOrder` (see 6) |
| `admin_cards` | 2 cards, 2 requests at a time, balances 0 and 1 | `AuditTellsTheBook`, `PlayerIsToldOnce`, `EveryPressIsAnswered` |
| `admin_cancel` | the same | refutes `CancelledMeansUnchanged` (see 6) |
| `avatar_cache` | 2 photos, 2 viewers, 2 tasks, 1 slot, a cache of 1 | `LoadsAreShared`, `PausesAreKept`, `EveryViewerIsAnswered` |
| `lock_order` | 3 requests at a time of 3 players, one of them new, a room of each kind, 2 ids | `OnlySharedIdsCollide`, `EveryUserIsWelcomedOnce` |

Some invariants are conjunctions of named parts that are about one thing: `SeatingIsSound` is `OneLiveTable` and
`OneOpenTable`, `CopiesAgree` is `LobbyMirrorsMembers` and `RosterKeepsItsSeats`, `HandGoesOn` contains
`NoMoveIsRefused`, `ShowdownIsFair` is `NobodyWinsMoreThanMatched` and `BetterHandIsPaidMore`, `HandsFinish` has a part
about steps, `HandsComeNearer`, and each module's type invariant is part of one of them. The wallet's is proved
(`TypeCorrect`), as is the whole of its inductive invariant; the run checks the conjuncts that a caller could notice.

Each property has a mutant: an operator beside the definition it replaces, written as a plausible mistake in that code
(a lock not taken, a deadline not read again, a copy not refreshed), under which the run finds the property violated.

### Bounds, and why they are enough

* Sessions and requests at a time: two. The hazards are races of one transaction against another on a row, a key or a
  room. The proofs of `Wallet`, `Rooms` and `AdminCards` remove this bound.
* The wallet: two users and two keys, so that one key is used by both wallets and a wallet sees two. With `MaxTime` 1
  and a cooldown of one, relief is claimed too early, in time, and by a caller whose clock reading is older than the
  stamp; the grant is less than the threshold, so that a second claim fails for the cooldown alone. The run claims no
  daily bonus and no welcome grant and posts no single stakes: they take the same steps with other rules, and are
  covered by the proofs, which hold for every set of claims and postings. So is `WelcomeOnce`, which this run could not
  violate.
* Hands: stacks of two to four big blinds. That is the smallest a table deals to (buy-ins are 50 big blinds; the engine
  demands two), and it makes short all-ins, three-layer pots, refunds and odd chips happen in few moves. Two seats cover
  heads-up blinds, four seats two players all in with two who go on. The proofs hold for up to six seats and any stacks.
* Heads-up hands: stacks of two big blinds, so that calls, raises, all-ins and the streets after them are reached in
  few moves; the proofs remove this bound. Three players, two rooms and four requests: a search
  whose owner has become insolvent is closed by the next one, a hand is played while another player searches or plays
  the bot, and both rooms are due at once. Balances are the buy-in or one chip less.
* A table's players: three at a table of three seats and two rooms, so that one player's search meets the other room.
  Balances of one or two and buy-ins of one and two: whoever waits at a table may have spent the buy-in when it starts;
  two at a Blackjack table of two seats, where host, second player and nobody are all the cases of leaving.
* Tables have two or three seats instead of three and six: full, short of a player and empty are all reached. Deadlines
  are one tick long: what matters is before, at, and after. The proofs hold for any number of seats, players, rooms and
  buy-ins, and for any length of deadlines.
* `MaxMoves` bounds a hand at a table to one move, `MaxHits` and `MaxRounds` a Blackjack round to one card per
  hand and a table to two rounds; two rounds are needed for a stale bet. `MaxHits` does not keep a hand open:
  standing, being bust and reaching twenty-one stay possible.
* Cards: in a solo round the player is dealt tens and aces (`PlayerCards`): hard and soft hands, naturals, busts and
  hands that an ace saves; the dealer any card. What a hand is worth is proved for every hand. The slot has two reels
  and one line that falls over two rows: a win, a win by the wild symbol, two wild ones, and symbols that pay nothing.
* Adjustments: two cards for one player, one coin given or taken, balances 0 and 1: a card is refused because the
  player has lost the coin since it was shown. Two requests at a time: one may be a repetition of the other.
* Photos: one slot of the semaphore and a cache of one, so that a second photo queues and evicts; lifetimes and pauses of one
  and two ticks, so that one download may ask for a longer pause while another asks for a shorter one. Both windows
  admit two requests and are filled; the bound on counted viewers is not reached.
* Locks: three requests make circles of two and of three. Any set of players may be at a table. Rooms of one kind take
  the same things, so one of each is enough.
* `MaxQueue` bounds repeated publications of recorded events, not first ones.
* `NewIds` and `Rooms` of the Hold'em tables take one unused id or row for all of them, because nothing tells unused ones
  apart; `SYMMETRY` proper is used in runs without liveness only.
* `CHECK_DEADLOCK FALSE` stands where ids, rounds or cards run out or a hand is over. The wallet, the rooms, the photos
  and the locks are checked for deadlock.

### Fairness

* `EveryCallEnds`: a session that can go on does (a coroutine is scheduled and PostgreSQL answers). Taking the row and
  inserting the key are strongly fair: PostgreSQL grants a lock in the order of its queue, so nobody is overtaken for
  ever.
* `TablesFinish`, `RoundsEnd`, `LeaversGetOut`, `HandsFinish`: time passes, requests end, the timer loop (`while True` in `main.py`)
  keeps scanning, and a room that keeps being listed is visited in the end. The last is strong fairness on `Visit`: a
  pass can be cut off before it reaches a room, but rooms are ordered by their deadline, so the oldest comes first in
  the next one. Nothing is assumed of players: every one of them may go away for good.
  `HandsFinish` leaves out hands against the bot, which wait for their player by design (`dev/BuildSpec.md:81`).
* `EveryPressIsAnswered`: the bot's HTTP client ends every wait, a transaction that holds the wallet goes on, and
  PostgreSQL grants the row in turn. Nobody has to press a button.
* `EveryViewerIsAnswered`: the event loop runs what is ready, timers go off and time passes. Telegram need never answer.
* `HandEnds`: somebody moves, which at a table the timer sees to.

## 4. What is proved

`WalletProofs` proves for every number of users, keys, sessions and every economy that satisfies
`EconomyAssumption` and `NobodyAssumption`:

| theorem | statement |
|---|---|
| `AlwaysInductive` | `Spec => []Inductive` |
| `TypeCorrect` | `Spec => []TypeOK`: in particular no balance is ever negative |
| `BalanceExplained` | `Spec => []BookExplainsBalance` |
| `KeyPostedOnce` | `Spec => []OnePostingPerKey` |
| `WelcomePaidOnce` | `Spec => []WelcomeOnce` |
| `RepliesTellTheBook` | `Spec => []ReplyTellsTheBook` |
| `GrantsSpaced` | `Spec => GrantsAreSpaced` |
| `WalletRefinesBook` | `Spec => IsLedgerBook` |

The properties are not inductive as they stand: that the ledger explains the balance after a commit depends on what the
transaction read when it took its lock. `Inductive` adds what the code relies on: at most one transaction holds a
wallet row (`LockIsExclusive`), what it read is still what is committed (`RowIsCurrent`), a transaction that has
inserted its operation owns its key and has passed its rule (`InsertedMayCommit`), and a welcome entry always left
its stamp (`WelcomeIsStamped`). `StepKinds` splits a step into those that only read, those that move a session, and
the commit; `ReadsOnly` and `CommitWrites` say what each may change, and there is one lemma per conjunct
(`TypeStep`, `LockStep`, `RowStep`, `InsertedStep`, `BalanceStep`, `PostingStep`, `WelcomeStep`) which
`InductiveStep` combines. For the refinement, `CommitPosts` shows that a commit is `PostOne`, `PostRound` or
`PostNothing` of `LedgerBook` under the mapping, using the invariant for the freshness of the key and the affordability
of the amount; every other step leaves the three tables alone and is a stutter. `AnswersOK` is what the answers need on
top of `Inductive`: an operation with a single entry has its line in the book of the wallet it names, and lines never
go away (`LinesStay`), so that a replay finds what the first answer told.

`HoldemMultiwayProofs` proves for any button, two to six seats, blinds with the small one below the big one, and stacks of
at least two big blinds, which `create_multiway_hand` demands (`MultiwayRules`, `TableAssumption`):

| theorem | statement |
|---|---|
| `GoesOn` | `Spec => []HandGoesOn` |
| `NoChipIsLost` | `Spec => []ChipsAreConserved` |
| `PaysFairly` | `Spec => []ShowdownIsFair` |
| `ClosesFairly` | `Spec => StreetClosesFairly` |
| `HandKeepsPromise` | `Spec => KeepsPromise`: the engine implements `HandPromise` |

What keeps a hand going is that nobody who has folded has put in more than everybody who has not (`Led`): then the highest
pot has somebody to win it, and a refund goes to somebody who is in. It is not inductive: the one who
has put in most may be asked to move, and fold. `Playing` adds that whoever can bet has paid everything up to the street
(`BasesOK`), that whoever can bet and need not move has matched the bet and had a say (`SaidOK`), and that the bet is
nothing, or somebody in the hand has matched it and need not move (`MatchedBySome`), or nobody has moved but to fold and
the big blind, who moves last, is still to come (`OnlyBlinds`). `MovedKeeps` shows what a move leaves (`MovedOK`) and
`AdvancedKeeps` that `_advance` makes a hand of it that waits for a seat or is over; its cases are `EndedKeeps`,
`AskedKeeps` and `OpenedKeeps`.

The pots are proved about for any contributions: the pots up to a level are together as high as the level (`LevelSum`), so
they hold what every seat put in up to there (`AmountsUpTo`, by adding up a table of pots and seats in both directions); of
some winners as many get an odd chip as there are odd chips (`NearestCount`), so a pot is divided to the last chip
(`SharesOfPot`); and whoever can win a pot has reached its level (`PotsCanBeWon`). `SettlementIsSound` puts these together.

For the refinement, a move must bring `Left` down, although a raise makes everybody else move again. `Left` counts a street
or a chip in front of a seat as seven moves: whoever is asked anew by a raise is one of at most six, and the raise has cost
a chip (`MovedNears`); a move that costs nothing crosses its seat off `pending`; a closed street is not played again
(`AdvancedNears`). `MoveNears` puts these together, and `CashIsStakes` adds up the end: what was paid out (`PaidOut`) is
what had been put in, and that with the stacks is what was brought.

`HeadsUpProofs` proves for every buy-in and blinds that satisfy `HeadsUpAssumption` and all finite sets of players and
rooms (`TablesAssumption`):

| theorem | statement |
|---|---|
| `DealtIsSound`, `MovesKeepHandsSound` | a hand is dealt sound, and every move of a sound hand leaves a sound one |
| `AnyBetIsCovered` | the seat to move of a sound hand can check or call in full: "the answer to any bet is always covered, and side pots are not needed" (`dev/BuildSpec.md:72`) |
| `MovesBringTheEnd` | every move of a sound hand brings `Left`, the bound of its moves, down |
| `PayoutsAddUp` | the pay-outs of a sound hand are natural numbers and add up to the two buy-ins, whoever wins |
| `HandsStaySound` | `Spec => []HandsAreSound` |
| `StakesStayMatched` | `Spec => []StakesMatchRoster` |
| `MoneyStaysConserved` | `Spec => []MoneyIsConserved` |
| `TypeCorrect` | `Spec => []TypeOK`: in particular no wallet is overdrawn |
| `HandsAlwaysComeNearer` | `Spec => HandsComeNearer` |

`Sound` is inductive over the moves because of `Answerable`: what a seat has on the street and behind it is the same for
both (`EqualReach`), so a raise is never more than the other one can call, and when the other one is all in it has
acted, so that an answer closes the betting (`BetIsMatched`); that the seat to move has had no say since the last bet is what
makes each check bring the end nearer (`MovesBringTheEnd`); what follows is the next street (`AdvancedIsSound`), a
run-out (`RunOutIsSound`) or a fold (`FoldedIsSound`). `IInv` adds to it, row by row, who sits where (`Seating`), that a
hand against the bot has the player to move (`Playing`, by `AnswersAreSound`), and who has paid. `Kept` is a change of a
row that moves no stake; `KeptRows` is all that closing, cancelling, moving, settling and time need, and `StartedKeeps`
is the one step at which players pay. Matching a player with itself is excluded by `Searching`, a payment on credit by
`Solvent`.

`HoldemTableProofs` proves for tables of any size, finite sets of players and rooms, any buy-ins, any set of ids and
hands of any length (`TableAssumption`):

| theorem | statement |
|---|---|
| `SeatingStaysSound` | `Spec => []SeatingIsSound` |
| `StakesStayMatched` | `Spec => []StakesMatchRoster` |
| `RetriesStayAnswered` | `Spec => []RetriesAreAnswered` |
| `MoneyStaysConserved` | `Spec => []MoneyIsConserved` |
| `TimerStaysPatient` | `Spec => TimerIsNeverEarly` |

That nobody sits at two tables follows from no row alone: `create` looks for a live table of the caller among all rows,
and then puts the caller at another. `IInv` therefore has, row by row, who sits where (`Seating`: no player on two seats, a
waiting table is not full, the turn is a seat that is taken), two rows at a time that live tables share no player
and one table of a buy-in is open (`Apart`), that a row is paid for exactly by its members (`Payers`), and that
the records tell who sits where (`RecordsOK`: whoever sits at a table has a search on record that is not cancelled, and
nobody else has). The last one is what makes `RetriesAreAnswered` inductive. `RowChanges` and `RecordsChange` say once what a
change of one row and of the records must keep; `StartedAs`, `PlayedAs`, `OpensOrStarts` and `EndedAs` are the
outcomes that several operations share (the start of a hand, a move, a search that opens a table or starts its hand, a
visit of the timer).

`BlackjackTableProofs` proves for tables of any number of seats, any finite set of players and rooms, any bets, and
rounds of any length:

| theorem | statement |
|---|---|
| `CopiesStayInStep` | `Spec => []CopiesAgree` |
| `MoneyStaysConserved` | `Spec => []MoneyIsConserved` |
| `StakesStayAgreed` | `Spec => StakesAreAgreed` |
| `TimerStaysPatient` | `Spec => TimerIsNeverEarly` |

The code keeps members, their copy in the public state and the roster of the round apart and brings them together again
in `refresh_lobby` and `update`. `Sound` says of one row what must hold between them whenever a transaction ends:
seats have different owners (`SeatsOK`), the roster are members with a hand (`RosterOK`, `HandsOK`), the copy shows exactly
the members and who is leaving (`PlayersOK`), the host is one of those who stay (`HostOK`, `OpenOK`), and while a round is
played it waits for an open hand and nobody is ready (`TurnOK`). `ReadyOK` adds that whoever is shown as ready has agreed to
the bet that is shown; it is what a start relies on. `RefreshedFacts`, `WithPlayersFacts`, `ContinuedFacts` and
`SettledFacts` say what the helpers of the code make of a row that is in between, and `PayoutFacts` what a round pays.

`RoomsProofs` proves for any number of rooms, requests, ids and sockets, any machine and any bets (`RoomAssumption`,
`SlotAssumption`):

| theorem | statement |
|---|---|
| `RecordsStayTheHistory` | `Spec => []RecordsAreTheHistory` |
| `RoundsStayPaidFor` | `Spec => []RoundsArePaidFor` |
| `NoEventIsEverMissed` | `Spec => []NoEventIsMissed` |
| `RoomsRefineBook` | `Spec => IsRoomBook` |

`LocksOK` is the reason for the first: whoever is between `Begin` and `Commit` is the only one in its room, and what
it read is what is committed, so each commit takes the next version (`CommitFacts`). It also makes the refinement:
`CommitIsPlay` shows that a commit, which writes what was computed from the row read by `Begin`, is a `Play` of `RoomBook`
on the row as it is now; all other steps but `Create` are stutters, repeated requests and lost ones among them. `NoEventIsMissed` is inductive with
`ListenersOK`: a commit leaves a request that is about to publish (`CommitIsPublished`), its event goes into the queue of
everybody who listens (`PublishedWaits`), and what leaves a queue is read (`SentIsRead`); a socket that has subscribed but not
read will read the latest version. For the money, `GoesOn` says of every outcome of an engine that it either deals
for the bet that is its stake, or goes on with the bet as it was and no stake.

`AdminProofs` proves for any number of cards, requests on their way, amounts and balances (`AdminAssumption`):

| theorem | statement |
|---|---|
| `AuditAlwaysTellsTheBook` | `Spec => []AuditTellsTheBook` |
| `PlayerIsOnlyToldOnce` | `Spec => []PlayerIsToldOnce` |

`IInv` has, besides the two, that what is posted under a card is what the card says (`CardsOK`), that one transaction has
the wallet and knows what is committed (`WalletOK`), that the bot waits for at most one request of a card and marks it
(`WaitsOK`), that an answer reports the posting (`AnswersOK`), and that a card of which the player was told is not
asked about again (`ToldOK`).

`WalletProofs` proves of `LockOrder`, for any finite set of users whose ids are numbers, any rooms, action ids and
sessions (`UsersAreNumbers`, which also says that no client calls its action `NoId`):

| theorem | statement |
|---|---|
| `OnlySharedIds` | `L!Spec => []L!OnlySharedIdsCollide`, with `L` the instance of `LockOrder` |
| `WelcomedOnce` | `L!Spec => []L!EveryUserIsWelcomedOnce` |

`Place` puts all that is taken, action ids aside, in one global order: locks of the process, then rows of rooms and users,
then wallets by their owner. `SortedIsIncreasing` shows that `sorted(...)` exists for every finite set and `PlansAreInOrder`
that the plan of every service follows that order. `InOrderOK` is inductive: what a transaction holds comes before what it
will still take, and it records one id at most. In a circle nobody waits for a lock of the process:
each of them holds something that another one waits for, and those locks are taken first. And somebody waits for an id
(`NoOtherCircle`): otherwise take the least of all things they wait for; who waits for it holds a lesser one that
another of them waits for. Who holds that id has recorded the same one as who waits for it.

`RoomsProofs` proves of `AvatarCache`, for any photos, viewers, tasks and limits (`LimitsArePositive`, which also says
that `NoPlayer` and `NoTask` are none of them):

| theorem | statement |
|---|---|
| `LoadsShared` | `A!Spec => []A!LoadsAreShared`, with `A` the instance of `AvatarCache` |
| `PausesKept` | `A!Spec => A!PausesAreKept` |

`AvatarInv` has that a task is in `inflight` from its start to its callback and nobody waits for another player's task
(`TasksOK`, `ViewersOK`), that tasks which load are no more than the semaphore admits (`SlotsOK`), that a player is in the
cache once (`CacheOK`, for which `OthersFacts` and `RememberedFacts` say what taking one entry out, appending one and
dropping the oldest leave), and that a window holds its last requests in order (`WindowsOK`, `RecentFacts`).

`MoneyIsConserved`, `RoundsArePaidFor` and the pots add up over sets. `SumsProofs` has the lemmas for that: what a sum is
after one summand has changed, the sum of two functions, the sum over equal shares, a table of numbers by rows and by
columns. They are proved by choosing a smallest subset for which they fail (`SubsetInduction`, from the well-foundedness
of strict inclusion on finite sets), because the induction theorems of the library take an operator that the provers
cannot instantiate. In each module
`MoneyInv` or `Balanced` is inductive on top of `IInv`: what one table gets, the wallets lose (`OneTableChanges`).

The engines that `Rooms` plays with, the schedule of operations and the leaderboard have no variables; what they compute is
proved for every input, the first four theorems in `RoomsProofs`, the last two in `WalletProofs`:

| theorem | statement |
|---|---|
| `HandTotalIsBest` | turning aces one by one finds the largest total that is not bust, or else the smallest |
| `BetterHandIsPaidNoLess` | for one bet and one dealer the better hand is never paid less |
| `RotationIsKept`, `AnnouncementsAreKept` | the operation announced is shown from the announced time on, and the present one until then, with and without an event, whenever it begins and ends |
| `ListedPlaceIsOwnRank` | on one state of the ledger, the place in the list is the one the other query would count |
| `OwnPlaceIsBehindTheList` | on one state of the ledger, whoever is not listed has the sixteenth or a later place |

The first two need the values of cards (`CardsHaveValues`), the last two that ids are numbers and that finitely many have
played (`IsResult`). These count by a bijection between the first places of the list and those who are ahead; no
induction is needed.

## 5. What is only model-checked

* Liveness: `EveryCallEnds`, `TablesFinish`, `RoundsEnd`, `LeaversGetOut`, `HandsFinish`, `EveryPressIsAnswered`,
  `EveryViewerIsAnswered`, `HandEnds`. Liveness under fairness is out of the prover's reach.
* What `HandEnds` and `HandsFinish` add to what is proved: that a hand takes finitely many moves, whoever makes them, is
  `HandKeepsPromise` and `HandsAlwaysComeNearer`; that somebody makes the next one is fairness, and stays with the runs.
* The slot's payout, as part of `Rooms` only: that what a spin pays follows the paytable is its definition.

## 6. Where the code departs from its documents

* **A repeated settlement may report the balance before its payout** (`wallet_replay`). The two entries of a settlement
  share their `created_at` and have random ids, and `_db_replay` takes the balance of the last entry in the order
  (`created_at`, `id`). `routers/wallet.py:63` orders so that "Within one settlement the credit is newer than its
  debit."; the replay does not. No balance is wrong, and today's only caller answers repeated actions before it gets there.
* **A socket may send an older event after a newer one** (`rooms_order`). Events are published after the commit, when
  the row lock is gone, and a repeated request publishes its old event again. The design document
  (`docs/superpowers/plans/2026-09-20-game-platform-foundation.md:470`) has the socket emit "ordered
  snapshots/events". The clients drop versions older than the one they show. What does hold is `NoEventIsMissed`.

* **A cancelled card may have changed the balance** (`admin_cancel`). After five seconds without an answer
  (`api_client.py:17`) the bot drops the mark of a card in flight (`handlers/admin.py:227`) and keeps the card; the API may
  have posted the adjustment, or may post it later. "Отмена" is then accepted, and the card says "Отменено, баланс не
  менялся." (`handlers/admin.py:218`). Nobody is told, although `docs/Deploy-Production.md:465` promises a message to the
  player for every operation. Ledger and audit log are right, and a repeated "Confirm" reports the posting.

Three things that no run refutes, because what the documents say about them leaves room:

* The lobby of a Blackjack table records an action id before it reads the wallet, a solo room after. A client that uses
  one id for both at once may have PostgreSQL abort one of the two; `OnlySharedIdsCollide` shows that there is no other
  circle, and none that contains a lock of the process, which PostgreSQL could not see.
* Downloads that already wait for the semaphore are still sent during a pause, while `dev/BuildSpec.md:172` says that a
  429 of the upstream respects its `Retry-After`. No new download is started (`PausesAreKept`).
* The leaderboard's list and own place are two statements under READ COMMITTED. A player whose round is settled in
  between may count as one of the first fifteen without being listed, a rank that `LeaderboardOwnPlace` does not accept.

## 7. What is not modelled, and the plan

Next, in this order:

1. The Mini App client: retries of a pending action, and its treatment of versions. On the server's side, `newest` of
   `EventBus` is already what a client that drops older versions (`PokerRoom.svelte:80`) would show.
2. The ranking of Hold'em hands against a reference definition.
3. The two statements of the leaderboard, interleaved with settlements.

Out of scope: the cryptographic check of Telegram's init data, rendering, audio, animation, message shapes, the bot's
texts and plain commands, contracts, migrations, the in-memory stores of the tests, and start-up and readiness of the HTTP
application. Random numbers are choices wherever they are used.
