------------------------------ MODULE LockOrder ------------------------------
(***************************************************************************)
(* Who waits for whom.  Every request of the API is a transaction that     *)
(* takes exclusive things one after the other and gives all of them back   *)
(* at its end: the two process-wide locks, room rows, wallet rows, the     *)
(* unique ids of recorded actions, and the rows of players who log in for  *)
(* the first time.  What the transactions do with them is in the other     *)
(* modules; this one has the order in which they take them, and all of the *)
(* first login (dependencies.py).                                          *)
(***************************************************************************)
EXTENDS Integers, Sequences, FiniteSets

CONSTANTS
    User,           \* ids of players, which wallets are sorted by
    Newcomer,       \* players without a row in the beginning
    HoldemRoom, TableRoom, SoloRoom,
    ActionId,       \* what clients call their actions
    Session,
    Nobody, NoId

ASSUME UsersAreNumbers ==
    /\ User \subseteq Nat /\ IsFiniteSet(User) /\ Newcomer \subseteq User
    /\ NoId \notin ActionId

VARIABLES
    users,      \* players with a committed row
    welcomes,   \* welcome grants posted for each player
    txn         \* what each session does

vars == <<users, welcomes, txn>>

Room == HoldemRoom \cup TableRoom \cup SoloRoom

\* The things taken: _QUEUE_LOCK and _TABLE_LOCK of the process, rows and ids.
Queue == <<"process", "holdem">>
Tables == <<"process", "blackjack">>
RoomRow(r) == <<"room", r>>
WalletRow(u) == <<"wallet", u>>
Action(a) == <<"action", a>>
UserRow(u) == <<"user", u>>

\* pc: "run" until the plan is empty, or where a login is; user: who logs in.
Off == [pc |-> "off", user |-> Nobody, id |-> NoId, plan |-> <<>>, held |-> {}]

Init ==
    /\ users = User \ Newcomer
    /\ welcomes = [u \in User |-> IF u \in Newcomer THEN 0 ELSE 1]
    /\ txn = [s \in Session |-> Off]

-----------------------------------------------------------------------------
(***************************************************************************)
(* What each service takes, in the order of its code.                      *)
(***************************************************************************)

\* sorted(...)
Sorted(S) ==
    CHOOSE f \in [1..Cardinality(S) -> S] : \A i, j \in 1..Cardinality(S) : i < j => f[i] < f[j]

\* The wallets of those users, one after the other.
InOrder(S) == [i \in 1..Cardinality(S) |-> WalletRow(Sorted(S)[i])]

\* Mutant: the caller's own wallet first.
CallerFirst(u, others) == <<WalletRow(u)>> \o InOrder(others \ {u})

\* All wallets a transaction needs, in one global order.
Wallets(u, others) == InOrder(others \cup {u})

\* A search: waiting rooms, the wallets of their owners and of the caller.
Search(u, others, r, a) == <<Queue, RoomRow(r)>> \o Wallets(u, others) \o <<Action(a)>>

\* A move that ends a hand pays everybody at the table; so does the timer.
LastMove(u, others, r, a) == <<Queue, RoomRow(r)>> \o Wallets(u, others) \o <<Action(a)>>

\* Any other move, or a cancelled search.
HoldemMove(r, a) == <<Queue, RoomRow(r), Action(a)>>

\* A Blackjack table is created, joined, or an option of the lobby chosen: the action is
\* recorded, and then the caller's balance read for the answer.
Lobby(u, r, a) == <<Tables, RoomRow(r), Action(a), WalletRow(u)>>

\* A round is started or played.
Round(u, others, r, a) == <<Tables, RoomRow(r)>> \o Wallets(u, others) \o <<Action(a)>>

\* Slot or Blackjack alone.
Solo(u, r, a) == <<RoomRow(r), WalletRow(u), Action(a)>>

\* Grants, adjustments and balances.
WalletCall(u) == <<WalletRow(u)>>

Plans(u, a) ==
    {WalletCall(u)}
    \cup {Search(u, o, r, a) : o \in SUBSET users, r \in HoldemRoom}
    \cup {LastMove(u, o, r, a) : o \in SUBSET users, r \in HoldemRoom}
    \cup {HoldemMove(r, a) : r \in HoldemRoom}
    \cup {Lobby(u, r, a) : r \in TableRoom}
    \cup {Round(u, o, r, a) : o \in SUBSET users, r \in TableRoom}
    \cup {Solo(u, r, a) : r \in SoloRoom}

-----------------------------------------------------------------------------
\* A request of a player who is known; its id may be one that another one has.
Begin(s) ==
    /\ txn[s] = Off
    /\ \E u \in users, a \in ActionId : \E plan \in Plans(u, a) :
          txn' = [txn EXCEPT ![s] = [Off EXCEPT !.pc = "run", !.plan = plan,
                                     !.id = IF \E i \in DOMAIN plan : plan[i] = Action(a)
                                            THEN a ELSE NoId]]
    /\ UNCHANGED <<users, welcomes>>

Taken(s, x) == \E t \in Session \ {s} : x \in txn[t].held

Take(s) ==
    /\ txn[s].plan # <<>>
    /\ ~Taken(s, Head(txn[s].plan))
    /\ txn' = [txn EXCEPT ![s].held = @ \cup {Head(txn[s].plan)}, ![s].plan = Tail(@)]
    /\ UNCHANGED <<users, welcomes>>

Commit(s) ==
    /\ txn[s].pc = "run" /\ txn[s].plan = <<>>
    /\ txn' = [txn EXCEPT ![s] = Off]
    /\ UNCHANGED <<users, welcomes>>

\* The transaction is thrown out: a refusal, an error, a lost connection, or PostgreSQL
\* has found it in a circle.  A wait for a lock of the process it would not see.
Fail(s) ==
    /\ txn[s].pc # "off"
    /\ txn' = [txn EXCEPT ![s] = Off]
    /\ UNCHANGED <<users, welcomes>>

\* s cannot go on before t ends.
WaitsFor(s, t) == s # t /\ txn[s].plan # <<>> /\ Head(txn[s].plan) \in txn[t].held

\* Each waits for one of them, and one of them waits for it.
Circle(sessions) ==
    /\ sessions # {}
    /\ \A s \in sessions : \E t \in sessions : WaitsFor(s, t)
    /\ \A t \in sessions : \E s \in sessions : WaitsFor(s, t)

-----------------------------------------------------------------------------
(***************************************************************************)
(* upsert_user.                                                            *)
(***************************************************************************)

\* The first request of a session of the Mini App: the row is looked up.
Login(s) ==
    /\ txn[s] = Off
    /\ \E u \in User :
          txn' = [txn EXCEPT ![s] =
              IF u \in users
              THEN [Off EXCEPT !.pc = "run", !.plan = <<UserRow(u)>>]
              ELSE [Off EXCEPT !.pc = "insert", !.user = u]]
    /\ UNCHANGED <<users, welcomes>>

\* INSERT ... ON CONFLICT DO NOTHING waits for whoever is inserting the same player.
\* Inserted: the welcome grant is claimed, which takes the new wallet.
Insert(s) ==
    LET u == txn[s].user IN
    /\ txn[s].pc = "insert"
    /\ ~Taken(s, UserRow(u))
    /\ u \notin users
    /\ txn' = [txn EXCEPT ![s].pc = "welcome", ![s].held = {UserRow(u)},
                          ![s].plan = <<WalletRow(u)>>]
    /\ UNCHANGED <<users, welcomes>>

\* Mutant: who has not found the player in the beginning gives the grant.
FoundAndWelcomed(s) ==
    LET u == txn[s].user IN
    /\ txn[s].pc = "insert"
    /\ u \in users
    /\ txn' = [txn EXCEPT ![s].pc = "welcome", ![s].plan = <<UserRow(u), WalletRow(u)>>]
    /\ UNCHANGED <<users, welcomes>>

\* Somebody else has inserted the player since the lookup: the row is looked up again
\* and updated.
Conflict(s) ==
    LET u == txn[s].user IN
    /\ txn[s].pc = "insert"
    /\ ~Taken(s, UserRow(u))
    /\ u \in users
    /\ txn' = [txn EXCEPT ![s].pc = "run", ![s].plan = <<UserRow(u)>>]
    /\ UNCHANGED <<users, welcomes>>

\* The row of the player and the welcome grant become visible together.
Welcome(s) ==
    LET u == txn[s].user IN
    /\ txn[s].pc = "welcome" /\ txn[s].plan = <<>>
    /\ users' = users \cup {u}
    /\ welcomes' = [welcomes EXCEPT ![u] = @ + 1]
    /\ txn' = [txn EXCEPT ![s] = Off]

Next == \E s \in Session : \/ Begin(s) \/ Take(s) \/ Commit(s) \/ Fail(s)
                            \/ Login(s) \/ Insert(s) \/ Conflict(s) \/ Welcome(s)

Spec == Init /\ [][Next]_vars

-----------------------------------------------------------------------------
TypeOK ==
    /\ users \subseteq User
    /\ welcomes \in [User -> Nat]
    /\ \A s \in Session :
          /\ txn[s].pc \in {"off", "run", "insert", "welcome"}
          /\ txn[s].user \in User \cup {Nobody} /\ txn[s].id \in ActionId \cup {NoId}
          /\ \A t \in Session \ {s} : txn[s].held \cap txn[t].held = {}

\* The services take wallets in one order and after rooms, so requests never wait for
\* each other in a circle, except that a client who uses one action id for two requests
\* at once may lose one of them: the lobby of a Blackjack table records the id before it
\* reads the wallet, all others after.  The process locks are in no circle at all.
OnlySharedIdsCollide ==
    /\ TypeOK
    /\ \A sessions \in SUBSET Session :
          Circle(sessions) =>
              /\ \A s \in sessions : Head(txn[s].plan)[1] # "process"
              /\ \E s, t \in sessions : s # t /\ txn[s].id = txn[t].id /\ txn[s].id # NoId

\* However many first requests of a player arrive at once, and whichever of them is
\* lost, the player who has a row has one welcome grant.
EveryUserIsWelcomedOnce ==
    \A u \in User : welcomes[u] = IF u \in users THEN 1 ELSE 0
=============================================================================
