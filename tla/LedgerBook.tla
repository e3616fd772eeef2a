----------------------------- MODULE LedgerBook -----------------------------
(***************************************************************************)
(* What the wallet promises to every caller, before any transaction, lock  *)
(* or retry is considered: a book per wallet in which each idempotency key *)
(* is posted at most once, to one wallet, as one indivisible operation of  *)
(* at most two entries, and in which no entry leaves a balance below zero. *)
(* Wallet.tla is the design that has to keep this promise.                 *)
(***************************************************************************)
EXTENDS Integers, Sequences

CONSTANTS
    User,      \* wallets are identified by their owner
    Key,       \* idempotency keys
    Nobody,    \* the owner of a key that was never posted
    Reason,    \* why an entry was written
    Delta,     \* changes a single entry can make
    Round      \* <<stake, payout>> of the game rounds that are settled at once

VARIABLES
    balance,   \* balance[u]: the money of u
    book,      \* book[u]: the entries of u, oldest first
    owner      \* owner[k]: the wallet that key k was posted to

bookVars == <<balance, book, owner>>

BookInit ==
    /\ balance = [u \in User |-> 0]
    /\ book = [u \in User |-> <<>>]
    /\ owner = [k \in Key |-> Nobody]

\* One line of the book: the change and the balance it leaves behind.
BookLine(k, reason, delta, after) ==
    [key |-> k, reason |-> reason, delta |-> delta, after |-> after]

\* An operation with a single entry.
PostOne(u, k, reason, delta) ==
    /\ owner[k] = Nobody
    /\ balance[u] + delta >= 0
    /\ balance' = [balance EXCEPT ![u] = balance[u] + delta]
    /\ book' = [book EXCEPT ![u] =
                   Append(book[u], BookLine(k, reason, delta, balance[u] + delta))]
    /\ owner' = [owner EXCEPT ![k] = u]

\* A game round: its stake and then its payout, both or neither.
PostRound(u, k, stake, payout) ==
    /\ owner[k] = Nobody
    /\ balance[u] >= stake
    /\ balance' = [balance EXCEPT ![u] = balance[u] - stake + payout]
    /\ book' = [book EXCEPT ![u] =
                   Append(Append(book[u],
                            BookLine(k, "game_stake", -stake, balance[u] - stake)),
                            BookLine(k, "game_payout", payout, balance[u] - stake + payout))]
    /\ owner' = [owner EXCEPT ![k] = u]

\* A round with neither stake nor payout leaves only its key behind.
PostNothing(u, k) ==
    /\ owner[k] = Nobody
    /\ owner' = [owner EXCEPT ![k] = u]
    /\ UNCHANGED <<balance, book>>

BookNext ==
    \E u \in User, k \in Key :
        \/ \E reason \in Reason, delta \in Delta : PostOne(u, k, reason, delta)
        \/ \E round \in Round : PostRound(u, k, round[1], round[2])
        \/ PostNothing(u, k)

BookSpec == BookInit /\ [][BookNext]_bookVars
=============================================================================
