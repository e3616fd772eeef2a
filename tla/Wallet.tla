------------------------------- MODULE Wallet -------------------------------
(***************************************************************************)
(* The wallet service on its PostgreSQL path (wallet_service.py).  Every   *)
(* operation is one transaction of a database session:                     *)
(*   Lock the wallet row (SELECT ... FOR UPDATE), look the idempotency key *)
(*   up, check the operation's own rule against the locked row, insert the *)
(*   operation row (UNIQUE idempotency_key), write entries, balance and    *)
(*   grant stamp, commit.                                                  *)
(* Sessions run these steps concurrently at READ COMMITTED; a session may  *)
(* be lost between any two of them, and a caller may send the same key as  *)
(* often as it likes, to the same or to another wallet.                    *)
(***************************************************************************)
EXTENDS Integers, Sequences, FiniteSets

CONSTANTS
    User,            \* players; a wallet row belongs to one of them
    Key,             \* idempotency keys
    Session,         \* database sessions
    Nobody,          \* "no operation has this key"
    NoCall,          \* a session that has not been called yet
    Claims,          \* the grants a caller may claim
    Adjustments,     \* <<reason, delta>> of single-entry operations
    Rounds,          \* <<stake, payout>> of game rounds settled at once
    WelcomeGrant, DailyBonus, ReliefGrant, ReliefThreshold,
    DailyCooldown, ReliefCooldown,
    MaxTime          \* bound on the clock

GrantReason == {"welcome", "daily_bonus", "relief"}
GameReason == {"game_stake", "game_payout", "admin_adjustment"}
Reason == GrantReason \cup GameReason

ASSUME EconomyAssumption ==
    /\ {WelcomeGrant, DailyBonus, ReliefGrant, ReliefThreshold,
        DailyCooldown, ReliefCooldown, MaxTime} \subseteq Nat
    /\ Claims \subseteq GrantReason
    /\ Adjustments \subseteq GameReason \X Int
    /\ Rounds \subseteq Nat \X Nat

ASSUME NobodyAssumption == Nobody \notin User

Never == -1          \* a grant stamp that is still NULL

Grant(reason) ==
    IF reason = "welcome" THEN WelcomeGrant
    ELSE IF reason = "daily_bonus" THEN DailyBonus
    ELSE ReliefGrant

(***************************************************************************)
(* Calls.  A single-entry operation carries its delta, a settlement its    *)
(* stake and payout; the unused fields are zero.                           *)
(***************************************************************************)
DeltaCall(u, k, reason, delta) ==
    [user |-> u, key |-> k, type |-> "delta", reason |-> reason,
     delta |-> delta, stake |-> 0, payout |-> 0]

RoundCall(u, k, stake, payout) ==
    [user |-> u, key |-> k, type |-> "game_settlement", reason |-> "game_stake",
     delta |-> 0, stake |-> stake, payout |-> payout]

Call ==
    {DeltaCall(u, k, r, Grant(r)) : u \in User, k \in Key, r \in Claims}
    \cup {DeltaCall(u, k, a[1], a[2]) : u \in User, k \in Key, a \in Adjustments}
    \cup {RoundCall(u, k, r[1], r[2]) : u \in User, k \in Key, r \in Rounds}

IsClaim(c) == c.type = "delta" /\ c.reason \in GrantReason

VARIABLES
    wallet,    \* wallet[u]: the committed row of u
    operation, \* operation[k]: the committed WalletOperation with key k
    book,      \* book[u]: the committed LedgerEntry rows of u, oldest first
    now,       \* wall clock
    pc,        \* pc[s]: how far the transaction of session s has come
    call,      \* call[s]: what session s was last called with
    at,        \* at[s]: the time the caller read before it called
    row,       \* row[s]: the wallet row session s read under its lock
    reply      \* reply[s]: what the last call of s returned

vars == <<wallet, operation, book, now, pc, call, at, row, reply>>

NoOperation == [wallet |-> Nobody, type |-> "delta"]
EmptyRow == [balance |-> 0, version |-> 0, welcome |-> FALSE,
             dailyAt |-> Never, reliefAt |-> Never]

Answer(status, reason, delta, after) ==
    [status |-> status, reason |-> reason, delta |-> delta, after |-> after]
NoReply == Answer("none", "welcome", 0, 0)
Refused == Answer("refused", "welcome", 0, 0)
Failed == Answer("failed", "welcome", 0, 0)

Entry(k, reason, delta, after) ==
    [key |-> k, reason |-> reason, delta |-> delta, after |-> after]

Init ==
    /\ wallet = [u \in User |-> EmptyRow]
    /\ operation = [k \in Key |-> NoOperation]
    /\ book = [u \in User |-> <<>>]
    /\ now = 0
    /\ pc = [s \in Session |-> "idle"]
    /\ call = [s \in Session |-> NoCall]
    /\ at = [s \in Session |-> 0]
    /\ row = [s \in Session |-> EmptyRow]
    /\ reply = [s \in Session |-> NoReply]

committed == <<wallet, operation, book>>

\* The transaction of s ends, its locks are released and the caller has its answer.
End(s, answer) ==
    /\ pc' = [pc EXCEPT ![s] = "idle"]
    /\ row' = [row EXCEPT ![s] = EmptyRow]
    /\ at' = [at EXCEPT ![s] = 0]
    /\ reply' = [reply EXCEPT ![s] = answer]

-----------------------------------------------------------------------------

\* A caller begins a transaction; a retry is the same call once more.
Begin(s) ==
    /\ pc[s] = "idle"
    /\ \E c \in Call :
        /\ call' = [call EXCEPT ![s] = c]
        /\ at' = [at EXCEPT ![s] = now]
    /\ pc' = [pc EXCEPT ![s] = "begun"]
    /\ reply' = [reply EXCEPT ![s] = NoReply]
    /\ UNCHANGED <<committed, now, row>>

Holding == {"locked", "checked", "inserted"}

\* Mutant: a plain SELECT, which waits for nobody.
LockedByNobody(u) == FALSE

Locked(u) == \E t \in Session : pc[t] \in Holding /\ call[t].user = u

\* _db_get_or_create_wallet(lock=True): wait for the row lock, then read the row.
Lock(s) ==
    /\ pc[s] = "begun"
    /\ ~Locked(call[s].user)
    /\ row' = [row EXCEPT ![s] = wallet[call[s].user]]
    /\ pc' = [pc EXCEPT ![s] = "locked"]
    /\ UNCHANGED <<committed, now, call, at, reply>>

\* _db_replay finds no operation with this key.
Miss(s) ==
    /\ pc[s] = "locked"
    /\ operation[call[s].key] = NoOperation
    /\ pc' = [pc EXCEPT ![s] = "checked"]
    /\ UNCHANGED <<committed, now, call, at, row, reply>>

\* The entries of one operation, as positions in its wallet's book.
Lines(u, k) == {i \in DOMAIN book[u] : book[u][i].key = k}

\* Mutant: a key answers whoever presents it for the same kind of operation.
AnswersByKind(o, c) == o.type = c.type

\* A stored operation answers only a call of its own kind on its own wallet.
Answers(o, c) ==
    /\ o.wallet = c.user
    /\ o.type = c.type
    /\ IsClaim(c) => \E i \in Lines(c.user, c.key) : book[c.user][i].reason = c.reason

\* The amount stored for one side of a settlement, zero when it wrote no entry.
Stored(u, k, reason) ==
    LET found == {i \in Lines(u, k) : book[u][i].reason = reason}
    IN  IF found = {} THEN 0 ELSE book[u][CHOOSE i \in found : TRUE].delta

\* The answer rebuilt from the entries.  They are sorted by (created_at, id):
\* entries of one transaction share created_at and their ids are random, so any
\* of them may come last and give the balance; without entries it is zero.
Rebuilt(c) ==
    LET lines == Lines(c.user, c.key)
        net == Stored(c.user, c.key, "game_stake") + Stored(c.user, c.key, "game_payout")
    IN  IF lines = {}
        THEN {Answer("replayed", c.reason, 0, 0)}
        ELSE {LET line == book[c.user][i] IN
              IF c.type = "delta"
              THEN Answer("replayed", line.reason, line.delta, line.after)
              ELSE Answer("replayed", c.reason, net, line.after) : i \in lines}

\* _db_replay finds the key: the stored result, or an error for a foreign key.
Replay(s) ==
    LET c == call[s] IN
    /\ pc[s] = "locked"
    /\ operation[c.key] # NoOperation
    /\ IF Answers(operation[c.key], c)
       THEN \E answer \in Rebuilt(c) : End(s, answer)
       ELSE End(s, Refused)
    /\ UNCHANGED <<committed, now, call>>

CooledDown(last, time, cooldown) == last = Never \/ time - last >= cooldown

\* Mutant: relief cools down by the stamp of the daily bonus.
AllowedByWrongStamp(r, c, time) ==
    /\ r.balance + c.delta >= 0
    /\ r.balance >= c.stake
    /\ c.reason = "welcome" => ~r.welcome
    /\ c.reason = "daily_bonus" => CooledDown(r.dailyAt, time, DailyCooldown)
    /\ c.reason = "relief" => /\ r.balance < ReliefThreshold
                              /\ CooledDown(r.dailyAt, time, ReliefCooldown)

\* What the operation itself requires of the locked row.
Allowed(r, c, time) ==
    /\ r.balance + c.delta >= 0
    /\ r.balance >= c.stake
    /\ c.reason = "welcome" => ~r.welcome
    /\ c.reason = "daily_bonus" => CooledDown(r.dailyAt, time, DailyCooldown)
    /\ c.reason = "relief" => /\ r.balance < ReliefThreshold
                              /\ CooledDown(r.reliefAt, time, ReliefCooldown)

\* Mutant: the caller has its error, but the transaction stays open.
RefuseLeftOpen(s) ==
    /\ pc[s] = "checked"
    /\ ~Allowed(row[s], call[s], at[s])
    /\ reply' = [reply EXCEPT ![s] = Refused]
    /\ UNCHANGED <<committed, now, call, pc, at, row>>

\* A guard fails: the exception rolls the transaction back.
Refuse(s) ==
    /\ pc[s] = "checked"
    /\ ~Allowed(row[s], call[s], at[s])
    /\ End(s, Refused)
    /\ UNCHANGED <<committed, now, call>>

\* Mutant: no unique index on the key.
KeyNeverInFlight(k) == FALSE

\* Another transaction holds the key in the unique index, uncommitted.
KeyInFlight(k) == \E t \in Session : pc[t] = "inserted" /\ call[t].key = k

\* Flush of the WalletOperation row.
Insert(s) ==
    /\ pc[s] = "checked"
    /\ Allowed(row[s], call[s], at[s])
    /\ ~KeyInFlight(call[s].key)
    /\ operation[call[s].key] = NoOperation
    /\ pc' = [pc EXCEPT ![s] = "inserted"]
    /\ UNCHANGED <<committed, now, call, at, row, reply>>

\* The key was committed on another wallet since Miss: IntegrityError.
Conflict(s) ==
    /\ pc[s] = "checked"
    /\ Allowed(row[s], call[s], at[s])
    /\ operation[call[s].key] # NoOperation
    /\ End(s, Failed)
    /\ UNCHANGED <<committed, now, call>>

\* By how much the call changes the balance.
Net(c) == c.delta - c.stake + c.payout

\* Mutant: the payout is written before the stake.
WrittenPayoutFirst(b, r, c) ==
    LET credit == Entry(c.key, "game_payout", c.payout, r.balance + c.payout)
        debit == Entry(c.key, "game_stake", -c.stake, r.balance + c.payout - c.stake)
        single == Entry(c.key, c.reason, c.delta, r.balance + c.delta)
    IN  IF c.type = "delta" THEN Append(b, single)
        ELSE IF c.stake > 0
             THEN IF c.payout > 0 THEN Append(Append(b, credit), debit) ELSE Append(b, debit)
             ELSE IF c.payout > 0 THEN Append(b, credit) ELSE b

\* The ledger entries: one for a delta; the stake and then the payout of a
\* round, each only when it is not zero.
Written(b, r, c) ==
    LET debit == Entry(c.key, "game_stake", -c.stake, r.balance - c.stake)
        credit == Entry(c.key, "game_payout", c.payout, r.balance - c.stake + c.payout)
        single == Entry(c.key, c.reason, c.delta, r.balance + c.delta)
    IN  IF c.type = "delta" THEN Append(b, single)
        ELSE IF c.stake > 0
             THEN IF c.payout > 0 THEN Append(Append(b, debit), credit) ELSE Append(b, debit)
             ELSE IF c.payout > 0 THEN Append(b, credit) ELSE b

\* _db_apply_delta or _db_settle, the grant stamp of a claim, and the commit.
Commit(s) ==
    LET c == call[s]
        r == row[s]
    IN  /\ pc[s] = "inserted"
        /\ operation' = [operation EXCEPT ![c.key] = [wallet |-> c.user, type |-> c.type]]
        /\ book' = [book EXCEPT ![c.user] = Written(book[c.user], r, c)]
        /\ wallet' = [wallet EXCEPT ![c.user] =
              [balance |-> r.balance + Net(c),
               version |-> r.version + 1,
               welcome |-> r.welcome \/ c.reason = "welcome",
               dailyAt |-> IF c.reason = "daily_bonus" THEN at[s] ELSE r.dailyAt,
               reliefAt |-> IF c.reason = "relief" THEN at[s] ELSE r.reliefAt]]
        /\ End(s, Answer("applied", c.reason, Net(c), r.balance + Net(c)))
        /\ UNCHANGED <<now, call>>

\* The connection or the process is lost: nothing of the transaction remains.
Lose(s) ==
    /\ pc[s] # "idle"
    /\ End(s, Failed)
    /\ UNCHANGED <<committed, now, call>>

Tick ==
    /\ now < MaxTime
    /\ now' = now + 1
    /\ UNCHANGED <<committed, pc, call, at, row, reply>>

Step(s) == Lock(s) \/ Miss(s) \/ Replay(s) \/ Refuse(s) \/ Insert(s) \/ Conflict(s) \/ Commit(s)

Next == Tick \/ \E s \in Session : Begin(s) \/ Step(s) \/ Lose(s)

Spec == Init /\ [][Next]_vars

\* PostgreSQL serves a row lock first come, first served, and the service never
\* stops in the middle of a transaction it was not thrown out of.
Fairness == \A s \in Session : WF_vars(Step(s)) /\ SF_vars(Lock(s)) /\ SF_vars(Insert(s) \/ Conflict(s))

FairSpec == Spec /\ Fairness

-----------------------------------------------------------------------------
Row == [balance : Nat, version : Nat, welcome : BOOLEAN,
        dailyAt : Nat \cup {Never}, reliefAt : Nat \cup {Never}]

TypeOK ==
    /\ wallet \in [User -> Row]
    /\ operation \in [Key -> [wallet : User \cup {Nobody}, type : {"delta", "game_settlement"}]]
    /\ book \in [User -> Seq([key : Key, reason : Reason, delta : Int, after : Nat])]
    /\ now \in Nat
    /\ pc \in [Session -> {"idle", "begun", "locked", "checked", "inserted"}]
    /\ call \in [Session -> Call \cup {NoCall}]
    /\ \A s \in Session : pc[s] # "idle" => call[s] \in Call
    /\ at \in [Session -> Nat]
    /\ row \in [Session -> Row]
    /\ reply \in [Session -> [status : {"none", "applied", "replayed", "refused", "failed"},
                              reason : Reason, delta : Int, after : Nat]]

-----------------------------------------------------------------------------
(***************************************************************************)
(* Safety.                                                                 *)
(***************************************************************************)

\* Every entry continues from the one before it (or from nothing).
Chained(b) ==
    \A i \in DOMAIN b :
        b[i].after = b[i].delta + IF i = 1 THEN 0 ELSE b[i - 1].after

\* The wallet row and the append-only ledger tell the same story: entries form an
\* unbroken chain of balances that ends in the balance of the row, so concurrent
\* transactions lose no update and no crash leaves half an operation.
BookExplainsBalance ==
    \A u \in User :
        /\ Chained(book[u])
        /\ wallet[u].balance = IF book[u] = <<>> THEN 0 ELSE book[u][Len(book[u])].after

\* A key moves money once: its entries are all in the wallet of its operation,
\* one entry for a delta, and for a round the stake directly followed by the payout.
OnePostingPerKey ==
    \A u \in User : \A i \in DOMAIN book[u] :
        /\ operation[book[u][i].key].wallet = u
        /\ \A j \in DOMAIN book[u] :
              (i < j /\ book[u][i].key = book[u][j].key) =>
                  /\ j = i + 1
                  /\ operation[book[u][i].key].type = "game_settlement"
                  /\ book[u][i].reason = "game_stake"
                  /\ book[u][j].reason = "game_payout"

\* The welcome grant is paid at most once per wallet, whatever keys it is claimed with.
WelcomeOnce ==
    \A u \in User : \A i, j \in DOMAIN book[u] :
        (book[u][i].reason = "welcome" /\ book[u][j].reason = "welcome") => i = j

Confirmed(s) == reply[s].status \in {"applied", "replayed"}

\* A caller that is told a single-entry operation happened finds exactly that entry
\* under its key in its own wallet, and a claim is never answered with another grant.
ReplyTellsTheBook ==
    \A s \in Session :
        (Confirmed(s) /\ call[s].type = "delta") =>
            /\ \E i \in Lines(call[s].user, call[s].key) :
                  LET line == book[call[s].user][i]
                  IN  /\ line.reason = reply[s].reason
                      /\ line.delta = reply[s].delta
                      /\ line.after = reply[s].after
            /\ IsClaim(call[s]) => reply[s].reason = call[s].reason

\* A repeated settlement reports the balance that the first answer reported: the one
\* after its payout, since "within one settlement the credit is newer than its debit".
ReplayReportsFinalBalance ==
    \A s \in Session :
        LET lines == Lines(call[s].user, call[s].key)
        IN  (reply[s].status = "replayed" /\ call[s].type = "game_settlement" /\ lines # {}) =>
                \E i \in lines : /\ \A j \in lines : j <= i
                                 /\ reply[s].after = book[call[s].user][i].after

\* An entry with this reason is written to the book of u by this step.
Paid(u, reason) ==
    \E i \in DOMAIN book'[u] : i > Len(book[u]) /\ book'[u][i].reason = reason

\* Two daily bonuses (relief grants) of a wallet are a cooldown apart, by the
\* times the callers claimed them at, and relief goes only to a wallet below the
\* threshold, however stale the caller's clock and view of its balance are.
GrantsAreSpaced ==
    [][\A u \in User :
        /\ Paid(u, "daily_bonus") =>
              /\ wallet[u].dailyAt = Never
                 \/ wallet'[u].dailyAt - wallet[u].dailyAt >= DailyCooldown
              /\ wallet'[u].dailyAt # Never
        /\ Paid(u, "relief") =>
              /\ wallet[u].reliefAt = Never
                 \/ wallet'[u].reliefAt - wallet[u].reliefAt >= ReliefCooldown
              /\ wallet'[u].reliefAt # Never
              /\ wallet[u].balance < ReliefThreshold]_vars

(***************************************************************************)
(* Why the design is safe: the facts about transactions in progress that   *)
(* make the properties above inductive.                                    *)
(***************************************************************************)

\* At most one transaction holds the row of a wallet.
LockIsExclusive ==
    \A s, t \in Session :
        (pc[s] \in Holding /\ pc[t] \in Holding /\ call[s].user = call[t].user) => s = t

\* What a transaction read under its lock is still what is committed.
RowIsCurrent ==
    \A s \in Session : pc[s] \in Holding => row[s] = wallet[call[s].user]

\* A transaction about to commit owns its key and passed the guard of its operation.
InsertedMayCommit ==
    \A s \in Session : pc[s] = "inserted" =>
        /\ operation[call[s].key] = NoOperation
        /\ Allowed(row[s], call[s], at[s])
        /\ \A t \in Session :
              (pc[t] = "inserted" /\ call[t].key = call[s].key) => t = s

\* A wallet with a welcome entry carries the stamp.
WelcomeIsStamped ==
    \A u \in User : \A i \in DOMAIN book[u] :
        book[u][i].reason = "welcome" => wallet[u].welcome

Inductive ==
    /\ TypeOK
    /\ LockIsExclusive
    /\ RowIsCurrent
    /\ InsertedMayCommit
    /\ BookExplainsBalance
    /\ OnePostingPerKey
    /\ WelcomeIsStamped
    /\ WelcomeOnce

(***************************************************************************)
(* Liveness: no caller waits for ever, neither for a wallet row nor for a  *)
(* key that another transaction is about to insert.                        *)
(***************************************************************************)
EveryCallEnds == \A s \in Session : pc[s] # "idle" ~> pc[s] = "idle"

(***************************************************************************)
(* Refinement: the committed state is a LedgerBook; each commit posts one  *)
(* operation and every other step leaves the book as it is.                *)
(***************************************************************************)
Book == INSTANCE LedgerBook WITH
    balance <- [u \in User |-> wallet[u].balance],
    book <- book,
    owner <- [k \in Key |-> operation[k].wallet],
    Delta <- {Grant(r) : r \in Claims} \cup {a[2] : a \in Adjustments}
             \cup {-r[1] : r \in Rounds} \cup {r[2] : r \in Rounds},
    Round <- Rounds

IsLedgerBook == Book!BookSpec
=============================================================================
