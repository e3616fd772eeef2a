----------------------------- MODULE AdminCards -----------------------------
(***************************************************************************)
(* The administrator's adjustments of one player's balance.  The bot shows *)
(* a card with two buttons and keeps it in memory for five minutes         *)
(* (apps/bot/app/handlers/admin.py); a confirmation is a request to the    *)
(* API with the key of the card, for whose answer the bot waits five       *)
(* seconds (api_client.py); the API posts it in one transaction with its   *)
(* line in the audit log (services/admin_service.py).  Requests and answers *)
(* are lost, either process may end, and a transaction goes on after the   *)
(* bot has stopped waiting for it.                                         *)
(***************************************************************************)
EXTENDS Integers, Sequences

CONSTANTS
    Card,       \* cards; each has an idempotency key of its own
    Job,        \* requests the API may have in hand at a time
    NoCard,
    Deltas,     \* what an administrator may give or take
    Balances    \* bound: the balances other games may lead to

ASSUME AdminAssumption ==
    /\ Deltas \subseteq Int \ {0}
    /\ Balances \subseteq Nat

VARIABLES
    balance,    \* wallets.balance, committed
    posting,    \* the admin_adjustment of each key in the ledger
    audit,      \* admin_audit_log, by operation
    delta,      \* the amount on each card
    screen,     \* what the card in the chat says
    pending,    \* _pending of the bot
    old,        \* cards shown more than PENDING_TTL_SECONDS ago
    inflight,   \* _inflight of the bot
    job,        \* the API's side of each request
    told        \* the balances the player was told of, by card

committed == <<balance, posting, audit>>
bot == <<delta, screen, pending, old, inflight, told>>
vars == <<balance, posting, audit, delta, screen, pending, old, inflight, job, told>>

NotPosted == [delta |-> 0, after |-> 0]
NoAnswer == [status |-> "none", before |-> 0, after |-> 0]
Refused == [status |-> "refused", before |-> 0, after |-> 0]
Broken == [status |-> "broken", before |-> 0, after |-> 0]

\* heard: a handler of the bot still waits for the answer.
Idle == [pc |-> "idle", card |-> NoCard, before |-> 0, replay |-> FALSE,
         answer |-> NoAnswer, heard |-> FALSE]

Init ==
    /\ balance \in Balances
    /\ posting = [c \in Card |-> NotPosted]
    /\ audit = [c \in Card |-> <<>>]
    /\ delta = [c \in Card |-> 0]
    /\ screen = [c \in Card |-> "none"]
    /\ pending = {} /\ old = {} /\ inflight = {}
    /\ job = [j \in Job |-> Idle]
    /\ told = [c \in Card |-> <<>>]

-----------------------------------------------------------------------------
(***************************************************************************)
(* The bot.                                                                *)
(***************************************************************************)

\* /give or /take: the balance is looked up and a card is shown; cards that have
\* run out are forgotten.
Show(c, d) ==
    /\ screen[c] = "none"
    /\ balance + d >= 0
    /\ delta' = [delta EXCEPT ![c] = d]
    /\ screen' = [screen EXCEPT ![c] = "asks"]
    /\ pending' = (pending \ old) \cup {c}
    /\ UNCHANGED <<committed, old, inflight, job, told>>

\* Five minutes have passed since the card was shown.
Age(c) ==
    /\ c \in pending \ old
    /\ old' = old \cup {c}
    /\ UNCHANGED <<committed, delta, screen, pending, inflight, job, told>>

\* The card is known, in time and not in flight.
Pressable(c) == c \in (pending \ old) \ inflight

\* A tap on a card that has run out: "repeat the command", even while in flight.
PressOld(c) ==
    /\ c \in pending \cap old
    /\ pending' = pending \ {c}
    /\ UNCHANGED <<committed, delta, screen, old, inflight, job, told>>

\* "Confirm": the key of the card goes to the API.
Confirm(c, j) ==
    /\ Pressable(c)
    /\ job[j] = Idle
    /\ inflight' = inflight \cup {c}
    /\ job' = [job EXCEPT ![j] = [Idle EXCEPT !.pc = "sent", !.card = c, !.heard = TRUE]]
    /\ UNCHANGED <<committed, delta, screen, pending, old, told>>

\* "Cancel": the card says that it was cancelled and the balance did not change.
Cancel(c) ==
    /\ Pressable(c)
    /\ pending' = pending \ {c}
    /\ screen' = [screen EXCEPT ![c] = "cancelled"]
    /\ UNCHANGED <<committed, delta, old, inflight, job, told>>

\* Mutant: the card stays in flight after an error.
GaveUpForgetting(c) ==
    UNCHANGED <<committed, delta, screen, pending, old, inflight, told>>

\* BotApiError: the card may be pressed again, with the same key.
GaveUp(c) ==
    /\ inflight' = inflight \ {c}
    /\ UNCHANGED <<committed, delta, screen, pending, old, told>>

\* No answer within the timeout, or the answer is lost; the API is not told.
TimeOut(j) ==
    /\ job[j].heard
    /\ GaveUp(job[j].card)
    /\ job' = [job EXCEPT ![j] = IF job[j].pc = "answered" THEN Idle
                                 ELSE [job[j] EXCEPT !.heard = FALSE]]

\* An error answer of the API.
ReceiveError(j) ==
    /\ job[j].pc = "answered" /\ job[j].answer.status # "done"
    /\ GaveUp(job[j].card)
    /\ job' = [job EXCEPT ![j] = Idle]

\* The answer of an adjustment that happened, now or at an earlier attempt: the card
\* says so and is forgotten, and the player is told, who may have closed the chat.
Receive(j) ==
    LET c == job[j].card IN
    /\ job[j].pc = "answered" /\ job[j].answer.status = "done"
    /\ pending' = pending \ {c}
    /\ inflight' = inflight \ {c}
    /\ screen' = [screen EXCEPT ![c] = "done"]
    /\ told' \in {told, [told EXCEPT ![c] = Append(@, job[j].answer.after)]}
    /\ job' = [job EXCEPT ![j] = Idle]
    /\ UNCHANGED <<committed, delta, old>>

\* The bot's process ends: cards and marks are forgotten, the chat keeps its cards.
RestartBot ==
    /\ pending \cup inflight # {}
    /\ pending' = {}
    /\ inflight' = {}
    /\ job' = [j \in Job |-> IF job[j].pc = "answered" THEN Idle
                             ELSE [job[j] EXCEPT !.heard = FALSE]]
    /\ UNCHANGED <<committed, delta, screen, old, told>>

-----------------------------------------------------------------------------
(***************************************************************************)
(* The API.                                                                *)
(***************************************************************************)

WalletLocked == \E j \in Job : job[j].pc = "locked"

\* The transaction is over; its answer matters while somebody waits for it.
Answered(j, answer) ==
    job' = [job EXCEPT ![j] = IF job[j].heard
                              THEN [job[j] EXCEPT !.pc = "answered", !.answer = answer]
                              ELSE Idle]

\* adjust: the wallet row is locked, and then the key looked up.
Lock(j) ==
    /\ job[j].pc = "sent"
    /\ ~WalletLocked
    /\ job' = [job EXCEPT ![j].pc = "locked", ![j].before = balance,
                          ![j].replay = posting[job[j].card] # NotPosted]
    /\ UNCHANGED <<committed, bot>>

\* Mutant: the audit line is written for a repeated key, too.
AuditedAgain(j, after) ==
    Append(audit[job[j].card], [before |-> job[j].before, after |-> after])

\* The audit log after an operation that ended at this balance.
Audited(j, after) ==
    IF job[j].replay THEN audit[job[j].card]
    ELSE Append(audit[job[j].card], [before |-> job[j].before, after |-> after])

\* Mutant: a repetition reports the balance of today.
ReportedAnew(j, after) ==
    [status |-> "done", before |-> job[j].before,
     after |-> IF job[j].replay THEN balance ELSE after]

\* What adjust returns.
Reported(j, after) ==
    [status |-> "done", after |-> after,
     before |-> IF job[j].replay THEN after - delta[job[j].card] ELSE job[j].before]

\* apply_delta_in_transaction returns the recorded operation of the key or posts it,
\* with the audit line, and the transaction is committed.
Commit(j) ==
    LET c == job[j].card
        after == IF posting[c] # NotPosted THEN posting[c].after ELSE balance + delta[c]
    IN  /\ job[j].pc = "locked"
        /\ job[j].replay \/ job[j].before + delta[c] >= 0
        /\ after >= 0
        /\ posting' = [posting EXCEPT ![c] = [delta |-> delta[c], after |-> after]]
        /\ balance' = IF posting[c] # NotPosted THEN balance ELSE after
        /\ audit' = [audit EXCEPT ![c] = Audited(j, after)]
        /\ Answered(j, Reported(j, after))
        /\ UNCHANGED bot

\* Not enough is left: the transaction is rolled back.
Refuse(j) ==
    /\ job[j].pc = "locked"
    /\ ~job[j].replay
    /\ job[j].before + delta[job[j].card] < 0
    /\ Answered(j, Refused)
    /\ UNCHANGED <<committed, bot>>

\* The request does not arrive, or the transaction dies with its connection.
Fail(j) ==
    /\ job[j].pc \in {"sent", "locked"}
    /\ Answered(j, Broken)
    /\ UNCHANGED <<committed, bot>>

\* The player wins or loses a coin in a game, in a transaction that locks the wallet.
PlayElsewhere ==
    /\ ~WalletLocked
    /\ balance' \in {balance - 1, balance + 1} \cap Balances
    /\ UNCHANGED <<posting, audit, bot, job>>

Serve(j) == Commit(j) \/ Refuse(j)

Wait(j) == TimeOut(j) \/ ReceiveError(j) \/ Receive(j)

Next ==
    \/ \E c \in Card : \/ \E d \in Deltas : Show(c, d)
                       \/ Age(c) \/ PressOld(c) \/ Cancel(c)
                       \/ \E j \in Job : Confirm(c, j)
    \/ \E j \in Job : Lock(j) \/ Serve(j) \/ Fail(j) \/ Wait(j)
    \/ RestartBot
    \/ PlayElsewhere

Spec == Init /\ [][Next]_vars

\* httpx ends every wait, the row lock is granted in turn, and a transaction that has
\* it goes on to its end.  Nobody has to press a button.
Fairness == \A j \in Job : WF_vars(Wait(j)) /\ WF_vars(Serve(j)) /\ SF_vars(Lock(j))

FairSpec == Spec /\ Fairness

-----------------------------------------------------------------------------
TypeOK ==
    /\ balance \in Nat
    /\ posting \in [Card -> [delta : Deltas \cup {0}, after : Nat]]
    /\ audit \in [Card -> Seq([before : Nat, after : Nat])]
    /\ delta \in [Card -> Deltas \cup {0}]
    /\ screen \in [Card -> {"none", "asks", "done", "cancelled"}]
    /\ pending \subseteq Card /\ old \subseteq Card /\ inflight \subseteq Card
    /\ job \in [Job -> [pc : {"idle", "sent", "locked", "answered"}, card : Card \cup {NoCard},
                        before : Nat, replay : BOOLEAN, heard : BOOLEAN,
                        answer : [status : {"none", "done", "refused", "broken"},
                                  before : Nat, after : Nat]]]
    /\ told \in [Card -> Seq(Nat)]

\* The log an owner would settle a dispute with: every adjustment in the ledger has one
\* audit line, with the balances before and after that very posting, however many times
\* its card was confirmed and whatever the player won or lost in between.
AuditTellsTheBook ==
    /\ TypeOK
    /\ \A c \in Card :
          audit[c] = IF posting[c] = NotPosted THEN <<>>
                     ELSE <<[before |-> posting[c].after - delta[c], after |-> posting[c].after]>>

\* The player hears of an adjustment at most once, only if it was posted, and with the
\* balance it left, even if only the answer to a repetition got through.
PlayerIsToldOnce ==
    \A c \in Card :
        /\ Len(told[c]) <= 1
        /\ told[c] # <<>> => posting[c] # NotPosted /\ told[c][1] = posting[c].after
        /\ screen[c] = "done" => posting[c] # NotPosted

\* No card says "in progress" for ever: a timeout, an error or a bot that is gone does
\* not leave its mark behind, and the administrator may try again.
EveryPressIsAnswered == \A c \in Card : c \in inflight ~> c \notin inflight

\* A cancelled card says "cancelled, the balance did not change": nothing was posted
\* under its key, and nothing will be.
CancelledMeansUnchanged ==
    \A c \in Card : screen[c] = "cancelled" => posting[c] = NotPosted
=============================================================================
