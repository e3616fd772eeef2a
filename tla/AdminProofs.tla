---------------------------- MODULE AdminProofs ----------------------------
(***************************************************************************)
(* Proofs about the administrator's adjustments, for any number of cards   *)
(* and of requests on their way, any amounts and any play elsewhere.       *)
(***************************************************************************)
EXTENDS AdminCards, TLAPS

AnswerType == [status : {"none", "done", "refused", "broken"}, before : Nat, after : Nat]
JobType == [pc : {"idle", "sent", "locked", "answered"}, card : Card \cup {NoCard},
            before : Nat, replay : BOOLEAN, heard : BOOLEAN, answer : AnswerType]

Posted(c) == posting[c] # NotPosted

\* A card is what was posted under its key, and its amount does not change any more.
CardsOK ==
    \A c \in Card :
        /\ screen[c] # "none" => delta[c] # 0
        /\ Posted(c) => posting[c].delta = delta[c]
        /\ Posted(c) \/ c \in pending => screen[c] # "none"

\* One transaction has the wallet, and what it has read is still so.
WalletOK ==
    \A j \in Job : job[j].pc = "locked" =>
        /\ job[j].before = balance
        /\ job[j].replay = Posted(job[j].card)
        /\ \A k \in Job : job[k].pc = "locked" => k = j

\* A request is one of a card that was shown.
RequestsOK ==
    \A j \in Job : job[j].pc # "idle" => job[j].card \in Card /\ screen[job[j].card] # "none"

\* The bot waits for one request of a card at most, and marks the card.
WaitsOK ==
    \A j \in Job :
        /\ job[j].pc = "answered" => job[j].heard
        /\ job[j].heard =>
              /\ job[j].pc # "idle" /\ job[j].card \in inflight
              /\ \A k \in Job : (job[k].heard /\ job[k].card = job[j].card) => k = j

\* An answer says what was posted.
AnswersOK ==
    \A j \in Job : (job[j].pc = "answered" /\ job[j].answer.status = "done") =>
        Posted(job[j].card) /\ job[j].answer.after = posting[job[j].card].after

\* A card that the player was told of is not asked about again.
ToldOK ==
    \A c \in Card : told[c] # <<>> =>
        /\ c \notin pending /\ screen[c] # "none"
        /\ \A j \in Job : job[j].heard => job[j].card # c

IInv ==
    /\ AuditTellsTheBook /\ CardsOK /\ WalletOK /\ RequestsOK /\ WaitsOK /\ AnswersOK
    /\ ToldOK /\ PlayerIsToldOnce

-----------------------------------------------------------------------------
(***************************************************************************)
(* What a step does to the requests.                                       *)
(***************************************************************************)
LEMMA IdleType == Idle \in JobType /\ Refused \in AnswerType /\ Broken \in AnswerType
BY DEF Idle, NoAnswer, Refused, Broken, JobType, AnswerType

LEMMA JobTypes == TypeOK => job \in [Job -> JobType]
BY DEF TypeOK, JobType, AnswerType

LEMMA OneJob ==
    ASSUME TypeOK, NEW j \in Job, NEW new \in JobType, job' = [job EXCEPT ![j] = new]
    PROVE  /\ job' \in [Job -> JobType] /\ job'[j] = new
           /\ \A k \in Job \ {j} : job'[k] = job[k]
BY JobTypes

LEMMA ConfirmFacts ==
    ASSUME TypeOK, NEW c \in Card, NEW j \in Job, Confirm(c, j)
    PROVE  /\ job' \in [Job -> JobType] /\ \A k \in Job \ {j} : job'[k] = job[k]
           /\ job'[j].pc = "sent" /\ job'[j].card = c /\ job'[j].heard
           /\ inflight' = inflight \cup {c} /\ c \in pending /\ c \notin inflight
           /\ UNCHANGED <<committed, delta, screen, pending, old, told>>
<1> DEFINE new == [Idle EXCEPT !.pc = "sent", !.card = c, !.heard = TRUE]
<1>1. new \in JobType /\ new.pc = "sent" /\ new.card = c /\ new.heard
  BY IdleType DEF JobType, Idle
<1>2. job' = [job EXCEPT ![j] = new]
  BY DEF Confirm
<1>3. job' \in [Job -> JobType] /\ job'[j] = new /\ \A k \in Job \ {j} : job'[k] = job[k]
  BY <1>1, <1>2, OneJob
<1>. QED BY <1>1, <1>3 DEF Confirm, Pressable

\* The bot gives up, with or without an answer.
LEMMA GaveUpFacts ==
    ASSUME TypeOK, WaitsOK, NEW j \in Job, TimeOut(j) \/ ReceiveError(j)
    PROVE  /\ job' \in [Job -> JobType] /\ \A k \in Job \ {j} : job'[k] = job[k]
           /\ job'[j] = Idle \/ /\ job[j].pc # "answered"
                                /\ job'[j] = [job[j] EXCEPT !.heard = FALSE]
           /\ ~job'[j].heard /\ job'[j].pc \in {"idle", job[j].pc} /\ job'[j].pc # "answered"
           /\ job'[j].pc # "idle" =>
                 /\ job'[j].card = job[j].card /\ job'[j].before = job[j].before
                 /\ job'[j].replay = job[j].replay
           /\ job[j].heard /\ inflight' = inflight \ {job[j].card}
           /\ UNCHANGED <<committed, delta, screen, pending, old, told>>
<1> DEFINE muted == [job[j] EXCEPT !.heard = FALSE]
           new == IF ReceiveError(j) \/ job[j].pc = "answered" THEN Idle ELSE muted
<1>1. job[j] \in JobType
  BY JobTypes
<1>2. /\ muted \in JobType /\ ~muted.heard /\ muted.pc = job[j].pc /\ muted.card = job[j].card
      /\ muted.before = job[j].before /\ muted.replay = job[j].replay
  BY <1>1 DEF JobType
<1>3. new \in JobType
  BY <1>2, IdleType
<1>4. job' = [job EXCEPT ![j] = new]
  BY DEF TimeOut, ReceiveError
<1>5. job' \in [Job -> JobType] /\ job'[j] = new /\ \A k \in Job \ {j} : job'[k] = job[k]
  BY <1>3, <1>4, OneJob
<1>6. job[j].heard
  BY DEF TimeOut, ReceiveError, WaitsOK
<1>7. Idle.pc = "idle" /\ ~Idle.heard
  BY DEF Idle
<1>8. /\ inflight' = inflight \ {job[j].card}
      /\ UNCHANGED <<committed, delta, screen, pending, old, told>>
  BY DEF TimeOut, ReceiveError, GaveUp
<1>9. ReceiveError(j) => job[j].pc = "answered"
  BY DEF ReceiveError
<1>. QED BY <1>2, <1>5, <1>6, <1>7, <1>8, <1>9

LEMMA ReceiveFacts ==
    ASSUME TypeOK, NEW j \in Job, Receive(j)
    PROVE  /\ job' \in [Job -> JobType] /\ job'[j] = Idle
           /\ \A k \in Job \ {j} : job'[k] = job[k]
<1>1. job' = [job EXCEPT ![j] = Idle]
  BY DEF Receive
<1>. QED BY <1>1, IdleType, OneJob

LEMMA RestartFacts ==
    ASSUME TypeOK, RestartBot
    PROVE  /\ job' \in [Job -> JobType]
           /\ \A j \in Job :
                 /\ ~job'[j].heard /\ job'[j].pc \in {"idle", job[j].pc} /\ job'[j].pc # "answered"
                 /\ job'[j].pc # "idle" =>
                       /\ job'[j].card = job[j].card /\ job'[j].before = job[j].before
                       /\ job'[j].replay = job[j].replay
<1> SUFFICES ASSUME NEW j \in Job
             PROVE  /\ job'[j] \in JobType
                    /\ ~job'[j].heard /\ job'[j].pc \in {"idle", job[j].pc} /\ job'[j].pc # "answered"
                    /\ job'[j].pc # "idle" =>
                          /\ job'[j].card = job[j].card /\ job'[j].before = job[j].before
                          /\ job'[j].replay = job[j].replay
  BY DEF RestartBot
<1>1. job[j] \in JobType
  BY JobTypes
<1>2. job'[j] = IF job[j].pc = "answered" THEN Idle ELSE [job[j] EXCEPT !.heard = FALSE]
  BY DEF RestartBot
<1>3. CASE job[j].pc = "answered"
  BY <1>2, <1>3, IdleType DEF Idle
<1>4. CASE job[j].pc # "answered"
  BY <1>1, <1>2, <1>4 DEF JobType
<1>. QED BY <1>3, <1>4

LEMMA LockFacts ==
    ASSUME TypeOK, NEW j \in Job, Lock(j)
    PROVE  /\ job' \in [Job -> JobType] /\ \A k \in Job \ {j} : job'[k] = job[k]
           /\ job[j].pc = "sent" /\ job'[j].pc = "locked"
           /\ job'[j].before = balance /\ job'[j].replay = Posted(job[j].card)
           /\ job'[j].card = job[j].card /\ job'[j].heard = job[j].heard
           /\ UNCHANGED <<committed, bot>>
<1> DEFINE new == [job[j] EXCEPT !.pc = "locked", !.before = balance,
                                 !.replay = posting[job[j].card] # NotPosted]
<1>1. job[j] \in JobType /\ balance \in Nat
  BY JobTypes DEF TypeOK
<1>2. /\ new \in JobType /\ new.pc = "locked" /\ new.before = balance
      /\ new.replay = Posted(job[j].card) /\ new.card = job[j].card /\ new.heard = job[j].heard
  BY <1>1 DEF JobType, Posted
<1>3. job' = [job EXCEPT ![j] = new]
  BY <1>1 DEF Lock
<1>4. job' \in [Job -> JobType] /\ job'[j] = new /\ \A k \in Job \ {j} : job'[k] = job[k]
  BY <1>2, <1>3, OneJob
<1>. QED BY <1>2, <1>4 DEF Lock

\* The end of a transaction.
LEMMA AnsweredFacts ==
    ASSUME TypeOK, NEW j \in Job, NEW answer \in AnswerType, Answered(j, answer)
    PROVE  /\ job' \in [Job -> JobType] /\ \A k \in Job \ {j} : job'[k] = job[k]
           /\ \/ job'[j] = Idle
              \/ /\ job[j].heard /\ job'[j].heard /\ job'[j].pc = "answered"
                 /\ job'[j].card = job[j].card /\ job'[j].answer = answer
<1> DEFINE said == [job[j] EXCEPT !.pc = "answered", !.answer = answer]
           new == IF job[j].heard THEN said ELSE Idle
<1>1. job[j] \in JobType
  BY JobTypes
<1>2. /\ said \in JobType /\ said.pc = "answered" /\ said.answer = answer
      /\ said.card = job[j].card /\ said.heard = job[j].heard
  BY <1>1 DEF JobType
<1>3. new \in JobType
  BY <1>2, IdleType
<1>4. job' = [job EXCEPT ![j] = new]
  BY DEF Answered
<1>5. job' \in [Job -> JobType] /\ job'[j] = new /\ \A k \in Job \ {j} : job'[k] = job[k]
  BY <1>3, <1>4, OneJob
<1>. QED BY <1>2, <1>5

LEMMA FailFacts ==
    ASSUME TypeOK, NEW j \in Job, Refuse(j) \/ Fail(j)
    PROVE  /\ job' \in [Job -> JobType] /\ \A k \in Job \ {j} : job'[k] = job[k]
           /\ job[j].pc \in {"sent", "locked"}
           /\ \/ job'[j] = Idle
              \/ /\ job[j].heard /\ job'[j].heard /\ job'[j].pc = "answered"
                 /\ job'[j].card = job[j].card /\ job'[j].answer.status # "done"
           /\ UNCHANGED <<committed, bot>>
<1>1. PICK answer \in {Refused, Broken} : Answered(j, answer)
  BY DEF Refuse, Fail
<1>2. answer \in AnswerType /\ answer.status # "done"
  BY <1>1, IdleType DEF Refused, Broken
<1>. QED BY <1>1, <1>2, AnsweredFacts DEF Refuse, Fail

\* What is committed: the card's posting, the same as before if it was there, and the
\* audit line that belongs to it.
LEMMA CommitFacts ==
    ASSUME AuditTellsTheBook, CardsOK, WalletOK, RequestsOK, NEW j \in Job, Commit(j)
    PROVE  \E c \in Card, after \in Nat :
              /\ c = job[j].card /\ screen[c] # "none" /\ delta[c] \in Deltas
              /\ after - delta[c] \in Nat
              /\ posting' = [posting EXCEPT ![c] = [delta |-> delta[c], after |-> after]]
              /\ audit' = [audit EXCEPT ![c] = <<[before |-> after - delta[c], after |-> after]>>]
              /\ IF Posted(c) THEN balance' = balance /\ after = posting[c].after
                 ELSE balance' = after
              /\ job[j].pc = "locked"
              /\ job' \in [Job -> JobType] /\ \A k \in Job \ {j} : job'[k] = job[k]
              /\ \/ job'[j] = Idle
                 \/ /\ job[j].heard /\ job'[j].heard /\ job'[j].pc = "answered"
                    /\ job'[j].card = c /\ job'[j].answer.after = after
              /\ UNCHANGED bot
<1> DEFINE c == job[j].card
           after == IF Posted(c) THEN posting[c].after ELSE balance + delta[c]
           line == [before |-> after - delta[c], after |-> after]
<1>1. TypeOK /\ job[j].pc = "locked" /\ UNCHANGED bot
  BY DEF AuditTellsTheBook, Commit
<1>2. c \in Card /\ screen[c] # "none" /\ delta[c] # 0
  BY <1>1 DEF RequestsOK, CardsOK
<1>3. delta[c] \in Deltas /\ delta[c] \in Int /\ balance \in Nat /\ posting[c].after \in Nat
  BY <1>1, <1>2, AdminAssumption DEF TypeOK
<1>4. job[j].before = balance /\ job[j].replay = Posted(c)
  BY <1>1 DEF WalletOK
<1>5. after \in Nat
  BY <1>3 DEF Commit, Posted
<1>6. audit[c] = IF Posted(c) THEN <<line>> ELSE <<>>
  BY <1>2 DEF AuditTellsTheBook, Posted
<1>7. after - delta[c] \in Nat
  <2>1. CASE Posted(c)
    <3>1. audit[c] \in Seq([before : Nat, after : Nat]) /\ audit[c] = <<line>>
      BY <1>1, <1>2, <1>6, <2>1 DEF TypeOK
    <3>2. \A x : <<x>> \in Seq([before : Nat, after : Nat]) => x \in [before : Nat, after : Nat]
      <4> SUFFICES ASSUME NEW x, <<x>> \in Seq([before : Nat, after : Nat])
                   PROVE  x \in [before : Nat, after : Nat]
        OBVIOUS
      <4>1. <<x>>[1] = x /\ 1 \in 1..Len(<<x>>)
        OBVIOUS
      <4>. QED BY <4>1
    <3>3. line \in [before : Nat, after : Nat]
      BY <3>1, <3>2
    <3>4. line.before = after - delta[c] /\ line.before \in Nat
      BY <3>3
    <3>. QED BY <3>4
  <2>2. CASE ~Posted(c)
    <3>1. after = balance + delta[c]
      BY <2>2
    <3>. QED BY <1>3, <3>1
  <2>. QED BY <2>1, <2>2
<1>8. Audited(j, after) = <<line>>
  <2>1. CASE Posted(c)
    BY <1>4, <1>6, <2>1 DEF Audited
  <2>2. CASE ~Posted(c)
    <3>1. job[j].before = after - delta[c] /\ audit[c] = <<>>
      BY <1>3, <1>4, <1>6, <2>2
    <3>2. Audited(j, after) = Append(<<>>, line)
      BY <1>4, <2>2, <3>1 DEF Audited
    <3>3. \A x : Append(<<>>, x) = <<x>>
      OBVIOUS
    <3>. QED BY <3>2, <3>3
  <2>. QED BY <2>1, <2>2
<1>9. Reported(j, after) \in AnswerType /\ Reported(j, after).after = after
  BY <1>3, <1>4, <1>5, <1>7 DEF Reported, AnswerType
<1>10. /\ posting' = [posting EXCEPT ![c] = [delta |-> delta[c], after |-> after]]
       /\ audit' = [audit EXCEPT ![c] = Audited(j, after)]
       /\ balance' = IF Posted(c) THEN balance ELSE after
       /\ Answered(j, Reported(j, after))
  BY DEF Commit, Posted
<1>11. /\ job' \in [Job -> JobType] /\ \A k \in Job \ {j} : job'[k] = job[k]
       /\ \/ job'[j] = Idle
          \/ /\ job[j].heard /\ job'[j].heard /\ job'[j].pc = "answered"
             /\ job'[j].card = c /\ job'[j].answer.after = after
  BY <1>1, <1>9, <1>10, AnsweredFacts
<1>12. IF Posted(c) THEN balance' = balance /\ after = posting[c].after ELSE balance' = after
  BY <1>10
<1>13. audit' = [audit EXCEPT ![c] = <<line>>]
  BY <1>8, <1>10
<1> HIDE DEF after
<1>. QED BY <1>1, <1>2, <1>3, <1>5, <1>7, <1>10, <1>11, <1>12, <1>13

-----------------------------------------------------------------------------
(***************************************************************************)
(* Types.                                                                  *)
(***************************************************************************)
LEMMA TypeStep == IInv /\ [Next]_vars => TypeOK'
<1> SUFFICES ASSUME IInv, [Next]_vars PROVE TypeOK'
  OBVIOUS
<1>1. /\ TypeOK /\ AuditTellsTheBook /\ CardsOK /\ WalletOK /\ RequestsOK /\ WaitsOK /\ AnswersOK
      /\ 0 \in Deltas \cup {0}
  BY DEF IInv, AuditTellsTheBook
<1>2. job' \in [Job -> JobType] /\ UNCHANGED <<committed, bot>> => TypeOK'
  BY <1>1 DEF committed, bot, TypeOK, JobType, AnswerType
<1>3. ASSUME NEW c \in Card, NEW d \in Deltas, Show(c, d) PROVE TypeOK'
  BY <1>1, <1>3 DEF Show, committed, TypeOK
<1>4. ASSUME NEW c \in Card, Age(c) PROVE TypeOK'
  BY <1>1, <1>4 DEF Age, committed, TypeOK
<1>5. ASSUME NEW c \in Card, PressOld(c) PROVE TypeOK'
  BY <1>1, <1>5 DEF PressOld, committed, TypeOK
<1>6. ASSUME NEW c \in Card, Cancel(c) PROVE TypeOK'
  BY <1>1, <1>6 DEF Cancel, committed, TypeOK
<1>7. ASSUME NEW c \in Card, NEW j \in Job, Confirm(c, j) PROVE TypeOK'
  <2>1. /\ job' \in [Job -> JobType] /\ inflight' = inflight \cup {c}
        /\ UNCHANGED <<committed, delta, screen, pending, old, told>>
    BY <1>1, <1>7, ConfirmFacts
  <2>. QED BY <1>1, <2>1 DEF committed, TypeOK, JobType, AnswerType
<1>8. ASSUME NEW j \in Job, Lock(j) PROVE TypeOK'
  BY <1>1, <1>2, <1>8, LockFacts
<1>9. ASSUME NEW j \in Job, Commit(j) PROVE TypeOK'
  <2>1. PICK c \in Card, after \in Nat :
          /\ posting' = [posting EXCEPT ![c] = [delta |-> delta[c], after |-> after]]
          /\ audit' = [audit EXCEPT ![c] = <<[before |-> after - delta[c], after |-> after]>>]
          /\ IF Posted(c) THEN balance' = balance /\ after = posting[c].after ELSE balance' = after
          /\ delta[c] \in Deltas /\ after - delta[c] \in Nat
          /\ job' \in [Job -> JobType] /\ UNCHANGED bot
    BY <1>1, <1>9, CommitFacts
  <2>2. balance' \in Nat
    BY <1>1, <2>1 DEF TypeOK
  <2>3. posting' \in [Card -> [delta : Deltas \cup {0}, after : Nat]]
    BY <1>1, <2>1 DEF TypeOK
  <2>4. audit' \in [Card -> Seq([before : Nat, after : Nat])]
    <3>1. [before |-> after - delta[c], after |-> after] \in [before : Nat, after : Nat]
      BY <2>1
    <3>2. \A x \in [before : Nat, after : Nat] : <<x>> \in Seq([before : Nat, after : Nat])
      OBVIOUS
    <3>. QED BY <1>1, <2>1, <3>1, <3>2 DEF TypeOK
  <2>. QED BY <1>1, <2>1, <2>2, <2>3, <2>4 DEF bot, TypeOK, JobType, AnswerType
<1>10. ASSUME NEW j \in Job, Refuse(j) \/ Fail(j) PROVE TypeOK'
  BY <1>1, <1>2, <1>10, FailFacts
<1>11. ASSUME NEW j \in Job, TimeOut(j) \/ ReceiveError(j) PROVE TypeOK'
  <2>1. /\ job' \in [Job -> JobType] /\ inflight' = inflight \ {job[j].card}
        /\ UNCHANGED <<committed, delta, screen, pending, old, told>>
    BY <1>1, <1>11, GaveUpFacts
  <2>. QED BY <1>1, <2>1 DEF committed, TypeOK, JobType, AnswerType
<1>12. ASSUME NEW j \in Job, Receive(j) PROVE TypeOK'
  <2> DEFINE c == job[j].card
  <2>1. job' \in [Job -> JobType]
    BY <1>1, <1>12, ReceiveFacts
  <2>2. c \in Card /\ job[j].answer.after \in Nat
    BY <1>1, <1>12, JobTypes DEF Receive, RequestsOK, JobType, AnswerType
  <2>3. told' \in [Card -> Seq(Nat)]
    <3>1. Append(told[c], job[j].answer.after) \in Seq(Nat)
      BY <1>1, <2>2 DEF TypeOK
    <3>2. told' \in {told, [told EXCEPT ![c] = Append(told[c], job[j].answer.after)]}
      BY <1>1, <1>12, <2>2 DEF Receive, TypeOK
    <3>. QED BY <1>1, <3>1, <3>2 DEF TypeOK
  <2>. QED BY <1>1, <1>12, <2>1, <2>2, <2>3 DEF Receive, committed, TypeOK, JobType, AnswerType
<1>13. CASE RestartBot
  <2>1. job' \in [Job -> JobType]
    BY <1>1, <1>13, RestartFacts
  <2>. QED BY <1>1, <1>13, <2>1 DEF RestartBot, committed, TypeOK, JobType, AnswerType
<1>14. CASE PlayElsewhere
  BY <1>1, <1>14, AdminAssumption DEF PlayElsewhere, bot, TypeOK
<1>15. CASE UNCHANGED vars
  BY <1>1, <1>15 DEF vars, TypeOK
<1>. QED BY <1>3, <1>4, <1>5, <1>6, <1>7, <1>8, <1>9, <1>10, <1>11, <1>12, <1>13, <1>14, <1>15
        DEF Next, Serve, Wait

-----------------------------------------------------------------------------
(***************************************************************************)
(* The ledger and the cards.                                               *)
(***************************************************************************)

\* Only a commit posts.
LEMMA OnlyCommitsPost ==
    ASSUME [Next]_vars
    PROVE  \/ \E j \in Job : Commit(j)
           \/ posting' = posting /\ audit' = audit
BY DEF Next, vars, committed, bot, Show, Age, PressOld, Cancel, Confirm, Lock, Serve, Refuse,
       Fail, Wait, TimeOut, ReceiveError, GaveUp, Receive, RestartBot, PlayElsewhere

\* Cards are shown once, and what they ask stays on them.
LEMMA CardsStay ==
    ASSUME TypeOK, CardsOK, RequestsOK, [Next]_vars, NEW c \in Card
    PROVE  /\ screen[c] # "none" => screen'[c] # "none" /\ delta'[c] = delta[c]
           /\ screen'[c] # "none" => delta'[c] # 0
           /\ c \in pending' => screen'[c] # "none"
<1>1. /\ screen[c] # "none" => delta[c] # 0
      /\ c \in pending => screen[c] # "none"
  BY DEF CardsOK
<1>2. ASSUME NEW e \in Card, NEW d \in Deltas, Show(e, d)
      PROVE  /\ screen[c] # "none" => screen'[c] # "none" /\ delta'[c] = delta[c]
             /\ screen'[c] # "none" => delta'[c] # 0
             /\ c \in pending' => screen'[c] # "none"
  <2>1. d # 0 /\ screen[e] = "none"
    BY <1>2, AdminAssumption DEF Show
  <2>. QED BY <1>1, <1>2, <2>1 DEF Show, TypeOK
<1>3. ASSUME NEW e \in Card, Cancel(e)
      PROVE  delta' = delta /\ pending' \subseteq pending /\ (screen'[c] # "none" <=> screen[c] # "none")
  <2>1. e \in pending
    BY <1>3 DEF Cancel, Pressable
  <2>2. screen[e] # "none"
    BY <2>1 DEF CardsOK
  <2>. QED BY <1>3, <2>2 DEF Cancel, TypeOK
<1>4. ASSUME NEW j \in Job, Receive(j)
      PROVE  delta' = delta /\ pending' \subseteq pending /\ (screen'[c] # "none" <=> screen[c] # "none")
  <2>1. job[j].card \in Card /\ screen[job[j].card] # "none"
    BY <1>4 DEF Receive, RequestsOK
  <2>. QED BY <1>4, <2>1 DEF Receive, TypeOK
<1>5. ASSUME UNCHANGED <<delta, screen>>, pending' \subseteq pending
      PROVE  /\ screen[c] # "none" => screen'[c] # "none" /\ delta'[c] = delta[c]
             /\ screen'[c] # "none" => delta'[c] # 0
             /\ c \in pending' => screen'[c] # "none"
  BY <1>1, <1>5
<1>6. \/ \E e \in Card, d \in Deltas : Show(e, d)
      \/ \E e \in Card : Cancel(e)
      \/ \E j \in Job : Receive(j)
      \/ UNCHANGED <<delta, screen>> /\ pending' \subseteq pending
  BY DEF Next, vars, committed, bot, Age, PressOld, Confirm, Lock, Serve, Commit, Refuse, Fail,
         Wait, TimeOut, ReceiveError, GaveUp, RestartBot, PlayElsewhere
<1>. QED BY <1>1, <1>2, <1>3, <1>4, <1>5, <1>6

LEMMA CardsStep == IInv /\ [Next]_vars => CardsOK'
<1> SUFFICES ASSUME IInv, [Next]_vars, NEW c \in Card
             PROVE  /\ screen'[c] # "none" => delta'[c] # 0
                    /\ posting'[c] # NotPosted => posting'[c].delta = delta'[c]
                    /\ posting'[c] # NotPosted \/ c \in pending' => screen'[c] # "none"
  BY DEF CardsOK, Posted
<1>1. AuditTellsTheBook /\ TypeOK /\ CardsOK /\ WalletOK /\ RequestsOK
  BY DEF IInv, AuditTellsTheBook
<1>2. /\ screen[c] # "none" => screen'[c] # "none" /\ delta'[c] = delta[c]
      /\ screen'[c] # "none" => delta'[c] # 0
      /\ c \in pending' => screen'[c] # "none"
  BY <1>1, CardsStay
<1>3. posting[c] # NotPosted => posting[c].delta = delta[c] /\ screen[c] # "none"
  BY <1>1 DEF CardsOK, Posted
<1>4. ASSUME NEW j \in Job, Commit(j)
      PROVE  posting'[c] # NotPosted => posting'[c].delta = delta[c] /\ screen[c] # "none"
  <2>1. PICK e \in Card, after \in Nat :
           /\ screen[e] # "none"
           /\ posting' = [posting EXCEPT ![e] = [delta |-> delta[e], after |-> after]]
    BY <1>1, <1>4, CommitFacts
  <2>2. CASE c = e
    BY <1>1, <2>1, <2>2 DEF TypeOK
  <2>3. CASE c # e
    BY <1>1, <1>3, <2>1, <2>3 DEF TypeOK
  <2>. QED BY <2>2, <2>3
<1>. QED BY <1>2, <1>3, <1>4, OnlyCommitsPost

LEMMA AuditStep == IInv /\ [Next]_vars => AuditTellsTheBook'
<1> SUFFICES ASSUME IInv, [Next]_vars PROVE AuditTellsTheBook'
  OBVIOUS
<1>1. AuditTellsTheBook /\ TypeOK /\ CardsOK /\ WalletOK /\ RequestsOK /\ TypeOK'
  BY TypeStep DEF IInv, AuditTellsTheBook
<1>2. ASSUME NEW c \in Card
      PROVE  audit'[c] = IF posting'[c] = NotPosted THEN <<>>
                         ELSE <<[before |-> posting'[c].after - delta'[c],
                                 after |-> posting'[c].after]>>
  <2>1. audit[c] = IF posting[c] = NotPosted THEN <<>>
                   ELSE <<[before |-> posting[c].after - delta[c], after |-> posting[c].after]>>
    BY <1>1 DEF AuditTellsTheBook
  <2>2. posting[c] # NotPosted => delta'[c] = delta[c]
    BY <1>1, CardsStay DEF CardsOK, Posted
  <2>3. ASSUME NEW j \in Job, Commit(j)
        PROVE  audit'[c] = IF posting'[c] = NotPosted THEN <<>>
                           ELSE <<[before |-> posting'[c].after - delta'[c],
                                   after |-> posting'[c].after]>>
    <3>1. PICK e \in Card, after \in Nat :
             /\ delta[e] \in Deltas /\ delta' = delta
             /\ posting' = [posting EXCEPT ![e] = [delta |-> delta[e], after |-> after]]
             /\ audit' = [audit EXCEPT ![e] = <<[before |-> after - delta[e], after |-> after]>>]
      BY <1>1, <2>3, CommitFacts DEF bot
    <3>2. CASE c = e
      <4>1. /\ posting'[c] = [delta |-> delta[c], after |-> after]
            /\ audit'[c] = <<[before |-> after - delta[c], after |-> after]>>
        BY <1>1, <3>1, <3>2 DEF TypeOK
      <4>2. posting'[c] # NotPosted /\ posting'[c].after = after
        BY <3>1, <3>2, <4>1, AdminAssumption DEF NotPosted
      <4>. QED BY <3>1, <4>1, <4>2
    <3>3. CASE c # e
      <4>1. posting'[c] = posting[c] /\ audit'[c] = audit[c]
        BY <1>1, <3>1, <3>3 DEF TypeOK
      <4>. QED BY <2>1, <3>1, <4>1
    <3>. QED BY <3>2, <3>3
  <2>. QED BY <2>1, <2>2, <2>3, OnlyCommitsPost
<1>. QED BY <1>1, <1>2 DEF AuditTellsTheBook

-----------------------------------------------------------------------------
(***************************************************************************)
(* The wallet, the requests and the answers.                               *)
(***************************************************************************)

\* Steps that take no lock and move no money.
LEMMA WalletStays ==
    ASSUME WalletOK, balance' = balance, posting' = posting,
           \A j \in Job : job'[j].pc = "locked" =>
              /\ job[j].pc = "locked" /\ job'[j].card = job[j].card
              /\ job'[j].before = job[j].before /\ job'[j].replay = job[j].replay
    PROVE  WalletOK'
BY DEF WalletOK, Posted

LEMMA WalletStep == IInv /\ [Next]_vars => WalletOK'
<1> SUFFICES ASSUME IInv, [Next]_vars PROVE WalletOK'
  OBVIOUS
<1>1. AuditTellsTheBook /\ TypeOK /\ CardsOK /\ WalletOK /\ RequestsOK /\ WaitsOK
  BY DEF IInv, AuditTellsTheBook
<1>2. Idle.pc # "locked"
  BY DEF Idle
<1>3. ASSUME NEW c \in Card, NEW j \in Job, Confirm(c, j) PROVE WalletOK'
  BY <1>1, <1>3, ConfirmFacts, WalletStays DEF committed
<1>4. ASSUME NEW j \in Job, Lock(j) PROVE WalletOK'
  <2>1. \A k \in Job : job[k].pc # "locked"
    BY <1>4 DEF Lock, WalletLocked
  <2>2. /\ \A k \in Job \ {j} : job'[k] = job[k]
        /\ job'[j].before = balance /\ job'[j].card = job[j].card
        /\ job'[j].replay = Posted(job[j].card)
        /\ balance' = balance /\ posting' = posting
    BY <1>1, <1>4, LockFacts DEF committed
  <2>. QED BY <2>1, <2>2 DEF WalletOK, Posted
<1>5. ASSUME NEW j \in Job, Commit(j) PROVE WalletOK'
  <2>1. /\ job[j].pc = "locked" /\ job'[j].pc # "locked"
        /\ \A k \in Job \ {j} : job'[k] = job[k]
    BY <1>1, <1>2, <1>5, CommitFacts
  <2>2. \A k \in Job \ {j} : job[k].pc # "locked"
    BY <1>1, <2>1 DEF WalletOK
  <2>. QED BY <2>1, <2>2 DEF WalletOK
<1>6. ASSUME NEW j \in Job, Refuse(j) \/ Fail(j) PROVE WalletOK'
  <2>1. job'[j].pc # "locked" /\ \A k \in Job \ {j} : job'[k] = job[k]
    BY <1>1, <1>2, <1>6, FailFacts
  <2>2. balance' = balance /\ posting' = posting
    BY <1>1, <1>6, FailFacts DEF committed
  <2>. QED BY <1>1, <2>1, <2>2, WalletStays
<1>7. ASSUME NEW j \in Job, TimeOut(j) \/ ReceiveError(j) PROVE WalletOK'
  <2>1. /\ \A k \in Job \ {j} : job'[k] = job[k]
        /\ job'[j].pc \in {"idle", job[j].pc}
        /\ job'[j].pc # "idle" => /\ job'[j].card = job[j].card /\ job'[j].before = job[j].before
                                  /\ job'[j].replay = job[j].replay
    BY <1>1, <1>7, GaveUpFacts
  <2>2. balance' = balance /\ posting' = posting
    BY <1>1, <1>7, GaveUpFacts DEF committed
  <2>. QED BY <1>1, <2>1, <2>2, WalletStays
<1>8. ASSUME NEW j \in Job, Receive(j) PROVE WalletOK'
  <2>1. job'[j].pc # "locked" /\ \A k \in Job \ {j} : job'[k] = job[k]
    BY <1>1, <1>2, <1>8, ReceiveFacts
  <2>2. balance' = balance /\ posting' = posting
    BY <1>8 DEF Receive, committed
  <2>. QED BY <1>1, <2>1, <2>2, WalletStays
<1>9. CASE RestartBot
  <2>1. \A j \in Job :
           /\ job'[j].pc \in {"idle", job[j].pc}
           /\ job'[j].pc # "idle" => /\ job'[j].card = job[j].card /\ job'[j].before = job[j].before
                                     /\ job'[j].replay = job[j].replay
    BY <1>1, <1>9, RestartFacts
  <2>2. balance' = balance /\ posting' = posting
    BY <1>9 DEF RestartBot, committed
  <2>. QED BY <1>1, <2>1, <2>2, WalletStays
<1>10. CASE PlayElsewhere
  BY <1>10 DEF PlayElsewhere, WalletLocked, WalletOK
<1>11. ASSUME UNCHANGED <<balance, posting, job>> PROVE WalletOK'
  BY <1>1, <1>11, WalletStays
<1>12. \/ \E c \in Card, j \in Job : Confirm(c, j)
       \/ \E j \in Job : \/ Lock(j) \/ Commit(j) \/ Refuse(j) \/ Fail(j)
                         \/ TimeOut(j) \/ ReceiveError(j) \/ Receive(j)
       \/ RestartBot \/ PlayElsewhere
       \/ UNCHANGED <<balance, posting, job>>
  BY DEF Next, vars, committed, Show, Age, PressOld, Cancel, Serve, Wait
<1>. QED BY <1>3, <1>4, <1>5, <1>6, <1>7, <1>8, <1>9, <1>10, <1>11, <1>12

\* What may become of a request in a step.
LEMMA StepKinds ==
    ASSUME [Next]_vars
    PROVE  \/ \E c \in Card, j \in Job : Confirm(c, j)
           \/ \E j \in Job : \/ Lock(j) \/ Commit(j) \/ Refuse(j) \/ Fail(j)
                             \/ TimeOut(j) \/ ReceiveError(j) \/ Receive(j)
           \/ RestartBot
           \/ UNCHANGED <<posting, job, inflight, told>>
BY DEF Next, vars, committed, bot, Show, Age, PressOld, Cancel, Serve, Wait, PlayElsewhere

LEMMA RequestsStep == IInv /\ [Next]_vars => RequestsOK'
<1> SUFFICES ASSUME IInv, [Next]_vars, NEW k \in Job, job'[k].pc # "idle"
             PROVE  job'[k].card \in Card /\ screen'[job'[k].card] # "none"
  BY DEF RequestsOK
<1>1. AuditTellsTheBook /\ TypeOK /\ CardsOK /\ WalletOK /\ RequestsOK /\ WaitsOK
  BY DEF IInv, AuditTellsTheBook
<1>2. job[k].pc # "idle" => job[k].card \in Card /\ screen'[job[k].card] # "none"
  BY <1>1, CardsStay DEF RequestsOK
<1>3. Idle.pc = "idle"
  BY DEF Idle
<1>4. ASSUME NEW c \in Card, NEW j \in Job, Confirm(c, j)
      PROVE  job'[k].card \in Card /\ screen'[job'[k].card] # "none"
  <2>1. screen'[c] # "none"
    <3>1. c \in pending
      BY <1>1, <1>4, ConfirmFacts
    <3>2. screen[c] # "none"
      BY <1>1, <3>1 DEF CardsOK
    <3>. QED BY <1>1, <3>2, CardsStay
  <2>2. job'[j].card = c /\ \A i \in Job \ {j} : job'[i] = job[i]
    BY <1>1, <1>4, ConfirmFacts
  <2>. QED BY <1>2, <2>1, <2>2
<1>5. ASSUME NEW j \in Job,
             Lock(j) \/ Commit(j) \/ Refuse(j) \/ Fail(j) \/ TimeOut(j) \/ ReceiveError(j) \/ Receive(j)
      PROVE  job[k].pc # "idle" /\ job'[k].card = job[k].card
  <2>1. CASE Lock(j)
    <3>1. /\ job[j].pc = "sent" /\ job'[j].card = job[j].card
          /\ \A i \in Job \ {j} : job'[i] = job[i]
      BY <1>1, <2>1, LockFacts
    <3>. QED BY <3>1
  <2>2. CASE Commit(j)
    <3>1. /\ job'[j] = Idle \/ job'[j].card = job[j].card
          /\ \A i \in Job \ {j} : job'[i] = job[i]
      BY <1>1, <2>2, CommitFacts
    <3>2. job[j].pc = "locked"
      BY <2>2 DEF Commit
    <3>. QED BY <1>3, <3>1, <3>2
  <2>3. CASE Refuse(j) \/ Fail(j)
    <3>1. /\ job[j].pc \in {"sent", "locked"}
          /\ job'[j] = Idle \/ job'[j].card = job[j].card
          /\ \A i \in Job \ {j} : job'[i] = job[i]
      BY <1>1, <2>3, FailFacts
    <3>. QED BY <1>3, <3>1
  <2>4. CASE TimeOut(j) \/ ReceiveError(j)
    <3>1. /\ job'[j].pc \in {"idle", job[j].pc}
          /\ job'[j].pc # "idle" => job'[j].card = job[j].card
          /\ \A i \in Job \ {j} : job'[i] = job[i]
      BY <1>1, <2>4, GaveUpFacts
    <3>. QED BY <3>1
  <2>5. CASE Receive(j)
    <3>1. job'[j] = Idle /\ \A i \in Job \ {j} : job'[i] = job[i]
      BY <1>1, <2>5, ReceiveFacts
    <3>. QED BY <1>3, <3>1
  <2>. QED BY <1>5, <2>1, <2>2, <2>3, <2>4, <2>5
<1>6. CASE RestartBot
  <2>1. /\ job'[k].pc \in {"idle", job[k].pc}
        /\ job'[k].pc # "idle" => job'[k].card = job[k].card
    BY <1>1, <1>6, RestartFacts
  <2>. QED BY <1>2, <2>1
<1>. QED BY <1>2, <1>4, <1>5, <1>6, StepKinds

\* A request that is in no handler's hands, or that ends as it was, disturbs nobody.
LEMMA WaitsStay ==
    ASSUME WaitsOK, inflight' = inflight,
           \A j \in Job :
              /\ job'[j].pc = "answered" => job'[j].heard
              /\ job'[j].heard => /\ job[j].heard /\ job'[j].pc # "idle"
                                  /\ job'[j].card = job[j].card
    PROVE  WaitsOK'
BY DEF WaitsOK

\* The one who ends a wait takes the card's mark with it, and nobody else's.
LEMMA WaitEnds ==
    ASSUME WaitsOK, NEW j \in Job, job[j].heard, inflight' = inflight \ {job[j].card},
           ~job'[j].heard, job'[j].pc # "answered", \A k \in Job \ {j} : job'[k] = job[k]
    PROVE  WaitsOK'
<1>1. \A k \in Job \ {j} : job[k].heard => job[k].card # job[j].card
  BY DEF WaitsOK
<1>. QED BY <1>1 DEF WaitsOK

LEMMA WaitsStep == IInv /\ [Next]_vars => WaitsOK'
<1> SUFFICES ASSUME IInv, [Next]_vars PROVE WaitsOK'
  OBVIOUS
<1>1. AuditTellsTheBook /\ TypeOK /\ CardsOK /\ WalletOK /\ RequestsOK /\ WaitsOK
  BY DEF IInv, AuditTellsTheBook
<1>2. ~Idle.heard /\ Idle.pc = "idle"
  BY DEF Idle
<1>3. ASSUME NEW c \in Card, NEW j \in Job, Confirm(c, j) PROVE WaitsOK'
  <2>1. /\ \A k \in Job \ {j} : job'[k] = job[k]
        /\ job'[j].pc = "sent" /\ job'[j].card = c /\ job'[j].heard
        /\ inflight' = inflight \cup {c} /\ c \notin inflight
    BY <1>1, <1>3, ConfirmFacts
  <2>2. \A k \in Job : job[k].heard => job[k].card # c
    BY <1>1, <2>1 DEF WaitsOK
  <2>. QED BY <1>1, <2>1, <2>2 DEF WaitsOK
<1>4. ASSUME NEW j \in Job, Lock(j) PROVE WaitsOK'
  <2>1. /\ \A k \in Job \ {j} : job'[k] = job[k]
        /\ job'[j].pc = "locked" /\ job'[j].card = job[j].card /\ job'[j].heard = job[j].heard
    BY <1>1, <1>4, LockFacts
  <2>2. inflight' = inflight
    BY <1>1, <1>4, LockFacts DEF bot
  <2>3. \A k \in Job : /\ job'[k].pc = "answered" => job'[k].heard
                       /\ job'[k].heard => /\ job[k].heard /\ job'[k].pc # "idle"
                                           /\ job'[k].card = job[k].card
    BY <1>1, <2>1 DEF WaitsOK
  <2>. QED BY <1>1, <2>2, <2>3, WaitsStay
<1>5. ASSUME NEW j \in Job, Commit(j) \/ Refuse(j) \/ Fail(j) PROVE WaitsOK'
  <2>1. /\ \A k \in Job \ {j} : job'[k] = job[k]
        /\ \/ job'[j] = Idle
           \/ /\ job[j].heard /\ job'[j].heard /\ job'[j].pc = "answered"
              /\ job'[j].card = job[j].card
    BY <1>1, <1>5, CommitFacts, FailFacts
  <2>2. inflight' = inflight
    BY <1>5 DEF Commit, Refuse, Fail, bot
  <2>3. \A k \in Job : /\ job'[k].pc = "answered" => job'[k].heard
                       /\ job'[k].heard => /\ job[k].heard /\ job'[k].pc # "idle"
                                           /\ job'[k].card = job[k].card
    BY <1>1, <1>2, <2>1 DEF WaitsOK
  <2>. QED BY <1>1, <2>2, <2>3, WaitsStay
<1>6. ASSUME NEW j \in Job, TimeOut(j) \/ ReceiveError(j) PROVE WaitsOK'
  <2>1. /\ job[j].heard /\ inflight' = inflight \ {job[j].card}
        /\ ~job'[j].heard /\ job'[j].pc # "answered"
        /\ \A k \in Job \ {j} : job'[k] = job[k]
    BY <1>1, <1>6, GaveUpFacts
  <2>. QED BY <1>1, <2>1, WaitEnds
<1>7. ASSUME NEW j \in Job, Receive(j) PROVE WaitsOK'
  <2>1. job'[j] = Idle /\ \A k \in Job \ {j} : job'[k] = job[k]
    BY <1>1, <1>7, ReceiveFacts
  <2>2. job[j].heard /\ inflight' = inflight \ {job[j].card}
    BY <1>1, <1>7 DEF Receive, WaitsOK
  <2>. QED BY <1>1, <1>2, <2>1, <2>2, WaitEnds
<1>8. CASE RestartBot
  <2>1. \A j \in Job : ~job'[j].heard /\ job'[j].pc # "answered"
    BY <1>1, <1>8, RestartFacts
  <2>. QED BY <2>1 DEF WaitsOK
<1>9. ASSUME UNCHANGED <<posting, job, inflight, told>> PROVE WaitsOK'
  BY <1>1, <1>9 DEF WaitsOK
<1>. QED BY <1>3, <1>4, <1>5, <1>6, <1>7, <1>8, <1>9, StepKinds

\* What is posted stays posted as it was.
LEMMA PostingsStay ==
    ASSUME IInv, [Next]_vars, NEW c \in Card, Posted(c)
    PROVE  Posted(c)' /\ posting'[c] = posting[c]
<1>1. AuditTellsTheBook /\ TypeOK /\ CardsOK /\ WalletOK /\ RequestsOK
  BY DEF IInv, AuditTellsTheBook
<1>2. posting[c] = [delta |-> posting[c].delta, after |-> posting[c].after]
  BY <1>1 DEF TypeOK
<1>3. ASSUME NEW j \in Job, Commit(j) PROVE posting'[c] = posting[c]
  <2>1. PICK e \in Card, after \in Nat :
           /\ posting' = [posting EXCEPT ![e] = [delta |-> delta[e], after |-> after]]
           /\ Posted(e) => after = posting[e].after
    BY <1>1, <1>3, CommitFacts
  <2>2. CASE c = e
    <3>1. posting[c].delta = delta[c]
      BY <1>1 DEF CardsOK
    <3>. QED BY <1>1, <1>2, <2>1, <2>2, <3>1 DEF TypeOK
  <2>3. CASE c # e
    BY <1>1, <2>1, <2>3 DEF TypeOK
  <2>. QED BY <2>2, <2>3
<1>. QED BY <1>3, OnlyCommitsPost DEF Posted

LEMMA AnswersStep == IInv /\ [Next]_vars => AnswersOK'
<1> SUFFICES ASSUME IInv, [Next]_vars, NEW k \in Job,
                    job'[k].pc = "answered", job'[k].answer.status = "done"
             PROVE  /\ posting'[job'[k].card] # NotPosted
                    /\ job'[k].answer.after = posting'[job'[k].card].after
  BY DEF AnswersOK, Posted
<1>1. /\ AuditTellsTheBook /\ TypeOK /\ CardsOK /\ WalletOK /\ RequestsOK /\ WaitsOK /\ AnswersOK
      /\ Idle.pc = "idle"
  BY DEF IInv, AuditTellsTheBook, Idle
<1>2. ASSUME job'[k] = job[k]
      PROVE  /\ posting'[job'[k].card] # NotPosted
             /\ job'[k].answer.after = posting'[job'[k].card].after
  <2>1. job[k].card \in Card /\ Posted(job[k].card) /\ job[k].answer.after = posting[job[k].card].after
    BY <1>1, <1>2 DEF RequestsOK, AnswersOK
  <2>. QED BY <1>2, <2>1, PostingsStay DEF Posted
<1>3. ASSUME NEW j \in Job, Commit(j)
      PROVE  \/ job'[k] = job[k]
             \/ /\ posting'[job'[k].card] # NotPosted
                /\ job'[k].answer.after = posting'[job'[k].card].after
  <2>1. PICK c \in Card, after \in Nat :
           /\ delta[c] \in Deltas
           /\ posting' = [posting EXCEPT ![c] = [delta |-> delta[c], after |-> after]]
           /\ \A i \in Job \ {j} : job'[i] = job[i]
           /\ job'[j] = Idle \/ (job'[j].card = c /\ job'[j].answer.after = after)
    BY <1>1, <1>3, CommitFacts
  <2>2. posting'[c].after = after /\ posting'[c] # NotPosted
    <3>1. posting'[c] = [delta |-> delta[c], after |-> after]
      BY <1>1, <2>1 DEF TypeOK
    <3>. QED BY <2>1, <3>1, AdminAssumption DEF NotPosted
  <2>. QED BY <1>1, <2>1, <2>2
<1>4. ASSUME NEW j \in Job, Refuse(j) \/ Fail(j) PROVE job'[k] = job[k]
  BY <1>1, <1>4, FailFacts
<1>5. ASSUME NEW j \in Job, TimeOut(j) \/ ReceiveError(j) PROVE job'[k] = job[k]
  BY <1>1, <1>5, GaveUpFacts
<1>6. ASSUME NEW j \in Job, Receive(j) PROVE job'[k] = job[k]
  BY <1>1, <1>6, ReceiveFacts
<1>7. ASSUME NEW c \in Card, NEW j \in Job, Confirm(c, j) PROVE job'[k] = job[k]
  BY <1>1, <1>7, ConfirmFacts
<1>8. ASSUME NEW j \in Job, Lock(j) PROVE job'[k] = job[k]
  BY <1>1, <1>8, LockFacts
<1>9. CASE RestartBot
  BY <1>1, <1>9, RestartFacts
<1>. QED BY <1>2, <1>3, <1>4, <1>5, <1>6, <1>7, <1>8, <1>9, StepKinds

-----------------------------------------------------------------------------
(***************************************************************************)
(* What the player is told.                                                *)
(***************************************************************************)
LEMMA OnlyReceiveTells ==
    ASSUME [Next]_vars
    PROVE  (\E j \in Job : Receive(j)) \/ told' = told
BY DEF Next, vars, committed, bot, Show, Age, PressOld, Cancel, Confirm, Lock, Serve, Commit, Refuse,
       Fail, Wait, TimeOut, ReceiveError, GaveUp, RestartBot, PlayElsewhere

\* A card that is not pending, in nobody's hands and shown is not asked about again.
LEMMA SettledStays ==
    ASSUME IInv, [Next]_vars, NEW c \in Card, c \notin pending, screen[c] # "none",
           \A j \in Job : job[j].heard => job[j].card # c
    PROVE  /\ c \notin pending' /\ screen'[c] # "none"
           /\ \A j \in Job : job'[j].heard => job'[j].card # c
<1>1. AuditTellsTheBook /\ TypeOK /\ CardsOK /\ WalletOK /\ RequestsOK /\ WaitsOK /\ ~Idle.heard
  BY DEF IInv, AuditTellsTheBook, Idle
<1>2. screen'[c] # "none"
  BY <1>1, CardsStay
<1>3. c \notin pending'
  BY DEF Next, vars, committed, bot, Show, Age, PressOld, Cancel, Confirm, Lock, Serve, Commit,
         Refuse, Fail, Wait, TimeOut, ReceiveError, GaveUp, Receive, RestartBot, PlayElsewhere
<1>4. ASSUME NEW k \in Job, job'[k].heard PROVE job'[k].card # c
  <2>1. ASSUME NEW e \in Card, NEW j \in Job, Confirm(e, j) PROVE job'[k].card # c
    <3>1. e \in pending /\ job'[j].card = e /\ \A i \in Job \ {j} : job'[i] = job[i]
      BY <1>1, <2>1, ConfirmFacts
    <3>. QED BY <1>4, <3>1
  <2>2. ASSUME NEW j \in Job, Lock(j) PROVE job'[k].card # c
    <3>1. /\ job'[j].card = job[j].card /\ job'[j].heard = job[j].heard
          /\ \A i \in Job \ {j} : job'[i] = job[i]
      BY <1>1, <2>2, LockFacts
    <3>. QED BY <1>4, <3>1
  <2>3. ASSUME NEW j \in Job, Commit(j) \/ Refuse(j) \/ Fail(j) PROVE job'[k].card # c
    <3>1. /\ \A i \in Job \ {j} : job'[i] = job[i]
          /\ job'[j] = Idle \/ (job[j].heard /\ job'[j].card = job[j].card)
      BY <1>1, <2>3, CommitFacts, FailFacts
    <3>. QED BY <1>1, <1>4, <3>1
  <2>4. ASSUME NEW j \in Job, TimeOut(j) \/ ReceiveError(j) PROVE job'[k].card # c
    <3>1. ~job'[j].heard /\ \A i \in Job \ {j} : job'[i] = job[i]
      BY <1>1, <2>4, GaveUpFacts
    <3>. QED BY <1>4, <3>1
  <2>5. ASSUME NEW j \in Job, Receive(j) PROVE job'[k].card # c
    <3>1. job'[j] = Idle /\ \A i \in Job \ {j} : job'[i] = job[i]
      BY <1>1, <2>5, ReceiveFacts
    <3>. QED BY <1>1, <1>4, <3>1
  <2>6. ~RestartBot
    BY <1>1, <1>4, RestartFacts
  <2>. QED BY <1>4, <2>1, <2>2, <2>3, <2>4, <2>5, <2>6, StepKinds
<1>. QED BY <1>2, <1>3, <1>4

\* What is told is the answer of the only request that the bot waited for.
LEMMA ToldStep == IInv /\ [Next]_vars => ToldOK' /\ PlayerIsToldOnce'
<1> SUFFICES ASSUME IInv, [Next]_vars, NEW c \in Card
             PROVE  /\ told'[c] # <<>> =>
                          /\ c \notin pending' /\ screen'[c] # "none"
                          /\ \A j \in Job : job'[j].heard => job'[j].card # c
                    /\ Len(told'[c]) <= 1
                    /\ told'[c] # <<>> => posting'[c] # NotPosted /\ told'[c][1] = posting'[c].after
                    /\ screen'[c] = "done" => posting'[c] # NotPosted
  BY DEF ToldOK, PlayerIsToldOnce
<1>1. /\ AuditTellsTheBook /\ TypeOK /\ CardsOK /\ WalletOK /\ RequestsOK /\ WaitsOK /\ AnswersOK
      /\ ToldOK /\ PlayerIsToldOnce /\ ~Idle.heard
  BY DEF IInv, AuditTellsTheBook, Idle
<1>2. Posted(c) => posting'[c] # NotPosted /\ posting'[c] = posting[c]
  BY PostingsStay DEF Posted
<1>3. ASSUME told'[c] = told[c]
      PROVE  /\ told'[c] # <<>> =>
                   /\ c \notin pending' /\ screen'[c] # "none"
                   /\ \A j \in Job : job'[j].heard => job'[j].card # c
             /\ Len(told'[c]) <= 1
             /\ told'[c] # <<>> => posting'[c] # NotPosted /\ told'[c][1] = posting'[c].after
  <2>1. told[c] # <<>> =>
           /\ c \notin pending' /\ screen'[c] # "none"
           /\ \A j \in Job : job'[j].heard => job'[j].card # c
    BY <1>1, SettledStays DEF ToldOK
  <2>2. /\ Len(told[c]) <= 1
        /\ told[c] # <<>> => Posted(c) /\ told[c][1] = posting[c].after
    BY <1>1 DEF PlayerIsToldOnce, Posted
  <2>. QED BY <1>2, <1>3, <2>1, <2>2
<1>4. ASSUME NEW j \in Job, Receive(j), job[j].card = c
      PROVE  /\ Posted(c) /\ job[j].answer.after = posting[c].after
             /\ told[c] = <<>>
             /\ c \notin pending' /\ screen'[c] # "none"
             /\ \A k \in Job : job'[k].heard => job'[k].card # c
  <2>1. Posted(c) /\ job[j].answer.after = posting[c].after /\ job[j].heard
    BY <1>1, <1>4 DEF Receive, AnswersOK, WaitsOK
  <2>2. told[c] = <<>>
    BY <1>1, <1>4, <2>1 DEF ToldOK
  <2>3. c \notin pending' /\ screen'[c] # "none"
    BY <1>1, <1>4 DEF Receive, TypeOK
  <2>4. \A k \in Job \ {j} : job[k].heard => job[k].card # c
    BY <1>1, <1>4, <2>1 DEF WaitsOK
  <2>5. job'[j] = Idle /\ \A k \in Job \ {j} : job'[k] = job[k]
    BY <1>1, <1>4, ReceiveFacts
  <2>. QED BY <1>1, <2>1, <2>2, <2>3, <2>4, <2>5
<1>5. ASSUME NEW j \in Job, Receive(j)
      PROVE  /\ told'[c] # <<>> =>
                   /\ c \notin pending' /\ screen'[c] # "none"
                   /\ \A k \in Job : job'[k].heard => job'[k].card # c
             /\ Len(told'[c]) <= 1
             /\ told'[c] # <<>> => posting'[c] # NotPosted /\ told'[c][1] = posting'[c].after
  <2>1. told' \in {told, [told EXCEPT ![job[j].card] = Append(told[job[j].card], job[j].answer.after)]}
    BY <1>5 DEF Receive
  <2>2. CASE told'[c] = told[c]
    BY <1>3, <2>2
  <2>3. CASE told'[c] # told[c]
    <3>1. /\ job[j].card = c /\ told'[c] = Append(told[c], job[j].answer.after)
      BY <1>1, <2>1, <2>3 DEF TypeOK
    <3>2. told'[c] = <<job[j].answer.after>>
      <4>1. \A x : Append(<<>>, x) = <<x>>
        OBVIOUS
      <4>. QED BY <1>4, <1>5, <3>1, <4>1
    <3>3. Len(told'[c]) = 1 /\ told'[c][1] = job[j].answer.after
      BY <3>2
    <3>. QED BY <1>2, <1>4, <1>5, <3>1, <3>3
  <2>. QED BY <2>2, <2>3
<1>6. screen'[c] = "done" => posting'[c] # NotPosted
  <2>1. screen[c] = "done" => Posted(c)
    BY <1>1 DEF PlayerIsToldOnce, Posted
  <2>2. (\E j \in Job : Receive(j) /\ job[j].card = c) \/ (screen'[c] = "done" => screen[c] = "done")
    BY <1>1 DEF TypeOK, Next, vars, committed, bot, Show, Age, PressOld, Cancel, Confirm, Lock, Serve,
          Commit, Refuse, Fail, Wait, TimeOut, ReceiveError, GaveUp, Receive, RestartBot, PlayElsewhere
  <2>. QED BY <1>2, <1>4, <2>1, <2>2
<1>. QED BY <1>3, <1>5, <1>6, OnlyReceiveTells

-----------------------------------------------------------------------------
LEMMA InitIInv == Init => IInv
<1> SUFFICES ASSUME Init PROVE IInv
  OBVIOUS
<1>1. TypeOK
  <2>1. NotPosted \in [delta : Deltas \cup {0}, after : Nat]
    BY DEF NotPosted
  <2>. QED BY <2>1, IdleType, AdminAssumption DEF Init, TypeOK, JobType, AnswerType
<1>2. Idle.pc = "idle" /\ ~Idle.heard
  BY DEF Idle
<1>3. AuditTellsTheBook /\ CardsOK /\ ToldOK
  BY <1>1 DEF Init, AuditTellsTheBook, CardsOK, ToldOK, Posted
<1>4. WalletOK /\ RequestsOK /\ WaitsOK /\ AnswersOK
  BY <1>2 DEF Init, WalletOK, RequestsOK, WaitsOK, AnswersOK
<1>5. PlayerIsToldOnce
  <2>1. \A c \in Card : told[c] = <<>> /\ screen[c] = "none"
    BY DEF Init
  <2>2. \A s : s = <<>> => Len(s) <= 1
    OBVIOUS
  <2>3. \A c \in Card : Len(told[c]) <= 1
    BY <2>1, <2>2
  <2>. QED BY <2>1, <2>3 DEF PlayerIsToldOnce
<1>. QED BY <1>3, <1>4, <1>5 DEF IInv

LEMMA AlwaysIInv == Spec => []IInv
<1>1. IInv /\ [Next]_vars => IInv'
  BY AuditStep, CardsStep, WalletStep, RequestsStep, WaitsStep, AnswersStep, ToldStep DEF IInv
<1>. QED BY <1>1, InitIInv, PTL DEF Spec

\* Every adjustment has one audit line, with the balances before and after that very
\* posting, however often and with whatever delays its card was confirmed.
THEOREM AuditAlwaysTellsTheBook == Spec => []AuditTellsTheBook
<1>1. IInv => AuditTellsTheBook
  BY DEF IInv
<1>. QED BY <1>1, AlwaysIInv, PTL

\* The player hears of an adjustment at most once, and with the balance it left.
THEOREM PlayerIsOnlyToldOnce == Spec => []PlayerIsToldOnce
<1>1. IInv => PlayerIsToldOnce
  BY DEF IInv
<1>. QED BY <1>1, AlwaysIInv, PTL
=============================================================================
