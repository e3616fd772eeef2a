---------------------------- MODULE WalletProofs ----------------------------
(***************************************************************************)
(* Proofs about Wallet, for any sets of players, keys and sessions, any    *)
(* economy and any number of steps, about the leaderboard of a ledger, and *)
(* about the order in which all services take wallets and other locks.     *)
(***************************************************************************)
EXTENDS Wallet, Leaderboard, FiniteSetTheorems, WellFoundedInduction, TLAPS

-----------------------------------------------------------------------------
(***************************************************************************)
(* Calls.                                                                  *)
(***************************************************************************)

LEMMA GrantType == \A r \in GrantReason : Grant(r) \in Nat
BY EconomyAssumption DEF GrantReason, Grant

\* What every call looks like, whichever of the three kinds it is.
LEMMA CallType ==
    ASSUME NEW c \in Call
    PROVE  /\ c.user \in User /\ c.key \in Key
           /\ c.type \in {"delta", "game_settlement"} /\ c.reason \in Reason
           /\ c.delta \in Int /\ c.stake \in Nat /\ c.payout \in Nat
           /\ c.type = "delta" => c.stake = 0 /\ c.payout = 0
           /\ c.type = "game_settlement" => c.delta = 0 /\ c.reason = "game_stake"
<1>1. CASE \E u \in User, k \in Key, r \in Claims : c = DeltaCall(u, k, r, Grant(r))
  BY <1>1, GrantType, EconomyAssumption DEF DeltaCall, Reason, GrantReason
<1>2. CASE \E u \in User, k \in Key, a \in Adjustments : c = DeltaCall(u, k, a[1], a[2])
  <2>1. PICK u \in User, k \in Key, a \in Adjustments : c = DeltaCall(u, k, a[1], a[2])
    BY <1>2
  <2>2. a[1] \in GameReason /\ a[2] \in Int
    BY <2>1, EconomyAssumption
  <2>. QED BY <2>1, <2>2 DEF DeltaCall, Reason, GameReason
<1>3. CASE \E u \in User, k \in Key, r \in Rounds : c = RoundCall(u, k, r[1], r[2])
  <2>1. PICK u \in User, k \in Key, r \in Rounds : c = RoundCall(u, k, r[1], r[2])
    BY <1>3
  <2>2. r[1] \in Nat /\ r[2] \in Nat
    BY <2>1, EconomyAssumption
  <2>. QED BY <2>1, <2>2 DEF RoundCall, Reason, GameReason
<1>. QED BY <1>1, <1>2, <1>3 DEF Call

LEMMA RowType ==
    /\ EmptyRow \in Row
    /\ NoOperation \in [wallet : User \cup {Nobody}, type : {"delta", "game_settlement"}]
    /\ \A a \in {NoReply, Refused, Failed} :
          a \in [status : {"none", "applied", "replayed", "refused", "failed"},
                reason : Reason, delta : Int, after : Nat]
BY DEF EmptyRow, Row, Never, NoOperation, NoReply, Refused, Failed, Answer, Reason, GrantReason

-----------------------------------------------------------------------------
(***************************************************************************)
(* Entries written by one operation.                                       *)
(***************************************************************************)

Line == [key : Key, reason : Reason, delta : Int, after : Nat]

\* Appending an entry that continues from the last one keeps the chain, and the
\* balance the chain ends in becomes that of the entry.
LEMMA AppendChained ==
    ASSUME NEW b \in Seq(Line), NEW e \in Line, NEW last \in Nat,
           Chained(b),
           last = IF b = <<>> THEN 0 ELSE b[Len(b)].after,
           e.after = last + e.delta
    PROVE  /\ Append(b, e) \in Seq(Line)
           /\ Chained(Append(b, e))
           /\ Append(b, e) # <<>>
           /\ Append(b, e)[Len(Append(b, e))].after = e.after
<1>1. Append(b, e) \in Seq(Line) /\ Len(Append(b, e)) = Len(b) + 1
  OBVIOUS
<1>2. \A i \in 1..Len(b) : Append(b, e)[i] = b[i]
  OBVIOUS
<1>3. Append(b, e)[Len(b) + 1] = e
  OBVIOUS
<1>4. b = <<>> <=> Len(b) = 0
  OBVIOUS
<1>5. Chained(Append(b, e))
  <2> SUFFICES ASSUME NEW i \in 1..(Len(b) + 1)
               PROVE  Append(b, e)[i].after = Append(b, e)[i].delta
                        + IF i = 1 THEN 0 ELSE Append(b, e)[i - 1].after
    BY <1>1 DEF Chained
  <2>1. CASE i \in 1..Len(b)
    BY <2>1, <1>2 DEF Chained
  <2>2. CASE i = Len(b) + 1
    <3>1. CASE Len(b) = 0
      BY <2>2, <3>1, <1>3, <1>4 DEF Line
    <3>2. CASE Len(b) # 0
      <4>1. Append(b, e)[i - 1] = b[Len(b)] /\ i # 1
        BY <2>2, <3>2, <1>2
      <4>. QED BY <4>1, <2>2, <3>2, <1>3, <1>4 DEF Line
    <3>. QED BY <3>1, <3>2
  <2>. QED BY <2>1, <2>2
<1>. QED BY <1>1, <1>3, <1>5

LEMMA NetIsSum ==
    ASSUME NEW c \in Call
    PROVE  /\ c.type = "delta" => Net(c) = c.delta
           /\ c.type = "game_settlement" => Net(c) = c.payout - c.stake
BY CallType DEF Net

\* An allowed call leaves a balance that is not negative.
LEMMA AllowedIsCovered ==
    ASSUME NEW r \in Row, NEW c \in Call, NEW time, Allowed(r, c, time)
    PROVE  /\ r.balance - c.stake \in Nat
           /\ r.balance + c.delta \in Nat
           /\ r.balance + Net(c) \in Nat
BY CallType DEF Allowed, Net, Row

\* The book after an operation: the chain continues and ends in the new balance.
LEMMA WrittenChained ==
    ASSUME NEW b \in Seq(Line), NEW r \in Row, NEW c \in Call, NEW time,
           Allowed(r, c, time), Chained(b),
           r.balance = IF b = <<>> THEN 0 ELSE b[Len(b)].after
    PROVE  LET w == Written(b, r, c) IN
           /\ w \in Seq(Line)
           /\ Chained(w)
           /\ r.balance + Net(c) = IF w = <<>> THEN 0 ELSE w[Len(w)].after
<1> DEFINE w == Written(b, r, c)
           debit == Entry(c.key, "game_stake", -c.stake, r.balance - c.stake)
           credit == Entry(c.key, "game_payout", c.payout, r.balance - c.stake + c.payout)
           single == Entry(c.key, c.reason, c.delta, r.balance + c.delta)
           debited == Append(b, debit)
<1>1. /\ c.key \in Key /\ c.reason \in Reason
      /\ c.delta \in Int /\ c.stake \in Nat /\ c.payout \in Nat
      /\ c.type \in {"delta", "game_settlement"}
      /\ c.type = "delta" => c.stake = 0 /\ c.payout = 0
      /\ c.type = "game_settlement" => c.delta = 0
  BY CallType
<1>2. r.balance \in Nat
  BY DEF Row
<1>3. /\ r.balance - c.stake \in Nat
      /\ r.balance + c.delta \in Nat
  BY AllowedIsCovered
<1>4. CASE c.type = "delta"
  <2>1. single \in Line /\ single.after = r.balance + single.delta
    BY <1>1, <1>3 DEF Entry, Line
  <2>2. w = Append(b, single)
    BY <1>4 DEF Written
  <2>3. r.balance + Net(c) = single.after
    BY <1>4, NetIsSum DEF Entry
  <2>. HIDE DEF single
  <2>. QED BY <2>1, <2>2, <2>3, <1>2, AppendChained
<1>5. CASE c.type = "game_settlement" /\ c.stake > 0 /\ c.payout > 0
  <2>1. debit \in Line /\ debit.after = r.balance + debit.delta
    BY <1>1, <1>2, <1>3 DEF Entry, Line, Reason, GameReason
  <2>2. credit \in Line /\ credit.after = debit.after + credit.delta /\ debit.after \in Nat
    BY <1>1, <1>2, <1>3 DEF Entry, Line, Reason, GameReason
  <2>3. w = Append(debited, credit)
    BY <1>5 DEF Written
  <2>4. r.balance + Net(c) = credit.after
    BY <1>5, <1>1, <1>2, NetIsSum DEF Entry
  <2>5. /\ debited \in Seq(Line)
        /\ Chained(debited)
        /\ debited # <<>>
        /\ debited[Len(debited)].after = debit.after
    <3>. HIDE DEF debit
    <3>. QED BY <2>1, <1>2, AppendChained
  <2>. HIDE DEF debit, credit, debited
  <2>. QED BY <2>2, <2>3, <2>4, <2>5, AppendChained
<1>6. CASE c.type = "game_settlement" /\ c.stake > 0 /\ ~(c.payout > 0)
  <2>1. debit \in Line /\ debit.after = r.balance + debit.delta
    BY <1>1, <1>2, <1>3 DEF Entry, Line, Reason, GameReason
  <2>2. w = Append(b, debit)
    BY <1>6 DEF Written
  <2>3. r.balance + Net(c) = debit.after
    BY <1>6, <1>1, <1>2, NetIsSum DEF Entry
  <2>. HIDE DEF debit
  <2>. QED BY <2>1, <2>2, <2>3, <1>2, AppendChained
<1>7. CASE c.type = "game_settlement" /\ ~(c.stake > 0) /\ c.payout > 0
  <2>1. credit \in Line /\ credit.after = r.balance + credit.delta
    BY <1>7, <1>1, <1>2, <1>3 DEF Entry, Line, Reason, GameReason
  <2>2. w = Append(b, credit)
    BY <1>7 DEF Written
  <2>3. r.balance + Net(c) = credit.after
    BY <1>7, <1>1, <1>2, NetIsSum DEF Entry
  <2>. HIDE DEF credit
  <2>. QED BY <2>1, <2>2, <2>3, <1>2, AppendChained
<1>8. CASE c.type = "game_settlement" /\ ~(c.stake > 0) /\ ~(c.payout > 0)
  <2>1. w = b
    BY <1>8 DEF Written
  <2>2. r.balance + Net(c) = r.balance
    BY <1>8, <1>1, <1>2, NetIsSum
  <2>. QED BY <2>1, <2>2
<1>. QED BY <1>1, <1>4, <1>5, <1>6, <1>7, <1>8

\* The lines an operation adds: at most two, all under its key; two only for a
\* round, the stake first; and a welcome line only alone and only for a welcome claim.
LEMMA WrittenLines ==
    ASSUME NEW b \in Seq(Line), NEW r \in Row, NEW c \in Call
    PROVE  LET w == Written(b, r, c) IN
           /\ Len(w) \in Len(b)..(Len(b) + 2)
           /\ DOMAIN w = 1..Len(w)
           /\ \A i \in 1..Len(b) : w[i] = b[i]
           /\ \A i \in (Len(b) + 1)..Len(w) :
                 /\ w[i].key = c.key
                 /\ c.type = "delta" => w[i].reason = c.reason
                 /\ c.type = "game_settlement" => w[i].reason \in {"game_stake", "game_payout"}
           /\ c.type = "delta" => Len(w) = Len(b) + 1
           /\ Len(w) = Len(b) + 2 => /\ c.type = "game_settlement"
                                     /\ w[Len(b) + 1].reason = "game_stake"
                                     /\ w[Len(b) + 2].reason = "game_payout"
<1>1. c.type \in {"delta", "game_settlement"}
  BY CallType
<1>. QED BY <1>1 DEF Written, Entry

-----------------------------------------------------------------------------
(***************************************************************************)
(* Answers and steps.                                                      *)
(***************************************************************************)

ReplyType == [status : {"none", "applied", "replayed", "refused", "failed"},
              reason : Reason, delta : Int, after : Nat]

\* Whatever order the entries come in, a replayed answer is well-formed.
LEMMA RebuiltType ==
    ASSUME TypeOK, NEW c \in Call
    PROVE  Rebuilt(c) \subseteq ReplyType
<1>1. c.user \in User /\ c.reason \in Reason
  BY CallType
<1>2. book[c.user] \in Seq(Line)
  BY <1>1 DEF TypeOK, Line
<1>3. \A i \in Lines(c.user, c.key) :
         /\ book[c.user][i].reason \in Reason
         /\ book[c.user][i].delta \in Int
         /\ book[c.user][i].after \in Nat
  <2>1. \A i \in DOMAIN book[c.user] : book[c.user][i] \in Line
    BY <1>2
  <2>. QED BY <2>1 DEF Lines, Line
<1>4. ASSUME NEW reason PROVE Stored(c.user, c.key, reason) \in Int
  <2> DEFINE found == {i \in Lines(c.user, c.key) : book[c.user][i].reason = reason}
  <2>1. CASE found = {}
    BY <2>1 DEF Stored
  <2>2. CASE found # {}
    <3>1. (CHOOSE i \in found : TRUE) \in Lines(c.user, c.key)
      BY <2>2
    <3>2. Stored(c.user, c.key, reason) = book[c.user][CHOOSE i \in found : TRUE].delta
      BY <2>2 DEF Stored
    <3>. QED BY <3>1, <3>2, <1>3
  <2>. QED BY <2>1, <2>2
<1>5. Stored(c.user, c.key, "game_stake") + Stored(c.user, c.key, "game_payout") \in Int
  BY <1>4
<1>. QED BY <1>1, <1>3, <1>5 DEF Rebuilt, Answer, ReplyType

\* Only a commit writes to the tables.
Reads(s) == \/ Begin(s) \/ Lock(s) \/ Miss(s) \/ Replay(s) \/ Refuse(s)
            \/ Insert(s) \/ Conflict(s) \/ Lose(s)

LEMMA StepKinds ==
    ASSUME [Next]_vars
    PROVE  \/ UNCHANGED vars
           \/ Tick
           \/ \E s \in Session : Reads(s)
           \/ \E s \in Session : Commit(s)
BY DEF Next, Step, Reads

LEMMA ReadsOnly ==
    ASSUME NEW s \in Session, Reads(s)
    PROVE  wallet' = wallet /\ operation' = operation /\ book' = book /\ now' = now
BY DEF Reads, Begin, Lock, Miss, Replay, Refuse, Insert, Conflict, Lose, End, committed

\* A commit writes the wallet its transaction locked, starting from what is
\* committed there, and the book it leaves explains the balance it leaves.
LEMMA CommitWrites ==
    ASSUME Inductive, NEW s \in Session, Commit(s)
    PROVE  LET c == call[s]
               w == Written(book[c.user], row[s], c)
           IN  /\ c \in Call
               /\ c.user \in User /\ c.key \in Key
               /\ row[s] = wallet[c.user]
               /\ row[s] \in Row
               /\ book[c.user] \in Seq(Line)
               /\ Allowed(row[s], c, at[s])
               /\ operation[c.key] = NoOperation
               /\ w \in Seq(Line)
               /\ Chained(w)
               /\ row[s].balance + Net(c) = IF w = <<>> THEN 0 ELSE w[Len(w)].after
               /\ row[s].balance + Net(c) \in Nat
               /\ book' = [book EXCEPT ![c.user] = w]
               /\ operation' = [operation EXCEPT ![c.key] =
                                   [wallet |-> c.user, type |-> c.type]]
<1> DEFINE c == call[s]
           w == Written(book[c.user], row[s], c)
<1>1. pc[s] = "inserted" /\ pc[s] \in Holding
  BY DEF Commit, Holding
<1>2. c \in Call
  BY <1>1 DEF Inductive, TypeOK
<1>3. c.user \in User /\ c.key \in Key
  BY <1>2, CallType
<1>4. row[s] = wallet[c.user] /\ row[s] \in Row
  BY <1>1, <1>3 DEF Inductive, TypeOK, RowIsCurrent
<1>5. book[c.user] \in Seq(Line)
  BY <1>3 DEF Inductive, TypeOK, Line
<1>6. Allowed(row[s], c, at[s]) /\ operation[c.key] = NoOperation
  BY <1>1 DEF Inductive, InsertedMayCommit
<1>7. /\ Chained(book[c.user])
      /\ row[s].balance = IF book[c.user] = <<>> THEN 0
                          ELSE book[c.user][Len(book[c.user])].after
  BY <1>3, <1>4 DEF Inductive, BookExplainsBalance
<1>8. /\ w \in Seq(Line)
      /\ Chained(w)
      /\ row[s].balance + Net(c) = IF w = <<>> THEN 0 ELSE w[Len(w)].after
  <2>. HIDE DEF c
  <2>. QED BY <1>2, <1>4, <1>5, <1>6, <1>7, WrittenChained
<1>9. row[s].balance + Net(c) \in Nat
  <2>. HIDE DEF c
  <2>. QED BY <1>2, <1>4, <1>6, AllowedIsCovered
<1>10. /\ book' = [book EXCEPT ![c.user] = w]
       /\ operation' = [operation EXCEPT ![c.key] = [wallet |-> c.user, type |-> c.type]]
  BY DEF Commit
<1>. QED BY <1>2, <1>3, <1>4, <1>5, <1>6, <1>8, <1>9, <1>10

-----------------------------------------------------------------------------
(***************************************************************************)
(* The inductive invariant, one lemma per conjunct.                        *)
(***************************************************************************)

LEMMA InitInductive == Init => Inductive
<1> SUFFICES ASSUME Init PROVE Inductive
  OBVIOUS
<1>1. TypeOK
  <2>1. NoReply \in ReplyType /\ EmptyRow \in Row
    BY RowType DEF ReplyType
  <2>2. NoOperation \in [wallet : User \cup {Nobody}, type : {"delta", "game_settlement"}]
    BY RowType
  <2>. QED BY <2>1, <2>2 DEF Init, TypeOK, ReplyType
<1>2. LockIsExclusive /\ RowIsCurrent /\ InsertedMayCommit
  BY DEF Init, LockIsExclusive, RowIsCurrent, InsertedMayCommit, Holding
<1>3. BookExplainsBalance
  BY DEF Init, BookExplainsBalance, Chained, EmptyRow
<1>4. OnePostingPerKey /\ WelcomeIsStamped /\ WelcomeOnce
  BY DEF Init, OnePostingPerKey, WelcomeIsStamped, WelcomeOnce
<1>. QED BY <1>1, <1>2, <1>3, <1>4 DEF Inductive

\* The end of a transaction keeps the types when its answer is well-formed.
LEMMA EndType ==
    ASSUME TypeOK, NEW s \in Session, NEW answer \in ReplyType, End(s, answer)
    PROVE  /\ pc' \in [Session -> {"idle", "begun", "locked", "checked", "inserted"}]
           /\ \A t \in Session : pc'[t] # "idle" => pc[t] # "idle" /\ pc'[t] = pc[t]
           /\ at' \in [Session -> Nat]
           /\ row' \in [Session -> Row]
           /\ reply' \in [Session -> ReplyType]
BY RowType DEF TypeOK, End, ReplyType

LEMMA TypeStep ==
    ASSUME Inductive, [Next]_vars
    PROVE  TypeOK'
<1>1. TypeOK
  BY DEF Inductive
<1>2. CASE UNCHANGED vars
  BY <1>1, <1>2 DEF vars, TypeOK
<1>3. CASE Tick
  <2>1. now' \in Nat
    BY <1>1, <1>3 DEF Tick, TypeOK
  <2>. QED BY <1>1, <1>3, <2>1 DEF Tick, committed, TypeOK
<1>4. ASSUME NEW s \in Session, Reads(s)
      PROVE  TypeOK'
  <2>1. CASE Begin(s)
    <3>1. NoReply \in ReplyType
      BY RowType DEF ReplyType
    <3>2. PICK c \in Call : call' = [call EXCEPT ![s] = c]
      BY <2>1 DEF Begin
    <3>3. /\ call' \in [Session -> Call \cup {NoCall}]
          /\ \A t \in Session : pc'[t] # "idle" => call'[t] \in Call
      BY <1>1, <2>1, <3>2 DEF Begin, TypeOK
    <3>4. /\ pc' \in [Session -> {"idle", "begun", "locked", "checked", "inserted"}]
          /\ at' \in [Session -> Nat]
          /\ row' \in [Session -> Row]
          /\ reply' \in [Session -> ReplyType]
      BY <1>1, <2>1, <3>1 DEF Begin, TypeOK, ReplyType
    <3>. QED BY <1>1, <2>1, <3>3, <3>4 DEF Begin, committed, TypeOK, ReplyType
  <2>2. CASE Lock(s)
    <3>1. call[s].user \in User
      BY <1>1, <2>2, CallType DEF Lock, TypeOK
    <3>. QED BY <1>1, <2>2, <3>1 DEF Lock, committed, TypeOK
  <2>3. CASE Miss(s)
    BY <1>1, <2>3 DEF Miss, committed, TypeOK
  <2>4. CASE Insert(s)
    BY <1>1, <2>4 DEF Insert, committed, TypeOK
  <2>5. CASE \E answer \in ReplyType : End(s, answer) /\ call' = call
    <3>1. PICK answer \in ReplyType : End(s, answer) /\ call' = call
      BY <2>5
    <3>2. /\ pc' \in [Session -> {"idle", "begun", "locked", "checked", "inserted"}]
          /\ \A t \in Session : pc'[t] # "idle" => pc[t] # "idle" /\ pc'[t] = pc[t]
          /\ at' \in [Session -> Nat]
          /\ row' \in [Session -> Row]
          /\ reply' \in [Session -> ReplyType]
      BY <1>1, <3>1, EndType
    <3>3. wallet' = wallet /\ operation' = operation /\ book' = book /\ now' = now
      BY <1>4, ReadsOnly
    <3>. QED BY <1>1, <3>1, <3>2, <3>3 DEF TypeOK, ReplyType
  <2>6. {Refused, Failed} \subseteq ReplyType
    BY RowType DEF ReplyType
  <2>7. CASE Replay(s)
    <3>1. call[s] \in Call
      BY <1>1, <2>7 DEF Replay, TypeOK
    <3>2. Rebuilt(call[s]) \subseteq ReplyType
      BY <1>1, <3>1, RebuiltType
    <3>. QED BY <2>5, <2>6, <2>7, <3>2 DEF Replay
  <2>8. CASE Refuse(s) \/ Conflict(s) \/ Lose(s)
    BY <2>5, <2>6, <2>8 DEF Refuse, Conflict, Lose
  <2>. QED BY <1>4, <2>1, <2>2, <2>3, <2>4, <2>7, <2>8 DEF Reads
<1>5. ASSUME NEW s \in Session, Commit(s)
      PROVE  TypeOK'
  <2> DEFINE c == call[s]
             w == Written(book[c.user], row[s], c)
             answer == Answer("applied", c.reason, Net(c), row[s].balance + Net(c))
  <2>1. /\ c \in Call /\ c.user \in User /\ c.key \in Key
        /\ row[s] \in Row
        /\ w \in Seq(Line)
        /\ row[s].balance + Net(c) \in Nat
        /\ book' = [book EXCEPT ![c.user] = w]
        /\ operation' = [operation EXCEPT ![c.key] = [wallet |-> c.user, type |-> c.type]]
    BY <1>5, CommitWrites
  <2>2. c.reason \in Reason /\ c.type \in {"delta", "game_settlement"} /\ Net(c) \in Int
    <3>. HIDE DEF c
    <3>. QED BY <2>1, CallType DEF Net
  <2>3. answer \in ReplyType
    BY <2>1, <2>2 DEF Answer, ReplyType
  <2>4. End(s, answer) /\ call' = call /\ now' = now
    BY <1>5 DEF Commit
  <2>5. /\ pc' \in [Session -> {"idle", "begun", "locked", "checked", "inserted"}]
        /\ \A t \in Session : pc'[t] # "idle" => pc[t] # "idle" /\ pc'[t] = pc[t]
        /\ at' \in [Session -> Nat]
        /\ row' \in [Session -> Row]
        /\ reply' \in [Session -> ReplyType]
    <3>. HIDE DEF answer
    <3>. QED BY <1>1, <2>3, <2>4, EndType
  <2>6. wallet' \in [User -> Row]
    <3>1. at[s] \in Nat
      BY <1>1 DEF TypeOK
    <3>. QED BY <1>1, <1>5, <2>1, <3>1 DEF Commit, Row, TypeOK
  <2>7. book' \in [User -> Seq(Line)]
    <3>1. book \in [User -> Seq(Line)]
      BY <1>1 DEF TypeOK, Line
    <3>. HIDE DEF w
    <3>. QED BY <2>1, <3>1
  <2>8. operation' \in [Key -> [wallet : User \cup {Nobody}, type : {"delta", "game_settlement"}]]
    BY <1>1, <2>1, <2>2 DEF TypeOK
  <2>. QED BY <1>1, <2>4, <2>5, <2>6, <2>7, <2>8 DEF TypeOK, ReplyType, Line
<1>. QED BY <1>2, <1>3, <1>4, <1>5, StepKinds

\* A step of one session leaves the other transactions alone; a session comes to
\* hold a row only by Lock and a key only by Insert, and Commit releases both.
LEMMA SessionStep ==
    ASSUME Inductive, NEW s \in Session, Reads(s) \/ Commit(s)
    PROVE  /\ \A t \in Session \ {s} :
                 /\ pc'[t] = pc[t] /\ call'[t] = call[t]
                 /\ at'[t] = at[t] /\ row'[t] = row[t]
           /\ pc'[s] \in Holding =>
                 /\ call'[s] = call[s]
                 /\ at'[s] = at[s]
                 /\ \/ pc[s] \in Holding /\ row'[s] = row[s]
                    \/ ~Locked(call[s].user) /\ row'[s] = wallet[call[s].user]
           /\ pc'[s] = "inserted" => Insert(s) /\ row'[s] = row[s]
           /\ Commit(s) => pc'[s] = "idle"
<1>1. TypeOK
  BY DEF Inductive
<1>2. CASE Begin(s)
  BY <1>1, <1>2 DEF Begin, Commit, Holding, TypeOK
<1>3. CASE Lock(s)
  BY <1>1, <1>3 DEF Lock, Commit, Holding, TypeOK
<1>4. CASE Miss(s)
  BY <1>1, <1>4 DEF Miss, Commit, Holding, TypeOK
<1>5. CASE Insert(s)
  BY <1>1, <1>5 DEF Insert, Commit, Holding, TypeOK
<1>6. CASE \E answer : End(s, answer) /\ call' = call
  BY <1>1, <1>6 DEF End, Holding, TypeOK
<1>7. CASE Replay(s) \/ Refuse(s) \/ Conflict(s) \/ Lose(s) \/ Commit(s)
  BY <1>6, <1>7 DEF Replay, Refuse, Conflict, Lose, Commit
<1>. QED BY <1>2, <1>3, <1>4, <1>5, <1>7 DEF Reads

LEMMA LockStep ==
    ASSUME Inductive, NEW s \in Session, Reads(s) \/ Commit(s)
    PROVE  LockIsExclusive'
<1>1. LockIsExclusive
  BY DEF Inductive
<1> SUFFICES ASSUME NEW t1 \in Session, NEW t2 \in Session,
                    pc'[t1] \in Holding, pc'[t2] \in Holding,
                    call'[t1].user = call'[t2].user,
                    t1 # t2, t2 # s
             PROVE  FALSE
  BY DEF LockIsExclusive, Holding
<1>2. pc[t2] \in Holding /\ call'[t2] = call[t2]
  BY SessionStep
<1>3. Locked(call[t2].user)
  BY <1>2 DEF Locked
<1>4. CASE t1 = s
  BY <1>1, <1>2, <1>3, <1>4, SessionStep DEF LockIsExclusive
<1>5. CASE t1 # s
  BY <1>1, <1>2, <1>5, SessionStep DEF LockIsExclusive
<1>. QED BY <1>4, <1>5

LEMMA RowStep ==
    ASSUME Inductive, NEW s \in Session, Reads(s) \/ Commit(s)
    PROVE  RowIsCurrent'
<1>1. RowIsCurrent /\ LockIsExclusive /\ TypeOK
  BY DEF Inductive
<1> SUFFICES ASSUME NEW t \in Session, pc'[t] \in Holding
             PROVE  row'[t] = wallet'[call'[t].user]
  BY DEF RowIsCurrent, Holding
<1>2. CASE Reads(s)
  BY <1>1, <1>2, SessionStep, ReadsOnly DEF RowIsCurrent
<1>3. CASE Commit(s)
  <2>1. t # s
    BY <1>3, SessionStep DEF Holding
  <2>2. pc[t] \in Holding /\ call'[t] = call[t] /\ row'[t] = row[t]
    BY <2>1, SessionStep
  <2>3. pc[s] \in Holding
    BY <1>3 DEF Commit, Holding
  <2>4. call[t].user # call[s].user
    BY <1>1, <2>1, <2>2, <2>3 DEF LockIsExclusive
  <2>5. call[t].user \in User
    BY <1>1, <2>2, CallType DEF TypeOK, Holding
  <2>6. wallet'[call[t].user] = wallet[call[t].user]
    BY <1>1, <1>3, <2>4, <2>5 DEF Commit, TypeOK
  <2>. QED BY <1>1, <2>2, <2>6 DEF RowIsCurrent
<1>. QED BY <1>2, <1>3

LEMMA InsertedStep ==
    ASSUME Inductive, NEW s \in Session, Reads(s) \/ Commit(s)
    PROVE  InsertedMayCommit'
<1>1. InsertedMayCommit /\ TypeOK
  BY DEF Inductive
<1> SUFFICES ASSUME NEW t \in Session, pc'[t] = "inserted"
             PROVE  /\ operation'[call'[t].key] = NoOperation
                    /\ Allowed(row'[t], call'[t], at'[t])
                    /\ \A t2 \in Session :
                          (pc'[t2] = "inserted" /\ call'[t2].key = call'[t].key) => t2 = t
  BY DEF InsertedMayCommit
<1>2. /\ call'[t] = call[t] /\ at'[t] = at[t] /\ row'[t] = row[t]
      /\ t = s => Insert(s)
      /\ t # s => pc[t] = "inserted"
  BY SessionStep DEF Holding
<1>3. Allowed(row'[t], call'[t], at'[t])
  BY <1>1, <1>2 DEF InsertedMayCommit, Insert
<1>4. operation[call[t].key] = NoOperation
  BY <1>1, <1>2 DEF InsertedMayCommit, Insert
<1>5. operation'[call[t].key] = NoOperation
  <2>1. CASE Reads(s)
    BY <1>4, <2>1, ReadsOnly
  <2>2. CASE Commit(s)
    <3>1. t # s /\ pc[t] = "inserted" /\ pc[s] = "inserted"
      BY <1>2, <2>2, SessionStep DEF Commit
    <3>2. call[t].key # call[s].key
      BY <1>1, <3>1 DEF InsertedMayCommit
    <3>3. call[t].key \in Key
      BY <1>1, <3>1, CallType DEF TypeOK
    <3>. QED BY <1>1, <1>4, <2>2, <3>2, <3>3 DEF Commit, TypeOK
  <2>. QED BY <2>1, <2>2
<1>6. ASSUME NEW t2 \in Session, pc'[t2] = "inserted", call'[t2].key = call'[t].key, t2 # t
      PROVE  FALSE
  <2>1. /\ call'[t2] = call[t2]
        /\ t2 = s => Insert(s)
        /\ t2 # s => pc[t2] = "inserted"
    BY <1>6, SessionStep DEF Holding
  <2>. QED BY <1>1, <1>2, <1>6, <2>1 DEF InsertedMayCommit, Insert, KeyInFlight
<1>. QED BY <1>2, <1>3, <1>5, <1>6

LEMMA BalanceStep ==
    ASSUME Inductive, NEW s \in Session, Commit(s)
    PROVE  BookExplainsBalance'
<1> DEFINE c == call[s]
           w == Written(book[c.user], row[s], c)
<1>1. BookExplainsBalance /\ TypeOK
  BY DEF Inductive
<1>2. /\ c.user \in User
      /\ Chained(w)
      /\ row[s].balance + Net(c) = IF w = <<>> THEN 0 ELSE w[Len(w)].after
      /\ book' = [book EXCEPT ![c.user] = w]
  BY CommitWrites
<1> SUFFICES ASSUME NEW u \in User
             PROVE  /\ Chained(book'[u])
                    /\ wallet'[u].balance = IF book'[u] = <<>> THEN 0
                                            ELSE book'[u][Len(book'[u])].after
  BY DEF BookExplainsBalance, Chained
<1>3. CASE u = c.user
  <2>1. book'[u] = w
    BY <1>1, <1>2, <1>3 DEF TypeOK
  <2>2. wallet'[u].balance = row[s].balance + Net(c)
    BY <1>1, <1>2, <1>3 DEF Commit, TypeOK
  <2>. QED BY <1>2, <2>1, <2>2
<1>4. CASE u # c.user
  <2>1. book'[u] = book[u] /\ wallet'[u] = wallet[u]
    BY <1>1, <1>2, <1>4 DEF Commit, TypeOK
  <2>. QED BY <1>1, <2>1 DEF BookExplainsBalance
<1>. QED BY <1>3, <1>4

\* A commit uses a key that no entry has yet, and leaves other wallets' books alone.
LEMMA CommitElsewhere ==
    ASSUME Inductive, NEW s \in Session, Commit(s), NEW u \in User
    PROVE  /\ u # call[s].user => book'[u] = book[u]
           /\ Len(book[u]) \in Nat /\ DOMAIN book[u] = 1..Len(book[u])
           /\ \A i \in DOMAIN book[u] :
                 /\ book[u][i].key # call[s].key
                 /\ operation'[book[u][i].key] = operation[book[u][i].key]
<1> DEFINE c == call[s]
           w == Written(book[c.user], row[s], c)
<1>1. TypeOK /\ OnePostingPerKey
  BY DEF Inductive
<1>2. /\ c.user \in User /\ c.key \in Key
      /\ operation[c.key] = NoOperation
      /\ book' = [book EXCEPT ![c.user] = w]
      /\ operation' = [operation EXCEPT ![c.key] = [wallet |-> c.user, type |-> c.type]]
  BY CommitWrites
<1>3. book[u] \in Seq(Line)
  BY <1>1 DEF TypeOK, Line
<1>4. ASSUME NEW i \in DOMAIN book[u]
      PROVE  /\ book[u][i].key # c.key
             /\ operation'[book[u][i].key] = operation[book[u][i].key]
  <2>1. operation[book[u][i].key].wallet = u
    BY <1>1 DEF OnePostingPerKey
  <2>2. book[u][i].key # c.key
    BY <1>2, <2>1, NobodyAssumption DEF NoOperation
  <2>3. book[u][i] \in Line
    BY <1>3
  <2>4. book[u][i].key \in Key
    BY <2>3 DEF Line
  <2>. QED BY <1>1, <1>2, <2>2, <2>4 DEF TypeOK
<1>5. u # c.user => book'[u] = book[u]
  BY <1>1, <1>2 DEF TypeOK
<1>6. Len(book[u]) \in Nat /\ DOMAIN book[u] = 1..Len(book[u])
  BY <1>3
<1>. QED BY <1>4, <1>5, <1>6

\* What a commit appends to the book of its own wallet.
LEMMA CommitAppends ==
    ASSUME Inductive, NEW s \in Session, Commit(s)
    PROVE  LET c == call[s]
               b == book[c.user]
               w == book'[c.user]
           IN  /\ Len(w) \in Len(b)..(Len(b) + 2)
               /\ DOMAIN w = 1..Len(w)
               /\ \A i \in 1..Len(b) : w[i] = b[i]
               /\ \A i \in (Len(b) + 1)..Len(w) :
                     /\ w[i].key = c.key
                     /\ c.type = "delta" => w[i].reason = c.reason
                     /\ c.type = "game_settlement" => w[i].reason \in {"game_stake", "game_payout"}
               /\ c.type = "delta" => Len(w) = Len(b) + 1
               /\ Len(w) = Len(b) + 2 => /\ c.type = "game_settlement"
                                         /\ w[Len(b) + 1].reason = "game_stake"
                                         /\ w[Len(b) + 2].reason = "game_payout"
               /\ operation'[c.key].wallet = c.user
               /\ operation'[c.key].type = c.type
<1> DEFINE c == call[s]
           w == Written(book[c.user], row[s], c)
<1>1. TypeOK
  BY DEF Inductive
<1>2. /\ c \in Call /\ c.user \in User /\ c.key \in Key /\ row[s] \in Row
      /\ book[c.user] \in Seq(Line)
      /\ book' = [book EXCEPT ![c.user] = w]
      /\ operation' = [operation EXCEPT ![c.key] = [wallet |-> c.user, type |-> c.type]]
  BY CommitWrites
<1>3. operation'[c.key].wallet = c.user /\ operation'[c.key].type = c.type
  BY <1>1, <1>2 DEF TypeOK
<1>4. book'[c.user] = w
  BY <1>1, <1>2 DEF TypeOK
<1>5. /\ Len(w) \in Len(book[c.user])..(Len(book[c.user]) + 2)
      /\ DOMAIN w = 1..Len(w)
      /\ \A i \in 1..Len(book[c.user]) : w[i] = book[c.user][i]
      /\ \A i \in (Len(book[c.user]) + 1)..Len(w) :
            /\ w[i].key = c.key
            /\ c.type = "delta" => w[i].reason = c.reason
            /\ c.type = "game_settlement" => w[i].reason \in {"game_stake", "game_payout"}
      /\ c.type = "delta" => Len(w) = Len(book[c.user]) + 1
      /\ Len(w) = Len(book[c.user]) + 2 =>
            /\ c.type = "game_settlement"
            /\ w[Len(book[c.user]) + 1].reason = "game_stake"
            /\ w[Len(book[c.user]) + 2].reason = "game_payout"
  <2>. HIDE DEF c
  <2>. QED BY <1>2, WrittenLines
<1>. HIDE DEF w
<1>. QED BY <1>3, <1>4, <1>5

LEMMA PostingStep ==
    ASSUME Inductive, NEW s \in Session, Commit(s)
    PROVE  OnePostingPerKey'
<1> DEFINE own == call[s].user
           old == Len(book[own])
<1>1. OnePostingPerKey
  BY DEF Inductive
<1>2. own \in User
  BY CommitWrites
<1>3. /\ old \in Nat /\ DOMAIN book[own] = 1..old
      /\ Len(book'[own]) \in old..(old + 2)
      /\ DOMAIN book'[own] = 1..Len(book'[own])
  BY <1>2, CommitElsewhere, CommitAppends
<1>4. \A n \in 1..old : /\ book'[own][n] = book[own][n]
                        /\ book[own][n].key # call[s].key
                        /\ operation'[book[own][n].key] = operation[book[own][n].key]
  BY <1>2, <1>3, CommitElsewhere, CommitAppends
<1>5. \A n \in (old + 1)..Len(book'[own]) : book'[own][n].key = call[s].key
  BY CommitAppends
<1>6. operation'[call[s].key].wallet = own
  BY CommitAppends
<1>7. Len(book'[own]) = old + 2 => /\ operation'[call[s].key].type = "game_settlement"
                                   /\ book'[own][old + 1].reason = "game_stake"
                                   /\ book'[own][old + 2].reason = "game_payout"
  BY CommitAppends
<1>8. ASSUME NEW u \in User, NEW i \in DOMAIN book'[u]
      PROVE  /\ operation'[book'[u][i].key].wallet = u
             /\ \A j \in DOMAIN book'[u] :
                   (i < j /\ book'[u][i].key = book'[u][j].key) =>
                       /\ j = i + 1
                       /\ operation'[book'[u][i].key].type = "game_settlement"
                       /\ book'[u][i].reason = "game_stake"
                       /\ book'[u][j].reason = "game_payout"
  <2>1. CASE u # own
    <3>1. book'[u] = book[u]
      BY <2>1, CommitElsewhere
    <3>2. operation'[book[u][i].key] = operation[book[u][i].key]
      BY <1>8, <3>1, CommitElsewhere
    <3>. QED BY <1>1, <1>8, <3>1, <3>2 DEF OnePostingPerKey
  <2>2. CASE u = own /\ i \in 1..old
    <3>1. ASSUME NEW j \in DOMAIN book'[own], book'[own][i].key = book'[own][j].key
          PROVE  j \in 1..old
      <4>1. j \notin (old + 1)..Len(book'[own])
        BY <1>4, <1>5, <2>2, <3>1
      <4>. HIDE DEF old
      <4>. QED BY <1>3, <4>1
    <3>2. /\ operation[book[own][i].key].wallet = own
          /\ \A j \in 1..old :
                (i < j /\ book[own][i].key = book[own][j].key) =>
                    /\ j = i + 1
                    /\ operation[book[own][i].key].type = "game_settlement"
                    /\ book[own][i].reason = "game_stake"
                    /\ book[own][j].reason = "game_payout"
      BY <1>1, <1>2, <1>3, <2>2 DEF OnePostingPerKey
    <3>. HIDE DEF old, own
    <3>. QED BY <1>4, <2>2, <3>1, <3>2
  <2>3. CASE u = own /\ i \notin 1..old
    <3>. HIDE DEF old, own
    <3>1. i \in (old + 1)..Len(book'[own])
      BY <1>3, <1>8, <2>3
    <3>2. ASSUME NEW j \in DOMAIN book'[own], i < j
          PROVE  Len(book'[own]) = old + 2 /\ i = old + 1 /\ j = old + 2
      BY <1>3, <3>1, <3>2
    <3>3. book'[own][i].key = call[s].key
      BY <1>5, <3>1
    <3>4. ASSUME NEW j \in DOMAIN book'[own], i < j
          PROVE  /\ j = i + 1
                 /\ operation'[book'[own][i].key].type = "game_settlement"
                 /\ book'[own][i].reason = "game_stake"
                 /\ book'[own][j].reason = "game_payout"
      BY <1>3, <1>7, <3>2, <3>3, <3>4
    <3>. QED BY <1>6, <2>3, <3>3, <3>4
  <2>4. u = own \/ u # own
    OBVIOUS
  <2>. QED BY <2>1, <2>2, <2>3, <2>4
<1>. QED BY <1>8 DEF OnePostingPerKey

LEMMA WelcomeStep ==
    ASSUME Inductive, NEW s \in Session, Commit(s)
    PROVE  WelcomeIsStamped' /\ WelcomeOnce'
<1> DEFINE c == call[s]
           old == Len(book[c.user])
<1>1. TypeOK /\ WelcomeIsStamped /\ WelcomeOnce
  BY DEF Inductive
<1>2. /\ c \in Call /\ c.user \in User
      /\ row[s] = wallet[c.user]
      /\ Allowed(row[s], c, at[s])
  BY CommitWrites
<1>3. c.type \in {"delta", "game_settlement"}
  <2>. HIDE DEF c
  <2>. QED BY <1>2, CallType
<1>4. /\ old \in Nat /\ DOMAIN book[c.user] = 1..old
      /\ Len(book'[c.user]) \in old..(old + 2)
      /\ DOMAIN book'[c.user] = 1..Len(book'[c.user])
  BY <1>2, CommitElsewhere, CommitAppends
<1>5. \A i \in 1..old : book'[c.user][i] = book[c.user][i]
  BY CommitAppends
<1>6. \A i \in (old + 1)..Len(book'[c.user]) :
         book'[c.user][i].reason = "welcome" =>
            c.type = "delta" /\ c.reason = "welcome" /\ Len(book'[c.user]) = old + 1
  BY <1>3, CommitAppends
<1>7. wallet'[c.user].welcome <=> (wallet[c.user].welcome \/ c.reason = "welcome")
  BY <1>1, <1>2 DEF Commit, TypeOK
<1>8. \A u \in User : u # c.user => wallet'[u] = wallet[u] /\ book'[u] = book[u]
  BY <1>1, <1>2, CommitElsewhere DEF Commit, TypeOK
<1>9. c.reason = "welcome" => ~wallet[c.user].welcome
  BY <1>2 DEF Allowed
<1>10. ASSUME NEW i \in DOMAIN book'[c.user], book'[c.user][i].reason = "welcome"
       PROVE  /\ i \in 1..old => wallet[c.user].welcome /\ c.reason # "welcome"
              /\ i \notin 1..old => /\ c.reason = "welcome"
                                     /\ i = old + 1
  <2>1. CASE i \in 1..old
    BY <1>1, <1>2, <1>4, <1>5, <1>9, <1>10, <2>1 DEF WelcomeIsStamped
  <2>2. CASE i \notin 1..old
    <3>1. i \in (old + 1)..Len(book'[c.user])
      <4>. HIDE DEF old, c
      <4>. QED BY <1>4, <1>10, <2>2
    <3>. HIDE DEF old, c
    <3>. QED BY <1>4, <1>6, <1>10, <2>2, <3>1
  <2>. QED BY <2>1, <2>2
<1>11. WelcomeIsStamped'
  <2> SUFFICES ASSUME NEW u \in User, NEW i \in DOMAIN book'[u],
                      book'[u][i].reason = "welcome"
               PROVE  wallet'[u].welcome
    BY DEF WelcomeIsStamped
  <2>1. CASE u = c.user
    BY <1>7, <1>10, <2>1
  <2>2. CASE u # c.user
    BY <1>1, <1>8, <2>2 DEF WelcomeIsStamped
  <2>. QED BY <2>1, <2>2
<1>12. WelcomeOnce'
  <2> SUFFICES ASSUME NEW u \in User,
                      NEW i \in DOMAIN book'[u], NEW j \in DOMAIN book'[u],
                      book'[u][i].reason = "welcome", book'[u][j].reason = "welcome"
               PROVE  i = j
    BY DEF WelcomeOnce
  <2>1. CASE u # c.user
    BY <1>1, <1>8, <2>1 DEF WelcomeOnce
  <2>2. CASE u = c.user /\ c.reason = "welcome"
    BY <1>10, <2>2
  <2>3. CASE u = c.user /\ c.reason # "welcome"
    <3>1. i \in 1..old /\ j \in 1..old
      BY <1>10, <2>3
    <3>. QED BY <1>1, <1>2, <1>4, <1>5, <2>3, <3>1 DEF WelcomeOnce
  <2>. QED BY <2>1, <2>2, <2>3
<1>. QED BY <1>11, <1>12

\* The tables a step leaves alone keep what is said of them.
LEMMA TablesUnchanged ==
    ASSUME Inductive, wallet' = wallet, operation' = operation, book' = book
    PROVE  BookExplainsBalance' /\ OnePostingPerKey' /\ WelcomeIsStamped' /\ WelcomeOnce'
<1>1. BookExplainsBalance'
  BY DEF Inductive, BookExplainsBalance, Chained
<1>2. OnePostingPerKey'
  BY DEF Inductive, OnePostingPerKey
<1>3. WelcomeIsStamped' /\ WelcomeOnce'
  BY DEF Inductive, WelcomeIsStamped, WelcomeOnce
<1>. QED BY <1>1, <1>2, <1>3

\* A step that touches no session and no table keeps what is said of transactions.
LEMMA SessionsUnchanged ==
    ASSUME Inductive, UNCHANGED <<wallet, operation, pc, call, at, row>>
    PROVE  LockIsExclusive' /\ RowIsCurrent' /\ InsertedMayCommit'
BY DEF Inductive, LockIsExclusive, RowIsCurrent, InsertedMayCommit, Holding

LEMMA InductiveStep == Inductive /\ [Next]_vars => Inductive'
<1> SUFFICES ASSUME Inductive, [Next]_vars PROVE Inductive'
  OBVIOUS
<1>1. TypeOK'
  BY TypeStep
<1>2. CASE UNCHANGED vars \/ Tick
  <2>1. UNCHANGED <<wallet, operation, book, pc, call, at, row>>
    BY <1>2 DEF vars, Tick, committed
  <2>. QED BY <1>1, <2>1, TablesUnchanged, SessionsUnchanged DEF Inductive
<1>3. ASSUME NEW s \in Session, Reads(s) PROVE Inductive'
  BY <1>1, <1>3, ReadsOnly, TablesUnchanged, LockStep, RowStep, InsertedStep DEF Inductive
<1>4. ASSUME NEW s \in Session, Commit(s) PROVE Inductive'
  BY <1>1, <1>4, BalanceStep, PostingStep, WelcomeStep, LockStep, RowStep, InsertedStep
     DEF Inductive
<1>. QED BY <1>2, <1>3, <1>4, StepKinds

-----------------------------------------------------------------------------
(***************************************************************************)
(* Theorems.                                                               *)
(***************************************************************************)

\* Every reachable state satisfies the inductive invariant.
THEOREM AlwaysInductive == Spec => []Inductive
BY InitInductive, InductiveStep, PTL DEF Spec

\* Rows, entries, answers and transactions keep their types; in particular no
\* committed balance and no balance in the book is ever negative.
THEOREM TypeCorrect == Spec => []TypeOK
<1>1. Inductive => TypeOK
  BY DEF Inductive
<1>. QED BY <1>1, AlwaysInductive, PTL

\* The balance of a wallet is always explained by its unbroken chain of entries.
THEOREM BalanceExplained == Spec => []BookExplainsBalance
<1>1. Inductive => BookExplainsBalance
  BY DEF Inductive
<1>. QED BY <1>1, AlwaysInductive, PTL

\* A key moves money at most once, and only in the wallet of its operation.
THEOREM KeyPostedOnce == Spec => []OnePostingPerKey
<1>1. Inductive => OnePostingPerKey
  BY DEF Inductive
<1>. QED BY <1>1, AlwaysInductive, PTL

\* No wallet is ever paid a second welcome grant.
THEOREM WelcomePaidOnce == Spec => []WelcomeOnce
<1>1. Inductive => WelcomeOnce
  BY DEF Inductive
<1>. QED BY <1>1, AlwaysInductive, PTL

\* Daily bonuses and relief grants keep their distance, whoever races for them.
THEOREM GrantsSpaced == Spec => GrantsAreSpaced
<1> DEFINE A == \A u \in User :
        /\ Paid(u, "daily_bonus") =>
              /\ wallet[u].dailyAt = Never
                 \/ wallet'[u].dailyAt - wallet[u].dailyAt >= DailyCooldown
              /\ wallet'[u].dailyAt # Never
        /\ Paid(u, "relief") =>
              /\ wallet[u].reliefAt = Never
                 \/ wallet'[u].reliefAt - wallet[u].reliefAt >= ReliefCooldown
              /\ wallet'[u].reliefAt # Never
              /\ wallet[u].balance < ReliefThreshold
<1>1. Inductive /\ [Next]_vars => [A]_vars
  <2> SUFFICES ASSUME Inductive, [Next]_vars, NEW u \in User,
                      Paid(u, "daily_bonus") \/ Paid(u, "relief")
               PROVE  /\ Paid(u, "daily_bonus") =>
                            /\ wallet[u].dailyAt = Never
                               \/ wallet'[u].dailyAt - wallet[u].dailyAt >= DailyCooldown
                            /\ wallet'[u].dailyAt # Never
                      /\ Paid(u, "relief") =>
                            /\ wallet[u].reliefAt = Never
                               \/ wallet'[u].reliefAt - wallet[u].reliefAt >= ReliefCooldown
                            /\ wallet'[u].reliefAt # Never
                            /\ wallet[u].balance < ReliefThreshold
    OBVIOUS
  <2>1. TypeOK
    BY DEF Inductive
  <2>2. book[u] \in Seq(Line)
    BY <2>1 DEF TypeOK, Line
  <2>3. book'[u] # book[u]
    BY <2>2 DEF Paid
  <2>4. PICK s \in Session : Commit(s)
    BY <2>3, StepKinds, ReadsOnly DEF Tick, committed, vars
  <2> DEFINE c == call[s]
  <2>5. u = c.user
    BY <2>3, <2>4, CommitElsewhere
  <2>6. /\ c \in Call /\ Allowed(row[s], c, at[s]) /\ row[s] = wallet[u]
        /\ wallet[u] \in Row /\ at[s] \in Nat
    BY <2>1, <2>4, <2>5, CommitWrites DEF TypeOK
  <2>7. c.type \in {"delta", "game_settlement"}
    <3>. HIDE DEF c
    <3>. QED BY <2>6, CallType
  <2>8. ASSUME NEW reason \in {"daily_bonus", "relief"}, Paid(u, reason)
        PROVE  c.reason = reason
    <3>1. PICK i \in DOMAIN book'[u] : i > Len(book[u]) /\ book'[u][i].reason = reason
      BY <2>8 DEF Paid
    <3>2. /\ DOMAIN book'[u] = 1..Len(book'[u])
          /\ Len(book[u]) \in Nat
          /\ Len(book'[u]) \in Len(book[u])..(Len(book[u]) + 2)
          /\ \A n \in (Len(book[u]) + 1)..Len(book'[u]) :
                /\ c.type = "delta" => book'[u][n].reason = c.reason
                /\ c.type = "game_settlement" => book'[u][n].reason \in {"game_stake", "game_payout"}
      BY <2>4, <2>5, CommitAppends, CommitElsewhere
    <3>3. i \in (Len(book[u]) + 1)..Len(book'[u])
      BY <3>1, <3>2
    <3>. QED BY <2>7, <3>1, <3>2, <3>3
  <2>9. /\ wallet'[u].dailyAt = IF c.reason = "daily_bonus" THEN at[s] ELSE row[s].dailyAt
        /\ wallet'[u].reliefAt = IF c.reason = "relief" THEN at[s] ELSE row[s].reliefAt
    BY <2>1, <2>4, <2>5 DEF Commit, TypeOK
  <2>10. ASSUME Paid(u, "daily_bonus")
         PROVE  /\ wallet[u].dailyAt = Never
                   \/ wallet'[u].dailyAt - wallet[u].dailyAt >= DailyCooldown
                /\ wallet'[u].dailyAt # Never
    BY <2>6, <2>8, <2>9, <2>10 DEF Allowed, CooledDown, Never
  <2>11. ASSUME Paid(u, "relief")
         PROVE  /\ wallet[u].reliefAt = Never
                   \/ wallet'[u].reliefAt - wallet[u].reliefAt >= ReliefCooldown
                /\ wallet'[u].reliefAt # Never
                /\ wallet[u].balance < ReliefThreshold
    BY <2>6, <2>8, <2>9, <2>11 DEF Allowed, CooledDown, Never
  <2>. QED BY <2>10, <2>11
<1>. QED BY <1>1, AlwaysInductive, PTL DEF Spec, GrantsAreSpaced

-----------------------------------------------------------------------------
(***************************************************************************)
(* Answers.                                                                *)
(***************************************************************************)

\* Only a call can be confirmed, and an operation with a single entry has written it.
AnswersOK ==
    /\ \A s \in Session : Confirmed(s) => call[s] \in Call
    /\ \A k \in Key : (operation[k] # NoOperation /\ operation[k].type = "delta") =>
          operation[k].wallet \in User /\ Lines(operation[k].wallet, k) # {}
    /\ ReplyTellsTheBook

\* What a caller was told of a single-entry call is in the book.
Told(s) ==
    /\ \E i \in Lines(call[s].user, call[s].key) :
          LET line == book[call[s].user][i]
          IN  /\ line.reason = reply[s].reason
              /\ line.delta = reply[s].delta
              /\ line.after = reply[s].after
    /\ IsClaim(call[s]) => reply[s].reason = call[s].reason

\* Lines are only ever added to a book.
LEMMA LinesStay ==
    ASSUME Inductive, NEW s \in Session, Commit(s), NEW u \in User, NEW k
    PROVE  \A i \in Lines(u, k) : i \in Lines(u, k)' /\ book'[u][i] = book[u][i]
<1>1. CASE u # call[s].user
  BY <1>1, CommitElsewhere DEF Lines
<1>2. CASE u = call[s].user
  <2>1. /\ Len(book[u]) \in Nat /\ DOMAIN book[u] = 1..Len(book[u])
        /\ Len(book'[u]) \in Len(book[u])..(Len(book[u]) + 2)
        /\ DOMAIN book'[u] = 1..Len(book'[u])
        /\ \A i \in 1..Len(book[u]) : book'[u][i] = book[u][i]
    BY <1>2, CommitElsewhere, CommitAppends
  <2>. QED BY <2>1 DEF Lines
<1>. QED BY <1>1, <1>2

\* The line of a single-entry operation.
LEMMA SingleLine ==
    ASSUME Inductive, NEW s \in Session, Commit(s), call[s].type = "delta"
    PROVE  LET c == call[s] IN
           \E i \in Lines(c.user, c.key)' :
              book'[c.user][i] = Entry(c.key, c.reason, c.delta, row[s].balance + c.delta)
<1> DEFINE c == call[s]  b == book[c.user]
           line == Entry(c.key, c.reason, c.delta, row[s].balance + c.delta)
<1>1. /\ c.user \in User /\ b \in Seq(Line)
      /\ book' = [book EXCEPT ![c.user] = Written(b, row[s], c)]
  BY CommitWrites
<1>2. book'[c.user] = Append(b, line)
  BY <1>1 DEF Written, Inductive, TypeOK
<1>3. /\ Len(b) + 1 \in DOMAIN book'[c.user]
      /\ book'[c.user][Len(b) + 1] = line
  BY <1>1, <1>2
<1>4. line.key = c.key
  BY DEF Entry
<1>5. Len(b) + 1 \in Lines(c.user, c.key)'
  <2>1. /\ Commit(s) => call' = call
    BY DEF Commit
  <2>. QED BY <1>3, <1>4, <2>1 DEF Lines
<1>. QED BY <1>3, <1>5

LEMMA InitAnswers == Init => AnswersOK
BY DEF Init, AnswersOK, ReplyTellsTheBook, Confirmed, NoReply, Answer

\* A commit confirms its own call, and the earlier answers stay true.
LEMMA CommitAnswers ==
    ASSUME Inductive, AnswersOK, NEW s \in Session, Commit(s)
    PROVE  AnswersOK'
<1> DEFINE c == call[s]
<1>1. /\ c \in Call /\ c.user \in User /\ c.key \in Key /\ call' = call
      /\ operation' = [operation EXCEPT ![c.key] = [wallet |-> c.user, type |-> c.type]]
      /\ reply' = [reply EXCEPT ![s] = Answer("applied", c.reason, Net(c), row[s].balance + Net(c))]
  BY CommitWrites DEF Commit, End
<1>2. TypeOK
  BY DEF Inductive
<1>3. \A t \in Session : Confirmed(t)' => call'[t] \in Call
  <2>1. \A t \in Session \ {s} : reply'[t] = reply[t]
    BY <1>1
  <2>. QED BY <1>1, <2>1 DEF AnswersOK, Confirmed
<1>4. ASSUME NEW k \in Key, operation'[k] # NoOperation, operation'[k].type = "delta"
      PROVE  operation'[k].wallet \in User /\ Lines(operation[k].wallet, k)' # {}
  <2>1. CASE k = c.key
    <3>1. operation'[k].wallet = c.user /\ c.type = "delta"
      BY <1>1, <1>2, <1>4, <2>1 DEF TypeOK
    <3>. QED BY <1>1, <2>1, <3>1, SingleLine DEF Lines
  <2>2. CASE k # c.key
    <3>1. operation'[k] = operation[k]
      BY <1>1, <2>2
    <3>2. operation[k].wallet \in User
      BY <1>4, <3>1 DEF AnswersOK
    <3>3. Lines(operation[k].wallet, k) # {}
      BY <1>4, <3>1 DEF AnswersOK
    <3>4. Lines(operation[k].wallet, k)' = {i \in DOMAIN book'[operation[k].wallet] :
                                              book'[operation[k].wallet][i].key = k}
      BY <3>1 DEF Lines
    <3>. QED BY <3>1, <3>2, <3>3, <3>4, LinesStay DEF Lines
  <2>. QED BY <2>1, <2>2
<1>5. ASSUME NEW t \in Session, Confirmed(t)', call'[t].type = "delta"
      PROVE  Told(t)'
  <2>1. CASE t = s
    <3>1. reply'[t] = Answer("applied", c.reason, Net(c), row[s].balance + Net(c))
      BY <1>1, <1>2, <2>1 DEF TypeOK
    <3>2. Net(c) = c.delta
      <4>. HIDE DEF c
      <4>. QED BY <1>1, <1>5, <2>1, NetIsSum DEF c
    <3>3. \E i \in Lines(c.user, c.key)' :
             book'[c.user][i] = Entry(c.key, c.reason, c.delta, row[s].balance + c.delta)
      BY <1>1, <1>5, <2>1, SingleLine
    <3>. QED BY <1>1, <2>1, <3>1, <3>2, <3>3 DEF Told, Lines, Answer, Entry
  <2>2. CASE t # s
    <3>1. reply'[t] = reply[t] /\ call'[t] = call[t]
      BY <1>1, <2>2
    <3>2. Confirmed(t) /\ call[t] \in Call /\ Told(t)
      BY <1>5, <3>1 DEF Confirmed, AnswersOK, ReplyTellsTheBook, Told
    <3>3. call[t].user \in User
      BY <3>2, CallType
    <3>4. \A i \in Lines(call[t].user, call[t].key) :
             /\ i \in Lines(call[t].user, call[t].key)'
             /\ book'[call[t].user][i] = book[call[t].user][i]
      <4> DEFINE u == call[t].user  k == call[t].key
      <4>1. \A i \in Lines(u, k) :
               /\ i \in {j \in DOMAIN book'[u] : book'[u][j].key = k}
               /\ book'[u][i] = book[u][i]
        <5>. HIDE DEF u, k
        <5>. QED BY <3>3, LinesStay DEF u, Lines
      <4>. QED BY <3>1, <4>1 DEF Lines
    <3>. QED BY <3>1, <3>2, <3>4 DEF Told, IsClaim
  <2>. QED BY <2>1, <2>2
<1>. QED BY <1>3, <1>4, <1>5 DEF AnswersOK, ReplyTellsTheBook, Told

\* The single line of a stored operation answers its call.
LEMMA ReplayAnswers ==
    ASSUME Inductive, AnswersOK, NEW s \in Session, Replay(s), call[s].type = "delta",
           reply'[s].status \in {"applied", "replayed"}
    PROVE  Told(s)'
<1> DEFINE c == call[s]  u == c.user  k == c.key
<1>1. TypeOK /\ pc[s] = "locked" /\ operation[k] # NoOperation
      /\ book' = book /\ call' = call
  BY DEF Inductive, Replay, committed
<1>2. c \in Call
  BY <1>1 DEF TypeOK
<1>3. u \in User /\ k \in Key
  <2>. HIDE DEF c
  <2>. QED BY <1>2, CallType
<1>4. ~End(s, Refused)
  BY <1>1 DEF End, Refused, Answer, TypeOK
<1>5. Answers(operation[k], c) /\ \E answer \in Rebuilt(c) : End(s, answer)
  BY <1>4 DEF Replay
<1>6. operation[k].wallet = u /\ operation[k].type = "delta"
  BY <1>5 DEF Answers
<1>7. Lines(u, k) # {}
  BY <1>1, <1>3, <1>6 DEF AnswersOK
<1>8. PICK i \in Lines(u, k) :
         End(s, Answer("replayed", book[u][i].reason, book[u][i].delta, book[u][i].after))
  BY <1>5, <1>7 DEF Rebuilt
<1>9. reply'[s] = Answer("replayed", book[u][i].reason, book[u][i].delta, book[u][i].after)
  BY <1>1, <1>8 DEF End, TypeOK
<1>10. \A j \in Lines(u, k) : j = i
  <2> SUFFICES ASSUME NEW j \in Lines(u, k), j # i PROVE FALSE
    OBVIOUS
  <2>1. book[u] \in Seq(Line)
    BY <1>1, <1>3 DEF TypeOK, Line
  <2>2. i \in DOMAIN book[u] /\ j \in DOMAIN book[u] /\ book[u][i].key = k /\ book[u][j].key = k
    BY DEF Lines
  <2>3. i < j \/ j < i
    BY <2>1, <2>2
  <2>. QED BY <1>3, <1>6, <2>2, <2>3 DEF Inductive, OnePostingPerKey
<1>11. IsClaim(c) => book[u][i].reason = c.reason
  BY <1>5, <1>10 DEF Answers
<1>12. /\ reply'[s].reason = book[u][i].reason /\ reply'[s].delta = book[u][i].delta
       /\ reply'[s].after = book[u][i].after
  BY <1>9 DEF Answer
<1>13. call'[s] = c /\ c.user = u /\ c.key = k
  BY <1>1
<1>14. i \in DOMAIN book'[u] /\ book'[u][i].key = k /\ book'[u][i] = book[u][i]
  BY <1>1 DEF Lines
<1>15. IsClaim(call[s])' => reply'[s].reason = call'[s].reason
  BY <1>11, <1>12, <1>13 DEF IsClaim
<1> HIDE DEF c, u, k
<1>. QED BY <1>12, <1>13, <1>14, <1>15 DEF Told, Lines

LEMMA NextAnswers == Inductive /\ AnswersOK /\ [Next]_vars => AnswersOK'
<1> SUFFICES ASSUME Inductive, AnswersOK, [Next]_vars PROVE AnswersOK'
  OBVIOUS
<1>1. TypeOK
  BY DEF Inductive
<1>2. CASE UNCHANGED vars \/ Tick
  <2>1. UNCHANGED <<operation, book, call, reply>>
    BY <1>2 DEF vars, Tick, committed
  <2>. QED BY <2>1 DEF AnswersOK, ReplyTellsTheBook, Confirmed, IsClaim, Lines
<1>3. ASSUME NEW s \in Session, Commit(s) PROVE AnswersOK'
  BY <1>3, CommitAnswers
<1>4. ASSUME NEW s \in Session, Reads(s) PROVE AnswersOK'
  <2>1. operation' = operation /\ book' = book
    BY <1>4, ReadsOnly
  <2>2. \A t \in Session \ {s} : reply'[t] = reply[t] /\ call'[t] = call[t]
    BY <1>1, <1>4
       DEF Reads, Begin, Lock, Miss, Replay, Refuse, Insert, Conflict, Lose, End, TypeOK
  <2>3. \/ reply'[s].status \notin {"applied", "replayed"}
        \/ reply'[s] = reply[s] /\ call'[s] = call[s]
        \/ Replay(s)
    BY <1>1, <1>4
       DEF Reads, Begin, Lock, Miss, Refuse, Insert, Conflict, Lose, End, TypeOK,
           NoReply, Refused, Failed, Answer
  <2>4. Replay(s) => call'[s] = call[s] /\ call[s] \in Call
    BY <1>1 DEF Replay, TypeOK
  <2>5. \A t \in Session : Confirmed(t)' => call'[t] \in Call
    BY <2>2, <2>3, <2>4 DEF AnswersOK, Confirmed
  <2>6. \A k \in Key : (operation'[k] # NoOperation /\ operation'[k].type = "delta") =>
                          operation'[k].wallet \in User /\ Lines(operation[k].wallet, k)' # {}
    BY <2>1 DEF AnswersOK, Lines
  <2>7. ASSUME NEW t \in Session, Confirmed(t)', call'[t].type = "delta" PROVE Told(t)'
    <3>1. CASE reply'[t] = reply[t] /\ call'[t] = call[t]
      BY <2>1, <2>7, <3>1 DEF AnswersOK, ReplyTellsTheBook, Confirmed, Told, Lines, IsClaim
    <3>2. CASE t = s /\ Replay(s)
      BY <2>4, <2>7, <3>2, ReplayAnswers DEF Confirmed
    <3>. QED BY <2>2, <2>3, <2>7, <3>1, <3>2 DEF Confirmed
  <2>. QED BY <2>5, <2>6, <2>7 DEF AnswersOK, ReplyTellsTheBook, Told
<1>. QED BY <1>2, <1>3, <1>4, StepKinds

\* Who is told that a single-entry operation happened, at once or when it is repeated,
\* finds its entry in the book, and a claim is answered with its own grant.
THEOREM RepliesTellTheBook == Spec => []ReplyTellsTheBook
<1>1. Init => AnswersOK
  BY InitAnswers
<1>2. Inductive /\ AnswersOK /\ [Next]_vars => AnswersOK'
  BY NextAnswers
<1>3. AnswersOK => ReplyTellsTheBook
  BY DEF AnswersOK
<1>. QED BY <1>1, <1>2, <1>3, AlwaysInductive, PTL DEF Spec

-----------------------------------------------------------------------------
(***************************************************************************)
(* Refinement.                                                             *)
(***************************************************************************)

Deltas == {Grant(r) : r \in Claims} \cup {a[2] : a \in Adjustments}
          \cup {-r[1] : r \in Rounds} \cup {r[2] : r \in Rounds}

LEMMA CallMoves ==
    ASSUME NEW c \in Call
    PROVE  /\ c.type = "delta" => c.delta \in Deltas
           /\ c.type = "game_settlement" =>
                 /\ <<c.stake, c.payout>> \in Rounds
                 /\ -c.stake \in Deltas
                 /\ c.payout \in Deltas
<1>1. CASE \E u \in User, k \in Key, r \in Claims : c = DeltaCall(u, k, r, Grant(r))
  BY <1>1 DEF DeltaCall, Deltas
<1>2. CASE \E u \in User, k \in Key, a \in Adjustments : c = DeltaCall(u, k, a[1], a[2])
  BY <1>2 DEF DeltaCall, Deltas
<1>3. CASE \E u \in User, k \in Key, r \in Rounds : c = RoundCall(u, k, r[1], r[2])
  <2>1. PICK u \in User, k \in Key, r \in Rounds : c = RoundCall(u, k, r[1], r[2])
    BY <1>3
  <2>2. r \in Nat \X Nat
    BY <2>1, EconomyAssumption
  <2>3. r = <<r[1], r[2]>>
    BY <2>2
  <2>. QED BY <2>1, <2>3 DEF RoundCall, Deltas
<1>. QED BY <1>1, <1>2, <1>3 DEF Call

\* The steps of the book, in terms of the tables of the wallet.
LEMMA OnePosted ==
    ASSUME NEW u \in User, NEW k \in Key, NEW reason \in Reason, NEW delta \in Deltas,
           [q \in Key |-> operation[q].wallet][k] = Nobody,
           [v \in User |-> wallet[v].balance][u] + delta >= 0,
           [v \in User |-> wallet[v].balance]' =
              [[v \in User |-> wallet[v].balance] EXCEPT
                 ![u] = [v \in User |-> wallet[v].balance][u] + delta],
           book' = [book EXCEPT ![u] = Append(book[u],
                      Entry(k, reason, delta, [v \in User |-> wallet[v].balance][u] + delta))],
           [q \in Key |-> operation[q].wallet]' =
              [[q \in Key |-> operation[q].wallet] EXCEPT ![k] = u]
    PROVE  Book!BookNext
<1>1. Book!PostOne(u, k, reason, delta)
  BY DEF Book!PostOne, Book!BookLine, Entry
<1>. QED BY <1>1 DEF Book!BookNext, Deltas

LEMMA RoundPosted ==
    ASSUME NEW u \in User, NEW k \in Key, NEW stake, NEW payout, <<stake, payout>> \in Rounds,
           [q \in Key |-> operation[q].wallet][k] = Nobody,
           [v \in User |-> wallet[v].balance][u] >= stake,
           [v \in User |-> wallet[v].balance]' =
              [[v \in User |-> wallet[v].balance] EXCEPT
                 ![u] = [v \in User |-> wallet[v].balance][u] - stake + payout],
           book' = [book EXCEPT ![u] = Append(Append(book[u],
              Entry(k, "game_stake", -stake, [v \in User |-> wallet[v].balance][u] - stake)),
              Entry(k, "game_payout", payout,
                    [v \in User |-> wallet[v].balance][u] - stake + payout))],
           [q \in Key |-> operation[q].wallet]' =
              [[q \in Key |-> operation[q].wallet] EXCEPT ![k] = u]
    PROVE  Book!BookNext
<1>1. Book!PostRound(u, k, stake, payout)
  BY DEF Book!PostRound, Book!BookLine, Entry
<1>2. PICK round \in Rounds : round = <<stake, payout>>
  OBVIOUS
<1>3. Book!PostRound(u, k, round[1], round[2])
  BY <1>1, <1>2
<1>. QED BY <1>3 DEF Book!BookNext

LEMMA NothingPosted ==
    ASSUME NEW u \in User, NEW k \in Key,
           [q \in Key |-> operation[q].wallet][k] = Nobody,
           [v \in User |-> wallet[v].balance]' = [v \in User |-> wallet[v].balance],
           book' = book,
           [q \in Key |-> operation[q].wallet]' =
              [[q \in Key |-> operation[q].wallet] EXCEPT ![k] = u]
    PROVE  Book!BookNext
<1>1. Book!PostNothing(u, k)
  BY DEF Book!PostNothing
<1>. QED BY <1>1 DEF Book!BookNext

LEMMA CommitPosts ==
    ASSUME Inductive, NEW s \in Session, Commit(s)
    PROVE  Book!BookNext
<1> DEFINE c == call[s]
           u == c.user
           k == c.key
           r == row[s]
           bal == [v \in User |-> wallet[v].balance]
           own == [q \in Key |-> operation[q].wallet]
<1>1. TypeOK
  BY DEF Inductive
<1>2. /\ c \in Call /\ u \in User /\ k \in Key
      /\ r = wallet[u] /\ r \in Row
      /\ Allowed(r, c, at[s])
      /\ operation[k] = NoOperation
      /\ book' = [book EXCEPT ![u] = Written(book[u], r, c)]
  BY CommitWrites
<1>3. /\ c.type \in {"delta", "game_settlement"} /\ c.reason \in Reason
      /\ c.delta \in Int /\ c.stake \in Nat /\ c.payout \in Nat
      /\ c.type = "delta" => c.delta \in Deltas /\ Net(c) = c.delta
      /\ c.type = "game_settlement" =>
            /\ <<c.stake, c.payout>> \in Rounds
            /\ -c.stake \in Deltas
            /\ c.payout \in Deltas
            /\ Net(c) = c.payout - c.stake
  <2>. HIDE DEF c
  <2>. QED BY <1>2, CallType, CallMoves, NetIsSum DEF u, k
<1>4. own[k] = Nobody /\ bal[u] = r.balance /\ r.balance \in Nat
  BY <1>2 DEF NoOperation, Row
<1>5. own' = [own EXCEPT ![k] = u]
  BY <1>1, <1>2 DEF Commit, TypeOK
<1>6. bal' = [bal EXCEPT ![u] = r.balance + Net(c)]
  BY <1>1, <1>2 DEF Commit, TypeOK
<1>7. r.balance + c.delta >= 0 /\ r.balance >= c.stake
  BY <1>2 DEF Allowed
<1>8. CASE c.type = "delta"
  <2>1. Written(book[u], r, c)
          = Append(book[u], Entry(k, c.reason, c.delta, r.balance + c.delta))
    BY <1>8 DEF Written
  <2>. HIDE DEF c, u, k, r, bal, own
  <2>2. /\ bal' = [bal EXCEPT ![u] = bal[u] + c.delta]
        /\ book' = [book EXCEPT ![u] =
                      Append(book[u], Entry(k, c.reason, c.delta, bal[u] + c.delta))]
        /\ bal[u] + c.delta >= 0
    BY <1>2, <1>3, <1>4, <1>6, <1>7, <1>8, <2>1
  <2>. QED BY <1>2, <1>3, <1>4, <1>5, <1>8, <2>2, OnePosted DEF bal, own
<1>9. CASE c.type = "game_settlement" /\ c.stake > 0 /\ c.payout > 0
  <2>1. Written(book[u], r, c)
          = Append(Append(book[u],
               Entry(k, "game_stake", -c.stake, r.balance - c.stake)),
               Entry(k, "game_payout", c.payout, r.balance - c.stake + c.payout))
    BY <1>9 DEF Written
  <2>2. r.balance + Net(c) = r.balance - c.stake + c.payout
    BY <1>3, <1>4, <1>9
  <2>. HIDE DEF c, u, k, r, bal, own
  <2>. QED BY <1>2, <1>3, <1>4, <1>5, <1>6, <1>7, <1>9, <2>1, <2>2, RoundPosted DEF bal, own
<1>10. CASE c.type = "game_settlement" /\ c.stake > 0 /\ ~(c.payout > 0)
  <2>1. Written(book[u], r, c)
          = Append(book[u], Entry(k, "game_stake", -c.stake, r.balance - c.stake))
    BY <1>10 DEF Written
  <2>2. /\ r.balance + Net(c) = r.balance + (-c.stake)
        /\ r.balance - c.stake = r.balance + (-c.stake)
        /\ r.balance + (-c.stake) >= 0
        /\ "game_stake" \in Reason
    BY <1>3, <1>4, <1>7, <1>10 DEF Reason, GameReason
  <2>. HIDE DEF c, u, k, r, bal, own
  <2>3. /\ bal' = [bal EXCEPT ![u] = bal[u] + (-c.stake)]
        /\ book' = [book EXCEPT ![u] =
                      Append(book[u], Entry(k, "game_stake", (-c.stake), bal[u] + (-c.stake)))]
        /\ bal[u] + (-c.stake) >= 0
    BY <1>2, <1>4, <1>6, <2>1, <2>2
  <2>. QED BY <1>2, <1>3, <1>4, <1>5, <1>10, <2>2, <2>3, OnePosted DEF bal, own
<1>11. CASE c.type = "game_settlement" /\ ~(c.stake > 0) /\ c.payout > 0
  <2>1. Written(book[u], r, c)
          = Append(book[u], Entry(k, "game_payout", c.payout, r.balance - c.stake + c.payout))
    BY <1>11 DEF Written
  <2>2. /\ r.balance + Net(c) = r.balance + c.payout
        /\ r.balance - c.stake + c.payout = r.balance + c.payout
        /\ r.balance + c.payout >= 0
        /\ "game_payout" \in Reason
    BY <1>3, <1>4, <1>11 DEF Reason, GameReason
  <2>. HIDE DEF c, u, k, r, bal, own
  <2>3. /\ bal' = [bal EXCEPT ![u] = bal[u] + c.payout]
        /\ book' = [book EXCEPT ![u] =
                      Append(book[u], Entry(k, "game_payout", c.payout, bal[u] + c.payout))]
        /\ bal[u] + c.payout >= 0
    BY <1>2, <1>4, <1>6, <2>1, <2>2
  <2>. QED BY <1>2, <1>3, <1>4, <1>5, <1>11, <2>2, <2>3, OnePosted DEF bal, own
<1>12. CASE c.type = "game_settlement" /\ ~(c.stake > 0) /\ ~(c.payout > 0)
  <2>1. book' = book
    BY <1>1, <1>2, <1>12 DEF Written, TypeOK
  <2>2. bal' = bal
    BY <1>2, <1>3, <1>4, <1>6, <1>12
  <2>. HIDE DEF c, u, k, r, bal, own
  <2>. QED BY <1>2, <1>4, <1>5, <2>1, <2>2, NothingPosted DEF bal, own
<1>. QED BY <1>3, <1>8, <1>9, <1>10, <1>11, <1>12

\* The transactional wallet keeps the promise of the book: every commit posts one
\* operation, and nothing else ever touches it.
THEOREM WalletRefinesBook == Spec => IsLedgerBook
<1>1. Init => Book!BookInit
  BY DEF Init, Book!BookInit, EmptyRow, NoOperation
<1>2. Inductive /\ [Next]_vars => [Book!BookNext]_(Book!bookVars)
  <2> SUFFICES ASSUME Inductive, [Next]_vars
               PROVE  [Book!BookNext]_(Book!bookVars)
    OBVIOUS
  <2>1. CASE UNCHANGED vars \/ Tick
    BY <2>1 DEF vars, Tick, committed, Book!bookVars
  <2>2. ASSUME NEW s \in Session, Reads(s) PROVE UNCHANGED Book!bookVars
    BY <2>2, ReadsOnly DEF Book!bookVars
  <2>3. ASSUME NEW s \in Session, Commit(s) PROVE Book!BookNext
    BY <2>3, CommitPosts
  <2>. QED BY <2>1, <2>2, <2>3, StepKinds
<1>. QED BY <1>1, <1>2, AlwaysInductive, PTL DEF Spec, IsLedgerBook, Book!BookSpec
-----------------------------------------------------------------------------
(***************************************************************************)
(* The leaderboard.  The list and the own place come from two queries that *)
(* have to agree: on one state of the ledger they do.                      *)
(***************************************************************************)
\* The players of the week are known by their ids.
IsResult(result) ==
    /\ DOMAIN result \subseteq Nat
    /\ IsFiniteSet(DOMAIN result)
    /\ \A u \in DOMAIN result : result[u] \in Int

\* The first n of the list.
First(rows, n) == {rows[i] : i \in 1..n}

\* Who is ahead of whom is a strict total order.
LEMMA AheadIsTotalOrder ==
    ASSUME NEW result, IsResult(result),
           NEW u \in DOMAIN result, NEW v \in DOMAIN result
    PROVE  /\ ~Ahead(result, u, u)
           /\ Ahead(result, u, v) => ~Ahead(result, v, u)
           /\ u # v => Ahead(result, u, v) \/ Ahead(result, v, u)
BY DEF IsResult, Ahead

\* The list names its players, in the order of their places.
LEMMA RowsAreOrdered ==
    ASSUME NEW result, IsResult(result), NEW rows, IsTop(rows, result)
    PROVE  /\ DOMAIN rows = 1..Len(rows) /\ Len(rows) \in 0..15
           /\ \A i \in 1..Len(rows) : rows[i] \in DOMAIN result
           /\ \A i, j \in 1..Len(rows) : i < j => /\ Ahead(result, rows[i], rows[j])
                                                  /\ rows[i] # rows[j]
<1>1. rows \in Seq(DOMAIN result) /\ Len(rows) <= 15
  BY DEF IsTop, TopSize
<1>2. /\ DOMAIN rows = 1..Len(rows) /\ Len(rows) \in 0..15
      /\ \A i \in 1..Len(rows) : rows[i] \in DOMAIN result
  <2>1. Len(rows) \in Nat /\ DOMAIN rows = 1..Len(rows)
    BY <1>1
  <2>2. \A i \in 1..Len(rows) : rows[i] \in DOMAIN result
    BY <1>1
  <2>3. Len(rows) \in 0..15
    <3>1. Len(rows) \in Nat /\ Len(rows) <= 15
      BY <1>1, <2>1
    <3>2. \A m \in Nat : m <= 15 => m \in 0..15
      OBVIOUS
    <3> QED
      BY <3>1, <3>2, Zenon
  <2> QED
    BY <2>1, <2>2, <2>3, Zenon
<1>3. \A i, j \in 1..Len(rows) : i < j => Ahead(result, rows[i], rows[j])
  BY <1>2, Zenon DEF IsTop
<1>4. ASSUME NEW i \in 1..Len(rows), NEW j \in 1..Len(rows), i < j
      PROVE  rows[i] # rows[j]
  BY <1>2, <1>3, <1>4, AheadIsTotalOrder
<1> QED
  BY <1>2, <1>3, <1>4

\* The first n of the list are n players.
LEMMA FirstAreDistinct ==
    ASSUME NEW result, IsResult(result), NEW rows, IsTop(rows, result),
           NEW n \in 0..Len(rows)
    PROVE  IsFiniteSet(First(rows, n)) /\ Cardinality(First(rows, n)) = n
<1> DEFINE f == [i \in 1..n |-> rows[i]]
<1>1. \A i, j \in 1..n : i < j => rows[i] # rows[j]
  BY RowsAreOrdered
<1>2. f \in Bijection(1..n, First(rows, n))
  <2>1. f \in [1..n -> First(rows, n)]
    BY DEF First
  <2>2. \A i, j \in 1..n : f[i] = f[j] => i = j
    BY <1>1, RowsAreOrdered
  <2>3. \A x \in First(rows, n) : \E i \in 1..n : f[i] = x
    BY DEF First
  <2> HIDE DEF f
  <2>4. f \in Injection(1..n, First(rows, n))
    BY <2>1, <2>2 DEF Injection, IsInjective
  <2>5. f \in Surjection(1..n, First(rows, n))
    BY <2>1, <2>3 DEF Surjection
  <2> QED
    BY <2>4, <2>5 DEF Bijection
<1>3. ExistsBijection(1..n, First(rows, n))
  BY <1>2 DEF ExistsBijection
<1>4. n \in Nat
  BY RowsAreOrdered
<1>5. IsFiniteSet(1..n) /\ Cardinality(1..n) = n
  BY <1>4, FS_Interval
<1> QED
  BY <1>3, <1>5, FS_Bijection

(***************************************************************************)
(* The place in the list is the place that the other query would count, so *)
(* that nobody jumps when the list gets longer or shorter.                 *)
(***************************************************************************)
THEOREM ListedPlaceIsOwnRank ==
    ASSUME NEW result, IsResult(result), NEW rows, IsTop(rows, result),
           NEW k \in 1..Len(rows)
    PROVE  OwnRank(result, rows[k]) = k
<1> DEFINE ahead == {v \in DOMAIN result : Ahead(result, v, rows[k])}
<1>1. /\ DOMAIN rows = 1..Len(rows) /\ Len(rows) \in 0..15
      /\ \A i \in 1..Len(rows) : rows[i] \in DOMAIN result
      /\ \A i, j \in 1..Len(rows) : i < j => Ahead(result, rows[i], rows[j])
  BY RowsAreOrdered
<1>2. First(rows, k - 1) \subseteq ahead
  BY <1>1 DEF First
<1>3. ASSUME NEW v \in ahead
      PROVE  v \in First(rows, k - 1)
  <2>1. PICK i \in 1..Len(rows) : rows[i] = v
    <3>1. ASSUME \A i \in DOMAIN rows : rows[i] # v
          PROVE  FALSE
      <4>1. Ahead(result, rows[k], v)
        BY <1>1, <3>1 DEF IsTop
      <4> QED
        BY <1>1, <4>1, AheadIsTotalOrder
    <3> QED
      BY <1>1, <3>1
  <2>2. i < k
    <3>1. i # k
      BY <1>1, <2>1, AheadIsTotalOrder
    <3>2. ~(k < i)
      BY <1>1, <2>1, AheadIsTotalOrder
    <3> QED
      BY <1>1, <3>1, <3>2
  <2> QED
    BY <1>1, <2>1, <2>2 DEF First
<1>4. ahead = First(rows, k - 1)
  BY <1>2, <1>3
<1>5. k - 1 \in 0..Len(rows)
  BY <1>1
<1>6. Cardinality(First(rows, k - 1)) = k - 1
  BY <1>5, FirstAreDistinct
<1>7. OwnRank(result, rows[k]) = Cardinality(ahead) + 1
  BY DEF OwnRank
<1> HIDE DEF ahead
<1> QED
  BY <1>1, <1>4, <1>6, <1>7

(***************************************************************************)
(* Whoever is not listed has a place behind all that are: the sixteenth or *)
(* a later one, which is all that LeaderboardOwnPlace allows for           *)
(* (burmaldoza_contracts/leaderboard.py).                                  *)
(***************************************************************************)
THEOREM OwnPlaceIsBehindTheList ==
    ASSUME NEW result, IsResult(result), NEW rows, IsTop(rows, result),
           NEW u \in DOMAIN result, \A i \in DOMAIN rows : rows[i] # u
    PROVE  OwnRank(result, u) \in Nat /\ OwnRank(result, u) > TopSize
<1> DEFINE ahead == {v \in DOMAIN result : Ahead(result, v, u)}
<1>1. Len(rows) = 15 /\ \A i \in DOMAIN rows : Ahead(result, rows[i], u)
  BY DEF IsTop, TopSize
<1>2. First(rows, 15) \subseteq ahead
  <2>1. \A i \in 1..15 : rows[i] \in DOMAIN result /\ Ahead(result, rows[i], u)
    BY <1>1, RowsAreOrdered
  <2> QED
    BY <2>1 DEF First
<1>3. Cardinality(First(rows, 15)) = 15
  <2>1. 15 \in 0..Len(rows)
    BY <1>1
  <2> QED
    BY <2>1, FirstAreDistinct
<1>4. IsFiniteSet(ahead)
  BY FS_Subset DEF IsResult
<1>5. Cardinality(ahead) \in Nat /\ 15 <= Cardinality(ahead)
  BY <1>2, <1>3, <1>4, FS_Subset, FS_CardinalityType
<1> QED
  BY <1>5 DEF OwnRank, TopSize

-----------------------------------------------------------------------------
(***************************************************************************)
(* Who waits for whom: the order in which the transactions of all services *)
(* take their locks (LockOrder), for any players, rooms and ids, and any   *)
(* number of requests at a time.  The sessions are those of the wallet.    *)
(***************************************************************************)
CONSTANTS Newcomer, HoldemRoom, TableRoom, SoloRoom, ActionId, NoId

VARIABLES users, welcomes, txn

L == INSTANCE LockOrder

\* All that transactions take.
Thing ==
    {L!Queue, L!Tables} \cup {L!RoomRow(r) : r \in L!Room} \cup {L!WalletRow(u) : u \in User}
    \cup {L!Action(a) : a \in ActionId} \cup {L!UserRow(u) : u \in User}

IsAction(x) == x[1] = "action"

\* Where a thing other than an id stands in the one global order.
Place(x) == IF x[1] = "process" THEN 0 ELSE IF x[1] = "wallet" THEN 2 + x[2] ELSE 1

\* y may be taken by who has x.
MayFollow(x, y) ==
    /\ y[1] # "process"
    /\ IsAction(x) => ~IsAction(y)
    /\ ~IsAction(x) /\ ~IsAction(y) => Place(x) < Place(y)

IsPlan(plan, id) ==
    /\ plan \in Seq(Thing)
    /\ \A i, j \in 1..Len(plan) : i < j => MayFollow(plan[i], plan[j])
    /\ \A i \in 1..Len(plan) : IsAction(plan[i]) => plan[i] = L!Action(id)

TxnType == [pc : {"off", "run", "insert", "welcome"}, user : User \cup {Nobody},
            id : ActionId \cup {NoId}, plan : Seq(Thing), held : SUBSET Thing]

\* What a transaction has and what it will take are in order, and it records one id.
InOrderOK ==
    \A s \in Session :
        /\ IsPlan(txn[s].plan, txn[s].id)
        /\ \A x \in txn[s].held :
              /\ \A i \in 1..Len(txn[s].plan) : MayFollow(x, txn[s].plan[i])
              /\ IsAction(x) => x = L!Action(txn[s].id)
        /\ txn[s].id = NoId => (\A x \in txn[s].held : ~IsAction(x))
                               /\ \A i \in 1..Len(txn[s].plan) : ~IsAction(txn[s].plan[i])

LoginOK ==
    \A s \in Session :
        /\ txn[s].pc = "insert" => txn[s].user \in User /\ txn[s].held = {} /\ txn[s].plan = <<>>
        /\ txn[s].pc = "welcome" => /\ txn[s].user \in User \ users
                                    /\ L!UserRow(txn[s].user) \in txn[s].held

LockInv ==
    /\ L!TypeOK /\ txn \in [Session -> TxnType]
    /\ InOrderOK /\ LoginOK /\ L!EveryUserIsWelcomedOnce

-----------------------------------------------------------------------------
LEMMA SameSizes == \A S : L!IsFiniteSet(S) = IsFiniteSet(S) /\ L!Cardinality(S) = Cardinality(S)
<1>1. \A S : L!IsFiniteSet(S) = IsFiniteSet(S)
  BY DEF L!IsFiniteSet, IsFiniteSet
<1>2. \A S : L!Cardinality(S) = Cardinality(S)
  BY DEF L!Cardinality, Cardinality
<1>. QED BY <1>1, <1>2

\* sorted(...) finds its order.
LEMMA SortedIsIncreasing ==
    ASSUME NEW S \in SUBSET Nat, IsFiniteSet(S)
    PROVE  /\ Cardinality(S) \in Nat
           /\ L!Sorted(S) \in [1..Cardinality(S) -> S]
           /\ \A i, j \in 1..Cardinality(S) : i < j => L!Sorted(S)[i] < L!Sorted(S)[j]
<1> DEFINE n == Cardinality(S)
           upTo(x) == {y \in S : y <= x}
           rank == [x \in S |-> Cardinality(upTo(x))]
<1>0. \A x \in S : x \in Int
  OBVIOUS
<1>1. n \in Nat
  BY FS_CardinalityType
<1>2. \A x \in S : IsFiniteSet(upTo(x)) /\ rank[x] \in 1..n
  <2> TAKE x \in S
  <2>1. IsFiniteSet(upTo(x)) /\ Cardinality(upTo(x)) <= n
    BY FS_Subset
  <2>2. Cardinality(upTo(x)) \in Nat /\ Cardinality(upTo(x)) # 0
    <3>1. x \in upTo(x)
      OBVIOUS
    <3>. QED BY <2>1, <3>1, FS_CardinalityType, FS_EmptySet
  <2>. QED BY <1>1, <2>1, <2>2
<1>3. \A x, y \in S : x < y => rank[x] < rank[y]
  <2> SUFFICES ASSUME NEW x \in S, NEW y \in S, x < y PROVE rank[x] < rank[y]
    OBVIOUS
  <2>1. upTo(x) \in SUBSET upTo(y) /\ y \in upTo(y) /\ y \notin upTo(x)
    <3>1. \A z \in S : z \in Int
      OBVIOUS
    <3>2. \A z \in S : z <= x => z <= y
      BY <3>1
    <3>3. \A z \in upTo(x) : z \in upTo(y)
      BY <3>2
    <3>4. y \in upTo(y) /\ y \notin upTo(x)
      BY <3>1
    <3> HIDE DEF upTo
    <3>. QED BY <3>3, <3>4
  <2>2. Cardinality(upTo(x)) <= Cardinality(upTo(y)) /\ Cardinality(upTo(x)) # Cardinality(upTo(y))
    <3> HIDE DEF upTo
    <3>. QED BY <1>2, <2>1, FS_Subset
  <2>. QED BY <1>2, <2>2
<1>4. \A i \in 1..n : \E x \in S : rank[x] = i
  <2>1. rank \in [S -> 1..n]
    BY <1>2
  <2>2. \A x, y \in S : rank[x] = rank[y] => x = y
    <3> SUFFICES ASSUME NEW x \in S, NEW y \in S, rank[x] = rank[y] PROVE x = y
      OBVIOUS
    <3>1. ~(x < y) /\ ~(y < x)
      BY <1>2, <1>3
    <3>. QED BY <3>1
  <2>3. rank \in Injection(S, 1..n)
    <3> HIDE DEF rank
    <3>. QED BY <2>1, <2>2 DEF Injection, IsInjective
  <2>4. IsFiniteSet(1..n) /\ Cardinality(1..n) = n
    BY <1>1, FS_Interval
  <2>5. rank \in Surjection(S, 1..n)
    <3> HIDE DEF rank
    <3>. QED BY <2>3, <2>4, FS_Injection
  <2>. QED BY <2>5 DEF Surjection
<1> DEFINE f == [i \in 1..n |-> CHOOSE x \in S : rank[x] = i]
<1>5. f \in [1..n -> S] /\ \A i \in 1..n : rank[f[i]] = i
  <2> HIDE DEF rank
  <2>. QED BY <1>4
<1>6. \A i, j \in 1..n : i < j => f[i] < f[j]
  <2> SUFFICES ASSUME NEW i \in 1..n, NEW j \in 1..n, i < j PROVE f[i] < f[j]
    OBVIOUS
  <2> HIDE DEF rank, f
  <2>1. /\ rank[f[i]] = i /\ rank[f[j]] = j /\ f[i] \in S /\ f[j] \in S
    BY <1>5
  <2>4. f[i] \in Int /\ f[j] \in Int
    BY <1>0, <2>1
  <2>2. f[j] < f[i] => j < i
    BY <1>3, <2>1, <2>4
  <2>3. i \in Int /\ j \in Int /\ f[i] # f[j]
    BY <1>1, <2>1
  <2>. QED BY <2>1, <2>2, <2>3, <2>4
<1> HIDE DEF f, n
<1>7. \E g \in [1..n -> S] : \A i, j \in 1..n : i < j => g[i] < g[j]
  BY <1>5, <1>6
<1>. QED BY <1>1, <1>7, SameSizes DEF L!Sorted, n

\* Of two things one can say which is first.
LEMMA ThingPlace ==
    ASSUME L!UsersAreNumbers
    PROVE  \A x \in Thing : Place(x) \in Nat
BY DEF L!UsersAreNumbers, Thing, L!Queue, L!Tables, L!RoomRow, L!WalletRow, L!Action, L!UserRow,
       Place

\* Wallets that are sorted are in order, whosever they are.
LEMMA InOrderIsPlan ==
    ASSUME L!UsersAreNumbers, NEW S \in SUBSET User, NEW id
    PROVE  /\ IsPlan(L!InOrder(S), id)
           /\ \A i \in 1..Len(L!InOrder(S)) : L!InOrder(S)[i][1] = "wallet"
<1> DEFINE n == Cardinality(S)
<1>1. S \in SUBSET Nat /\ IsFiniteSet(S)
  BY SameSizes, FS_Subset DEF L!UsersAreNumbers
<1>2. /\ n \in Nat /\ L!Sorted(S) \in [1..n -> S]
      /\ \A i, j \in 1..n : i < j => L!Sorted(S)[i] < L!Sorted(S)[j]
  BY <1>1, SortedIsIncreasing
<1>3. L!InOrder(S) \in Seq(Thing) /\ Len(L!InOrder(S)) = n
  <2>1. L!InOrder(S) = [i \in 1..n |-> L!WalletRow(L!Sorted(S)[i])]
    BY SameSizes DEF L!InOrder
  <2>2. \A i \in 1..n : L!WalletRow(L!Sorted(S)[i]) \in Thing
    BY <1>2 DEF Thing
  <2> HIDE DEF n
  <2>. QED BY <1>2, <2>1, <2>2
<1>4. \A i \in 1..n : L!InOrder(S)[i] = <<"wallet", L!Sorted(S)[i]>> /\ L!Sorted(S)[i] \in Nat
  BY <1>1, <1>2, SameSizes DEF L!InOrder, L!WalletRow
<1>. QED BY <1>2, <1>3, <1>4 DEF IsPlan, MayFollow, IsAction, Place

\* One plan after another one.
LEMMA PlanThenPlan ==
    ASSUME NEW id, NEW p, IsPlan(p, id), NEW q, IsPlan(q, id),
           \A i \in 1..Len(p), j \in 1..Len(q) : MayFollow(p[i], q[j])
    PROVE  IsPlan(p \o q, id)
<1>1. p \in Seq(Thing) /\ q \in Seq(Thing) /\ Len(p) \in Nat /\ Len(q) \in Nat
  BY DEF IsPlan
<1>2. /\ p \o q \in Seq(Thing) /\ Len(p \o q) = Len(p) + Len(q)
      /\ \A i \in 1..Len(p) : (p \o q)[i] = p[i]
      /\ \A i \in 1..(Len(p) + Len(q)) : i > Len(p) =>
            i - Len(p) \in 1..Len(q) /\ (p \o q)[i] = q[i - Len(p)]
  BY <1>1
<1> DEFINE pq == p \o q
<1> HIDE DEF pq
<1>3. \A i, j \in 1..Len(pq) : i < j => MayFollow(pq[i], pq[j])
  <2> SUFFICES ASSUME NEW i \in 1..Len(pq), NEW j \in 1..Len(pq), i < j
               PROVE  MayFollow(pq[i], pq[j])
    OBVIOUS
  <2>1. CASE j <= Len(p)
    BY <1>1, <1>2, <2>1 DEF IsPlan, pq
  <2>2. CASE i <= Len(p) /\ j > Len(p)
    BY <1>1, <1>2, <2>2 DEF pq
  <2>3. CASE i > Len(p)
    BY <1>1, <1>2, <2>3 DEF IsPlan, pq
  <2>. QED BY <1>1, <1>2, <2>1, <2>2, <2>3 DEF pq
<1>4. \A i \in 1..Len(pq) : IsAction(pq[i]) => pq[i] = L!Action(id)
  <2> SUFFICES ASSUME NEW i \in 1..Len(pq), IsAction(pq[i]) PROVE pq[i] = L!Action(id)
    OBVIOUS
  <2>1. CASE i <= Len(p)
    BY <1>1, <1>2, <2>1 DEF IsPlan, pq
  <2>2. CASE i > Len(p)
    BY <1>1, <1>2, <2>2 DEF IsPlan, pq
  <2>. QED BY <1>1, <1>2, <2>1, <2>2 DEF pq
<1>. QED BY <1>2, <1>3, <1>4 DEF IsPlan, pq

\* What the services take is in order, whoever is at the table.
LEMMA PlansAreInOrder ==
    ASSUME L!UsersAreNumbers,
           NEW a \in ActionId, NEW u \in User, users \subseteq User, NEW plan \in L!Plans(u, a)
    PROVE  IsPlan(plan, a)
<1> USE DEF L!Queue, L!Tables, L!RoomRow, L!WalletRow, L!Action
<1>1. ASSUME NEW lock \in {L!Queue, L!Tables}, NEW r \in L!Room, NEW o \in SUBSET users
      PROVE  IsPlan(<<lock, L!RoomRow(r)>> \o L!Wallets(u, o) \o <<L!Action(a)>>, a)
  <2>1. /\ IsPlan(L!Wallets(u, o), a)
        /\ \A i \in 1..Len(L!Wallets(u, o)) : L!Wallets(u, o)[i][1] = "wallet"
    BY InOrderIsPlan DEF L!Wallets
  <2>2. \A i \in 1..Len(L!Wallets(u, o)) :
           Place(L!Wallets(u, o)[i]) \in Nat /\ Place(L!Wallets(u, o)[i]) > 1
    <3> SUFFICES ASSUME NEW i \in 1..Len(L!Wallets(u, o))
                 PROVE  Place(L!Wallets(u, o)[i]) \in Nat /\ Place(L!Wallets(u, o)[i]) > 1
      OBVIOUS
    <3>1. L!Wallets(u, o)[i] \in Thing /\ L!Wallets(u, o)[i][1] = "wallet"
      BY <2>1 DEF IsPlan
    <3>2. \E w \in User : L!Wallets(u, o)[i] = <<"wallet", w>>
      BY <3>1 DEF Thing, L!UserRow
    <3>. QED BY <3>2 DEF L!UsersAreNumbers, Place
  <2>3. IsPlan(<<lock, L!RoomRow(r)>>, a)
    BY DEF IsPlan, MayFollow, IsAction, Place, Thing
  <2>4. IsPlan(<<L!Action(a)>>, a)
    BY DEF IsPlan, MayFollow, IsAction, Place, Thing
  <2>5. IsPlan(<<lock, L!RoomRow(r)>> \o L!Wallets(u, o), a)
    <3>1. \A i \in 1..2 : /\ Place(<<lock, L!RoomRow(r)>>[i]) \in 0..1
                          /\ ~IsAction(<<lock, L!RoomRow(r)>>[i])
      BY DEF Place, IsAction
    <3>2. \A i \in 1..2, j \in 1..Len(L!Wallets(u, o)) :
             MayFollow(<<lock, L!RoomRow(r)>>[i], L!Wallets(u, o)[j])
      BY <2>1, <2>2, <3>1 DEF MayFollow, IsAction
    <3>. QED BY <2>1, <2>3, <3>2, PlanThenPlan
  <2>6. \A i \in 1..Len(<<lock, L!RoomRow(r)>> \o L!Wallets(u, o)) :
           ~IsAction((<<lock, L!RoomRow(r)>> \o L!Wallets(u, o))[i])
    <3>1. L!Wallets(u, o) \in Seq(Thing)
      BY <2>1 DEF IsPlan
    <3>2. \A i \in 1..2 : ~IsAction(<<lock, L!RoomRow(r)>>[i])
      BY DEF IsAction
    <3>3. \A i \in 1..Len(L!Wallets(u, o)) : ~IsAction(L!Wallets(u, o)[i])
      BY <2>1 DEF IsAction
    <3>4. <<lock, L!RoomRow(r)>> \in Seq(Thing)
      BY DEF Thing
    <3>. QED BY <3>1, <3>2, <3>3, <3>4
  <2>7. \A i \in 1..Len(<<lock, L!RoomRow(r)>> \o L!Wallets(u, o)), j \in 1..1 :
           MayFollow((<<lock, L!RoomRow(r)>> \o L!Wallets(u, o))[i], <<L!Action(a)>>[j])
    BY <2>6 DEF MayFollow, IsAction
  <2>. QED BY <2>4, <2>5, <2>7, PlanThenPlan
<1>2. ASSUME NEW r \in HoldemRoom
      PROVE  IsPlan(L!HoldemMove(r, a), a)
  BY DEF L!HoldemMove, IsPlan, MayFollow, IsAction, Place, Thing, L!Room
<1>3. ASSUME NEW r \in TableRoom
      PROVE  IsPlan(L!Lobby(u, r, a), a)
  BY DEF L!UsersAreNumbers, L!Lobby, IsPlan, MayFollow, IsAction, Place, Thing, L!Room
<1>4. ASSUME NEW r \in SoloRoom
      PROVE  IsPlan(L!Solo(u, r, a), a)
  BY DEF L!UsersAreNumbers, L!Solo, IsPlan, MayFollow, IsAction, Place, Thing, L!Room
<1>5. IsPlan(L!WalletCall(u), a)
  BY DEF L!WalletCall, IsPlan, MayFollow, IsAction, Place, Thing
<1>6. \/ plan = L!WalletCall(u)
      \/ \E o \in SUBSET users, r \in HoldemRoom : plan = L!Search(u, o, r, a)
      \/ \E o \in SUBSET users, r \in HoldemRoom : plan = L!LastMove(u, o, r, a)
      \/ \E r \in HoldemRoom : plan = L!HoldemMove(r, a)
      \/ \E r \in TableRoom : plan = L!Lobby(u, r, a)
      \/ \E o \in SUBSET users, r \in TableRoom : plan = L!Round(u, o, r, a)
      \/ \E r \in SoloRoom : plan = L!Solo(u, r, a)
  BY DEF L!Plans
<1>7. /\ \A o \in SUBSET users, r \in HoldemRoom : IsPlan(L!Search(u, o, r, a), a)
      /\ \A o \in SUBSET users, r \in HoldemRoom : IsPlan(L!LastMove(u, o, r, a), a)
      /\ \A o \in SUBSET users, r \in TableRoom : IsPlan(L!Round(u, o, r, a), a)
  BY <1>1 DEF L!Search, L!LastMove, L!Round, L!Room
<1>. QED BY <1>2, <1>3, <1>4, <1>5, <1>6, <1>7
-----------------------------------------------------------------------------
LEMMA InitLockInv ==
    ASSUME L!UsersAreNumbers
    PROVE  L!Init => LockInv
<1> SUFFICES ASSUME L!Init PROVE LockInv
  OBVIOUS
<1>1. /\ L!Off \in TxnType /\ L!Off.plan = <<>> /\ L!Off.held = {}
      /\ L!Off.pc = "off" /\ L!Off.id = NoId
      /\ Len(L!Off.plan) = 0
  BY DEF L!Off, TxnType
<1>2. \A s \in Session : txn[s] = L!Off
  BY DEF L!Init
<1>3. txn \in [Session -> TxnType]
  BY <1>1 DEF L!Init
<1>4. L!TypeOK
  BY <1>1, <1>2 DEF L!UsersAreNumbers, L!Init, L!TypeOK, TxnType
<1>5. InOrderOK
  <2>1. IsPlan(<<>>, NoId)
    BY DEF IsPlan
  <2>. QED BY <1>1, <1>2, <2>1 DEF InOrderOK
<1>6. LoginOK
  BY <1>1, <1>2 DEF LoginOK
<1>7. L!EveryUserIsWelcomedOnce
  BY DEF L!Init, L!EveryUserIsWelcomedOnce
<1>. QED BY <1>3, <1>4, <1>5, <1>6, <1>7 DEF LockInv

\* The same of one transaction, whoever has it.
TxnOK(x) ==
    /\ x \in TxnType
    /\ IsPlan(x.plan, x.id)
    /\ \A y \in x.held :
          /\ \A i \in 1..Len(x.plan) : MayFollow(y, x.plan[i])
          /\ IsAction(y) => y = L!Action(x.id)
    /\ x.id = NoId => /\ \A y \in x.held : ~IsAction(y)
                      /\ \A i \in 1..Len(x.plan) : ~IsAction(x.plan[i])

LEMMA TxnsOK == LockInv => \A s \in Session : TxnOK(txn[s])
BY DEF LockInv, InOrderOK, TxnOK

\* A step of one session.
LEMMA OneTxn ==
    ASSUME LockInv, NEW s \in Session, NEW new, TxnOK(new), txn' = [txn EXCEPT ![s] = new],
           \A t \in Session \ {s} : new.held \cap txn[t].held = {}
    PROVE  /\ txn' \in [Session -> TxnType] /\ InOrderOK'
           /\ \A r, t \in Session : r # t => txn'[r].held \cap txn'[t].held = {}
           /\ txn'[s] = new /\ \A t \in Session \ {s} : txn'[t] = txn[t]
<1>1. txn'[s] = new /\ \A t \in Session \ {s} : txn'[t] = txn[t]
  BY DEF LockInv
<1>2. txn' \in [Session -> TxnType]
  BY DEF LockInv, TxnOK
<1>3. InOrderOK'
  <2>1. \A t \in Session : TxnOK(txn'[t])
    BY <1>1, TxnsOK
  <2>. QED BY <2>1 DEF InOrderOK, TxnOK
<1>4. \A r, t \in Session : r # t => txn[r].held \cap txn[t].held = {}
  BY DEF LockInv, L!TypeOK
<1>5. \A r, t \in Session : r # t => txn'[r].held \cap txn'[t].held = {}
  <2> SUFFICES ASSUME NEW r \in Session, NEW t \in Session, r # t
               PROVE  txn'[r].held \cap txn'[t].held = {}
    OBVIOUS
  <2>1. CASE r = s
    BY <1>1, <2>1
  <2>2. CASE t = s
    BY <1>1, <2>2
  <2>3. CASE r # s /\ t # s
    BY <1>1, <1>4, <2>3
  <2>. QED BY <2>1, <2>2, <2>3
<1>. QED BY <1>1, <1>2, <1>3, <1>5
-----------------------------------------------------------------------------
\* Who ends leaves nothing behind, and logs in nobody.
LEMMA OffOK ==
    /\ TxnOK(L!Off) /\ L!Off \in TxnType /\ L!Off.plan = <<>> /\ L!Off.held = {} /\ L!Off.pc = "off"
    /\ L!Off.user = Nobody /\ L!Off.id = NoId
<1>1. /\ L!Off \in TxnType /\ L!Off.plan = <<>> /\ L!Off.held = {} /\ L!Off.pc = "off"
      /\ L!Off.user = Nobody /\ L!Off.id = NoId /\ Len(L!Off.plan) = 0
  BY DEF L!Off, TxnType
<1>2. IsPlan(<<>>, NoId)
  BY DEF IsPlan
<1>. QED BY <1>1, <1>2 DEF TxnOK

\* A step of one session that neither inserts nor welcomes anybody.
LEMMA NobodyWelcomed ==
    ASSUME LockInv, NEW s \in Session, NEW new, TxnOK(new), txn' = [txn EXCEPT ![s] = new],
           \A t \in Session \ {s} : new.held \cap txn[t].held = {},
           users' = users, welcomes' = welcomes,
           new.pc = "insert" => new.user \in User /\ new.held = {} /\ new.plan = <<>>,
           new.pc = "welcome" => new.user \in User \ users /\ L!UserRow(new.user) \in new.held
    PROVE  LockInv'
<1>1. /\ txn' \in [Session -> TxnType] /\ InOrderOK'
      /\ \A r, t \in Session : r # t => txn'[r].held \cap txn'[t].held = {}
      /\ txn'[s] = new /\ \A t \in Session \ {s} : txn'[t] = txn[t]
  BY OneTxn
<1>2. L!TypeOK'
  <2>1. \A t \in Session : txn'[t] \in TxnType
    BY <1>1
  <2>2. \A t \in Session : /\ txn'[t].pc \in {"off", "run", "insert", "welcome"}
                           /\ txn'[t].user \in User \cup {Nobody}
                           /\ txn'[t].id \in ActionId \cup {NoId}
    BY <2>1 DEF TxnType
  <2>. QED BY <1>1, <2>2 DEF L!TypeOK, LockInv
<1>3. LoginOK'
  BY <1>1 DEF LoginOK, LockInv
<1>4. L!EveryUserIsWelcomedOnce'
  BY DEF L!EveryUserIsWelcomedOnce, LockInv
<1>. QED BY <1>1, <1>2, <1>3, <1>4 DEF LockInv

LEMMA BeginStep == ASSUME L!UsersAreNumbers, LockInv, NEW s \in Session, L!Begin(s) PROVE LockInv'
<1>1. PICK u \in users, a \in ActionId : \E plan \in L!Plans(u, a) :
          txn' = [txn EXCEPT ![s] = [L!Off EXCEPT !.pc = "run", !.plan = plan,
                                     !.id = IF \E i \in DOMAIN plan : plan[i] = L!Action(a)
                                            THEN a ELSE NoId]]
  BY DEF L!Begin
<1>2. PICK plan \in L!Plans(u, a) :
          txn' = [txn EXCEPT ![s] = [L!Off EXCEPT !.pc = "run", !.plan = plan,
                                     !.id = IF \E i \in DOMAIN plan : plan[i] = L!Action(a)
                                            THEN a ELSE NoId]]
  BY <1>1
<1> DEFINE id == IF \E i \in DOMAIN plan : plan[i] = L!Action(a) THEN a ELSE NoId
           new == [L!Off EXCEPT !.pc = "run", !.plan = plan, !.id = id]
<1>3. users \subseteq User
  BY DEF LockInv, L!TypeOK
<1>4. IsPlan(plan, a) /\ DOMAIN plan = 1..Len(plan) /\ plan \in Seq(Thing)
  <2>1. IsPlan(plan, a)
    BY <1>3, PlansAreInOrder
  <2>. QED BY <2>1 DEF IsPlan
<1>5. IsPlan(plan, id) /\ (id = NoId => \A i \in 1..Len(plan) : ~IsAction(plan[i]))
  BY <1>4 DEF L!UsersAreNumbers, IsPlan
<1>6. id \in ActionId \cup {NoId}
  OBVIOUS
<1> HIDE DEF id
<1>7. new \in TxnType /\ new.pc = "run" /\ new.id = id /\ new.plan = plan /\ new.held = {}
  BY <1>4, <1>6, OffOK DEF TxnType
<1> HIDE DEF new
<1>8. TxnOK(new)
  BY <1>4, <1>5, <1>7 DEF TxnOK
<1>9. txn' = [txn EXCEPT ![s] = new] /\ users' = users /\ welcomes' = welcomes
  BY <1>2 DEF L!Begin, id, new
<1>. QED BY <1>7, <1>8, <1>9, NobodyWelcomed

LEMMA TakeStep == ASSUME LockInv, NEW s \in Session, L!Take(s) PROVE LockInv'
<1> DEFINE x == txn[s]
           head == Head(x.plan)
           new == [x EXCEPT !.held = @ \cup {head}, !.plan = Tail(@)]
<1>1. TxnOK(x) /\ x \in TxnType /\ x.plan \in Seq(Thing) /\ x.plan # <<>>
  BY TxnsOK DEF L!Take, TxnOK, TxnType
<1>2. /\ Len(x.plan) \in Nat /\ Len(x.plan) > 0 /\ Tail(x.plan) \in Seq(Thing)
      /\ head = x.plan[1] /\ head \in Thing /\ Len(Tail(x.plan)) = Len(x.plan) - 1
      /\ \A i \in 1..(Len(x.plan) - 1) : Tail(x.plan)[i] = x.plan[i + 1]
  BY <1>1
<1>3. /\ new.pc = x.pc /\ new.user = x.user /\ new.id = x.id
      /\ new.plan = Tail(x.plan) /\ new.held = x.held \cup {head} /\ new \in TxnType
  BY <1>1, <1>2 DEF TxnType
<1>4. txn' = [txn EXCEPT ![s] = new] /\ users' = users /\ welcomes' = welcomes
  BY DEF L!Take
<1>5. TxnOK(new)
  <2> HIDE DEF new
  <2>1. IsPlan(Tail(x.plan), x.id)
    BY <1>1, <1>2 DEF TxnOK, IsPlan
  <2>2. \A i \in 1..Len(Tail(x.plan)) : \A y \in x.held : MayFollow(y, Tail(x.plan)[i])
    BY <1>1, <1>2 DEF TxnOK
  <2>3. \A i \in 1..Len(Tail(x.plan)) : MayFollow(head, Tail(x.plan)[i])
    BY <1>1, <1>2 DEF TxnOK, IsPlan
  <2>4. IsAction(head) => head = L!Action(x.id)
    BY <1>1, <1>2 DEF TxnOK, IsPlan
  <2>5. x.id = NoId => ~IsAction(head) /\ \A i \in 1..Len(Tail(x.plan)) : ~IsAction(Tail(x.plan)[i])
    BY <1>1, <1>2 DEF TxnOK
  <2> HIDE DEF x, head
  <2>. QED BY <1>1, <1>3, <2>1, <2>2, <2>3, <2>4, <2>5 DEF TxnOK
<1>6. \A t \in Session \ {s} : new.held \cap txn[t].held = {}
  <2>1. \A t \in Session \ {s} : x.held \cap txn[t].held = {} /\ head \notin txn[t].held
    BY DEF LockInv, L!TypeOK, L!Take, L!Taken
  <2> HIDE DEF new, x, head
  <2>. QED BY <1>3, <2>1
<1>7. /\ new.pc # "insert"
      /\ new.pc = "welcome" => new.user \in User \ users /\ L!UserRow(new.user) \in new.held
  <2>1. /\ x.pc # "insert"
        /\ x.pc = "welcome" => x.user \in User \ users /\ L!UserRow(x.user) \in x.held
    BY <1>1 DEF LockInv, LoginOK
  <2> HIDE DEF new, x, head
  <2>. QED BY <1>3, <2>1
<1> HIDE DEF new
<1>. QED BY <1>4, <1>5, <1>6, <1>7, NobodyWelcomed

\* A transaction of a login that waits for the row of a known player.
LEMMA WaitForRow ==
    ASSUME NEW u \in User, NEW new \in TxnType,
           new.plan = <<L!UserRow(u)>>, new.held = {}, new.id = NoId
    PROVE  TxnOK(new)
<1>1. IsPlan(<<L!UserRow(u)>>, NoId) /\ ~IsAction(<<L!UserRow(u)>>[1])
  BY DEF IsPlan, MayFollow, IsAction, L!UserRow, Thing
<1>. QED BY <1>1 DEF TxnOK

LEMMA LoginStep == ASSUME LockInv, NEW s \in Session, L!Login(s) PROVE LockInv'
<1>1. PICK u \in User :
          txn' = [txn EXCEPT ![s] =
              IF u \in users
              THEN [L!Off EXCEPT !.pc = "run", !.plan = <<L!UserRow(u)>>]
              ELSE [L!Off EXCEPT !.pc = "insert", !.user = u]]
  BY DEF L!Login
<1>2. users' = users /\ welcomes' = welcomes
  BY DEF L!Login
<1>3. CASE u \in users
  <2> DEFINE new == [L!Off EXCEPT !.pc = "run", !.plan = <<L!UserRow(u)>>]
  <2>1. /\ new \in TxnType /\ new.pc = "run" /\ new.id = NoId
        /\ new.plan = <<L!UserRow(u)>> /\ new.held = {}
    <3>1. <<L!UserRow(u)>> \in Seq(Thing)
      BY DEF Thing
    <3>. QED BY <3>1, OffOK DEF TxnType
  <2>2. txn' = [txn EXCEPT ![s] = new]
    BY <1>1, <1>3
  <2> HIDE DEF new
  <2>3. TxnOK(new)
    BY <2>1, WaitForRow
  <2>. QED BY <1>2, <2>1, <2>2, <2>3, NobodyWelcomed
<1>4. CASE u \notin users
  <2> DEFINE new == [L!Off EXCEPT !.pc = "insert", !.user = u]
  <2>1. /\ new \in TxnType /\ new.pc = "insert" /\ new.user = u /\ new.id = NoId
        /\ new.plan = <<>> /\ new.held = {}
    BY OffOK DEF TxnType
  <2>2. txn' = [txn EXCEPT ![s] = new]
    BY <1>1, <1>4
  <2> HIDE DEF new
  <2>3. TxnOK(new)
    BY <2>1 DEF TxnOK, IsPlan
  <2>. QED BY <1>2, <2>1, <2>2, <2>3, NobodyWelcomed
<1>. QED BY <1>3, <1>4
LEMMA EndStep == ASSUME LockInv, NEW s \in Session, L!Commit(s) \/ L!Fail(s) PROVE LockInv'
BY OffOK, NobodyWelcomed DEF L!Commit, L!Fail

LEMMA ConflictStep == ASSUME LockInv, NEW s \in Session, L!Conflict(s) PROVE LockInv'
<1> DEFINE u == txn[s].user
           new == [txn[s] EXCEPT !.pc = "run", !.plan = <<L!UserRow(u)>>]
<1>1. txn[s] \in TxnType /\ u \in User /\ txn[s].held = {} /\ txn[s].plan = <<>>
  BY DEF LockInv, LoginOK, L!Conflict
<1>2. /\ new \in TxnType /\ new.pc = "run" /\ new.id = txn[s].id
      /\ new.plan = <<L!UserRow(u)>> /\ new.held = {}
  <2>1. <<L!UserRow(u)>> \in Seq(Thing)
    BY <1>1 DEF Thing
  <2>. QED BY <1>1, <2>1 DEF TxnType
<1>3. txn' = [txn EXCEPT ![s] = new] /\ users' = users /\ welcomes' = welcomes
  BY <1>1 DEF LockInv, L!Conflict
<1> HIDE DEF new
<1>4. IsPlan(<<L!UserRow(u)>>, txn[s].id) /\ ~IsAction(<<L!UserRow(u)>>[1])
  BY <1>1 DEF IsPlan, MayFollow, IsAction, L!UserRow, Thing
<1>5. TxnOK(new)
  BY <1>2, <1>4 DEF TxnOK
<1>. QED BY <1>2, <1>3, <1>5, NobodyWelcomed

LEMMA InsertStep == ASSUME L!UsersAreNumbers, LockInv, NEW s \in Session, L!Insert(s) PROVE LockInv'
<1> DEFINE u == txn[s].user
           new == [txn[s] EXCEPT !.pc = "welcome", !.held = {L!UserRow(u)},
                             !.plan = <<L!WalletRow(u)>>]
<1>1. txn[s] \in TxnType /\ u \in User /\ u \notin users
  BY DEF LockInv, LoginOK, L!Insert
<1>2. /\ new \in TxnType /\ new.pc = "welcome" /\ new.id = txn[s].id /\ new.user = u
      /\ new.plan = <<L!WalletRow(u)>> /\ new.held = {L!UserRow(u)}
  <2>1. <<L!WalletRow(u)>> \in Seq(Thing) /\ L!UserRow(u) \in Thing
    BY <1>1 DEF Thing
  <2>. QED BY <1>1, <2>1 DEF TxnType
<1>3. txn' = [txn EXCEPT ![s] = new] /\ users' = users /\ welcomes' = welcomes
  BY DEF LockInv, L!Insert
<1> HIDE DEF new
<1>4. /\ IsPlan(<<L!WalletRow(u)>>, txn[s].id)
      /\ ~IsAction(L!WalletRow(u)) /\ ~IsAction(L!UserRow(u))
      /\ MayFollow(L!UserRow(u), L!WalletRow(u))
  <2>1. /\ ~IsAction(L!WalletRow(u)) /\ ~IsAction(L!UserRow(u)) /\ L!WalletRow(u)[1] # "process"
        /\ Place(L!WalletRow(u)) = 2 + u /\ Place(L!UserRow(u)) = 1
    BY DEF IsAction, Place, L!UserRow, L!WalletRow
  <2>2. MayFollow(L!UserRow(u), L!WalletRow(u))
    <3>1. u \in Nat
      BY <1>1 DEF L!UsersAreNumbers
    <3>2. Place(L!UserRow(u)) < Place(L!WalletRow(u))
      BY <2>1, <3>1
    <3>. QED BY <2>1, <3>2 DEF MayFollow
  <2>3. <<L!WalletRow(u)>> \in Seq(Thing)
    BY <1>1 DEF Thing
  <2>4. IsPlan(<<L!WalletRow(u)>>, txn[s].id)
    BY <2>1, <2>3 DEF IsPlan
  <2>. QED BY <2>1, <2>2, <2>4
<1>5. TxnOK(new)
  BY <1>2, <1>4 DEF TxnOK
<1>6. \A t \in Session \ {s} : new.held \cap txn[t].held = {}
  BY <1>2 DEF L!Insert, L!Taken
<1>. QED BY <1>1, <1>2, <1>3, <1>5, <1>6, NobodyWelcomed

LEMMA NewcomerStep == ASSUME LockInv, NEW s \in Session, L!Welcome(s) PROVE LockInv'
<1> DEFINE u == txn[s].user
<1>1. u \in User /\ u \notin users /\ L!UserRow(u) \in txn[s].held
  BY DEF LockInv, LoginOK, L!Welcome
<1>2. /\ users' = users \cup {u} /\ welcomes' = [welcomes EXCEPT ![u] = @ + 1]
      /\ txn' = [txn EXCEPT ![s] = L!Off]
  BY DEF L!Welcome
<1>3. /\ txn' \in [Session -> TxnType] /\ InOrderOK'
      /\ \A r, t \in Session : r # t => txn'[r].held \cap txn'[t].held = {}
      /\ txn'[s] = L!Off /\ \A t \in Session \ {s} : txn'[t] = txn[t]
  <2>1. TxnOK(L!Off) /\ \A t \in Session \ {s} : L!Off.held \cap txn[t].held = {}
    BY OffOK
  <2>. QED BY <1>2, <2>1, OneTxn
<1>4. L!EveryUserIsWelcomedOnce'
  <2>1. welcomes \in [User -> Nat] /\ welcomes[u] = 0
    BY <1>1 DEF LockInv, L!TypeOK, L!EveryUserIsWelcomedOnce
  <2>2. welcomes'[u] = 1 /\ \A v \in User \ {u} : welcomes'[v] = welcomes[v]
    BY <1>1, <1>2, <2>1
  <2>. QED BY <1>1, <1>2, <2>2 DEF LockInv, L!EveryUserIsWelcomedOnce
<1>5. L!TypeOK'
  <2>1. users' \subseteq User /\ welcomes' \in [User -> Nat]
    BY <1>1, <1>2 DEF LockInv, L!TypeOK
  <2>2. \A t \in Session : /\ txn'[t].pc \in {"off", "run", "insert", "welcome"}
                           /\ txn'[t].user \in User \cup {Nobody}
                           /\ txn'[t].id \in ActionId \cup {NoId}
    BY <1>3 DEF TxnType
  <2>. QED BY <1>3, <2>1, <2>2 DEF L!TypeOK
<1>6. LoginOK'
  <2>1. txn'[s].pc = "off"
    BY <1>3, OffOK
  <2>2. ASSUME NEW t \in Session \ {s}, txn[t].pc = "welcome"
        PROVE  txn[t].user \in User \ users' /\ L!UserRow(txn[t].user) \in txn[t].held
    <3>1. txn[t].user \in User \ users /\ L!UserRow(txn[t].user) \in txn[t].held
      BY <2>2 DEF LockInv, LoginOK
    <3>2. txn[s].held \cap txn[t].held = {}
      BY DEF LockInv, L!TypeOK
    <3>3. txn[t].user # u
      BY <1>1, <3>1, <3>2
    <3>. QED BY <1>2, <3>1, <3>3
  <2>3. \A t \in Session : txn[t].pc = "insert" =>
            txn[t].user \in User /\ txn[t].held = {} /\ txn[t].plan = <<>>
    BY DEF LockInv, LoginOK
  <2>. QED BY <1>3, <2>1, <2>2, <2>3 DEF LoginOK
<1>. QED BY <1>3, <1>4, <1>5, <1>6 DEF LockInv

LEMMA NextLockInv ==
    ASSUME L!UsersAreNumbers
    PROVE  LockInv /\ [L!Next]_(L!vars) => LockInv'
<1>1. ASSUME LockInv, UNCHANGED L!vars PROVE LockInv'
  BY <1>1 DEF L!vars, LockInv, L!TypeOK, InOrderOK, LoginOK, L!EveryUserIsWelcomedOnce
<1>2. ASSUME LockInv, L!Next PROVE LockInv'
  BY <1>2, BeginStep, TakeStep, EndStep, LoginStep, InsertStep, ConflictStep, NewcomerStep
     DEF L!Next
<1>. QED BY <1>1, <1>2

-----------------------------------------------------------------------------
\* Who is waited for has taken something that comes before what it waits for, itself.
LEMMA WaitedFor ==
    ASSUME LockInv, NEW s \in Session, NEW t \in Session, L!WaitsFor(s, t), txn[t].plan # <<>>
    PROVE  /\ Head(txn[t].plan)[1] # "process"
           /\ IsAction(Head(txn[s].plan)) /\ IsAction(Head(txn[t].plan)) => FALSE
           /\ ~IsAction(Head(txn[s].plan)) /\ ~IsAction(Head(txn[t].plan)) =>
                 Place(Head(txn[s].plan)) < Place(Head(txn[t].plan))
           /\ IsAction(Head(txn[s].plan)) => s # t /\ txn[s].id = txn[t].id /\ txn[s].id # NoId
<1>1. TxnOK(txn[s]) /\ TxnOK(txn[t])
  BY TxnsOK
<1>2. /\ s # t /\ txn[s].plan # <<>> /\ Head(txn[s].plan) \in txn[t].held
      /\ txn[s].plan \in Seq(Thing) /\ txn[t].plan \in Seq(Thing)
  BY <1>1 DEF L!WaitsFor, TxnOK, IsPlan
<1>3. /\ 1 \in 1..Len(txn[s].plan) /\ Head(txn[s].plan) = txn[s].plan[1]
      /\ 1 \in 1..Len(txn[t].plan) /\ Head(txn[t].plan) = txn[t].plan[1]
  BY <1>2
<1>4. MayFollow(Head(txn[s].plan), Head(txn[t].plan))
  BY <1>1, <1>2, <1>3 DEF TxnOK
<1>5. IsAction(Head(txn[s].plan)) =>
         /\ Head(txn[s].plan) = L!Action(txn[s].id) /\ Head(txn[s].plan) = L!Action(txn[t].id)
         /\ txn[s].id # NoId
  BY <1>1, <1>2, <1>3 DEF TxnOK, IsPlan
<1>. QED BY <1>2, <1>4, <1>5 DEF MayFollow, L!Action

\* Of all that a circle waits for, ids aside, one thing has the first place; whoever has
\* it waits for one that is before it, or for an id.
LEMMA NoOtherCircle ==
    ASSUME L!UsersAreNumbers, LockInv
    PROVE  L!OnlySharedIdsCollide
<1> SUFFICES ASSUME NEW C \in SUBSET Session, L!Circle(C)
             PROVE  /\ \A s \in C : Head(txn[s].plan)[1] # "process"
                    /\ \E s, t \in C : s # t /\ txn[s].id = txn[t].id /\ txn[s].id # NoId
  BY DEF L!OnlySharedIdsCollide, LockInv
<1> DEFINE head(s) == Head(txn[s].plan)
<1>1. /\ C # {} /\ \A s \in C : txn[s].plan # <<>>
      /\ \A t \in C : \E s \in C : L!WaitsFor(s, t)
      /\ \A s \in C : head(s) \in Thing
  BY TxnsOK DEF L!Circle, L!WaitsFor, TxnOK, IsPlan
<1>2. \A s \in C : head(s)[1] # "process"
  BY <1>1, WaitedFor
<1>3. PICK s \in C, t \in C : L!WaitsFor(s, t) /\ IsAction(head(s))
  <2> SUFFICES ASSUME \A s, t \in C : L!WaitsFor(s, t) => ~IsAction(head(s)) PROVE FALSE
    OBVIOUS
  <2> DEFINE places == {Place(head(s)) : s \in {r \in C : ~IsAction(head(r))}}
  <2>1. places \in SUBSET Nat
    BY <1>1, ThingPlace
  <2>2. places # {}
    <3>1. PICK t \in C : TRUE
      BY <1>1
    <3>2. PICK s \in C : L!WaitsFor(s, t)
      BY <1>1
    <3>. QED BY <3>2
  <2>3. PICK n \in places : \A m \in places : ~(m < n)
    <3> DEFINE less == {mn \in Nat \X Nat : mn[1] < mn[2]}
    <3>1. IsWellFoundedOn(less, Nat)
      BY NatLessThanWellFounded DEF OpToRel
    <3> HIDE DEF places
    <3>2. PICK n \in places : \A m \in places : ~(<<m, n>> \in less)
      <4> HIDE DEF less
      <4>. QED BY <2>1, <2>2, <3>1, WFMin
    <3>. QED BY <2>1, <3>2
  <2>4. PICK t \in C : ~IsAction(head(t)) /\ Place(head(t)) = n
    OBVIOUS
  <2>5. PICK s \in C : L!WaitsFor(s, t)
    BY <1>1
  <2>6. ~IsAction(head(s))
    BY <2>5
  <2>7. Place(head(s)) < n
    BY <1>1, <2>4, <2>5, <2>6, WaitedFor
  <2>. QED BY <2>3, <2>6, <2>7
<1>. QED BY <1>1, <1>2, <1>3, WaitedFor

(***************************************************************************)
(* No requests wait for each other in a circle, however many of them there *)
(* are and whoever sits at their tables, unless two of them in it record   *)
(* the same action id: the thing that comes first of those the circle      *)
(* waits for is one that nobody in it can have had to wait for.            *)
(***************************************************************************)
THEOREM OnlySharedIds ==
    ASSUME L!UsersAreNumbers
    PROVE  L!Spec => []L!OnlySharedIdsCollide
<1>1. L!Spec => []LockInv
  BY InitLockInv, NextLockInv, PTL DEF L!Spec
<1>2. LockInv => L!OnlySharedIdsCollide
  BY NoOtherCircle
<1>. QED BY <1>1, <1>2, PTL

(***************************************************************************)
(* The player who has a row has one welcome grant, and nobody else has     *)
(* one, however many first requests arrive and are lost.                   *)
(***************************************************************************)
THEOREM WelcomedOnce ==
    ASSUME L!UsersAreNumbers
    PROVE  L!Spec => []L!EveryUserIsWelcomedOnce
<1>1. LockInv => L!EveryUserIsWelcomedOnce
  BY DEF LockInv
<1>. QED BY <1>1, InitLockInv, NextLockInv, PTL DEF L!Spec
=============================================================================
