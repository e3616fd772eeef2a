----------------------------- MODULE Leaderboard -----------------------------
(***************************************************************************)
(* The leaderboard of the week (routers/leaderboard.py): the best fifteen  *)
(* of those who have played, and for anybody else the own place, which is  *)
(* counted by another query than the one that lists them.                  *)
(***************************************************************************)
EXTENDS Integers, Sequences, FiniteSets, FiniteSetsExt

TopSize == 15

Week == 7 * 24 * 60 * 60

\* Monday, 00:00 in Moscow; now counts seconds from such a time.
WeekStart(now) == now - (now % Week)

\* The ledger entries that count: stakes and payouts of this week.
Counted(entries, now) ==
    {e \in entries : /\ e.reason \in {"game_stake", "game_payout"}
                     /\ WeekStart(now) <= e.createdAt /\ e.createdAt < WeekStart(now) + Week}

\* The net result of everybody who has played this week.
Totals(entries, now) ==
    LET counted == Counted(entries, now)
    IN  [u \in {e.wallet : e \in counted} |->
            MapThenSumSet(LAMBDA e : e.delta, {e \in counted : e.wallet = u})]

\* ORDER BY net_result DESC, id ASC: nobody is level with anybody.
Ahead(result, v, u) == result[v] > result[u] \/ (result[v] = result[u] /\ v < u)

\* What the list with LIMIT returns.
IsTop(rows, result) ==
    /\ rows \in Seq(DOMAIN result)
    /\ Len(rows) <= TopSize
    /\ \A i, j \in DOMAIN rows : i < j => Ahead(result, rows[i], rows[j])
    /\ \A u \in DOMAIN result : (\A i \in DOMAIN rows : rows[i] # u) =>
          Len(rows) = TopSize /\ \A i \in DOMAIN rows : Ahead(result, rows[i], u)

\* The place of a player who is not listed.
OwnRank(result, u) == Cardinality({v \in DOMAIN result : Ahead(result, v, u)}) + 1
=============================================================================
