----------------------------- MODULE SlotMachine -----------------------------
(***************************************************************************)
(* What a spin pays (games/slot.py): every reel stops somewhere, and each  *)
(* active line pays if all it shows is one symbol, or the wild one.        *)
(***************************************************************************)
EXTENDS Integers, Sequences, Sums

CONSTANTS
    Strips,       \* the symbols of each reel, one reel per column
    VisibleRows,  \* rows that are seen of each
    Paylines,     \* the row of each column, one sequence per line
    Paytable,     \* what a line of one symbol multiplies the bet by
    WildSymbol

Column == DOMAIN Strips
Line == DOMAIN Paylines

\* SlotConfig.
ASSUME SlotAssumption ==
    /\ Strips # <<>> /\ VisibleRows \in Nat \ {0}
    /\ \A c \in Column : Len(Strips[c]) >= VisibleRows
    /\ Paylines \in Seq([Column -> 1..VisibleRows]) \ {<<>>}
    /\ \A symbol \in DOMAIN Paytable : Paytable[symbol] \in Nat
    /\ \E c \in Column : \E i \in DOMAIN Strips[c] : Strips[c][i] = WildSymbol

\* spin: where the reels may stop.
Stops == {stop \in [Column -> 1..Max({Len(Strips[c]) : c \in Column})] :
            \A c \in Column : stop[c] <= Len(Strips[c])}

\* The symbol in a row of a reel that stopped there; the strip is a ring.
Shown(stop, c, row) == Strips[c][1 + ((stop[c] + row - 2) % Len(Strips[c]))]

Symbols(stop, l) == [c \in Column |-> Shown(stop, c, Paylines[l][c])]

\* The first symbol that is not wild, if there is one.
Match(symbols) ==
    LET tame == {c \in Column : symbols[c] # WildSymbol}
    IN  IF tame = {} THEN WildSymbol ELSE symbols[Min(tame)]

\* calculate_payout: only whole lines pay, and only symbols of the paytable.
LinePays(symbols, bet) ==
    IF /\ \A c \in Column : symbols[c] \in {Match(symbols), WildSymbol}
       /\ Match(symbols) \in DOMAIN Paytable
    THEN bet * Paytable[Match(symbols)]
    ELSE 0

SpinPays(stop, bet, active) == Sum([l \in active |-> LinePays(Symbols(stop, l), bet)], active)

\* What a spin of this bet may pay, with any choice of lines.
SpinPayouts(bet) ==
    {SpinPays(stop, bet, active) : stop \in Stops, active \in (SUBSET Line) \ {{}}}
=============================================================================
