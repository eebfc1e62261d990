---------------------------- MODULE MCPriceData ----------------------------
(***************************************************************************)
(* Files with rows out of order, bad rows, a date twice, a purchase at a     *)
(* price of zero, a sale below it, a win and a loss, shares held at the end;  *)
(* and jobs whose ranges overlap, end early, are too short for the windows    *)
(* or hold nothing.                                                          *)
(***************************************************************************)
EXTENDS PriceData

\* A file with these closing prices, on one day after the other.
Path(closes) == [i \in DOMAIN closes |-> [date |-> i, close |-> closes[i], bad |-> FALSE]]
Spoilt(f, i) == [f EXCEPT ![i].bad = TRUE]
Swapped(f, i, j) == [f EXCEPT ![i] = f[j], ![j] = f[i]]

WinAndLoss == Path(<<4, 6, 1, 4, 1, 6, 3, 3, 5>>)
Held == Path(<<4, 3, 5, 5, 5, 6, 4, 7, 5>>)
Zero == Path(<<2, 4, 0, 6, 0, 5, 6, 6, 4>>)
Debt == Path(<<1, 6, 2, 7, 5, -3, 6, -1, 3>>)

MCFiles ==
    {Nothing,
     Spoilt(Path(<<5>>), 1),
     WinAndLoss, Held, Zero, Debt,
     Spoilt(Swapped(Held, 2, 7), 5),
     [WinAndLoss EXCEPT ![5].date = 4],
     [WinAndLoss EXCEPT ![6].date = 7, ![8].date = 7]}

MCJobs ==
    {[symbol |-> s, first |-> r[1], last |-> r[2]] :
        s \in Symbols, r \in {<<1, 9>>, <<1, 7>>, <<4, 5>>, <<10, 12>>}}
=============================================================================
