----------------------------- MODULE MCBacktest -----------------------------
(***************************************************************************)
(* Backtest with two symbols; one has prices below zero.                     *)
(***************************************************************************)
EXTENDS Backtest, TLC

\* The first symbol is sold before it is bought, bought, sold and bought again.
\* The second is sold at a price below zero, which makes a debt, and bought at
\* one, which pays it.
MCClose ==
    "up" :> [i \in Indices |-> <<7, 3, 4, 3, 5, 3, 6, 4>>[i + 1]]
    @@ "down" :> [i \in Indices |-> <<1, 6, 2, 7, 5, -3, 6, -1>>[i + 1]]

\* The least int, as on x86, is no purchase either.
MCAtNoPrice == -1

MCSymmetry == Permutations(Workers)
=============================================================================
