------------------------------ MODULE Strategy ------------------------------
(***************************************************************************)
(* The moving average strategy and a backtest of it that is not interrupted, *)
(* over the bars of a date range. strategy/sma_strategy.cpp and              *)
(* strategy/strategy_with_checkpoint.cpp, which the workers run, define them  *)
(* alike but for the Sharpe ratio; Backtest has the resuming of the latter.  *)
(*                                                                         *)
(* Prices are integers, which is all is_valid ensures: it looks at the      *)
(* range and the volume of a bar and never at the sign of its closing price. *)
(* The arithmetic is exact; averages and percentages are compared as         *)
(* fractions. The Sharpe ratio is left out. Sequences start at 1: bar i is   *)
(* price_data[i - 1].                                                        *)
(***************************************************************************)
EXTENDS Integers, Sequences, SequencesExt, FiniteSetsExt

CONSTANTS
    ShortWindow, LongWindow, InitialCapital,    \* parameters of a job
    AtNoPrice   \* static_cast<int> of cash / 0.0: below 1 on x86, INT_MAX on ARM

ASSUME StrategyAssumption ==
    /\ ShortWindow \in Nat \ {0}
    /\ LongWindow \in Nat \ {0}
    /\ InitialCapital \in Nat \ {0}
    /\ AtNoPrice \in Int

\* The first i numbers added up.
SumTo(numbers, i) ==
    LET sum[k \in 0 .. i] == IF k = 0 THEN 0 ELSE sum[k - 1] + numbers[k]
    IN  sum[i]

\* Mutant: the window slides over the wrong end.
SlidingSumsSlipped(prices, w) ==
    LET sum[i \in w .. Len(prices)] ==
            IF i = w THEN SumTo(prices, w)
            ELSE sum[i - 1] - prices[i - w + 1] + prices[i]
    IN  [i \in DOMAIN prices |-> IF i < w THEN 0 ELSE sum[i]]

\* calculate_sma, times the window: one price enters, one leaves.
SlidingSums(prices, w) ==
    LET sum[i \in w .. Len(prices)] ==
            IF i = w THEN SumTo(prices, w)
            ELSE sum[i - 1] - prices[i - w] + prices[i]
    IN  [i \in DOMAIN prices |-> IF i < w THEN 0 ELSE sum[i]]

\* generate_signals: the short average crosses the long one. Whether it was
\* above is kept over bars at which an average is zero, as both are when there
\* are fewer prices than a window has.
Signals(prices) ==
    LET short == SlidingSums(prices, ShortWindow)
        long == SlidingSums(prices, LongWindow)
        over(i) == short[i] * LongWindow > long[i] * ShortWindow
        above[i \in LongWindow .. Len(prices)] ==
            IF i = LongWindow THEN FALSE
            ELSE IF short[i] > 0 /\ long[i] > 0 THEN over(i)
            ELSE above[i - 1]
        crosses(i) == i > LongWindow + 1 /\ ~(above[i] <=> above[i - 1])
    IN  [i \in DOMAIN prices |->
            IF ~crosses(i) THEN "HOLD" ELSE IF above[i] THEN "BUY" ELSE "SELL"]

\* static_cast<int>(cash / price): a positive quotient is cut to its whole part,
\* and any other one buys nothing.
Affordable(cash, price) ==
    IF price = 0 THEN IF cash > 0 THEN AtNoPrice ELSE 0
    ELSE IF cash > 0 /\ price > 0 THEN cash \div price
    ELSE IF cash < 0 /\ price < 0 THEN (-cash) \div (-price)
    ELSE 0

\* The shares bought by a portfolio that has none.
Purchase(cash, price) == IF Affordable(cash, price) > 0 THEN Affordable(cash, price) ELSE 0

Start == [cash |-> InitialCapital, shares |-> 0, prev |-> "HOLD",
          trades |-> <<>>, values |-> <<>>]

\* Mutant: what is sold is still held.
TurnSellsTwice(p, price, signal) ==
    LET new == signal # p.prev
        bought == IF new /\ signal = "BUY" /\ p.shares = 0
                  THEN Purchase(p.cash, price) ELSE 0
        sold == IF new /\ signal = "SELL" THEN p.shares ELSE 0
        cash == p.cash + (sold - bought) * price
        shares == p.shares + bought
    IN  [cash |-> cash, shares |-> shares, prev |-> signal,
         trades |-> IF bought + sold = 0 THEN p.trades
                    ELSE Append(p.trades, [signal |-> signal, value |-> (bought + sold) * price]),
         values |-> Append(p.values, cash + shares * price)]

\* A turn of the loop of backtest(): on a new signal all the cash is spent, or
\* all the shares are sold.
Turn(p, price, signal) ==
    LET new == signal # p.prev
        bought == IF new /\ signal = "BUY" /\ p.shares = 0
                  THEN Purchase(p.cash, price) ELSE 0
        sold == IF new /\ signal = "SELL" THEN p.shares ELSE 0
        cash == p.cash + (sold - bought) * price
        shares == p.shares + bought - sold
    IN  [cash |-> cash, shares |-> shares, prev |-> signal,
         trades |-> IF bought + sold = 0 THEN p.trades
                    ELSE Append(p.trades, [signal |-> signal, value |-> (bought + sold) * price]),
         values |-> Append(p.values, cash + shares * price)]

Portfolio(prices) ==
    LET signals == Signals(prices)
        after[i \in 0 .. Len(prices)] ==
            IF i = 0 THEN Start ELSE Turn(after[i - 1], prices[i], signals[i])
    IN  after[Len(prices)]

\* Fractions <<numerator, denominator>>.
Below(a, b) == a[1] * b[2] < b[1] * a[2]

\* Mutant: the first value stays the peak.
MaxDrawdownFromStart(values) ==
    LET peak[i \in DOMAIN values] == values[1]
        fall(i) == <<peak[i] - values[i], peak[i]>>
        worst[i \in 0 .. Len(values)] ==
            IF i = 0 THEN <<0, 1>>
            ELSE IF Below(worst[i - 1], fall(i)) THEN fall(i) ELSE worst[i - 1]
    IN  worst[Len(values)]

\* calculate_max_drawdown: the peak so far is carried along.
MaxDrawdown(values) ==
    LET peak[i \in DOMAIN values] ==
            IF i > 1 /\ values[i] <= peak[i - 1] THEN peak[i - 1] ELSE values[i]
        fall(i) == <<peak[i] - values[i], peak[i]>>
        worst[i \in 0 .. Len(values)] ==
            IF i = 0 THEN <<0, 1>>
            ELSE IF Below(worst[i - 1], fall(i)) THEN fall(i) ELSE worst[i - 1]
    IN  worst[Len(values)]

\* A sale counts with the purchase before it.
Sales(trades) ==
    {i \in 2 .. Len(trades) : trades[i].signal = "SELL" /\ trades[i - 1].signal = "BUY"}

Wins(trades) == {i \in Sales(trades) : trades[i].value > trades[i - 1].value}

\* The result of a job.
Backtest(prices) ==
    LET p == Portfolio(prices)
    IN  [value |-> Last(p.values),
         trades |-> p.trades,
         winning |-> Cardinality(Wins(p.trades)),
         losing |-> Cardinality(Sales(p.trades) \ Wins(p.trades)),
         drawdown |-> MaxDrawdown(p.values)]
=============================================================================
