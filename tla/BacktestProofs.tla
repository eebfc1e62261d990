--------------------------- MODULE BacktestProofs ---------------------------
(***************************************************************************)
(* Proofs about Backtest: type correctness, and that resuming is            *)
(* transparent for the value of a result.                                   *)
(***************************************************************************)
EXTENDS Backtest, Sequences, Induction

-----------------------------------------------------------------------------
(* The strategy *)

\* The shares that a price buys cost no more than the cash there is.
LEMMA DivisionBounds ==
    ASSUME NEW cash \in Nat, NEW price \in Nat \ {0}
    PROVE  cash \div price \in Nat /\ (cash \div price) * price \in 0 .. cash
<1>1. cash \div price \in Nat
  BY SMT
<1>2. (cash \div price) * price \in Nat
  BY <1>1, SMT
<1>3. (cash \div price) * price <= cash
  BY SMT
<1>4. QED  BY <1>1, <1>2, <1>3

\* The quotient of a purchase is an integer whatever the signs.
LEMMA AffordableType ==
    ASSUME NEW cash \in Int, NEW price \in Int
    PROVE  Sma!Affordable(cash, price) \in Int
<1>1. CASE price = 0
  BY <1>1, ParametersAssumption DEF Sma!Affordable
<1>2. CASE price # 0 /\ cash > 0 /\ price > 0
  <2>1. cash \in Nat /\ price \in Nat \ {0}
    BY <1>2
  <2>2. cash \div price \in Nat
    BY <2>1, DivisionBounds
  <2>3. QED  BY <1>2, <2>2 DEF Sma!Affordable
<1>3. CASE price # 0 /\ cash < 0 /\ price < 0
  <2>1. -cash \in Nat /\ -price \in Nat \ {0} /\ ~(cash > 0)
    BY <1>3
  <2>2. (-cash) \div (-price) \in Nat
    BY <2>1, DivisionBounds
  <2>3. QED  BY <1>3, <2>1, <2>2 DEF Sma!Affordable
<1>4. CASE price # 0 /\ ~(cash > 0 /\ price > 0) /\ ~(cash < 0 /\ price < 0)
  BY <1>4 DEF Sma!Affordable
<1>5. QED  BY <1>1, <1>2, <1>3, <1>4

\* A purchase is of no shares or more, and is paid for where prices are not
\* below zero.
LEMMA PurchaseBounds ==
    ASSUME NEW cash \in Int, NEW price \in Int
    PROVE  /\ Sma!Purchase(cash, price) \in Nat
           /\ cash \in Nat /\ price \in Nat =>
                 Sma!Purchase(cash, price) * price \in 0 .. cash
<1> DEFINE n == Sma!Affordable(cash, price)
<1>1. n \in Int
  BY AffordableType
<1>2. Sma!Purchase(cash, price) = IF n > 0 THEN n ELSE 0
  BY DEF Sma!Purchase
<1>3. Sma!Purchase(cash, price) \in Nat
  <2> HIDE DEF n
  <2>1. QED  BY <1>1, <1>2
<1>4. ASSUME cash \in Nat, price \in Nat
      PROVE  Sma!Purchase(cash, price) * price \in 0 .. cash
  <2>1. CASE price = 0
    <3>1. Sma!Purchase(cash, price) * price = 0
      BY <1>3, <2>1, SMT
    <3>2. QED  BY <1>4, <3>1
  <2>2. CASE price # 0 /\ cash > 0
    <3>1. n = cash \div price
      BY <1>4, <2>2 DEF Sma!Affordable
    <3>2. n \in Nat /\ n * price \in 0 .. cash
      BY <1>4, <2>2, <3>1, DivisionBounds
    <3> HIDE DEF n
    <3>3. Sma!Purchase(cash, price) = n
      BY <1>2, <3>2
    <3>4. QED  BY <3>2, <3>3
  <2>3. CASE price # 0 /\ cash = 0
    <3>1. n = 0
      BY <1>4, <2>3 DEF Sma!Affordable
    <3>2. Sma!Purchase(cash, price) = 0
      BY <1>2, <3>1
    <3>3. 0 * price = 0
      BY SMT
    <3>4. QED  BY <1>4, <3>2, <3>3
  <2>4. QED  BY <1>4, <2>1, <2>2, <2>3
<1>5. QED  BY <1>3, <1>4

\* What money is.
LEMMA MoneyType ==
    /\ Nat \subseteq Money /\ Money \subseteq Int
    /\ Money = Nat \/ Money = Int
    /\ Money = Nat => \A s \in Symbols : \A i \in Indices : Close[s][i] \in Nat
<1>1. CASE \A s \in Symbols, i \in Indices : Close[s][i] >= 0
  <2>1. Money = Nat
    BY <1>1 DEF Money
  <2>2. \A s \in Symbols : \A i \in Indices : Close[s][i] \in Nat
    BY <1>1, ParametersAssumption
  <2>3. QED  BY <2>1, <2>2
<1>2. CASE ~ \A s \in Symbols, i \in Indices : Close[s][i] >= 0
  <2>1. Money = Int
    BY <1>2 DEF Money
  <2>2. Int # Nat
    <3>1. -1 \in Int /\ -1 \notin Nat
      OBVIOUS
    <3>2. QED  BY <3>1
  <2>3. QED  BY <2>1, <2>2
<1>3. QED  BY <1>1, <1>2

\* The product of two naturals, as a fact of its own for the prover.
LEMMA ProductType ==
    ASSUME NEW a \in Nat, NEW b \in Nat
    PROVE  a * b \in Nat
BY SMT

LEMMA IntegerProduct ==
    ASSUME NEW a \in Int, NEW b \in Int
    PROVE  a * b \in Int
BY SMT

\* A bar of any symbol leaves a portfolio, without debts if no price is below zero.
LEMMA AfterType ==
    ASSUME NEW s \in Symbols, NEW i \in Indices, NEW prev, NEW p \in Portfolio
    PROVE  After(s, i, prev, p) \in Portfolio
<1> DEFINE
  price == Close[s][i]
  signal == IF Signal(s, i) = prev THEN "HOLD" ELSE Signal(s, i)
  bought == IF signal = "BUY" /\ p.shares = 0 THEN Sma!Purchase(p.cash, price) ELSE 0
  sold == IF signal = "SELL" THEN p.shares ELSE 0
  cost == bought * price
  gain == sold * price
  cash == p.cash - cost + gain
  shares == p.shares + bought - sold
<1>1. price \in Int
  BY ParametersAssumption
<1>2. p.cash \in Money /\ p.cash \in Int /\ p.shares \in Nat
  BY MoneyType DEF Portfolio
<1>3. bought \in Nat /\ cost \in Int
  <2>1. bought \in Nat
    BY <1>1, <1>2, PurchaseBounds
  <2> HIDE DEF bought
  <2>2. QED  BY <1>1, <2>1, IntegerProduct
<1>4. sold \in 0 .. p.shares /\ gain \in Int
  <2>1. sold \in 0 .. p.shares
    BY <1>2
  <2> HIDE DEF sold
  <2>2. QED  BY <1>1, <1>2, <2>1, IntegerProduct
<1>5. shares \in Nat
  <2> HIDE DEF bought, sold
  <2>1. QED  BY <1>2, <1>3, <1>4
<1>6. cash \in Money
  <2>1. CASE Money = Nat
    <3>1. price \in Nat /\ p.cash \in Nat
      BY <1>2, <2>1, MoneyType
    <3>2. cost \in 0 .. p.cash
      <4>1. CASE bought = 0
        <5>1. 0 * price = 0
          BY <1>1, SMT
        <5>2. QED  BY <3>1, <4>1, <5>1
      <4>2. CASE bought = Sma!Purchase(p.cash, price)
        BY <1>1, <1>2, <3>1, <4>2, PurchaseBounds
      <4>3. QED  BY <4>1, <4>2
    <3> HIDE DEF price, sold, cost, gain
    <3>3. gain \in Nat
      BY <1>2, <1>4, <3>1, ProductType DEF gain
    <3>4. QED  BY <2>1, <3>1, <3>2, <3>3
  <2>2. CASE Money = Int
    <3> HIDE DEF cost, gain
    <3>1. QED  BY <1>2, <1>3, <1>4, <2>2
  <2>3. QED  BY <2>1, <2>2, MoneyType
<1>7. cash + shares * price \in Money
  <2> HIDE DEF cash, shares
  <2>1. CASE Money = Nat
    <3>1. price \in Nat
      BY <2>1, MoneyType
    <3> HIDE DEF price
    <3>2. shares * price \in Nat
      BY <1>5, <3>1, ProductType
    <3>3. QED  BY <1>6, <2>1, <3>2
  <2>2. CASE Money = Int
    <3>1. shares * price \in Int
      BY <1>1, <1>5, IntegerProduct
    <3>2. QED  BY <1>6, <2>2, <3>1
  <2>3. QED  BY <2>1, <2>2, MoneyType
<1>8. After(s, i, prev, p) =
          [cash |-> cash, shares |-> shares, value |-> cash + shares * price]
  BY DEF After
<1> HIDE DEF cash, shares, price
<1>9. QED  BY <1>5, <1>6, <1>7, <1>8 DEF Portfolio

\* A signal is a crossover, to above or from above, or none.
LEMMA SignalOfBar ==
    ASSUME NEW s \in Symbols
    PROVE  \E over : \A i \in Indices :
               Signal(s, i) =
                   IF ~(i > LongWindow /\ ~(over[i + 1] <=> over[i])) THEN "HOLD"
                   ELSE IF over[i + 1] THEN "BUY" ELSE "SELL"
<1> DEFINE prices == [i \in 1 .. Bars |-> Close[s][i - 1]]
           short == Sma!SlidingSums(prices, ShortWindow)
           long == Sma!SlidingSums(prices, LongWindow)
           crossed(i) == short[i] * LongWindow > long[i] * ShortWindow
           above[i \in LongWindow .. Len(prices)] ==
               IF i = LongWindow THEN FALSE
               ELSE IF short[i] > 0 /\ long[i] > 0 THEN crossed(i)
               ELSE above[i - 1]
           crosses(i) == i > LongWindow + 1 /\ ~(above[i] <=> above[i - 1])
<1>1. Sma!Signals(prices) =
          [i \in DOMAIN prices |->
              IF ~crosses(i) THEN "HOLD" ELSE IF above[i] THEN "BUY" ELSE "SELL"]
  BY DEF Sma!Signals
<1> HIDE DEF above
<1>2. ASSUME NEW i \in Indices
      PROVE  Signal(s, i) =
                 IF ~(i > LongWindow /\ ~(above[i + 1] <=> above[i])) THEN "HOLD"
                 ELSE IF above[i + 1] THEN "BUY" ELSE "SELL"
  <2>1. i + 1 \in DOMAIN prices /\ (i + 1) - 1 = i /\ (i + 1 > LongWindow + 1 <=> i > LongWindow)
    BY ParametersAssumption DEF Indices
  <2>2. Signal(s, i) = Sma!Signals(prices)[i + 1]
    BY DEF Signal, SignalsOf
  <2>3. QED  BY <1>1, <2>1, <2>2
<1>3. QED  BY <1>2

LEMMA SignalType ==
    ASSUME NEW s \in Symbols, NEW i \in Indices
    PROVE  Signal(s, i) \in {"HOLD", "BUY", "SELL"}
BY SignalOfBar

\* The portfolio of an uninterrupted job, bar by bar.
LEMMA BarByBar ==
    ASSUME NEW s \in Symbols
    PROVE  /\ \A i \in Indices : Uninterrupted[s][i] \in Portfolio
           /\ \A i \in Indices :
                Uninterrupted[s][i] =
                    IF i = 0 THEN After(s, 0, "HOLD", Start)
                    ELSE After(s, i, Signal(s, i - 1), Uninterrupted[s][i - 1])
<1> DEFINE base == After(s, 0, "HOLD", Start)
           after(i, p) == After(s, i, Signal(s, i - 1), p)
           body(g) == [i \in Indices |-> IF i = 0 THEN base ELSE after(i, g[i - 1])]
           step == [i \in 1 .. Bars - 1 |-> [p \in Portfolio |-> after(i, p)]]
<1>1. Indices = 0 .. Bars - 1 /\ Bars - 1 \in Nat /\ 0 \in Indices
  BY ParametersAssumption DEF Indices
<1>2. base \in Portfolio
  <2>1. Start \in Portfolio
    BY ParametersAssumption, MoneyType DEF Start, Portfolio
  <2>2. QED  BY <1>1, <2>1, AfterType
<1>3. \A i \in 1 .. Bars - 1 : \A p \in Portfolio : after(i, p) \in Portfolio
  BY <1>1, AfterType
<1> HIDE DEF base, after
<1>4. step \in [1 .. Bars - 1 -> [Portfolio -> Portfolio]]
  BY <1>3
<1>5. PICK g \in [0 .. Bars - 1 -> Portfolio] : Unfolds(g, Bars - 1, base, step)
  <2> HIDE DEF step
  <2>1. QED  BY <1>1, <1>2, <1>4, RecursionExists
<1>6. \A i \in Indices : g[i] = IF i = 0 THEN base ELSE after(i, g[i - 1])
  <2>1. ASSUME NEW i \in 1 .. Bars - 1
        PROVE  g[i] = after(i, g[i - 1])
    <3>1. i - 1 \in 0 .. Bars - 1
      BY <1>1
    <3>2. g[i - 1] \in Portfolio /\ g[i] = step[i][g[i - 1]]
      BY <1>5, <3>1 DEF Unfolds
    <3>3. QED  BY <3>2
  <2>2. QED  BY <1>1, <1>5, <2>1 DEF Unfolds
<1>7. g = body(g)
  BY <1>1, <1>6
<1>8. PICK f : f = body(f) /\ Uninterrupted[s] = f
  <2> DEFINE chosen == CHOOSE h : h = body(h)
  <2>1. chosen = body(chosen)
    BY <1>7
  <2>2. Uninterrupted[s] = chosen
    BY DEF Uninterrupted, base, after
  <2> HIDE DEF chosen
  <2>3. QED  BY <2>1, <2>2
<1>9. \A i \in Indices : f[i] = IF i = 0 THEN base ELSE after(i, f[i - 1])
  <2>1. \A i \in Indices : f[i] = body(f)[i]
    BY <1>8
  <2>2. QED  BY <2>1
<1> HIDE DEF body, step
<1>10. StayAlike(f, g, 0, Bars - 1)
  <2>1. f[0] = g[0]
    BY <1>1, <1>6, <1>9
  <2>2. ASSUME NEW i \in 0 .. (Bars - 1) - 1, f[i] = g[i]
        PROVE  f[i + 1] = g[i + 1]
    <3>1. i + 1 \in Indices /\ i + 1 # 0 /\ (i + 1) - 1 = i
      BY <1>1
    <3>2. f[i + 1] = after(i + 1, f[i]) /\ g[i + 1] = after(i + 1, g[i])
      BY <1>6, <1>9, <3>1
    <3>3. QED  BY <2>2, <3>2
  <2>3. QED  BY <2>1, <2>2 DEF StayAlike
<1>11. Alike(f, g, 0, Bars - 1)
  BY <1>1, <1>10, Agreement
<1>12. \A i \in Indices : f[i] \in Portfolio
  BY <1>1, <1>5, <1>11 DEF Alike
<1>13. QED  BY <1>8, <1>9, <1>12 DEF base, after

\* A job begins with a run that is well typed.
LEMMA FreshType ==
    ASSUME NEW s \in Symbols
    PROVE  Fresh(s) \in Run
BY ParametersAssumption, MoneyType DEF Fresh, Start, Run, Portfolio, Indices

-----------------------------------------------------------------------------
(* Type correctness *)

USE DEF Saving, NoFile, EmptyFile

LEMMA AssignType ==
    ASSUME TypeOK, NEW w \in Workers, Assign(w)
    PROVE  TypeOK'
<1>1. Fresh(symbol) \in Run
  BY FreshType DEF TypeOK
<1>2. QED  BY <1>1, ParametersAssumption DEF TypeOK, Assign

LEMMA LoadType ==
    ASSUME TypeOK, NEW w \in Workers, Load(w)
    PROVE  TypeOK'
<1>1. run' \in [Workers -> Run]
  <2>1. CASE Resume(w)
    <3>1. file \in Checkpoint
      BY <2>1 DEF TypeOK, Resume
    <3>2. /\ file.index \in Indices /\ file.index \in 0 .. Bars
          /\ file.portfolio \in Portfolio /\ file.sound \in BOOLEAN
      BY <3>1, ParametersAssumption DEF Checkpoint, Indices
    <3>3. run[w] \in Run
      BY DEF TypeOK
    <3>4. (file.sound /\ file.symbol = run[w].symbol) \in BOOLEAN
      OBVIOUS
    <3>5. run'[w] \in Run
      BY <2>1, <3>2, <3>3, <3>4 DEF TypeOK, Resume, Run
    <3>6. QED  BY <2>1, <3>5 DEF TypeOK, Resume
  <2>2. CASE ResumeFromNothing(w)
    <3>1. run[w] \in Run
      BY DEF TypeOK
    <3>2. run'[w] = [run[w] EXCEPT !.portfolio = [cash |-> 0, shares |-> 0, value |-> 0],
                                   !.sound = FALSE]
      BY <2>2 DEF TypeOK, ResumeFromNothing
    <3>3. [cash |-> 0, shares |-> 0, value |-> 0] \in Portfolio
      BY MoneyType DEF Portfolio
    <3>4. run'[w] \in Run
      BY <3>1, <3>2, <3>3 DEF Run
    <3>5. QED  BY <2>2, <3>4 DEF TypeOK, ResumeFromNothing
  <2>3. CASE StartAnew
    BY <2>3 DEF TypeOK, StartAnew
  <2>4. QED  BY <2>1, <2>2, <2>3 DEF Load
<1>2. Saving' = Saving
  BY DEF TypeOK, Load
<1>3. \A v \in Saving : run'[v] = run[v]
  BY DEF TypeOK, Load, Resume, ResumeFromNothing, StartAnew
<1>4. QED  BY <1>1, <1>2, <1>3 DEF TypeOK, Load

\* A turn of the loop is at a bar of a symbol.
LEMMA AtBar ==
    ASSUME TypeOK, NEW w \in Workers, Bar(w)
    PROVE  run[w] \in Run /\ run[w].symbol \in Symbols /\ run[w].index \in Indices
<1>1. run[w].index < Bars
  BY DEF Bar
<1>2. run[w] \in Run
  BY DEF TypeOK
<1>3. QED  BY <1>1, <1>2, ParametersAssumption DEF Run, Indices

LEMMA BarType ==
    ASSUME TypeOK, NEW w \in Workers, Bar(w)
    PROVE  TypeOK'
<1> DEFINE r == run[w]
           p == After(r.symbol, r.index, r.prev, r.portfolio)
<1>1. r \in Run /\ r.symbol \in Symbols /\ r.index \in Indices
  BY AtBar
<1>2. p \in Portfolio
  BY <1>1, AfterType DEF Run
<1>3. run'[w] \in Run /\ run'[w].index = r.index + 1
  <2>1. /\ r.index + 1 \in 0 .. Bars
        /\ Signal(r.symbol, r.index) \in {"HOLD", "BUY", "SELL"}
        /\ (IF p.shares = r.portfolio.shares THEN r.trades ELSE r.trades + 1) \in Nat
    <3>1. Signal(r.symbol, r.index) \in {"HOLD", "BUY", "SELL"}
      BY <1>1, SignalType
    <3> HIDE DEF r, p
    <3>2. QED  BY <1>1, <3>1, ParametersAssumption DEF Run, Indices
  <2> HIDE DEF p
  <2>2. run'[w] =
            [r EXCEPT !.index = r.index + 1, !.prev = Signal(r.symbol, r.index),
                      !.portfolio = p,
                      !.trades = IF p.shares = r.portfolio.shares
                                 THEN r.trades ELSE r.trades + 1]
    BY DEF TypeOK, Bar, p
  <2>3. QED  BY <1>1, <1>2, <2>1, <2>2 DEF Run
<1>4. run' \in [Workers -> Run]
  BY <1>3 DEF TypeOK, Bar
<1>5. /\ pc' = pc \/ pc' = [pc EXCEPT ![w] = "save"]
      /\ file' \in {file, EmptyFile}
      /\ \/ bounds' = bounds
         \/ Errors < MaxErrors /\ bounds' = [bounds EXCEPT !.unsaved = @ + 1]
  BY DEF Bar, Open
<1>6. pc' \in [Workers -> {"idle", "load", "bar", "save", "send", "fail"}]
      /\ file' \in {NoFile, EmptyFile} \cup Checkpoint
  BY <1>5 DEF TypeOK
<1>7. \A v \in Saving' : run'[v].index > 0
  BY <1>1, <1>3, <1>5 DEF TypeOK, Bar, Indices
<1>8. unlinked' \subseteq Saving'
  BY <1>5 DEF TypeOK, Bar
<1>9. bounds' \in [crashes : 0 .. MaxCrashes, late : 0 .. MaxLate,
                   restarts : 0 .. MaxRestarts, failed : 0 .. MaxErrors,
                   unsaved : 0 .. MaxErrors, cut : 0 .. MaxErrors]
  BY <1>5, ParametersAssumption DEF TypeOK, Errors
<1>10. QED  BY <1>4, <1>6, <1>7, <1>8, <1>9 DEF TypeOK, Bar

LEMMA WriteType ==
    ASSUME TypeOK, NEW w \in Workers, Write(w)
    PROVE  TypeOK'
<1>1. run[w] \in Run /\ run[w].index > 0
  BY DEF TypeOK, Write
<1>2. run[w].index - 1 \in Indices
  BY <1>1, ParametersAssumption DEF Run, Indices
<1>3. file' \in {NoFile, EmptyFile} \cup Checkpoint
  BY <1>1, <1>2 DEF TypeOK, Write, Run, Checkpoint
<1>4. unlinked' \subseteq Saving' /\ Saving' \subseteq Saving
  BY DEF TypeOK, Write
<1>5. QED  BY <1>3, <1>4 DEF TypeOK, Write

LEMMA PartType ==
    ASSUME NEW r \in Run, r.index > 0, NEW fields
    PROVE  Part(r, fields) \in Checkpoint
<1>1. r.index - 1 \in Indices
  BY ParametersAssumption DEF Run, Indices
<1>2. /\ r.symbol \in Symbols /\ r.sound \in BOOLEAN
      /\ r.portfolio.cash \in Money /\ r.portfolio.shares \in Nat
      /\ r.portfolio.value \in Money /\ 0 \in Money
  BY MoneyType DEF Run, Portfolio
<1> DEFINE q == Part(r, fields).portfolio
<1>3. q \in Portfolio
  BY <1>2 DEF Part, Portfolio
<1>4. (r.sound /\ fields > 3) \in BOOLEAN
  OBVIOUS
<1>5. QED  BY <1>1, <1>2, <1>3, <1>4 DEF Part, Checkpoint

LEMMA WriteCutType ==
    ASSUME TypeOK, NEW w \in Workers, WriteCut(w)
    PROVE  TypeOK'
<1>1. run[w] \in Run /\ run[w].index > 0
  BY DEF TypeOK, WriteCut
<1>2. file' \in {NoFile, EmptyFile} \cup Checkpoint
  BY <1>1, PartType DEF TypeOK, WriteCut
<1>3. /\ pc' \in [Workers -> {"idle", "load", "bar", "save", "send", "fail"}]
      /\ unlinked' \subseteq Saving' /\ Saving' \subseteq Saving
  BY DEF TypeOK, WriteCut
<1>4. bounds' \in [crashes : 0 .. MaxCrashes, late : 0 .. MaxLate,
                   restarts : 0 .. MaxRestarts, failed : 0 .. MaxErrors,
                   unsaved : 0 .. MaxErrors, cut : 0 .. MaxErrors]
  BY ParametersAssumption DEF TypeOK, WriteCut, Errors
<1>5. QED  BY <1>2, <1>3, <1>4 DEF TypeOK, WriteCut

LEMMA FailType ==
    ASSUME TypeOK, NEW w \in Workers, Fail(w)
    PROVE  TypeOK'
<1>1. /\ pc' \in [Workers -> {"idle", "load", "bar", "save", "send", "fail"}]
      /\ Saving' = Saving
  BY DEF TypeOK, Fail
<1>2. bounds' \in [crashes : 0 .. MaxCrashes, late : 0 .. MaxLate,
                   restarts : 0 .. MaxRestarts, failed : 0 .. MaxErrors,
                   unsaved : 0 .. MaxErrors, cut : 0 .. MaxErrors]
  BY ParametersAssumption DEF TypeOK, Fail, Errors
<1>3. QED  BY <1>1, <1>2 DEF TypeOK, Fail

LEMMA FinishType ==
    ASSUME TypeOK, NEW w \in Workers, Finish(w)
    PROVE  TypeOK'
BY DEF TypeOK, Finish

LEMMA SendType ==
    ASSUME TypeOK, NEW w \in Workers, Send(w)
    PROVE  TypeOK'
<1>1. Answer(w) \in [symbol : Symbols, success : BOOLEAN, value : Money,
                     trades : Nat, sound : BOOLEAN]
  <2>1. run[w] \in Run
    BY DEF TypeOK
  <2>2. /\ run[w].symbol \in Symbols /\ run[w].portfolio.value \in Money
        /\ run[w].trades \in Nat /\ run[w].sound \in BOOLEAN
        /\ 0 \in Money /\ 0 \in Nat
    BY <2>1, MoneyType DEF Run, Portfolio
  <2>3. QED  BY <2>2 DEF Answer
<1>2. results' \subseteq [symbol : Symbols, success : BOOLEAN, value : Money,
                           trades : Nat, sound : BOOLEAN]
  BY <1>1 DEF TypeOK, Send
<1>3. unlinked' \subseteq Saving' /\ Saving' \subseteq Saving
  BY DEF TypeOK, Send
<1>4. QED  BY <1>2, <1>3 DEF TypeOK, Send

LEMMA CrashType ==
    ASSUME TypeOK, NEW w \in Workers, Crash(w)
    PROVE  TypeOK'
BY ParametersAssumption DEF TypeOK, Crash

LEMMA RestartType ==
    ASSUME TypeOK, RestartController
    PROVE  TypeOK'
<1>1. bounds' \in [crashes : 0 .. MaxCrashes, late : 0 .. MaxLate,
                  restarts : 0 .. MaxRestarts, failed : 0 .. MaxErrors,
                  unsaved : 0 .. MaxErrors, cut : 0 .. MaxErrors]
  BY ParametersAssumption DEF TypeOK, RestartController
<1>2. results' \subseteq [symbol : Symbols, success : BOOLEAN, value : Money,
                           trades : Nat, sound : BOOLEAN]
  BY DEF RestartController
<1>3. QED  BY <1>1, <1>2 DEF TypeOK, RestartController

LEMMA InitType == Init => TypeOK
<1> SUFFICES ASSUME Init PROVE TypeOK
  OBVIOUS
<1>1. Fresh(symbol) \in Run
  BY FreshType DEF Init
<1>2. results \subseteq [symbol : Symbols, success : BOOLEAN, value : Money,
                          trades : Nat, sound : BOOLEAN]
  BY DEF Init
<1>3. bounds \in [crashes : 0 .. MaxCrashes, late : 0 .. MaxLate,
                 restarts : 0 .. MaxRestarts, failed : 0 .. MaxErrors,
                 unsaved : 0 .. MaxErrors, cut : 0 .. MaxErrors]
  BY ParametersAssumption DEF Init
<1>4. QED  BY <1>1, <1>2, <1>3 DEF Init, TypeOK

LEMMA NextType == TypeOK /\ [Next]_vars => TypeOK'
<1> SUFFICES ASSUME TypeOK, [Next]_vars PROVE TypeOK'
  OBVIOUS
<1>1. CASE UNCHANGED vars
  BY <1>1 DEF TypeOK, vars
<1>2. CASE Next
  BY <1>2, AssignType, LoadType, BarType, WriteType, WriteCutType, FinishType,
     FailType, SendType, CrashType, RestartType DEF Next
<1>3. QED  BY <1>1, <1>2

\* Every variable keeps its type; a worker that saves is past its first bar. The
\* shares are never short, and there are no debts if no price is below zero.
THEOREM TypeCorrect == Spec => []TypeOK
BY InitType, NextType, PTL DEF Spec

-----------------------------------------------------------------------------
(* The value of a result *)

\* A crossover is not followed by one of the same kind.
LEMMA SignalsAlternate ==
    ASSUME NEW s \in Symbols, NEW i \in Indices, i > 0, Signal(s, i) # "HOLD"
    PROVE  Signal(s, i - 1) # Signal(s, i)
<1>1. PICK over : \A j \in Indices :
          Signal(s, j) =
              IF ~(j > LongWindow /\ ~(over[j + 1] <=> over[j])) THEN "HOLD"
              ELSE IF over[j + 1] THEN "BUY" ELSE "SELL"
  BY SignalOfBar
<1> DEFINE j == i - 1
<1>2. j \in Indices /\ j + 1 = i
  BY ParametersAssumption DEF Indices
<1> HIDE DEF j
<1>3. /\ Signal(s, i) = "BUY" => over[i + 1] /\ ~over[i]
      /\ Signal(s, i) = "SELL" => ~over[i + 1] /\ over[i]
      /\ Signal(s, i) \in {"HOLD", "BUY", "SELL"}
  BY <1>1
<1>4. (Signal(s, j) = "BUY" => over[i]) /\ (Signal(s, j) = "SELL" => ~over[i])
  BY <1>1, <1>2
<1>5. QED  BY <1>3, <1>4 DEF j

\* The shares and the cash after a bar whose signal counts.
Settle(p, signal, price) ==
    LET bought == IF signal = "BUY" /\ p.shares = 0
                  THEN Sma!Purchase(p.cash, price) ELSE 0
        sold == IF signal = "SELL" THEN p.shares ELSE 0
    IN  [cash |-> p.cash - bought * price + sold * price,
         shares |-> p.shares + bought - sold]

\* Trading twice at one price on one signal is trading once.
LEMMA SettleTwice ==
    ASSUME NEW p \in Portfolio, NEW price \in Int, NEW signal,
           NEW q \in Portfolio,
           q.cash = Settle(p, signal, price).cash,
           q.shares = Settle(p, signal, price).shares
    PROVE  Settle(q, signal, price) = [cash |-> q.cash, shares |-> q.shares]
<1>1. /\ p.cash \in Int /\ p.shares \in Nat
      /\ q.cash \in Int /\ q.shares \in Nat
  BY MoneyType DEF Portfolio
<1>2. \A x \in Int : x * 0 = 0 /\ 0 * price = 0
  BY SMT
<1>3. CASE signal = "BUY"
  <2> DEFINE n == Sma!Purchase(p.cash, price)
             k == Sma!Purchase(q.cash, price)
  <2>1. n \in Nat /\ k \in Nat
    BY <1>1, PurchaseBounds
  <2>2. CASE p.shares # 0
    <3>1. q.cash = p.cash /\ q.shares = p.shares
      BY <1>1, <1>2, <1>3, <2>2 DEF Settle
    <3>2. QED  BY <1>1, <1>2, <1>3, <2>2, <3>1 DEF Settle
  <2>3. CASE p.shares = 0
    <3>1. q.shares = n
      BY <1>1, <1>3, <2>1, <2>3 DEF Settle
    <3>2. CASE n = 0
      <4>1. q.cash = p.cash
        <5>1. q.cash = p.cash - n * price + 0 * price
          BY <1>3, <2>3 DEF Settle
        <5>2. n * price = 0
          BY <3>2, <1>2
        <5>3. QED  BY <1>1, <1>2, <5>1, <5>2
      <4>2. k = 0
        BY <3>2, <4>1
      <4>3. Settle(q, signal, price) =
                [cash |-> q.cash - k * price + 0 * price, shares |-> q.shares + k - 0]
        BY <1>3, <3>1, <3>2 DEF Settle
      <4>4. k * price = 0
        BY <4>2, <1>2
      <4> HIDE DEF k
      <4>5. q.cash - k * price + 0 * price = q.cash
        BY <1>1, <1>2, <4>4
      <4>6. q.shares + k - 0 = q.shares
        BY <1>1, <4>2
      <4>7. QED  BY <4>3, <4>5, <4>6
    <3>3. CASE n # 0
      BY <1>1, <1>2, <1>3, <2>1, <3>1, <3>3 DEF Settle
    <3>4. QED  BY <3>2, <3>3
  <2>4. QED  BY <2>2, <2>3
<1>4. CASE signal = "SELL"
  <2>1. q.shares = 0
    BY <1>1, <1>4 DEF Settle
  <2>2. QED  BY <1>1, <1>2, <1>4, <2>1 DEF Settle
<1>5. CASE signal \notin {"BUY", "SELL"}
  BY <1>1, <1>2, <1>5 DEF Settle
<1>6. QED  BY <1>3, <1>4, <1>5

\* A bar in terms of Settle: a signal other than the previous one counts.
LEMMA AfterSettles ==
    ASSUME NEW s \in Symbols, NEW i \in Indices, NEW p, NEW prev,
           prev = "HOLD" \/ prev # Signal(s, i) \/ Signal(s, i) = "HOLD"
    PROVE  LET t == Settle(p, Signal(s, i), Close[s][i])
           IN  After(s, i, prev, p) =
                   [cash |-> t.cash, shares |-> t.shares,
                    value |-> t.cash + t.shares * Close[s][i]]
<1>1. (IF Signal(s, i) = prev THEN "HOLD" ELSE Signal(s, i)) = Signal(s, i)
  OBVIOUS
<1>2. QED  BY <1>1 DEF After, Settle

\* The bar the checkpoint was taken after, simulated again without a previous
\* signal, changes nothing.
LEMMA BarTwice ==
    ASSUME NEW s \in Symbols, NEW i \in Indices
    PROVE  After(s, i, "HOLD", Uninterrupted[s][i]) = Uninterrupted[s][i]
<1> DEFINE q == Uninterrupted[s][i]
           price == Close[s][i]
           signal == Signal(s, i)
<1>1. q \in Portfolio /\ price \in Int
  BY ParametersAssumption, BarByBar
<1>2. PICK p \in Portfolio, prev \in {"HOLD", "BUY", "SELL"} :
          /\ q = After(s, i, prev, p)
          /\ prev = "HOLD" \/ prev # signal \/ signal = "HOLD"
  <2>1. CASE i = 0
    <3>1. Start \in Portfolio
      BY ParametersAssumption, MoneyType DEF Start, Portfolio
    <3>2. q = After(s, i, "HOLD", Start)
      BY <2>1, BarByBar
    <3>3. QED  BY <3>1, <3>2
  <2>2. CASE i # 0
    <3>1. i > 0 /\ i - 1 \in Indices
      BY <2>2, ParametersAssumption DEF Indices
    <3>2. Uninterrupted[s][i - 1] \in Portfolio
      BY <3>1, BarByBar
    <3>3. q = After(s, i, Signal(s, i - 1), Uninterrupted[s][i - 1])
      BY <2>2, BarByBar
    <3>4. Signal(s, i - 1) # signal \/ signal = "HOLD"
      BY <3>1, SignalsAlternate
    <3>5. Signal(s, i - 1) \in {"HOLD", "BUY", "SELL"}
      BY <3>1, SignalType
    <3> HIDE DEF q, signal
    <3>6. QED  BY <3>2, <3>3, <3>4, <3>5
  <2>3. QED  BY <2>1, <2>2
<1> DEFINE t == Settle(p, signal, price)
           u == Settle(q, signal, price)
<1>3. q = [cash |-> t.cash, shares |-> t.shares, value |-> t.cash + t.shares * price]
  BY <1>2, AfterSettles
<1>4. u = [cash |-> q.cash, shares |-> q.shares]
  BY <1>1, <1>3, SettleTwice
<1>5. After(s, i, "HOLD", q) =
          [cash |-> u.cash, shares |-> u.shares, value |-> u.cash + u.shares * price]
  BY AfterSettles
<1>6. QED  BY <1>3, <1>4, <1>5

\* A sound run before bar i of its symbol: nothing is done yet, or all bars up
\* to i are, or the progress up to and including i was just resumed.
OnTrack(r) ==
    LET s == r.symbol  i == r.index
    IN  \/ i = 0 /\ r.portfolio = Start /\ r.prev = "HOLD"
        \/ /\ i > 0
           /\ r.portfolio = Uninterrupted[s][i - 1]
           /\ r.prev = Signal(s, i - 1)
        \/ /\ i < Bars
           /\ r.portfolio = Uninterrupted[s][i]
           /\ r.prev = "HOLD"

RunsOnTrack ==
    \A w \in Workers :
        /\ pc[w] = "load" =>
              run[w].index = 0 /\ run[w].portfolio = Start /\ run[w].prev = "HOLD"
        /\ run[w].sound =>
              /\ pc[w] \in {"bar", "save"} => OnTrack(run[w])
              /\ pc[w] = "save" =>
                    run[w].portfolio = Uninterrupted[run[w].symbol][run[w].index - 1]
              /\ pc[w] = "send" =>
                    run[w].portfolio = Uninterrupted[run[w].symbol][Bars - 1]

FileOnTrack ==
    file.content \in {"state", "part"} =>
        (file.sound => file.portfolio = Uninterrupted[file.symbol][file.index])

ValueInv == TypeOK /\ RunsOnTrack /\ FileOnTrack /\ ResultIsRight

\* A turn of the loop keeps a run on track.
LEMMA BarOnTrack ==
    ASSUME NEW r \in Run, r.index < Bars, OnTrack(r)
    PROVE  After(r.symbol, r.index, r.prev, r.portfolio)
               = Uninterrupted[r.symbol][r.index]
<1>1. r.symbol \in Symbols /\ r.index \in Indices
  BY ParametersAssumption DEF Run, Indices
<1>2. CASE r.index = 0 /\ r.portfolio = Start /\ r.prev = "HOLD"
  BY <1>1, <1>2, BarByBar
<1>3. CASE /\ r.index > 0
           /\ r.portfolio = Uninterrupted[r.symbol][r.index - 1]
           /\ r.prev = Signal(r.symbol, r.index - 1)
  BY <1>1, <1>3, BarByBar DEF Indices
<1>4. CASE r.portfolio = Uninterrupted[r.symbol][r.index] /\ r.prev = "HOLD"
  BY <1>1, <1>4, BarTwice
<1>5. QED  BY <1>2, <1>3, <1>4 DEF OnTrack

LEMMA AssignValue ==
    ASSUME ValueInv, NEW w \in Workers, Assign(w)
    PROVE  RunsOnTrack' /\ FileOnTrack' /\ ResultIsRight'
<1>1. run'[w] = Fresh(symbol) /\ pc'[w] = "load"
  BY DEF ValueInv, TypeOK, Assign
<1>2. run'[w].index = 0 /\ run'[w].portfolio = Start /\ run'[w].prev = "HOLD"
  BY <1>1 DEF Fresh
<1>3. \A v \in Workers \ {w} : run'[v] = run[v] /\ pc'[v] = pc[v]
  BY DEF ValueInv, TypeOK, Assign
<1>4. RunsOnTrack'
  BY <1>1, <1>2, <1>3 DEF ValueInv, RunsOnTrack, OnTrack
<1>5. QED  BY <1>4 DEF ValueInv, Assign, FileOnTrack, ResultIsRight

LEMMA LoadValue ==
    ASSUME ValueInv, NEW w \in Workers, Load(w)
    PROVE  RunsOnTrack' /\ FileOnTrack' /\ ResultIsRight'
<1>1. run[w] \in Run /\ pc'[w] = "bar"
  BY DEF ValueInv, TypeOK, Load
<1>2. ASSUME run'[w].sound PROVE OnTrack(run'[w])
  <2>1. CASE Resume(w)
    <3>1. run'[w] = [run[w] EXCEPT !.start = file.index, !.index = file.index,
                         !.portfolio = file.portfolio,
                         !.sound = file.sound /\ file.symbol = run[w].symbol]
      BY <2>1 DEF ValueInv, TypeOK, Resume
    <3>2. /\ run'[w].symbol = run[w].symbol /\ run'[w].prev = "HOLD"
          /\ run'[w].index = file.index /\ run'[w].portfolio = file.portfolio
          /\ run'[w].sound = (file.sound /\ file.symbol = run[w].symbol)
      BY <1>1, <3>1 DEF ValueInv, RunsOnTrack, Load, Run
    <3>3. file.sound /\ file.symbol = run[w].symbol
      BY <1>2, <3>2
    <3>4. file.portfolio = Uninterrupted[file.symbol][file.index]
      BY <2>1, <3>3 DEF ValueInv, FileOnTrack, Resume
    <3>5. file.index < Bars
      <4>1. file \in Checkpoint
        BY <2>1 DEF ValueInv, TypeOK, Resume, NoFile, EmptyFile
      <4>2. QED  BY <4>1, ParametersAssumption DEF Checkpoint, Indices
    <3>6. QED  BY <3>2, <3>3, <3>4, <3>5 DEF OnTrack
  <2>2. CASE ResumeFromNothing(w)
    BY <1>1, <1>2, <2>2 DEF ValueInv, TypeOK, ResumeFromNothing, Run
  <2>3. CASE StartAnew
    BY <2>3 DEF ValueInv, RunsOnTrack, Load, StartAnew, OnTrack
  <2>4. QED  BY <2>1, <2>2, <2>3 DEF Load
<1>3. \A v \in Workers \ {w} : run'[v] = run[v] /\ pc'[v] = pc[v]
  BY DEF ValueInv, TypeOK, Load, Resume, ResumeFromNothing, StartAnew
<1>4. RunsOnTrack'
  BY <1>1, <1>2, <1>3 DEF ValueInv, RunsOnTrack, OnTrack
<1>5. QED  BY <1>4 DEF ValueInv, Load, FileOnTrack, ResultIsRight

LEMMA BarValue ==
    ASSUME ValueInv, NEW w \in Workers, Bar(w)
    PROVE  RunsOnTrack' /\ FileOnTrack' /\ ResultIsRight'
<1> DEFINE r == run[w]
           s == r.symbol
           p == After(s, r.index, r.prev, r.portfolio)
<1>1. r \in Run /\ r.index \in Indices
  BY AtBar DEF ValueInv
<1>2. /\ run'[w].symbol = s /\ run'[w].index = r.index + 1
      /\ run'[w].prev = Signal(s, r.index) /\ run'[w].portfolio = p
      /\ run'[w].sound = r.sound
      /\ pc'[w] \in {"bar", "save"}
  BY <1>1 DEF ValueInv, TypeOK, Bar, Open, Run
<1>3. ASSUME r.sound
      PROVE  OnTrack(run'[w]) /\ run'[w].portfolio = Uninterrupted[s][run'[w].index - 1]
  <2>1. OnTrack(r)
    BY <1>3 DEF ValueInv, RunsOnTrack, Bar
  <2>2. p = Uninterrupted[s][r.index]
    BY <1>1, <2>1, BarOnTrack DEF Bar
  <2>3. run'[w].index - 1 = r.index /\ run'[w].index > 0
    BY <1>1, <1>2 DEF Indices
  <2> HIDE DEF p
  <2>4. QED  BY <1>2, <2>2, <2>3 DEF OnTrack
<1>4. \A v \in Workers \ {w} : run'[v] = run[v] /\ pc'[v] = pc[v]
  BY DEF ValueInv, TypeOK, Bar, Open
<1>5. RunsOnTrack'
  BY <1>2, <1>3, <1>4 DEF ValueInv, RunsOnTrack, OnTrack
<1>6. FileOnTrack'
  BY DEF ValueInv, FileOnTrack, Bar, Open, EmptyFile
<1>7. QED  BY <1>5, <1>6 DEF ValueInv, Bar, ResultIsRight

LEMMA WriteValue ==
    ASSUME ValueInv, NEW w \in Workers, Write(w)
    PROVE  RunsOnTrack' /\ FileOnTrack' /\ ResultIsRight'
<1>1. RunsOnTrack'
  BY DEF ValueInv, TypeOK, Write, RunsOnTrack, OnTrack
<1>2. FileOnTrack'
  <2>1. CASE w \in unlinked
    BY <2>1 DEF ValueInv, FileOnTrack, Write
  <2>2. CASE w \notin unlinked
    BY <2>2 DEF ValueInv, FileOnTrack, RunsOnTrack, Write
  <2>3. QED  BY <2>1, <2>2
<1>3. QED  BY <1>1, <1>2 DEF ValueInv, Write, ResultIsRight

LEMMA WriteCutValue ==
    ASSUME ValueInv, NEW w \in Workers, WriteCut(w)
    PROVE  RunsOnTrack' /\ FileOnTrack' /\ ResultIsRight'
<1>1. RunsOnTrack'
  BY DEF ValueInv, TypeOK, WriteCut, RunsOnTrack, OnTrack
<1>2. FileOnTrack'
  <2>1. CASE file' = file
    BY <2>1 DEF ValueInv, FileOnTrack
  <2>2. CASE file' = EmptyFile
    BY <2>2 DEF FileOnTrack
  <2>3. ASSUME NEW fields \in 1 .. 4, file' = Part(run[w], fields)
        PROVE  FileOnTrack'
    <3>1. SUFFICES ASSUME file'.sound
                   PROVE  file'.portfolio = Uninterrupted[file'.symbol][file'.index]
      BY DEF FileOnTrack
    <3>2. /\ file'.sound = (run[w].sound /\ fields > 3)
          /\ file'.symbol = run[w].symbol /\ file'.index = run[w].index - 1
      BY <2>3 DEF Part
    <3>3. run[w].sound /\ fields > 1 /\ fields > 2 /\ fields > 3
      <4>1. run[w].sound /\ fields > 3
        BY <3>1, <3>2, Zenon
      <4>2. QED  BY <4>1
    <3>4. run[w].portfolio \in Portfolio
      BY DEF ValueInv, TypeOK, Run
    <3>5. file'.portfolio = run[w].portfolio
      BY <2>3, <3>3, <3>4 DEF Part, Portfolio
    <3>6. run[w].portfolio = Uninterrupted[run[w].symbol][run[w].index - 1]
      BY <3>3 DEF ValueInv, RunsOnTrack, WriteCut
    <3>7. QED  BY <3>2, <3>5, <3>6
  <2>4. QED  BY <2>1, <2>2, <2>3 DEF WriteCut
<1>3. QED  BY <1>1, <1>2 DEF ValueInv, WriteCut, ResultIsRight

LEMMA FailValue ==
    ASSUME ValueInv, NEW w \in Workers, Fail(w)
    PROVE  RunsOnTrack' /\ FileOnTrack' /\ ResultIsRight'
<1>1. RunsOnTrack'
  BY DEF ValueInv, TypeOK, Fail, RunsOnTrack, OnTrack
<1>2. QED  BY <1>1 DEF ValueInv, Fail, FileOnTrack, ResultIsRight

LEMMA FinishValue ==
    ASSUME ValueInv, NEW w \in Workers, Finish(w)
    PROVE  RunsOnTrack' /\ FileOnTrack' /\ ResultIsRight'
<1>1. run[w] \in Run /\ pc'[w] = "send"
  BY DEF ValueInv, TypeOK, Finish
<1>2. ASSUME run[w].sound
      PROVE  run[w].portfolio = Uninterrupted[run[w].symbol][Bars - 1]
  BY <1>2, ParametersAssumption DEF ValueInv, RunsOnTrack, OnTrack, Finish
<1>3. \A v \in Workers \ {w} : pc'[v] = pc[v]
  BY DEF ValueInv, TypeOK, Finish
<1>4. RunsOnTrack'
  BY <1>1, <1>2, <1>3 DEF ValueInv, RunsOnTrack, OnTrack, Finish
<1>5. QED  BY <1>4 DEF ValueInv, Finish, FileOnTrack, ResultIsRight, NoFile

LEMMA SendValue ==
    ASSUME ValueInv, NEW w \in Workers, Send(w)
    PROVE  RunsOnTrack' /\ FileOnTrack' /\ ResultIsRight'
<1>1. RunsOnTrack'
  BY DEF ValueInv, TypeOK, Send, RunsOnTrack, OnTrack
<1>2. ResultIsRight'
  BY DEF ValueInv, RunsOnTrack, Send, Answer, ResultIsRight
<1>3. QED  BY <1>1, <1>2 DEF ValueInv, Send, FileOnTrack

LEMMA CrashValue ==
    ASSUME ValueInv, NEW w \in Workers, Crash(w)
    PROVE  RunsOnTrack' /\ FileOnTrack' /\ ResultIsRight'
<1>1. RunsOnTrack'
  BY DEF ValueInv, TypeOK, Crash, RunsOnTrack, OnTrack
<1>2. QED  BY <1>1 DEF ValueInv, Crash, FileOnTrack, ResultIsRight

LEMMA RestartValue ==
    ASSUME ValueInv, RestartController
    PROVE  RunsOnTrack' /\ FileOnTrack' /\ ResultIsRight'
BY DEF ValueInv, RestartController, RunsOnTrack, OnTrack, FileOnTrack, ResultIsRight

\* Whatever crashes, fails, is taken over or restarted, at whatever bar and with
\* whatever prices, a successful result computed from its own symbol's progress has the
\* value of an uninterrupted run.
THEOREM ValueIsRight == Spec => []ResultIsRight
<1>1. Init => ValueInv
  <2> SUFFICES ASSUME Init PROVE ValueInv
    OBVIOUS
  <2>1. RunsOnTrack
    BY DEF Init, RunsOnTrack
  <2>2. FileOnTrack /\ ResultIsRight
    BY DEF Init, FileOnTrack, ResultIsRight, NoFile
  <2>3. QED  BY <2>1, <2>2, InitType DEF ValueInv
<1>2. ValueInv /\ [Next]_vars => ValueInv'
  <2> SUFFICES ASSUME ValueInv, [Next]_vars PROVE ValueInv'
    OBVIOUS
  <2>1. TypeOK'
    BY NextType DEF ValueInv
  <2>2. CASE UNCHANGED vars
    BY <2>1, <2>2 DEF ValueInv, vars, RunsOnTrack, OnTrack, FileOnTrack, ResultIsRight
  <2>3. CASE Next
    BY <2>1, <2>3, AssignValue, LoadValue, BarValue, WriteValue, WriteCutValue,
       FinishValue, FailValue, SendValue, CrashValue, RestartValue DEF Next, ValueInv
  <2>4. QED  BY <2>2, <2>3
<1>3. ValueInv => ResultIsRight
  BY DEF ValueInv
<1>4. QED  BY <1>1, <1>2, <1>3, PTL DEF Spec

-----------------------------------------------------------------------------
(* Progress and leftovers *)

\* No worker was wrongly taken for dead, and the controller was not restarted.
Quiet == bounds.late = 0 /\ bounds.restarts = 0

\* Then one worker at a time has the job, and nobody deletes its file.
LoneWorker ==
    /\ unlinked = {}
    /\ \A w \in Workers : pc[w] # "idle" =>
          w \in online /\ ~done /\ \A v \in Workers : pc[v] # "idle" => v = w

\* The checkpoint is deleted before the result of a job that succeeds is sent.
FileDeleted ==
    /\ (\E r \in results : r.success) => done /\ file = NoFile
    /\ \A w \in Workers : pc[w] = "send" => file = NoFile

LoneInv ==
    /\ TypeOK
    /\ Quiet => LoneWorker /\ FileDeleted

\* Unless a disk was full, checkpoints are due a whole number of intervals after
\* the first bar of the run; one more may be missing for each failed save, and the
\* next is never overdue.
Reach == Interval * (1 + bounds.unsaved)

OnSchedule(r) ==
    IF file.content = "state"
    THEN /\ r.start <= file.index
         /\ (file.index - r.start) % Interval = 0
         /\ file.index <= r.index
         /\ r.index - file.index <= Reach
    ELSE r.start = 0 /\ r.index <= Reach

Scheduled ==
    /\ file.content # "part"
    /\ \A w \in Workers :
          /\ pc[w] = "load" => run[w].start = 0 /\ run[w].index = 0
          /\ pc[w] = "bar" => OnSchedule(run[w])
          /\ pc[w] = "save" =>
                /\ run[w].start < run[w].index - 1
                /\ (run[w].index - 1 - run[w].start) % Interval = 0

ProgressInv ==
    /\ LoneInv
    /\ Quiet /\ bounds.cut = 0 => Scheduled

\* Any number of intervals later is on schedule again.
LEMMA NextMultiple ==
    ASSUME NEW i \in Nat \ {0}, NEW x \in Nat, x % i = 0, NEW k \in Nat
    PROVE  i * k \in Nat /\ (x + i * k) % i = 0
<1> DEFINE q == x \div i
           y == x + i * k
           p == y \div i
           r == y % i
<1>1. q \in Int /\ x = i * q
  BY SMT
<1>2. i * k \in Nat
  BY SMT
<1>3. y \in Nat
  BY <1>2
<1> HIDE DEF y
<1>4. p \in Int /\ r \in 0 .. i - 1 /\ y = i * p + r
  BY <1>3, SMT
<1> HIDE DEF q, p, r
<1>5. i * q + i * k = i * (q + k) /\ i * (q + k) - i * p = i * (q + k - p)
  BY <1>1, <1>4, SMT
<1>6. r = i * (q + k - p)
  BY <1>1, <1>2, <1>4, <1>5 DEF y
<1> DEFINE d == q + k - p
<1>7. d \in Int
  BY <1>1, <1>4
<1> HIDE DEF d
<1>8. CASE d >= 1
  BY <1>4, <1>6, <1>7, <1>8, SMT DEF d
<1>9. CASE d <= -1
  BY <1>4, <1>6, <1>7, <1>9, SMT DEF d
<1>10. ASSUME d = 0 PROVE r = 0
  <2>1. r = i * 0
    BY <1>6, <1>10 DEF d
  <2>2. QED  BY <2>1, SMT
<1>11. ASSUME d = 0 PROVE i * k \in Nat /\ (x + i * k) % i = 0
  BY <1>2, <1>10, <1>11 DEF r, y
<1>12. QED  BY <1>7, <1>8, <1>9, <1>11

LEMMA ZeroMultiple ==
    ASSUME NEW i \in Nat \ {0}
    PROVE  0 % i = 0 /\ i % i = 0
BY SMT

\* The reach is a number of intervals, at least one.
LEMMA ReachType ==
    ASSUME TypeOK
    PROVE  /\ bounds.unsaved \in Nat /\ Interval \in Nat \ {0}
           /\ Reach \in Nat /\ Reach >= Interval
           /\ Interval * (1 + (bounds.unsaved + 1)) = Reach + Interval
<1>1. bounds.unsaved \in Nat /\ Interval \in Nat \ {0}
  BY ParametersAssumption DEF TypeOK
<1> DEFINE k == bounds.unsaved
<1>2. Interval * k \in Nat
  BY <1>1, SMT
<1>3. /\ Interval * (1 + k) = Interval + Interval * k
      /\ Interval * (1 + (k + 1)) = Interval + Interval * k + Interval
  BY <1>1, SMT
<1>4. QED  BY <1>1, <1>2, <1>3 DEF Reach

\* A file with a checkpoint in it is one.
LEMMA FileKinds ==
    ASSUME TypeOK
    PROVE  /\ file.content \in {"state", "part"} <=> file \in Checkpoint
           /\ NoFile.content = "none" /\ EmptyFile.content = "empty"
BY DEF TypeOK, Checkpoint, NoFile, EmptyFile

\* Bounds only grow.
LEMMA QuietBefore ==
    ASSUME TypeOK, Next, Quiet'
    PROVE  Quiet /\ (bounds'.cut = 0 => bounds.cut = 0)
<1> DEFINE Before == Quiet /\ (bounds'.cut = 0 => bounds.cut = 0)
<1>1. bounds.late \in Nat /\ bounds.restarts \in Nat /\ bounds.cut \in Nat
  BY DEF TypeOK
<1>2. CASE RestartController
  BY <1>1, <1>2 DEF RestartController, Quiet, TypeOK
<1>3. ASSUME NEW w \in Workers, Assign(w) PROVE Before
  BY <1>1, <1>3 DEF Assign, Quiet, TypeOK
<1>4. ASSUME NEW w \in Workers, Crash(w) PROVE Before
  BY <1>1, <1>4 DEF Crash, Quiet, TypeOK
<1>5. ASSUME NEW w \in Workers, WriteCut(w) PROVE Before
  BY <1>1, <1>5 DEF WriteCut, Quiet, TypeOK
<1>6. ASSUME NEW w \in Workers, Bar(w) \/ Fail(w) PROVE Before
  BY <1>1, <1>6 DEF Bar, Open, Fail, Quiet, TypeOK
<1>7. ASSUME NEW w \in Workers, Load(w) \/ Write(w) \/ Finish(w) \/ Send(w)
      PROVE  Before
  BY <1>7 DEF Load, Write, Finish, Send, Quiet
<1>8. QED  BY <1>2, <1>3, <1>4, <1>5, <1>6, <1>7 DEF Next

\* No step gives the job to a second worker or leaves the file of a job that has
\* succeeded.
LEMMA LoneStep ==
    ASSUME LoneInv, Next, Quiet, Quiet'
    PROVE  LoneWorker' /\ FileDeleted'
<1> USE DEF LoneInv
<1>1. ASSUME NEW w \in Workers, Assign(w) PROVE LoneWorker' /\ FileDeleted'
  <2>1. ~Taken
    BY <1>1 DEF Quiet, Assign, TypeOK
  <2>2. \A v \in Workers : pc[v] = "idle"
    BY <2>1 DEF LoneWorker, Taken, TypeOK
  <2>3. pc'[w] = "load" /\ \A v \in Workers \ {w} : pc'[v] = "idle"
    BY <1>1, <2>2 DEF TypeOK, Assign
  <2>4. QED  BY <1>1, <2>3 DEF LoneWorker, FileDeleted, Assign
<1>2. ASSUME NEW w \in Workers, pc[w] # "idle",
             \A v \in Workers \ {w} : pc'[v] = pc[v],
             UNCHANGED <<done, results, online>>, unlinked' = {},
             pc'[w] = "send" => file' = NoFile
      PROVE  LoneWorker' /\ FileDeleted'
  <2>1. /\ ~done /\ ~ \E r \in results : r.success
        /\ w \in online /\ \A v \in Workers \ {w} : pc'[v] = "idle"
    BY <1>2 DEF LoneWorker, FileDeleted
  <2>2. QED  BY <1>2, <2>1 DEF LoneWorker, FileDeleted
<1>3. ASSUME NEW w \in Workers, Load(w) PROVE LoneWorker' /\ FileDeleted'
  BY <1>2, <1>3 DEF TypeOK, LoneWorker, Load
<1>4. ASSUME NEW w \in Workers, Bar(w) PROVE LoneWorker' /\ FileDeleted'
  <2>1. pc[w] = "bar" /\ pc'[w] \in {"bar", "save"}
        /\ \A v \in Workers \ {w} : pc'[v] = pc[v]
    BY <1>4 DEF TypeOK, Bar, Open
  <2>2. unlinked' = {} /\ UNCHANGED <<done, results, online>>
    BY <1>4 DEF LoneWorker, Bar
  <2>3. QED  BY <1>2, <2>1, <2>2
<1>5. ASSUME NEW w \in Workers, Write(w) \/ WriteCut(w)
      PROVE  LoneWorker' /\ FileDeleted'
  <2>1. pc[w] = "save" /\ pc'[w] = "bar" /\ \A v \in Workers \ {w} : pc'[v] = pc[v]
    BY <1>5 DEF TypeOK, Write, WriteCut
  <2>2. unlinked' = {} /\ UNCHANGED <<done, results, online>>
    BY <1>5 DEF LoneWorker, Write, WriteCut
  <2>3. QED  BY <1>2, <2>1, <2>2
<1>6. ASSUME NEW w \in Workers, Finish(w) PROVE LoneWorker' /\ FileDeleted'
  <2>1. pc[w] = "bar" /\ \A v \in Workers \ {w} : pc[v] = "idle"
    BY <1>6 DEF LoneWorker, Finish
  <2>2. Saving = {}
    BY <2>1
  <2>3. QED  BY <1>2, <1>6, <2>1, <2>2 DEF TypeOK, Finish
<1>7. ASSUME NEW w \in Workers, Fail(w) PROVE LoneWorker' /\ FileDeleted'
  BY <1>2, <1>7 DEF TypeOK, LoneWorker, Fail
<1>8. ASSUME NEW w \in Workers, Send(w) PROVE LoneWorker' /\ FileDeleted'
  <2>1. /\ pc[w] \in {"send", "fail"}
        /\ \A v \in Workers : pc'[v] = "idle"
    BY <1>8 DEF TypeOK, LoneWorker, Send
  <2>2. /\ w \in online /\ ~ \E r \in results : r.success
        /\ pc[w] = "send" => file = NoFile
    BY <2>1 DEF LoneWorker, FileDeleted
  <2>3. done' /\ file' = file /\ results' = results \cup {Answer(w)}
    BY <1>8, <2>2 DEF Send
  <2>4. (\E r \in results' : r.success) => pc[w] = "send"
    BY <2>1, <2>2, <2>3 DEF Answer
  <2>5. QED  BY <1>8, <2>1, <2>2, <2>3, <2>4 DEF LoneWorker, FileDeleted, Send
<1>9. ASSUME NEW w \in Workers, Crash(w) PROVE LoneWorker' /\ FileDeleted'
  <2>1. \A v \in Workers : pc'[v] = "idle"
    BY <1>9 DEF TypeOK, LoneWorker, Crash
  <2>2. QED  BY <1>9, <2>1 DEF LoneWorker, FileDeleted, Crash
<1>10. ~RestartController
  BY DEF RestartController, Quiet, TypeOK
<1>11. QED  BY <1>1, <1>3, <1>4, <1>5, <1>6, <1>7, <1>8, <1>9, <1>10 DEF Next

LEMMA AssignProgress ==
    ASSUME ProgressInv, Quiet, Quiet', bounds.cut = 0, NEW w \in Workers, Assign(w)
    PROVE  Scheduled'
<1> USE DEF LoneInv
<1>1. ~Taken
  BY DEF ProgressInv, Quiet, Assign, TypeOK
<1>2. \A v \in Workers : pc[v] = "idle"
  BY <1>1 DEF ProgressInv, LoneWorker, Taken, TypeOK
<1>3. /\ pc'[w] = "load"
      /\ \A v \in Workers \ {w} : pc'[v] = "idle"
      /\ run'[w] = Fresh(symbol)
  BY <1>2 DEF ProgressInv, TypeOK, Assign
<1>4. file' = file /\ file.content # "part"
  BY DEF ProgressInv, Scheduled, Assign
<1>5. QED  BY <1>3, <1>4 DEF Scheduled, Fresh

LEMMA LoadProgress ==
    ASSUME ProgressInv, Quiet, bounds.cut = 0, NEW w \in Workers, Load(w)
    PROVE  Scheduled'
<1> USE DEF LoneInv
<1>1. /\ pc'[w] = "bar"
      /\ \A v \in Workers \ {w} : pc'[v] = pc[v] /\ pc[v] = "idle"
      /\ file' = file /\ file.content # "part" /\ Reach' = Reach
  BY DEF ProgressInv, TypeOK, LoneWorker, Scheduled, Load, Reach
<1>3. run[w].start = 0 /\ run[w].index = 0 /\ run[w] \in Run /\ Reach \in Nat
  BY ReachType DEF ProgressInv, Scheduled, Load, TypeOK
<1>4. OnSchedule(run[w])'
  <2>1. CASE Resume(w)
    <3>1. file.content = "state" /\ file \in Checkpoint
      BY <1>1, <2>1, FileKinds DEF ProgressInv, Resume
    <3>2. file.index \in Nat
      BY <3>1, ParametersAssumption DEF Checkpoint, Indices
    <3>3. run'[w].start = file.index /\ run'[w].index = file.index
      BY <1>3, <2>1 DEF Resume, ProgressInv, TypeOK
    <3>4. file.index - file.index = 0 /\ 0 % Interval = 0 /\ 0 <= Reach
      BY <1>3, <3>2, ZeroMultiple, ParametersAssumption
    <3>5. QED  BY <1>1, <3>1, <3>2, <3>3, <3>4 DEF OnSchedule
  <2>2. CASE ResumeFromNothing(w) \/ StartAnew
    <3>1. run'[w].start = 0 /\ run'[w].index = 0
      BY <1>3, <2>2 DEF ResumeFromNothing, StartAnew, ProgressInv, TypeOK, Run
    <3>2. file.content # "state"
      BY <2>2, FileKinds DEF ProgressInv, ResumeFromNothing, StartAnew
    <3>3. QED  BY <1>1, <1>3, <3>1, <3>2 DEF OnSchedule
  <2>3. QED  BY <2>1, <2>2 DEF Load
<1>5. QED  BY <1>1, <1>4 DEF Scheduled, OnSchedule

LEMMA BarProgress ==
    ASSUME ProgressInv, Quiet, bounds.cut = 0, NEW w \in Workers, Bar(w)
    PROVE  Scheduled'
<1> USE DEF LoneInv
<1> DEFINE r == run[w]
<1>1. /\ pc[w] = "bar" /\ file.content # "part"
      /\ \A v \in Workers \ {w} : pc'[v] = pc[v] /\ pc[v] = "idle"
  BY DEF ProgressInv, TypeOK, LoneWorker, Scheduled, Bar, Open
<1>2. /\ r \in Run /\ OnSchedule(r)
      /\ r.index \in Nat /\ r.start \in Nat /\ Interval \in Nat \ {0}
  <2>1. r \in Run
    BY DEF ProgressInv, TypeOK
  <2>2. OnSchedule(r)
    BY <1>1 DEF ProgressInv, Scheduled
  <2>3. r.index \in Nat /\ r.start \in Nat
    BY <2>1, ParametersAssumption DEF Run, Indices
  <2>4. QED  BY <2>1, <2>2, <2>3, ParametersAssumption
<1>3. run'[w].start = r.start /\ run'[w].index = r.index + 1
  BY <1>2 DEF Bar, ProgressInv, TypeOK, Run
<1>4. /\ Reach \in Nat /\ Reach >= Interval
      /\ bounds.unsaved \in Nat
      /\ Interval * (1 + (bounds.unsaved + 1)) = Reach + Interval
  BY ReachType DEF ProgressInv
<1>5. CASE SaveDue(r) /\ file' = EmptyFile /\ pc' = [pc EXCEPT ![w] = "save"]
  <2>1. pc'[w] = "save" /\ file'.content # "part"
    BY <1>5 DEF ProgressInv, TypeOK
  <2> HIDE DEF r
  <2>2. r.start < (r.index + 1) - 1 /\ (r.index + 1) - 1 = r.index
        /\ (r.index - r.start) % Interval = 0
    BY <1>2, <1>5 DEF SaveDue
  <2>3. QED  BY <1>1, <1>3, <2>1, <2>2 DEF Scheduled
<1>6. CASE /\ SaveDue(r) /\ UNCHANGED <<file, pc>>
           /\ bounds' = [bounds EXCEPT !.unsaved = @ + 1]
  <2>1. Reach' = Reach + Interval
    <3>1. bounds'.unsaved = bounds.unsaved + 1
      BY <1>6 DEF ProgressInv, TypeOK
    <3>2. QED  BY <1>4, <3>1 DEF Reach
  <2>2. CASE file.content = "state"
    <3>1. file.index \in Nat
      BY <2>2, FileKinds, ParametersAssumption DEF ProgressInv, Checkpoint, Indices
    <3> HIDE DEF r
    <3>2. /\ r.start <= file.index /\ file.index <= r.index + 1
          /\ (file.index - r.start) % Interval = 0
          /\ (r.index + 1) - file.index <= Reach + Interval
      BY <1>2, <1>4, <2>2, <3>1 DEF OnSchedule
    <3>3. OnSchedule(run[w])'
      BY <1>3, <1>6, <2>1, <2>2, <3>2 DEF OnSchedule
    <3>4. QED  BY <1>1, <1>6, <3>3 DEF Scheduled, OnSchedule
  <2>3. CASE file.content # "state"
    <3> HIDE DEF r
    <3>1. r.start = 0 /\ r.index + 1 <= Reach + Interval
      BY <1>2, <1>4, <2>3 DEF OnSchedule
    <3>2. OnSchedule(run[w])'
      BY <1>3, <1>6, <2>1, <2>3, <3>1 DEF OnSchedule
    <3>3. QED  BY <1>1, <1>6, <3>2 DEF Scheduled, OnSchedule
  <2>4. QED  BY <2>2, <2>3
<1>7. CASE ~SaveDue(r) /\ UNCHANGED <<file, pc, bounds>>
  <2>1. Reach' = Reach
    BY <1>7 DEF Reach
  <2>2. CASE file.content = "state"
    <3>1. file.index \in Nat
      BY <2>2, FileKinds, ParametersAssumption DEF ProgressInv, Checkpoint, Indices
    <3> HIDE DEF r
    <3>2. r.index - file.index # Reach
      <4>1. SUFFICES ASSUME r.index - file.index = Reach PROVE FALSE
        OBVIOUS
      <4>2. (file.index - r.start) \in Nat /\ (file.index - r.start) % Interval = 0
        BY <1>2, <2>2, <3>1 DEF OnSchedule
      <4>3. r.index - r.start = (file.index - r.start) + Reach /\ r.index > r.start
        BY <1>2, <1>4, <3>1, <4>1, <4>2
      <4>4. (r.index - r.start) % Interval = 0
        <5> DEFINE x == file.index - r.start
                   k == 1 + bounds.unsaved
        <5>1. x \in Nat /\ x % Interval = 0 /\ k \in Nat
          BY <1>4, <4>2
        <5>2. Reach = Interval * k /\ r.index - r.start = x + Reach
          BY <4>3 DEF Reach
        <5> HIDE DEF x, k
        <5>3. (x + Interval * k) % Interval = 0
          BY <1>2, <5>1, NextMultiple
        <5>4. QED  BY <5>2, <5>3
      <4>5. QED  BY <1>7, <4>3, <4>4 DEF SaveDue
    <3>3. /\ r.start <= file.index /\ file.index <= r.index + 1
          /\ (file.index - r.start) % Interval = 0
          /\ (r.index + 1) - file.index <= Reach
      <4>1. /\ r.start <= file.index /\ file.index <= r.index
            /\ (file.index - r.start) % Interval = 0
            /\ r.index - file.index <= Reach
        BY <1>2, <2>2 DEF OnSchedule
      <4>2. file.index <= r.index + 1 /\ (r.index + 1) - file.index <= Reach
        <5>1. r.index \in Nat /\ Reach \in Nat
          BY <1>2, <1>4
        <5>2. file.index <= r.index /\ r.index - file.index <= Reach
          BY <4>1
        <5>3. QED  BY <3>1, <3>2, <5>1, <5>2
      <4>3. QED  BY <4>1, <4>2
    <3>4. OnSchedule(run[w])'
      BY <1>3, <1>7, <2>1, <2>2, <3>3 DEF OnSchedule
    <3>5. QED  BY <1>1, <1>7, <3>4 DEF Scheduled, OnSchedule
  <2>3. CASE file.content # "state"
    <3> HIDE DEF r
    <3>1. r.start = 0 /\ r.index <= Reach
      BY <1>2, <2>3 DEF OnSchedule
    <3>2. r.index # Reach
      <4>1. SUFFICES ASSUME r.index = Reach PROVE FALSE
        OBVIOUS
      <4>2. (r.index - r.start) % Interval = 0 /\ r.index > r.start
        <5> DEFINE k == 1 + bounds.unsaved
        <5>1. k \in Nat /\ 0 % Interval = 0 /\ Reach = Interval * k
          BY <1>2, <1>4, ZeroMultiple DEF Reach
        <5> HIDE DEF k
        <5>2. (0 + Interval * k) % Interval = 0
          BY <1>2, <5>1, NextMultiple
        <5>3. r.index - r.start = 0 + Interval * k /\ r.index > r.start
          BY <1>2, <1>4, <3>1, <4>1, <5>1
        <5>4. QED  BY <5>2, <5>3
      <4>3. QED  BY <1>7, <4>2 DEF SaveDue
    <3>3. OnSchedule(run[w])'
      BY <1>2, <1>3, <1>4, <1>7, <2>1, <2>3, <3>1, <3>2 DEF OnSchedule
    <3>4. QED  BY <1>1, <1>7, <3>3 DEF Scheduled, OnSchedule
  <2>4. QED  BY <2>2, <2>3
<1>8. QED  BY <1>5, <1>6, <1>7 DEF Bar, Open

LEMMA WriteProgress ==
    ASSUME ProgressInv, Quiet, bounds.cut = 0, NEW w \in Workers, Write(w)
    PROVE  Scheduled'
<1> USE DEF LoneInv
<1> DEFINE r == run[w]
<1>1. /\ pc[w] = "save" /\ pc'[w] = "bar"
      /\ \A v \in Workers \ {w} : pc'[v] = pc[v] /\ pc[v] = "idle"
  BY DEF ProgressInv, TypeOK, LoneWorker, Write
<1>3. /\ r.index \in Nat /\ r.start \in Nat /\ Interval \in Nat \ {0}
      /\ r.start < r.index - 1 /\ (r.index - 1 - r.start) % Interval = 0
      /\ Reach \in Nat /\ Reach >= Interval
  BY <1>1, ReachType DEF ProgressInv, Scheduled, TypeOK, Run, Indices
<1>4. /\ run' = run /\ file'.content = "state" /\ file'.index = r.index - 1
      /\ Reach' = Reach
  BY DEF Write, ProgressInv, LoneWorker, Reach
<1> HIDE DEF r
<1>5. OnSchedule(run[w])'
  BY <1>3, <1>4 DEF OnSchedule, r
<1>6. QED  BY <1>1, <1>4, <1>5 DEF Scheduled, OnSchedule

\* The job leaves its loop.
LEMMA LeaveProgress ==
    ASSUME ProgressInv, Quiet, bounds.cut = 0, NEW w \in Workers,
           Finish(w) \/ Fail(w) \/ Send(w) \/ Crash(w)
    PROVE  Scheduled'
<1> USE DEF LoneInv
<1>1. \A v \in Workers : pc'[v] \in {"idle", "send", "fail"}
  BY DEF ProgressInv, TypeOK, LoneWorker, Finish, Fail, Send, Crash
<1>2. file' \in {file, NoFile} /\ file.content # "part"
  BY DEF ProgressInv, Scheduled, Finish, Fail, Send, Crash
<1>3. QED  BY <1>1, <1>2 DEF Scheduled

LEMMA ProgressHolds == Spec => []ProgressInv
<1> USE DEF LoneInv
<1>1. Init => ProgressInv
  BY InitType DEF Init, ProgressInv, LoneWorker, FileDeleted, Scheduled
<1>2. ProgressInv /\ [Next]_vars => ProgressInv'
  <2> SUFFICES ASSUME ProgressInv, [Next]_vars PROVE ProgressInv'
    OBVIOUS
  <2>1. TypeOK'
    BY NextType DEF ProgressInv
  <2>2. CASE UNCHANGED vars
    BY <2>1, <2>2 DEF ProgressInv, vars, Quiet, LoneWorker, FileDeleted, Scheduled,
                      OnSchedule, Reach
  <2>3. CASE Next
    <3>1. ASSUME Quiet' PROVE Quiet /\ LoneWorker' /\ FileDeleted'
      BY <2>3, <3>1, QuietBefore, LoneStep DEF ProgressInv
    <3>2. ASSUME Quiet', bounds'.cut = 0 PROVE Scheduled'
      <4>1. Quiet /\ bounds.cut = 0
        BY <2>3, <3>2, QuietBefore DEF ProgressInv
      <4>2. ~RestartController /\ ~ \E w \in Workers : WriteCut(w)
        BY <3>2, <4>1 DEF RestartController, WriteCut, Quiet, ProgressInv, TypeOK
      <4>3. QED
        BY <2>3, <3>2, <4>1, <4>2, AssignProgress, LoadProgress, BarProgress,
           WriteProgress, LeaveProgress DEF Next
    <3>3. QED  BY <2>1, <3>1, <3>2 DEF ProgressInv
  <2>4. QED  BY <2>2, <2>3
<1>3. QED  BY <1>1, <1>2, PTL DEF Spec

\* While no worker is wrongly taken for dead, the controller is not restarted and
\* no disk is full, a worker between two saves is an interval ahead of the file at
\* most, and one more for each save that could not open it.
THEOREM ProgressKept == Spec => []ProgressIsKept
<1>1. ProgressInv => ProgressIsKept
  <2> SUFFICES ASSUME ProgressInv, Quiet, bounds.cut = 0, NEW w \in Workers,
                      pc[w] = "bar", run[w].index > Reach
               PROVE  file.content = "state" /\ run[w].index - file.index <= Reach
    BY DEF ProgressIsKept, Quiet, Reach
  <2>1. OnSchedule(run[w])
    BY DEF ProgressInv, Scheduled
  <2>2. run[w].index \in Nat /\ Reach \in Nat
    BY ReachType DEF ProgressInv, LoneInv, TypeOK, Run
  <2>3. ~(run[w].index <= Reach)
    BY <2>2
  <2>4. QED  BY <2>1, <2>3 DEF OnSchedule
<1>2. QED  BY <1>1, ProgressHolds, PTL

\* A job that has succeeded leaves no checkpoint to the next job of its id. (One
\* that has failed does.)
THEOREM NothingLeft == Spec => []NoLeftover
<1>1. ProgressInv => NoLeftover
  <2> SUFFICES ASSUME ProgressInv, bounds.late = 0, bounds.restarts = 0,
                      \E r \in results : r.success
               PROVE  file = NoFile
    BY DEF NoLeftover
  <2>1. QED  BY DEF ProgressInv, LoneInv, Quiet, FileDeleted
<1>2. QED  BY <1>1, ProgressHolds, PTL
=============================================================================
