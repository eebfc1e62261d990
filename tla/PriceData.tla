------------------------------ MODULE PriceData ------------------------------
(***************************************************************************)
(* Where the bars of a job come from (data/csv_loader.cpp, and the beginning *)
(* of Worker::process_job_with_checkpoint): each worker reads the file of a   *)
(* symbol once, keeps what it read for as long as it lives, and cuts the date *)
(* range of each job out of it. A job whose checkpoint is found is not        *)
(* simulated from its first bar; what it answers is Backtest's.             *)
(*                                                                         *)
(* A row is a line of the file after the header; a bad row lacks a column,   *)
(* holds something that is no number or fails is_valid(). Dates are numbers. *)
(* The files are written by scripts that know nothing of the workers.       *)
(***************************************************************************)
EXTENDS Strategy

CONSTANTS
    Workers, Symbols, Jobs,
    Files,          \* contents a file may have
    MaxRewrites     \* bound: files replaced while the workers run

Row == [date : Nat, close : Int, bad : BOOLEAN]
Bar == [date : Nat, close : Int, bad : {FALSE}]
None == [none |-> TRUE]

\* A file that is missing has no rows, and no bars have been read: an empty file
\* and a missing one fail alike, and no empty data are kept.
Nothing == <<>>

ASSUME PriceDataAssumption ==
    /\ Jobs \subseteq [symbol : Symbols, first : Nat, last : Nat]
    /\ \A f \in Files : f \in Seq(Row)
    /\ MaxRewrites \in Nat

VARIABLES
    file,       \* of each symbol
    cache,      \* of each worker, cache_: the bars of each symbol it has read
    answer,     \* of each worker, its last answer
    rewrites

vars == <<file, cache, answer, rewrites>>

Outcome ==
    [job : Jobs, ok : {TRUE}, resumed : {FALSE}, bars : Seq(Bar),
     result : [value : Int, trades : Seq([signal : {"BUY", "SELL"}, value : Int]),
               winning : Nat, losing : Nat, drawdown : Int \X Nat]]
    \cup [job : Jobs, ok : {TRUE}, resumed : {TRUE}, bars : Seq(Bar)]
    \cup [job : Jobs, ok : {FALSE}]

TypeOK ==
    /\ file \in [Symbols -> Files]
    /\ cache \in [Workers -> [Symbols -> Seq(Bar)]]
    /\ answer \in [Workers -> {None} \cup Outcome]
    /\ rewrites \in 0 .. MaxRewrites

Init ==
    /\ file \in [Symbols -> Files]
    /\ cache = [w \in Workers |-> [s \in Symbols |-> Nothing]]
    /\ answer = [w \in Workers |-> None]
    /\ rewrites = 0

-----------------------------------------------------------------------------
(* The loader *)

\* Mutant: is_valid is not asked.
GoodRowsAll(rows) == rows

\* The rows among some, in their order.
Sifted(rows, some) ==
    LET sifted[i \in 0 .. Len(rows)] ==
            IF i = 0 THEN <<>>
            ELSE IF rows[i] \in some THEN Append(sifted[i - 1], rows[i]) ELSE sifted[i - 1]
    IN  sifted[Len(rows)]

\* load_from_file, add_bar: bad rows are passed over.
GoodRows(rows) == Sifted(rows, Bar)

InOrder(bars) == \A i \in 1 .. Len(bars) - 1 : bars[i].date <= bars[i + 1].date

\* The bar put into sorted bars where its date allows.
Insertions(sorted, bar) ==
    {s \in {InsertAt(sorted, i, bar) : i \in 1 .. Len(sorted) + 1} : InOrder(s)}

\* sort_by_date: std::sort, which leaves bars of one date in any order.
Sortings(bars) ==
    LET sortings[i \in 0 .. Len(bars)] ==
            IF i = 0 THEN {<<>>} ELSE UNION {Insertions(s, bars[i]) : s \in sortings[i - 1]}
    IN  sortings[Len(bars)]

\* What load_from_file may make of a file; nothing if it throws.
Loaded(f) ==
    IF GoodRows(f) = Nothing THEN {} ELSE Sortings(GoodRows(f))

\* get_range.
InRange(bars, job) == Sifted(bars, [date : job.first .. job.last, close : Int, bad : {FALSE}])

Closes(bars) == [i \in DOMAIN bars |-> bars[i].close]

Failure(job) == [job |-> job, ok |-> FALSE]

\* The job with the bars of its symbol, from the first of them or from the one of
\* the checkpoint that is found under its id.
Answers(job, bars) ==
    LET range == InRange(bars, job)
    IN  IF range = <<>> THEN {Failure(job)}
        ELSE {[job |-> job, ok |-> TRUE, resumed |-> FALSE, bars |-> range,
               result |-> Backtest(Closes(range))],
              [job |-> job, ok |-> TRUE, resumed |-> TRUE, bars |-> range]}

-----------------------------------------------------------------------------

\* The symbol is in the cache, whatever has become of the file.
FromCache(w, job) ==
    /\ cache[w][job.symbol] # Nothing
    /\ \E a \in Answers(job, cache[w][job.symbol]) : answer' = [answer EXCEPT ![w] = a]
    /\ cache' = cache

\* Mutant: only the range of the job is kept.
FromFileKeepsRange(w, job) ==
    /\ cache[w][job.symbol] = Nothing
    /\ \E bars \in Loaded(file[job.symbol]) :
        /\ cache' = [cache EXCEPT ![w][job.symbol] = InRange(bars, job)]
        /\ \E a \in Answers(job, bars) : answer' = [answer EXCEPT ![w] = a]

\* Mutant: nothing is kept.
FromFileForgets(w, job) ==
    /\ cache[w][job.symbol] = Nothing
    /\ \E bars \in Loaded(file[job.symbol]) :
        /\ cache' = cache
        /\ \E a \in Answers(job, bars) : answer' = [answer EXCEPT ![w] = a]

FromFile(w, job) ==
    /\ cache[w][job.symbol] = Nothing
    /\ \E bars \in Loaded(file[job.symbol]) :
        /\ cache' = [cache EXCEPT ![w][job.symbol] = bars]
        /\ \E a \in Answers(job, bars) : answer' = [answer EXCEPT ![w] = a]

\* The loader throws; nothing is kept, and the next job tries again.
LoadFails(w, job) ==
    /\ cache[w][job.symbol] = Nothing
    /\ Loaded(file[job.symbol]) = {}
    /\ answer' = [answer EXCEPT ![w] = Failure(job)]
    /\ cache' = cache

Process(w, job) ==
    /\ FromCache(w, job) \/ FromFile(w, job) \/ LoadFails(w, job)
    /\ UNCHANGED <<file, rewrites>>

\* A script replaces the file.
Rewrite(s) ==
    /\ rewrites < MaxRewrites
    /\ rewrites' = rewrites + 1
    /\ file' \in {[file EXCEPT ![s] = f] : f \in Files \ {file[s]}}
    /\ UNCHANGED <<cache, answer>>

\* The worker dies, and another takes its place.
Replace(w) ==
    /\ cache' = [cache EXCEPT ![w] = [s \in Symbols |-> Nothing]]
    /\ answer' = [answer EXCEPT ![w] = None]
    /\ UNCHANGED <<file, rewrites>>

Next ==
    \/ \E w \in Workers : Replace(w) \/ \E job \in Jobs : Process(w, job)
    \/ \E s \in Symbols : Rewrite(s)

Spec == Init /\ [][Next]_vars

-----------------------------------------------------------------------------
(* Properties of the data *)

Answered(w) == answer[w] # None

DatesDiffer(rows) ==
    \A i, j \in DOMAIN rows : rows[i].date = rows[j].date => i = j

\* The answers with the result of a whole job.
Whole(w) == Answered(w) /\ answer[w].ok /\ ~answer[w].resumed

\* A job that two workers do from its first bar has one result, and it fails for
\* one if it fails for the other, provided the file has not been replaced and
\* names no date twice.
SameAnswer ==
    \A v, w \in Workers :
        /\ rewrites = 0 /\ Answered(v) /\ Answered(w)
        /\ answer[v].job = answer[w].job
        /\ DatesDiffer(GoodRows(file[answer[v].job.symbol]))
        => /\ answer[v].ok <=> answer[w].ok
           /\ Whole(v) /\ Whole(w) => answer[v] = answer[w]

\* Two jobs of one symbol, done by one worker one after the other, see the same
\* bars on the dates they share, whatever has happened to the file and in
\* whichever order it was sorted.
OneVersion(w) ==
    LET a == answer[w]
        b == answer'[w]
        job == [first |-> IF a.job.first < b.job.first THEN b.job.first ELSE a.job.first,
                last |-> IF a.job.last < b.job.last THEN a.job.last ELSE b.job.last]
    IN  a # None /\ b # None =>
            (a.job.symbol = b.job.symbol /\ a.ok /\ b.ok =>
                InRange(a.bars, job) = InRange(b.bars, job))

OverlapAgrees == [][\A w \in Workers : OneVersion(w)]_vars

-----------------------------------------------------------------------------
(* Properties of the results *)

Results == {answer[w] : w \in {v \in Workers : Whole(v)}}

\* The average of the window that ends at bar i, times its length, by definition.
WindowSum(prices, i, w) == SumTo(SubSeq(prices, i - w + 1, i), w)

IsAbove(prices, i) ==
    WindowSum(prices, i, ShortWindow) * LongWindow
        > WindowSum(prices, i, LongWindow) * ShortWindow

\* Where both averages count, and the last bar at which they did was above.
Counts(prices, i) ==
    /\ i >= ShortWindow /\ WindowSum(prices, i, ShortWindow) > 0
    /\ WindowSum(prices, i, LongWindow) > 0

WasAbove(prices, i) ==
    \E j \in LongWindow + 1 .. i - 1 :
        /\ Counts(prices, j) /\ IsAbove(prices, j)
        /\ \A k \in j + 1 .. i - 1 : ~Counts(prices, k)

\* The running sums make no difference, nor does any later bar: it is bought and
\* sold exactly where the averages, taken anew for each bar, cross, bars at which
\* an average is not above zero passed over.
SignalsAreCrossings ==
    \A a \in Results :
        LET prices == Closes(a.bars)
            holds(i) ==
                \/ i < LongWindow + 2
                \/ ~Counts(prices, i)
                \/ IsAbove(prices, i) <=> WasAbove(prices, i)
        IN  \A i \in DOMAIN prices :
                Signals(prices)[i] =
                    IF holds(i) THEN "HOLD" ELSE IF IsAbove(prices, i) THEN "BUY" ELSE "SELL"

\* The value is the capital, the profits of the sales and what the shares that
\* are held have gained; purchases and sales alternate and each sale is a win
\* or a loss.
LedgerBalances ==
    \A a \in Results :
        LET prices == Closes(a.bars)
            p == Portfolio(prices)
            t == a.result.trades
            pairs == Len(t) \div 2
            profits == [k \in 1 .. pairs |-> t[2 * k].value - t[2 * k - 1].value]
            held == IF Len(t) % 2 = 0 THEN 0
                    ELSE p.shares * Last(prices) - Last(t).value
        IN  /\ a.result.value = InitialCapital + SumTo(profits, pairs) + held
            /\ \A i \in DOMAIN t : t[i].signal = IF i % 2 = 1 THEN "BUY" ELSE "SELL"
            /\ a.result.winning + a.result.losing = pairs

\* The maximum drawdown is the loss between two bars, and none is worse but one
\* into debt, which weighs more on a smaller value than on the peak.
DrawdownIsWorst ==
    \A a \in Results :
        LET v == Portfolio(Closes(a.bars)).values
            later == {p \in (DOMAIN v) \X (DOMAIN v) : p[1] <= p[2] /\ v[p[1]] > 0}
            losses == {<<v[p[1]] - v[p[2]], v[p[1]]>> : p \in later}
            worst == a.result.drawdown
        IN  /\ \A loss \in losses : loss[1] <= loss[2] => ~Below(worst, loss)
            /\ \E loss \in losses : ~Below(loss, worst)
=============================================================================
