------------------------------ MODULE Backtest ------------------------------
(***************************************************************************)
(* The running of one job by the workers: loading its checkpoint, the bar   *)
(* by bar simulation with periodic checkpoints, the removal of the          *)
(* checkpoint and the sending of the result (worker/worker.cpp,             *)
(* worker/checkpoint_manager.cpp, strategy/strategy_with_checkpoint.cpp).   *)
(*                                                                         *)
(* A checkpoint is found by the id of its job. The workers of a cluster     *)
(* started by scripts/run_cluster.sh share the directory ./checkpoints, and  *)
(* a controller numbers its jobs from 1 again when it is restarted: the id  *)
(* then stands for another symbol.                                         *)
(*                                                                         *)
(* Saving a checkpoint may fail: its file cannot be opened, or the disk is    *)
(* full while it is written, which nobody notices. A job may fail too, and    *)
(* is then answered for without a value.                                     *)
(*                                                                         *)
(* Prices are integers and the arithmetic is exact. The statistics of a     *)
(* result are stood for by its value and its number of trades.              *)
(***************************************************************************)
EXTENDS Integers, FiniteSets

CONSTANTS
    Workers,
    Symbols,
    Bars,               \* number of price bars of a symbol
    Close,              \* their closing prices
    ShortWindow, LongWindow, InitialCapital, \* parameters of a job
    AtNoPrice,          \* static_cast<int> of cash / 0.0
    Interval,           \* checkpoint_interval_
    MaxCrashes,         \* bound: workers that die
    MaxLate,            \* bound: jobs taken from a worker that goes on
    MaxRestarts,        \* bound: restarts of the controller
    MaxErrors           \* bound: failed saves and failed jobs

Indices == 0 .. Bars - 1

ASSUME ParametersAssumption ==
    /\ Bars \in Nat \ {0}
    /\ Close \in [Symbols -> [Indices -> Int]]
    /\ ShortWindow \in Nat \ {0}
    /\ LongWindow \in Nat \ {0}
    /\ InitialCapital \in Nat
    /\ AtNoPrice \in Int
    /\ Interval \in Nat \ {0}
    /\ MaxCrashes \in Nat
    /\ MaxLate \in Nat
    /\ MaxRestarts \in Nat
    /\ MaxErrors \in Nat

-----------------------------------------------------------------------------
(* The strategy *)

Sma == INSTANCE Strategy

SignalsOf == [s \in Symbols |-> Sma!Signals([i \in 1 .. Bars |-> Close[s][i - 1]])]

\* generate_signals
Signal(s, i) == SignalsOf[s][i + 1]

Start == [cash |-> InitialCapital, shares |-> 0, value |-> InitialCapital]

\* The portfolio after bar i: on a new signal all the cash is spent, or all the
\* shares are sold.
After(s, i, prev, p) ==
    LET price == Close[s][i]
        signal == IF Signal(s, i) = prev THEN "HOLD" ELSE Signal(s, i)
        bought == IF signal = "BUY" /\ p.shares = 0
                  THEN Sma!Purchase(p.cash, price) ELSE 0
        sold == IF signal = "SELL" THEN p.shares ELSE 0
        cash == p.cash - bought * price + sold * price
        shares == p.shares + bought - sold
    IN  [cash |-> cash, shares |-> shares, value |-> cash + shares * price]

\* Only a price below zero can lead into debt.
Money == IF \A s \in Symbols, i \in Indices : Close[s][i] >= 0 THEN Nat ELSE Int

Portfolio == [cash : Money, shares : Nat, value : Money]

\* The portfolio after each bar if nothing ever stops.
Uninterrupted ==
    [s \in Symbols |->
        LET after[i \in Indices] ==
                IF i = 0 THEN After(s, 0, "HOLD", Start)
                ELSE After(s, i, Signal(s, i - 1), after[i - 1])
        IN  after]

-----------------------------------------------------------------------------

VARIABLES
    symbol,     \* what the id of the job stands for
    done,       \* the controller has a result
    results,    \* the results the controller was sent
    file,       \* checkpoint_<id>.dat
    pc,         \* of each worker: where it is with the job
    run,        \* of each worker: the variables of backtest_with_checkpoint
    online,     \* the workers that are connected to the present controller
    unlinked,   \* the workers whose open file another one has deleted
    bounds      \* how much of the bounds is used up

vars == <<symbol, done, results, file, pc, run, online, unlinked, bounds>>

NoFile == [content |-> "none"]
EmptyFile == [content |-> "empty"]

\* A part is what a write error has left of a checkpoint. sound is not in the
\* file: nothing is missing, and the progress comes from this symbol's bars.
Checkpoint == [content : {"state", "part"}, symbol : Symbols, index : Indices,
               portfolio : Portfolio, sound : BOOLEAN]

Run == [symbol : Symbols, start : Indices, index : 0 .. Bars,
        prev : {"HOLD", "BUY", "SELL"}, portfolio : Portfolio, trades : Nat,
        sound : BOOLEAN]

Fresh(s) == [symbol |-> s, start |-> 0, index |-> 0, prev |-> "HOLD",
             portfolio |-> Start, trades |-> 0, sound |-> TRUE]

\* Between the opening and the closing of the checkpoint file.
Saving == {w \in Workers : pc[w] = "save"}

TypeOK ==
    /\ symbol \in Symbols
    /\ done \in BOOLEAN
    /\ results \subseteq [symbol : Symbols, success : BOOLEAN, value : Money,
                          trades : Nat, sound : BOOLEAN]
    /\ file \in {NoFile, EmptyFile} \cup Checkpoint
    /\ pc \in [Workers -> {"idle", "load", "bar", "save", "send", "fail"}]
    /\ run \in [Workers -> Run]
    /\ \A w \in Saving : run[w].index > 0
    /\ online \subseteq Workers
    /\ unlinked \subseteq Saving
    /\ bounds \in [crashes : 0 .. MaxCrashes, late : 0 .. MaxLate,
                   restarts : 0 .. MaxRestarts, failed : 0 .. MaxErrors,
                   unsaved : 0 .. MaxErrors, cut : 0 .. MaxErrors]

Init ==
    /\ symbol \in Symbols
    /\ done = FALSE
    /\ results = {}
    /\ file = NoFile
    /\ pc = [w \in Workers |-> "idle"]
    /\ run = [w \in Workers |-> Fresh(symbol)]
    /\ online = {}
    /\ unlinked = {}
    /\ bounds = [crashes |-> 0, late |-> 0, restarts |-> 0, failed |-> 0,
                  unsaved |-> 0, cut |-> 0]

Errors == bounds.failed + bounds.unsaved + bounds.cut

\* The controller knows of a worker that has the job.
Taken == \E w \in online : pc[w] # "idle"

\* JOB_ASSIGN arrives: process_job_with_checkpoint with a new strategy object.
Assign(w) ==
    /\ pc[w] = "idle"
    /\ ~done
    /\ IF Taken
       THEN /\ bounds.late < MaxLate
            /\ bounds' = [bounds EXCEPT !.late = @ + 1]
       ELSE bounds' = bounds
    /\ pc' = [pc EXCEPT ![w] = "load"]
    /\ run' = [run EXCEPT ![w] = Fresh(symbol)]
    /\ online' = online \cup {w}
    /\ UNCHANGED <<symbol, done, results, file, unlinked>>

\* Mutant: the shares are not restored.
ResumeForgetsShares(w) ==
    /\ file.content \in {"state", "part"}
    /\ run' = [run EXCEPT ![w] =
                  [@ EXCEPT !.start = file.index, !.index = file.index,
                            !.portfolio = [file.portfolio EXCEPT !.shares = 0],
                            !.sound = file.sound /\ file.symbol = run[w].symbol]]

\* The state is restored; the symbol of the checkpoint is not looked at, and
\* the previous signal and the trades start anew. What a part does not have is
\* zero, the valid flag excepted.
Resume(w) ==
    /\ file.content \in {"state", "part"}
    /\ run' = [run EXCEPT ![w] =
                  [@ EXCEPT !.start = file.index, !.index = file.index,
                            !.portfolio = file.portfolio,
                            !.sound = file.sound /\ file.symbol = run[w].symbol]]

\* Nothing is read from an empty file into the uninitialized valid flag: it may
\* be taken for TRUE, with the zeros of an empty Checkpoint.
ResumeFromNothing(w) ==
    /\ file = EmptyFile
    /\ run' = [run EXCEPT ![w].portfolio = [cash |-> 0, shares |-> 0, value |-> 0],
                          ![w].sound = FALSE]

\* There is no file, or its flag is not set.
StartAnew == file.content # "state" /\ run' = run

\* The catch of the job: data that cannot be loaded, no bars in the range, an
\* exception. The checkpoint is left where it is.
Fail(w) ==
    /\ pc[w] \in {"load", "bar"}
    /\ Errors < MaxErrors
    /\ bounds' = [bounds EXCEPT !.failed = @ + 1]
    /\ pc' = [pc EXCEPT ![w] = "fail"]
    /\ UNCHANGED <<symbol, done, results, file, run, online, unlinked>>

\* Mutant: the checkpoint is consumed.
LoadDeletes(w) ==
    /\ pc[w] = "load"
    /\ Resume(w) \/ ResumeFromNothing(w) \/ StartAnew
    /\ pc' = [pc EXCEPT ![w] = "bar"]
    /\ file' = NoFile
    /\ unlinked' = Saving
    /\ UNCHANGED <<symbol, done, results, online, bounds>>

Load(w) ==
    /\ pc[w] = "load"
    /\ Resume(w) \/ ResumeFromNothing(w) \/ StartAnew
    /\ pc' = [pc EXCEPT ![w] = "bar"]
    /\ UNCHANGED <<symbol, done, results, file, online, unlinked, bounds>>

SaveDue(r) == r.index > r.start /\ (r.index - r.start) % Interval = 0

\* The opening of the checkpoint file truncates it. When it fails the job goes
\* on without this checkpoint.
Open(w) ==
    \/ /\ file' = EmptyFile
       /\ pc' = [pc EXCEPT ![w] = "save"]
       /\ bounds' = bounds
    \/ /\ Errors < MaxErrors
       /\ bounds' = [bounds EXCEPT !.unsaved = @ + 1]
       /\ UNCHANGED <<file, pc>>

\* A turn of the loop over the bars, up to the opening of the checkpoint file.
Bar(w) ==
    LET r == run[w]
        p == After(r.symbol, r.index, r.prev, r.portfolio)
    IN  /\ pc[w] = "bar"
        /\ r.index < Bars
        /\ run' = [run EXCEPT ![w] =
                      [r EXCEPT !.index = @ + 1,
                                !.prev = Signal(r.symbol, r.index),
                                !.portfolio = p,
                                !.trades = IF p.shares = r.portfolio.shares
                                           THEN @ ELSE @ + 1]]
        /\ IF SaveDue(r) THEN Open(w) ELSE UNCHANGED <<file, pc, bounds>>
        /\ UNCHANGED <<symbol, done, results, online, unlinked>>

\* Mutant: the checkpoint names the bar to go on with, one too far.
WriteNext(w) ==
    LET r == run[w]
    IN  /\ pc[w] = "save"
        /\ file' = IF w \in unlinked THEN file
                   ELSE [content |-> "state", symbol |-> r.symbol,
                         index |-> r.index, portfolio |-> r.portfolio,
                         sound |-> r.sound]
        /\ pc' = [pc EXCEPT ![w] = "bar"]
        /\ unlinked' = unlinked \ {w}
        /\ UNCHANGED <<symbol, done, results, run, online, bounds>>

\* The rest of save_checkpoint: the buffer is written when the file is closed.
Write(w) ==
    LET r == run[w]
    IN  /\ pc[w] = "save"
        /\ file' = IF w \in unlinked THEN file
                   ELSE [content |-> "state", symbol |-> r.symbol,
                         index |-> r.index - 1, portfolio |-> r.portfolio,
                         sound |-> r.sound]
        /\ pc' = [pc EXCEPT ![w] = "bar"]
        /\ unlinked' = unlinked \ {w}
        /\ UNCHANGED <<symbol, done, results, run, online, bounds>>

\* The first fields of the checkpoint of r, written before the disk is full: the
\* index, the cash, the shares, the value, in this order.
Part(r, fields) ==
    [content |-> "part", symbol |-> r.symbol, index |-> r.index - 1,
     portfolio |-> [cash |-> IF fields > 1 THEN r.portfolio.cash ELSE 0,
                    shares |-> IF fields > 2 THEN r.portfolio.shares ELSE 0,
                    value |-> IF fields > 3 THEN r.portfolio.value ELSE 0],
     sound |-> r.sound /\ fields > 3]

\* No write is looked at, and save_checkpoint returns true.
WriteCut(w) ==
    /\ pc[w] = "save"
    /\ Errors < MaxErrors
    /\ bounds' = [bounds EXCEPT !.cut = @ + 1]
    /\ \/ file' = IF w \in unlinked THEN file ELSE EmptyFile
       \/ \E fields \in 1 .. 4 :
             file' = IF w \in unlinked THEN file ELSE Part(run[w], fields)
    /\ pc' = [pc EXCEPT ![w] = "bar"]
    /\ unlinked' = unlinked \ {w}
    /\ UNCHANGED <<symbol, done, results, run, online>>

\* Mutant: the checkpoint stays.
FinishKeeps(w) ==
    /\ pc[w] = "bar"
    /\ run[w].index = Bars
    /\ pc' = [pc EXCEPT ![w] = "send"]
    /\ UNCHANGED <<symbol, done, results, file, run, online, unlinked, bounds>>

\* The end of backtest_with_checkpoint: delete_checkpoint.
Finish(w) ==
    /\ pc[w] = "bar"
    /\ run[w].index = Bars
    /\ file' = NoFile
    /\ unlinked' = Saving
    /\ pc' = [pc EXCEPT ![w] = "send"]
    /\ UNCHANGED <<symbol, done, results, run, online, bounds>>

\* The value of a job is that of its result when it has succeeded.
Answer(w) ==
    LET r == run[w]
    IN  IF pc[w] = "send"
        THEN [symbol |-> r.symbol, success |-> TRUE, value |-> r.portfolio.value,
              trades |-> r.trades, sound |-> r.sound]
        ELSE [symbol |-> r.symbol, success |-> FALSE, value |-> 0, trades |-> 0,
              sound |-> FALSE]

\* send_job_result; a worker that has lost its controller exits.
Send(w) ==
    /\ pc[w] \in {"send", "fail"}
    /\ IF w \in online
       THEN results' = results \cup {Answer(w)} /\ done' = TRUE
       ELSE UNCHANGED <<results, done>>
    /\ pc' = [pc EXCEPT ![w] = "idle"]
    /\ UNCHANGED <<symbol, file, run, online, unlinked, bounds>>

-----------------------------------------------------------------------------

Crash(w) ==
    /\ pc[w] # "idle"
    /\ bounds.crashes < MaxCrashes
    /\ bounds' = [bounds EXCEPT !.crashes = @ + 1]
    /\ pc' = [pc EXCEPT ![w] = "idle"]
    /\ online' = online \ {w}
    /\ unlinked' = unlinked \ {w}
    /\ UNCHANGED <<symbol, done, results, file, run>>

\* next_job_id_ starts at 1: the id is given to a job of any symbol. The workers
\* notice when they are done with their job.
RestartController ==
    /\ bounds.restarts < MaxRestarts
    /\ bounds' = [bounds EXCEPT !.restarts = @ + 1]
    /\ symbol' \in Symbols
    /\ done' = FALSE
    /\ results' = {}
    /\ online' = {}
    /\ UNCHANGED <<file, pc, run, unlinked>>

Next ==
    \/ \E w \in Workers :
          \/ Assign(w) \/ Load(w) \/ Bar(w) \/ Write(w) \/ WriteCut(w) \/ Finish(w)
          \/ Fail(w) \/ Send(w) \/ Crash(w)
    \/ RestartController

Spec == Init /\ [][Next]_vars

-----------------------------------------------------------------------------
(* Safety *)

\* Resuming is transparent for the value of a job: after any crashes and failed
\* saves, by any workers, several at once too, a successful result is the one of
\* an uninterrupted run, unless the progress of another symbol or a file without
\* all its fields was resumed. The last bar of the checkpoint is simulated twice,
\* without a previous signal.
ResultIsRight ==
    \A r \in results :
        r.success /\ r.sound => r.value = Uninterrupted[r.symbol][Bars - 1].value

\* A worker that has the job for itself is never further ahead of the checkpoint
\* file than the interval, and one interval more for each save whose file could
\* not be opened. That is what a crash costs, unless it comes between the opening
\* and the closing of the file (pc = "save"), or the disk was full: then nothing
\* is left of the progress.
ProgressIsKept ==
    LET reach == Interval * (1 + bounds.unsaved)
    IN  bounds.late = 0 /\ bounds.restarts = 0 /\ bounds.cut = 0 =>
            \A w \in Workers :
                pc[w] = "bar" /\ run[w].index > reach =>
                    file.content = "state" /\ run[w].index - file.index <= reach

\* A job that has succeeded leaves no checkpoint behind for the next job of the
\* same id, unless it was given to a second worker. A job that has failed does.
NoLeftover ==
    /\ bounds.late = 0
    /\ bounds.restarts = 0
    /\ \E r \in results : r.success
    => file = NoFile
=============================================================================
