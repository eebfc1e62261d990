# Distributed backtesting engine: TLA+ specifications

Specifications of the controller, the replicated controllers' Raft code and log file, the running of
jobs by the workers and the data they run on, the frames on a connection, and the start and the end
of the programs; checked with TLC and, where it matters most, proved with TLAPS. Paths are relative to
`src/src/` of the repository unless they start with `src/`; `src/final/` is a copy of the same code
and is not cited. Every definition is translated from the code; comments and headers are quoted
only where a run shows that the code does something else.

Contents: [the system](#1-the-system) · [modules](#2-modules-and-how-they-correspond-to-the-code) ·
[runs](#3-runs) · [fairness](#4-fairness) · [proofs](#5-proofs) ·
[divergences](#6-where-code-and-documentation-disagree) · [not modelled](#7-what-is-not-modelled) ·
[plan](#8-plan)

## 1. The system

Clients submit backtesting jobs (a symbol, a strategy, its windows) to a controller. The controller
keeps them in a queue and sends them over TCP to workers, which run them over price files, save
their progress in checkpoint files and send back a result. A *replicated* deployment runs three
controllers (`RaftController` is a `Controller` with a `RaftNode`) that elect a leader and replicate
submitted jobs to each other's logs.

| component | state | operations | what makes it correct |
|---|---|---|---|
| **Job dispatch** `controller/controller.cpp` | `pending_jobs_`, `active_jobs_`, `completed_jobs_` under `jobs_mutex_`; `workers_` under `workers_mutex_`; one socket per worker | `submit_job`, `scheduler_loop` (pick, send, record), `register_worker`, `handle_worker_connection`, `check_worker_heartbeats`, `remove_worker`, `get_job_result` | a submitted job is never dispatched twice at once, taken away only from a worker that is removed, lost only if its assignment was false when it was recorded, and in the end sent to a worker; a dead worker is removed |
| **Raft consensus** `raft/raft_node.cpp`, `controller/raft_controller.cpp` | role, `commit_index_`, peers' `next_index`/`match_index` under `state_mutex_`, `peers_mutex_`; vote count | election timer, `start_election`, `become_leader`, `heartbeat_loop`, `send_heartbeats`, `append_log_entry`, `handle_request_vote`, `handle_append_entries`; RPC client and connection handlers | one leader per term and entries committed on a majority (claimed, not kept); replies match calls; `match_index` tells the truth; a candidate without a rival wins and is heard |
| **Raft log file** `raft/raft_log.cpp` | term, vote, entries, and a file rewritten in place at each change | setters, `append`, `truncate_from`, `persist_to_disk`, `load_from_disk` | one vote a term and no acknowledged entry forgotten through crashes; what a restarted node loads was true at some moment |
| **Worker process** `worker/worker.cpp` | one socket, two threads, one job at a time | register, `worker_loop`, `heartbeat_loop`, `process_job_with_checkpoint` | one answer per job; an end when the connection is lost (an exit according to the comments, an abort in fact) |
| **Checkpoints** `worker/checkpoint_manager.cpp`, `strategy/strategy_with_checkpoint.cpp` | a file per job id, overwritten in place; the strategy's portfolio, index and previous signal | save every *n* bars, load, resume, delete when done | a resumed job gives the value of an uninterrupted one; a crash between two saves costs a bounded amount of work; a job that succeeds leaves nothing over |
| **Strategies** `strategy/sma_strategy.cpp` | none | moving averages, crossover signals, the buy and sell rules, the statistics | signals where the averages cross and nowhere else, from the past only; a ledger that balances, for prices of any sign that the loader accepts |
| **Price data** `data/csv_loader.cpp` | a cache of parsed files in each worker | load, skip bad rows, sort, cut a date range | a job done twice from its first bar has one answer; a worker sees one version of a file |
| **Wire formats** `common/message.cpp`, `raft/raft_messages.h` | none | `send_message` and `receive_message` on both sides, encode, decode | frames of two threads that mix are never taken for a message |
| **Programs** `main_controller.cpp`, `main_raft_controller.cpp`, `main_worker.cpp` | `shutdown_requested`, the threads' `running_` flags | `main`, the signal handlers, `start`, `stop`, destructors | a program that is told to end, or has lost its connection, ends, and by exiting |
| **Logger** | a mutex | – | never waited for by its own holder |
| **Clients**, **scripts and tests** | – | submitting and polling, deployment | – |

**Interactions.** Worker → controller: registration, heartbeats, results, over one connection each;
controller → worker: registration acknowledgement, `JOB_ASSIGN`. Controller threads share the job
tables and the worker table through two mutexes, and a worker's socket is written by the scheduler
while its handler reads it. Controller ↔ controller: each node opens one outgoing connection per peer
that all its RPCs share under one mutex; each incoming connection has a handler thread of its own.
`RaftController::submit_job` calls `Controller::submit_job` first (`raft_controller.cpp:1573`), then
`append_log_entry` (`1586`), which replicates in the client's thread. A worker finds the checkpoint of a job by the controller's job id and its
bars in a file that scripts write. A signal handler runs `stop()` on the main thread, which may hold
any of the three mutexes of `print_statistics`.

**Hard behaviours.** Two mutexes taken in both orders (dispatch: scheduler against `remove_worker`;
Raft: `become_leader` against a heartbeat that meets a higher term); a pointer into `workers_` used
after its mutex is released; a send that happens before it is recorded; a worker that is taken for
dead and goes on; steps of an election that hold no lock while handlers change the same term and
vote; a non-recursive mutex taken twice by one thread; RPCs that time out and leave their replies in
the stream; files truncated in place; saves that fail and are
only logged, or not noticed; job ids that start again with the controller; two threads that
send on one socket in two calls each; a `stop()` that joins threads blocked in `accept()` or `recv()`. `PROJECT.json`
lists each one at its line under "hazards".

## 2. Modules and how they correspond to the code

```
JobService <--implemented by-- Controller <-- MCController    Channel <--implemented by-- Wire
                                   ^-- ControllerProofs
RaftNode <-- MCRaftNode        RaftLog <-- RaftLogProofs
    ^-- RaftNodeProofs         Lifecycle <-- LifecycleProofs
Strategy <-- Backtest <-- MCBacktest        Strategy <-- PriceData <-- MCPriceData
                 ^-- BacktestProofs                          ^-- PriceDataProofs
Wire <-- WireProofs            Induction <-- WireProofs, PriceDataProofs, BacktestProofs
```

The systems are modelled separately because they meet in narrow places only: dispatch sees of a running
job that it ends in one result or a broken connection, which `Backtest` refines; Raft sees of dispatch a
thread that calls `append_log_entry`, and dispatch does not look at what it returns; the votes and the
term that `RaftNode` changes in one step are the calls of the log that `RaftLog` follows to the file;
`Controller` takes a connection for what `Channel` says, which `Wire` implements; and nothing outside
`Lifecycle` starts or stops.

### Controller and JobService

A section of code that takes one mutex and releases it is one step. The two places that wait for a
second mutex while they hold the first are split there: `SchedLock`/`SchedPick` (the scheduler takes
`jobs_mutex_`, then asks for `workers_mutex_`) and `HandleEof` or `MonitorRemove`/`RemoveFinish`
(`remove_worker` takes them the other way round). `schedPc` and `removal` are those program counters,
`JobsLocked` and `WorkersLocked` what they hold.

| variables | code |
|---|---|
| `pending`, `active`, `completed`, `submitted` | the job tables; `active[j]` is the `assigned_worker_id`, `None` for the 0 that `remove_worker` writes |
| `workers` | `workers_`: the number of active jobs and whether the heartbeat is older than the timeout |
| `hand`, `schedPc`, `target` … | local variables of `scheduler_loop`, the `WorkerInfo*` included |
| `removal` | the thread inside `remove_worker` |
| `conn`, `toWorker`, `toController` | a connection, its handler and its two streams |
| `proc`, `busy` | the worker process: joining, running, gone; the job it runs |

`SchedSend(w, u)` sends through the pointer kept since `SchedPick`. `PointsTo` and `SocketOf` say what a
dangling pointer may still show: the erased worker's own values, or those of memory and of a file
descriptor that another registration has taken over. `SchedCount` and `HandleHeartbeat` lose an update of
`active_jobs` exactly as the unlocked increment can. `Late` is the passing of the heartbeat timeout
although the worker runs; `Fail` breaks a process or connection, with any suffix of what it had
sent lost.

`stray` is a ghost: the jobs whose assignment was already false when `SchedRecord` wrote it down, as the
worker had been erased since the choice, or its answer had been handled (and dropped, since the job was in
no table). The program does not know of them, and nobody looks at them again: they are the lost jobs, and
`NeverForgotten` says that there are no others.

`JobService` is what `submit_job` and `get_job_result` promise without threads: a job waits, is given out,
may be taken back, and gets a result that is never withdrawn. `Controller!Service` maps the job tables to
it: a job is *waiting* when it is queued and *given* when the scheduler has it in its hand or it is
assigned, and neither once it has a result.

Coarsenings: the acknowledgement of a heartbeat, which nobody acts on, is left out; a worker has at
most one heartbeat in flight; a connection is named by the worker id it gets.

### RaftNode

Threads of a node: election, heartbeat, one client inside `submit_job`, and one handler per peer.
`pc`, `peer`, `req` are where a thread is, which peer it is at, and its request; `hpc`, `hreq` the same
for handlers. The mutexes are functions of the program counters: `StateHeld` (`become_leader` keeps
`state_mutex_` through its first heartbeats), `PeersHeld` (`send_heartbeats`), `NetworkHeld` (an RPC
until its reply is in). `relock` is the place of a thread in `advance_commit_index` that waits for a
mutex it holds.

| actions | code |
|---|---|
| `Timeout`, `BumpTerm`, `VoteSelf`, `Snapshot`, `ListPeers`, `VoteReply`, `StepDown`, `CountVotes`, `Crown` | `election_timer_loop`, `become_candidate`, the unlocked steps of `start_election`, `become_leader` |
| `Beat`, `Build`, `Send`, `AppendReply`, `Demote` | `heartbeat_loop`, `send_heartbeats`, `replicate_log_to_peer` |
| `Submit`, `AppendEntry` | `RaftController::submit_job`, `append_log_entry` |
| `RpcFails` | an RPC to a dead peer, or given up after 2 s |
| `Receive`, `Adopt`, `CheckVote`, `Grant` | `handle_raft_connection`, `handle_request_vote` |
| `SeeLeader`, `Concede`, `Store` | `handle_append_entries` |
| `Crash` | a controller process dies and stays down |

Coarsenings: every node is connected to every other from the start, as `start` does when its peers
are up already; a dead node does not come back; an entry is its term, and the dummy entry 0 is left
out; the log part of `handle_append_entries` is one step, although each call on the log locks it
by itself (two leaders' handlers that cut and append in turn are not told apart), but the look at the
role before it is a step of its own (`SeeLeader`), so that an election may begin in between; the term, the
index and the append of `append_log_entry`, each under a lock of its own, are one step with one client per
node (two threads in `submit_job` could read one index and append it twice, which is in no module); the
several reads of the log that make up a request (`Build`) are one step; two reads of the current term in
one handler are merged; frames arrive whole. `current_leader_` is only logged and `last_applied_` never written, so both are left out. A
`std::out_of_range` of `entries_.at` in `Build` ends the process.

### Backtest

One job id and the workers that run a job of it, one after the other or, when one is wrongly taken for
dead, at once. `file` is `./checkpoints/checkpoint_<id>.dat`: absent, empty (between truncation and the
write of the buffered 8 KB at close), whole, or a part, which a full disk leaves. `run[w]` holds the locals
of `backtest_with_checkpoint`; `After` is the body of its loop over integer prices of either sign, with the
signals and the purchase of `Strategy` (`Sma`), whose code it repeats. `Uninterrupted` is the loop without an
interruption: the portfolio after each bar if nothing ever stops.

| actions | code |
|---|---|
| `Assign` | `JOB_ASSIGN` reaches a worker: a new strategy object |
| `Load` | `load_checkpoint` and the resuming of the loop; an empty file is read into uninitialised variables, so the outcome is a choice |
| `Bar` with `Open`, `Write`, `WriteCut` | an iteration of the loop; opening the file in `save_checkpoint`, which may fail and is then logged; closing it, which may write a part only and is not looked at |
| `Fail` | data that cannot be loaded, no bars in the range, an exception: the `catch` of the job |
| `Finish`, `Send` | deleting the checkpoint; sending the result, or the failure, which completes the job and leaves its checkpoint |
| `Crash`, `RestartController` | a worker dies; the controller numbers its jobs from 1 again |

`sound` is a ghost flag: the progress comes from bars of this symbol, and from a file with all its fields. The
symbol in a checkpoint is never compared with the job's, and an empty file or a part may be resumed, so that
progress need not be sound. `bounds.unsaved`, `bounds.cut` and `bounds.failed` count the saves that could not
open their file, those cut short, and the failed jobs, `MaxErrors` in all; the properties name the first two.
The interval is the strategy's own (100 by default); `config_.checkpoint_interval` of the worker is never
passed on. Cash and shares are exact (`Money`: only a price below zero can lead into debt): the code's doubles
are not modelled, nor the Sharpe ratio and the drawdown computed from them.

### RaftLog

One node's `RaftLog` object, its file, and the callers in `RaftNode`, each request of which is a plan
of log calls (`todo`) followed by the answer (`promise`: a vote, `ack`: entries stored). A call changes
the members and rewrites the file: `Open` truncates it, `Flush` is the buffer going out when it is
full, in the middle of an entry perhaps, `Close` writes the rest.

| actions | code |
|---|---|
| `Follow`, `Concede`, `Stand`, `Vote`, `Lead`, `Refuse`, `Store` | `become_follower` in a higher term, and in its own for a candidate that hears a leader of it (`BecomeFollower`), `start_election`, `handle_request_vote`, `append_log_entry`, the two ends of `handle_append_entries` |
| `Open`, `Flush`, `Close`, `OpenFails` | a setter, `append` or `truncate_from`, with `persist_to_disk` |
| `Answer` | the response that goes out after the calls |
| `Crash`, `Restart` | the process dies between any two steps; constructor and `load_from_disk` |

`granted` and `acked` are history: the votes given, and the entries last acknowledged less what a
leader has replaced since. `role` decides what a request does; `conceded` is history too: the terms in which
the node stood and then gave way. `become_follower` clears the vote although the term stays, so that such
a term may get a second vote of the node without any crash: the properties exempt exactly that vote, and a
finding quotes the claim. `lost` says what a crash inside a write, or a file that could not be
opened, may have destroyed; the properties hold as long as it is empty, and `raft_log_torn` shows that
they fail otherwise. `load_from_disk` reads past the end of a torn file without looking: the term and
vote stay 0, entries blank, the uninitialised count is a choice up to `MaxGarbage`, and a huge size
throws. Requests come one at a time here, since their interleavings are `RaftNode`'s.

### Wire and Channel

One connection at the level of `send()` calls: a frame is a size and a body, each sent by itself, and two
threads of each process send on the same socket without a lock. `stream[side]` is what is on its way to a
side, `half` the threads between their two calls, `have` whose size a side has read.

| actions | code |
|---|---|
| `SendSize`, `SendBody` | the two `send()` calls of `send_message` |
| `RecvSize`, `RecvBody`, `RecvOverlap`, `RecvEnd` | `receive_message` when frames follow each other, when they mix, when the connection ends |
| `Register`, `Beat`, `Assign` | what gives the threads something to send |
| `Leave` | the worker's process ends after it has lost the connection |

When a size is followed by another thread's unit, the bytes of the second are read as a body; its first
byte, the high byte of a size below 16 MB, is 0, which is no message type, so that the reader gives up
(`RecvOverlap`). Two cases of the code are not reached: a body where a size is expected (the `ELSE` of
`RecvSize`; a reader that meets mixed frames has given up before), and a body of mixed parts that would
still parse. `Channel` is what both programs take the connection for: the messages of each thread,
whole, once, in order, until the reader gives up.

### Lifecycle

`main()` of a controller, plain or replicated, of a worker, and everything that starts and stops with
them. `main`, `wmain` are the places of the main threads; `back` is where a signal handler will return
to, `struck` where the signal came. `base`, `raftAccept`, `handler`, `wloop`, `wheart` are the threads:
running, ended, joined. A thread is joinable until it is joined, and the destructor of a joinable thread
is `terminate()`.

| actions | code |
|---|---|
| `Start`, `SpawnThreads`, `SpawnRaft`, `Loop` | `start()` of both controllers, the loop of `main()` with the three mutexes of `print_statistics` |
| `Signal`, `HandlerLogs` | the signal handler, on the main thread wherever it is |
| `NodeStop`, `RaftJoin`, `Stop`, `Close`, `Join`, `CloseSockets`, `Destroy`, `Exit` | `RaftController::stop`, `Controller::stop`, the destructors |
| `BaseEnds`, `Accept`, `AcceptOther`, `MonitorRemoves`, `RaftAcceptChecks`, `Visit`, `Handler` | the loops of the controller's threads as far as they start, end or take a mutex; `AcceptOther` is the connection of a worker that is not followed, which uses up the accept of a thread about to end |
| `Connect` … `WorkerDestroy`, `WorkerSignal`, `WorkerHandlerLogs`, `WorkerLoop`, `WorkerHeart` | the same of a worker, whose handler logs too and may have struck in a log line of `start()` |
| `Kill` | the process of the controller dies at any place |

What the model shows of the programs: a plain controller struck while it sleeps exits; struck in
`print_statistics` it waits for its own mutex for ever; struck between `running_ = true` and its
threads it aborts. A replicated controller that has its socket never exits at all: `RaftController::stop`
joins the accept thread before it closes the socket, and has already cleared the flag at which
`Controller::stop` then returns. A worker that has lost its controller aborts, because its own loop has
cleared the flag `stop()` looks at. A worker that is signalled may wait in `recv()` for a message that
cannot come, since its heartbeats have stopped, or in its handler's log line for the main thread it
interrupted in one. A worker may wait for its registration for ever: an accept thread that finds the flag
down ends after its first connection, and whoever comes next stays in the backlog of a controller that is
itself waiting. One signal a process; jobs are left to `Controller`.

### Strategy and PriceData

`Strategy` is pure: `Signals`, `Turn`, `Portfolio`, `MaxDrawdown`, `Backtest` are the loops of
`sma_strategy.cpp`, written as recursive functions over sequences of integer prices (`is_valid` lets a
close below zero pass).
`strategy_with_checkpoint.cpp`, which workers run, repeats them. `AtNoPrice` is the conversion of
infinity to `int` after a division by a zero price: below 1 on x86 (no purchase), `INT_MAX` on ARM; the
run takes x86. `PriceData` adds where the bars come from:

| actions | code |
|---|---|
| `FromFile`, `FromCache`, `LoadFails` | `CSVLoader::load` with `load_from_file`, then `process_job_with_checkpoint` |
| `Rewrite`, `Replace` | a script replaces a file; another worker takes the place of one |

A row is a date, a price and whether it is bad; parsing a line is not modelled beyond that. `std::sort` is
not stable, so that `Sortings` is every order of bars of one date. A worker that resumes a job answers
without the trades and the drawdown of before. Its value is `Backtest`'s business; here an answer is either that
of a job done from its first bar, with its result, or that of a resumed one (`resumed`), with its bars only. The properties compare the strategy's
loops with a definition that knows no running sums and no peaks: signals are where averages taken anew
cross, the value is the capital with each sale's profit, the drawdown the worst fall between any two bars.

## 3. Runs

Each run asks one question. States and times are those of a two-core machine.

| run | instance | checked | shows |
|---|---|---|---|
| `controller` | 2 workers, fair; 2 jobs and a crash, or 1 job and a worker that is late but goes on; 0.14 M states, 165 s | `TypeOK`, `NoDoubleDispatch`, `NeverForgotten`, `RevokedOnlyByRemoval`, `ImplementsService`, `QueueDrains`, `DeadWorkerRemoved` | no job is dispatched twice at once; a job is lost only if its assignment was false when it was recorded; an assignment ends by a result or the removal of that worker; the controller implements `JobService`; a queued job is sent unless no worker is left or the threads lock each other out; a dead worker is removed |
| `controller_lock_order` | 1 job, 2 workers, one failure | `NoLockCycle` (violated) | scheduler and `remove_worker` wait for each other |
| `raft_pair` | 2 nodes; 3 elections, or 2 elections and 2 entries, or 2 elections or 2 entries with a timeout; 1.06 M states, 80 s | `TypeOK`, `RepliesMatchCalls`, `MatchIsReplicated` | without timeouts every reply reaches its call, and `match_index` tells the truth as long as no other node stands |
| `raft_trio` | 3 nodes, fair; 1 election with a crash or with 2 entries; 7.0 k states | `FirstAckIsLast`, `CandidateWins`, `LeaderIsHeard` | a candidate without a rival wins with a minority down and is heard by all that are up; the first acknowledged entry is its last |
| `raft_commit` | 3 nodes, fair; 1 election, 1 entry | `MajorityCommits` (violated) | an entry that a majority holds stays uncommitted for good |
| `raft_two_leaders` | 2 nodes, 2 elections | `ElectionSafety` (violated) | two leaders of one term |
| `raft_log` | 1 node with 2 peers, 2 terms, 2 entries, a buffer of 2 items, 2 crashes, 1 unwritable file; 3.1 M states, 75 s | `TypeOK`, `VoteIsKept`, `AckedIsKept`, `EntriesInPlace`, `DamageIsLoss` | a vote or an acknowledged entry is forgotten only by a crash inside a write or a file that could not be opened; a term that the node gave up as a candidate may have one more vote, and no other term; otherwise a reload changes nothing |
| `raft_log_torn` | same without the unwritable file | `VoteSurvives` (violated) | the node restarts at term 0 from a truncated file and votes twice in a term |
| `backtest` | 2 workers, interchangeable; 8 bars, interval 2, 2 symbols; 2 crashes, 1 take-over, 1 restart, 1 failed save or job; 3.7 M states, 80 s | `TypeOK`, `ResultIsRight`, `ProgressIsKept`, `NoLeftover` | a resumed job has the value of an uninterrupted one; a worker between two saves is an interval ahead of its file at most, two if one save could not open it; a job that succeeded leaves no file |
| `price_data` | 2 workers, 1 symbol, 9 files, 4 date ranges, 1 file replaced; 20 k states, 80 s | `TypeOK`, `SameAnswer`, `SignalsAreCrossings`, `LedgerBalances`, `DrawdownIsWorst`, `OverlapAgrees` | a job done twice from its first bar has one answer unless its file changed or has two rows of a date; a worker sees one version of a file; the strategy's loops compute what their definition says |
| `wire` | 1 connection, 2 jobs, 3 heartbeats, fair; 35 k states | `TypeOK`, `BreaksTakeBoth`, `JobAnswered`, `ChannelToWorker`, `ChannelToController` | frames that mix end the connection and are never taken for a message; it takes a job and a heartbeat to mix them |
| `lifecycle` | both kinds of controller, 1 worker and the connections of others, 1 message in flight each way, fair; 0.29 M states, 175 s | `TypeOK`, `StruckDecides`, `RaftNeverExits`, `ExitIsSignalled`, `PlainStops`, `WorkerEnds` | which program ends, how, and which hangs, wherever the signal strikes |

**Bounds and why they are enough.** *Controller*: two jobs are needed so that one is queued or assigned
while another is in the scheduler's hand, two workers so that a requeued job has somewhere to go and a
removed worker's memory and descriptor can be taken over. A worker taken for dead that goes on is
combined with one job only (`LateJobs`): liveness of two jobs with it takes longer than a run may; the safety
properties of that case are theorems for any number of jobs. Both ways to a false assignment (`stray`) are
reached: each is the counterexample when the exemption is left out.
*RaftNode*: `Budgets` is a set of records [elections, entries, timeouts, crashes]; a behaviour stays within
one of them. Three elections of two nodes let an election's RPC overlap the heartbeat of a leader deposed
meanwhile (two do not: without that overlap the network mutex is never contended); two elections with an
entry each make logs conflict and be cut. Three nodes are the least in which a majority is less than
everyone. Larger instances checked once, with the look at the role still part of `Store`: two nodes, 3 elections and 1 entry (2.2 M), 2 elections, 2
entries and a crash (5.1 M); three nodes, 2 elections (1.1 M), 1 election with 2 entries and a crash, fair
(65 k). `RepliesMatchCalls` and `MatchIsReplicated` are claims of the behaviours without timeouts only
(`bounds.timeouts = 0`); the budgets with one show that the places and requests of the threads stay of their
kinds (`TypeOK`) whatever reply is read.
*RaftLog*: two terms so that a vote of the first can be repeated or replaced, two entries so that one can be
cut below another, a buffer of two items so that it can go out in the middle of an entry, two crashes so
that a restarted node crashes again.
*Backtest*: with windows 2 and 3 the prices of `MCBacktest` give a sale without shares, a purchase, a sale and
a second purchase, and in the second symbol a sale and a purchase below zero, with a debt in between; interval
2 over 8 bars puts checkpoints on a bar with a trade, before one and after one. The symbols differ, so that
resuming the other's progress is visible. One error at a time: two failed saves in a row are in the theorem.
*PriceData*: the files are chosen for what they contain: rows out of order, a bad row, one date twice with
one price and with two, a zero price where a purchase is due, a sale below zero, a win and a loss, shares held at the end, no
rows at all; the ranges overlap, end early, are shorter than the windows, or hold nothing.
*Wire*: with two jobs the second can follow the first before its answer; the third heartbeat is one that
is sent after a break. *Lifecycle*: a second worker matters to the first in one place, where it uses up the last `accept()` of a thread
that is about to end; `AcceptOther` is that worker. Everything else of a worker (its handler, its entry, its
connection) is its own, and the theorems hold for any number.

**What "violation" runs are.** Each checks one claim that a header, comment or doc makes and that the code
does not keep; TLC's trace is the counterexample. Section 6 quotes them. Properties that hold are
weakened by exactly what the violation shows (`LockCycle` in `QueueDrains`, `relock` in
`LeaderIsHeard`, `stray` in `NeverForgotten`, `pc` and `bounds` in `ProgressIsKept`, `sound` in `ResultIsRight`, `Unopposed` in `MatchIsReplicated` and `FirstAckIsLast`, `lost` in `VoteIsKept` and `AckedIsKept`, `conceded` in `VoteIsKept`), so that the run says that nothing *else*
goes wrong.

**Mutants.** Every property of a passing run has a mutated definition beside the original, marked
`Mutant:`; `PROJECT.json` says which one breaks which property. They are what a slip in the code would
be: a job not popped, a failed send that drops its job, a mutex around the send only, an index off by
one, a term not stored, shares not restored, a call of the log left out, an unknown message passed over, a
thread joined before its socket is closed, a cache that is looked up after the file.

**Deadlock** is checked in `price_data`, `raft_log` and `raft_log_torn`. It is not elsewhere, because
those systems really stop: the threads of the controller can lock each other out, a Raft thread waits for a
mutex it holds, a job that has its result leaves nothing to do, a program has exited.

## 4. Fairness

`Backtest`, `RaftLog` and `PriceData` state safety only. In the others

* *Controller* (`FairSpec`): weak fairness of the scheduler and of the workers, which wait on nothing that
  another thread keeps taking away; strong fairness of the monitor, the handlers and the end of
  `remove_worker`, each of which finds its mutex free again and again but not for ever. The threads run
  endless loops with sleeps, and a mutex of the C library starves nobody for ever. Submissions, failures
  and missed timeouts are never due. `WorkerBeat` is not fair: no property needs a heartbeat.
* *RaftNode* (`FairSpec`): weak fairness of the heartbeat thread and the handlers; strong fairness of the
  election and the client threads, which contend with a heartbeat every 50 ms for `peers_mutex_`; weak
  fairness of "some first election timer runs out" (timers do run out, but none of them again and again).
  That an RPC over a dead connection returns is part of the threads' fairness; giving up after 2 s on a
  live peer is not.
* *Lifecycle* (`Spec`): weak fairness of the main threads, of a worker's two threads, of the accept threads'
  checks of their flags; strong fairness of the scheduler's and the monitor's end, of an accepted connection
  and of a handler, which need a mutex that `print_statistics` takes again and again. Signals and deaths
  are never due, and neither is a message to a worker that waits in `recv()`.
* *Wire* (`Spec`): weak fairness of registering, of each thread's `send()` calls, of each reader and of the end
  of a worker that has lost its connection: TCP delivers, and each is alone at what it does. Jobs and
  heartbeats are never due.

Without these the liveness properties would fail by stuttering.

## 5. Proofs

TLAPS proves for every value of the constants that satisfies the modules' named assumptions, i.e. any
number of jobs, workers, nodes, crashes, timeouts, elections, terms, entries, prices and windows:

| theorem | statement | argument |
|---|---|---|
| `ControllerProofs!TypeCorrect` | `Spec => []TypeOK` | inductive as it stands; one lemma per action |
| `ControllerProofs!NeverDispatchedTwice`, `NoJobLost` | `Spec => []NoDoubleDispatch`, `Spec => []NeverForgotten` | `DispatchInv` adds `SubmittedOnly` (only submitted jobs are anywhere, so a fresh id cannot be in the queue already) and `KeptSomewhere` (a job without a result is queued, in the hand or recorded); `HeldInv` adds that an assignment which was true when it was recorded stays so: its worker is registered and has the job, or has answered, or is dead. One `…Effect` lemma per action says where jobs move, and the sequence lemmas (`AppendOccurs`, `TailOccurs`, `ConcatOccurs`, `ListingOccurs`) what a requeueing does to the queue |
| `ControllerProofs!RevocationSafe` | `Spec => RevokedOnlyByRemoval` | from `TypeOK` and `DispatchInv`: a record is written only for a job that is in the hand, hence not assigned |
| `ControllerProofs!ServiceImplemented` | `Spec => ImplementsService` | every step maps to a step of `JobService` or a stutter, under `DispatchInv`; `RemoveFinish` is `TakeBack` of all the worker's jobs |
| `RaftNodeProofs!TypeCorrect` | `Spec => []TypeOK` | inductive; the type carries what a thread's place says of its peer and request |
| `RaftNodeProofs!NothingEverCommitted` | `Spec => []NothingCommitted` | `CommitInv` adds that every append request, whether in a thread (`QuietThreads`), on a connection (`QuietCalls`) or in a handler (`QuietHandlers`), carries commit index 0: no deployment of this code ever commits an entry. No run checks it, `raft_commit` shows what follows |
| `RaftNodeProofs!RepliesAnswerCalls` | `Spec => []RepliesMatchCalls` | `CallsInv`, while no RPC has timed out: one thread of a node is in a call (`OneCaller`), and a connection carries either the request of that thread, or its handler has it, or the reply is on its way, one of the three (`Carries`) |
| `RaftNodeProofs!LeaderStops` | `Spec => []FirstAckIsLast` | `SourceInv`: a node whose votes are 0 never asked for any nor led (`NeverStood`); so, without a rival, all entries come from one log, whose beginnings are the others' logs (`OneSource`), one thread at a time replicates (`OneReplicator`), and whoever got an acknowledgement is in `relock` (`AckStops`): the acknowledged entry is still in the log, and by `CommitInv` it is not committed |
| `RaftNodeProofs!MatchTellsTheTruth` | `Spec => []MatchIsReplicated` | `SourceInv` and `CallsInv`; `AckIsTrue` adds that a yes on its way answers the entries that were sent and that the follower's log is as long as they say |
| `RaftNodeProofs!LogsAreNotCut`, `LogMatching` | `Spec => LogsOnlyGrow`, `Spec => []LogsMatch` | `SourceInv`: Leader Append-Only and Log Matching of `raft_node.h:37-39`, as long as one node at most has stood, timeouts or not. A step makes no log but a longer beginning of the one source (`NextOneSource`) |
| `RaftLogProofs!TypeCorrect` | `Spec => []TypeOK` | inductive; lemmas on the cuts, appends and parts of entries of a file |
| `RaftLogProofs!OneVotePerTerm` | `Spec => []VoteIsKept` | `VoteInv`, while no vote may be lost: the votes given are not of a later term, and one of this term that the log no longer shows was the node's own and given up (`VotesAreOld`, `Past`); a candidate's vote of its term is for itself until it gives way (`CandidateVote`); the file holds term and vote whenever it has a header (`FileHoldsVote`), and the calls still to make cannot replace a vote of their term (`PlanFits`) |
| `RaftLogProofs!AcknowledgedKept`, `EntriesStayInPlace` | `Spec => []AckedIsKept`, `Spec => []EntriesInPlace` | `EntriesInv`: what is acknowledged is in the log (`AckedInLog`); every entry has the index of its place (`InPlace`); the file holds a beginning of the entries, all of them when closed (`FileHoldsEntries`); the cut and the appends of a plan fit each other (`StepsFit`) |
| `RaftLogProofs!RestartMakesNothingUp` | `Spec => DamageIsLoss` | `FileInMemory`, while every file could be opened: whatever is in the file, whole or torn, is of the term, the vote and the entries in memory, so that what a restart reads of it is too |
| `BacktestProofs!TypeCorrect` | `Spec => []TypeOK` | shares are naturals, and so is cash unless some price is below zero: the trading rules go into debt for nothing else (`DivisionBounds`, `AfterType`) |
| `BacktestProofs!ValueIsRight` | `Spec => []ResultIsRight` | `BarByBar`: `Uninterrupted` has a value, bar by bar. `ValueInv` adds that every sound run is on the track of the uninterrupted one (`RunsOnTrack`) and so is the file (`FileOnTrack`). The point is the bar of the checkpoint, which is simulated twice, the second time without a previous signal: `SignalsAlternate` (a crossover is never followed by one of the same kind on the next bar) and `BarTwice` (trading a bar twice changes nothing) |
| `BacktestProofs!ProgressKept`, `NothingLeft` | `Spec => []ProgressIsKept`, `Spec => []NoLeftover` | `ProgressInv`: as long as no worker was wrongly replaced and no controller restarted, one worker at most is in the job (`LoneWorker`), its file is gone once it is to send a success (`FileDeleted`); and unless a disk was full its next checkpoint is an interval away, and one more for each save that could not open the file (`Scheduled`). Of a crash inside a save nothing is claimed |
| `LifecycleProofs!TypeCorrect` | `Spec => []TypeOK` | inductive |
| `LifecycleProofs!ReplicatedNeverExits`, `PlainEndDecided`, `WorkerExitSignalled` | `Spec => []RaftNeverExits`, `[]StruckDecides`, `[]ExitIsSignalled` | `EndInv`: a replicated controller's flag is down before any thread of the base class is joined (`RaftEnd`); a plain one is undisturbed, hangs at the mutex its handler wants, or has joined its threads (`PlainEnd`); a worker without a signal never joins its threads (`WorkerUnsignalled`) |
| `WireProofs!BothToBreak` | `Spec => []BreaksTakeBoth` | `WireInv`: while the worker registers, one frame goes to the controller and then the acknowledgement, perhaps overtaken by a job (`Joining`); once registered, without heartbeats only the scheduler and the working thread send, without jobs only the handler and the heartbeat thread (`Running`), and the frames of one thread fit each other (`Framed`) |
| `WireProofs!WorkerHasAChannel`, `ControllerHasAChannel` | `Spec => ChannelToWorker`, `Spec => ChannelToController` | the messages of a thread whose bodies are in a stream (`Bodies`) are its queue in `Channel`: every `send()` of a body appends one, every whole frame that is read takes the first, and frames that mix close the channel. What appending and taking do to `Bodies` is an induction over the stream |
| `WireProofs!TypeCorrect` | `Spec => []TypeOK` | `Counted`: a job that was sent leaves one trace at most, which is about to be sent, on its way, worked on, or its result, on its way or handled |
| `PriceDataProofs!TypeCorrect` | `Spec => []TypeOK` | `FromItsCache`: an answer with a result was made of the bars in the worker's cache; the portfolio is one of integers, and of shares that are not negative, through the whole loop, for prices of any sign (`TurnBalanced`, `PortfolioAfterBars`) |
| `PriceDataProofs!SameWorkSameAnswer` | `Spec => []SameAnswer` | `FromTheFile`: until a file is replaced, caches and answers come from the files; and rows without a date twice can be sorted in one way only (`OnePlace`, `OneSorting`). Nothing is said of the result of a resumed job |
| `PriceDataProofs!OneVersionOnly` | `Spec => OverlapAgrees` | `FromItsCache` and `OverlapStep`: the second answer is made of the cache that the first left, and cutting a range out of a range is cutting once (`SiftedTwice`, `CutOfCut`) |
| `PriceDataProofs!CrossingsOnly` | `Spec => []SignalsAreCrossings` | the running sum is the sum of the window at every bar (`SlidingSumsAreSums`), and the comparison carried along is that of the last bar at which both averages counted (`WasAboveStep`, `Crossings`) |
| `PriceDataProofs!LedgerIsBalanced` | `Spec => []LedgerBalances` | an invariant of the loop: value, trades and sums of profits of the bars so far agree (`TurnBalanced`); every second trade is a sale, and each is a win or a loss (`SalesCount`, `WinsAndLosses`) |
| `PriceDataProofs!DrawdownIsTheWorst` | `Spec => []DrawdownIsWorst` | the peak carried along is the largest value so far (`PeaksAreLargest`), no fall from a lower peak is worse unless it ends in debt (`LowerPeak`), and `Below` orders the fractions (`BelowTransitive`) |

The assumptions are the ones named in the modules: bounds are natural numbers, windows and intervals
positive, the capital natural (in `Strategy` positive), prices integers of any sign, jobs' dates numbers, and what an `int` of infinity is
(`AtNoPrice`) any integer. Neither window need be the longer one: the code does not reject windows that are
swapped ("the logic still runs", `strategy_with_checkpoint.cpp:427`), and its signals are the crossings all the same.

**Induction.** The library's induction theorems take a predicate, which the provers cannot instantiate.
`Induction` proves them anew for *sets*: a set that holds 0 and the successor of each of its members holds every
number (`SetInduction`, `BoundedInduction`, `IntervalInduction`), so that an induction in a proof is over the
set of numbers for which the claim holds, which the proof defines. What a recursive function is follows from
the same: some function satisfies the equations (`RecursionExists`), hence the one that the definition chooses
does, and two that do agree (`Agreement`). The loops of the strategy, of the loader and of an uninterrupted
backtest are therefore plain recursive functions that TLC evaluates and the proofs are about. No module uses
a RECURSIVE operator.

Every invariant, every action property and every refinement that a passing run checks is a theorem. `LogsOnlyGrow`
and `LogsMatch` are in no run of their own; TLC checked them on the budgets of `raft_pair`, and with 3
elections, an entry and a timeout finds the cut when `Store` compares the entry before with the term of the
request. Only
model-checked are the liveness properties (`QueueDrains`, `DeadWorkerRemoved`, `CandidateWins`,
`LeaderIsHeard`, `PlainStops`, `WorkerEnds`, `JobAnswered`), which are out of this prover's reach, and the
four violations, which are counterexamples.

## 6. Where code and documentation disagree

Shown by a violated property:

1. **Lock order.** `controller.h:687-690` puts `workers_mutex_` before `jobs_mutex_`, "never acquire in
   reverse order"; `scheduler_loop` takes them in reverse (`controller.cpp:1209`, `1225`). A worker that
   disconnects while a job is placed stops the controller. (`controller_lock_order`)
2. **Two leaders.** `raft_node.h:254`, `raft_node.cpp:56`: at most one leader per term. (`raft_two_leaders`)
3. **Nothing is committed.** `raft_node.cpp:143`: "Entry committed when replicated to majority", `1239`, and
   `raft_controller.cpp:1590`: "Entry committed when majority acknowledges"; `1417`: "Safe to call concurrently".
   `advance_commit_index` takes a mutex that its callers hold (`1431`, `1225`), so the thread that gets the
   first acknowledgement stops before it commits. (`raft_commit`; theorem `NothingEverCommitted`)
4. **Vote forgotten in a restart.** `raft_log.h:73`: "Term, vote, and log survive crashes"; `persist_to_disk`
   truncates the file and rewrites it (`raft_log.cpp:1232`), and a crash in between leaves a file that is read
   as term 0 without a vote. (`raft_log_torn`)

Shown by a property that holds and says exactly where the code does something else:

5. **Lost jobs.** `controller.cpp:2255`: "No jobs are lost", `2279-2282`: a crashed worker's job "is not lost",
   `controller.h:107`, `1900` likewise. A job whose worker is removed between the send and the record, or whose
   answer is handled (and ignored, `871`, against `770-773`) before the record, stays assigned for ever to
   a worker that has not got it. (`controller`: `NeverForgotten` with `stray`)
6. **Second vote after a concession.** `raft_log.h:71`: `voted_for_` "set at most once per term",
   `raft_log.cpp:984`. A candidate that hears a leader of its own term has its vote cleared
   (`raft_node.cpp:1743-1748`, `999-1002`) and may vote again in it; without any crash. (`raft_log`:
   `VoteIsKept` with `conceded`)
7. **Checkpoints are overwritten in place.** `checkpoint_manager.h:47`: "Write to temp file, atomic rename on
   success", `899`; `save_checkpoint` truncates the file itself (`checkpoint_manager.cpp:632`). A crash inside
   a save loses all progress. (`backtest`: `ProgressIsKept`, which speaks of `pc = "bar"` only)
8. **A replicated controller does not exit.** `raft_controller.cpp:927`, `986-990`, `1099`,
   `main_raft_controller.cpp:437`, `493-502`, `1234`: the accept thread is unblocked, all threads have exited,
   "Process exits cleanly"; `src/tests/test_raft_integration.cpp:535`, `678` expect it. The socket is closed
   after the join (`950`, `975`). (`lifecycle`: `RaftNeverExits`)
9. **A worker that loses its controller aborts.** `main_worker.cpp:929-932`, `954-963`: a regular exit that
   "joins threads"; `worker.cpp:316`, `328`: the destructor finds them joined. `worker_loop` clears the flag at
   which `stop()` returns (`684`, `440`). (`lifecycle`: `ExitIsSignalled`)
10. **A signalled worker may hang.** `main_worker.cpp:963`: "Total shutdown time: ~1-5 seconds", `1000`. It joins
    a thread in `recv()` before it shuts the socket down (`worker.cpp:450`), or its handler waits for the
    logger's mutex that it interrupted, of which `main_worker.cpp:473-474` warns. (`lifecycle`: `WorkerEnds`)

Found with TLC on these modules, without a run of their own:

* **False acknowledgement.** `raft_node.h:454`: `match_index` "definitely exists on this follower"; after a
  timeout the late reply of one call is read by the next. Without any timeout, at two nodes with three
  elections and two entries, a second leader of the same term cuts the log that `match_index` speaks of, or the
  leader's own before an acknowledgement arrives, which then does not stop it. `MatchIsReplicated` and
  `FirstAckIsLast` therefore speak of nodes that have no rival (`Unopposed`).
* **`submit_job` blocks for ever.** `raft_controller.h:877`: "up to ~500ms"; once a follower acknowledged its
  entry the thread waits for the mutex it holds.
* **Resumed jobs differ.** `strategy_with_checkpoint.h:273`: "Strategy execution looks identical
  with/without checkpoints"; the trades before the checkpoint are not reported.
* **Threads after `stop()`.** `controller.cpp:450` says that no thread accesses the object after `stop()`
  returns; the handlers are detached (`731`) and may be anywhere.

Seen while modelling: a term may decrease (`raft_node.cpp:999` against
`raft_node.h:946`), a vote is cleared or overwritten within its term (`raft_node.cpp:1002`, `1638`),
`become_follower` is called with `peers_mutex_` held (`raft_node.cpp:1355` against the lock
hierarchy at `131-135`), a node that is no longer leader may append (`raft_node.cpp:1509`), a submitted job
may not be replicated at all (`raft_controller.cpp:1586` against `raft_controller.h:853`), both counts that
clients poll are zero while the scheduler holds the last job (`controller.cpp:1233`), `JOB_ASSIGN` may precede
the registration acknowledgement (`controller.cpp:819`, `828`), peers are never reconnected
(`raft_controller.cpp:859-860`), a checkpoint whose writes fail is reported as saved
(`checkpoint_manager.cpp:686`).

## 7. What is not modelled

* **A restarted controller among its peers.** `RaftLog` restarts a node and `RaftNode` lets one die, but
  they are not composed: peers never reconnect to a node that went down (`raft_controller.cpp:859`), so that
  a restarted one could only speak to others that started after it. Connecting at the start is left out.
* **Two submitters on one node.** `append_log_entry` reads the index and appends under two locks; `RaftNode` has
  one client thread per node.
* **Clients.** They submit and poll; `submit_jobs` never starts its `Controller` and waits 300 s for each job,
  which needs no model to see. No state of theirs is read by another part.
* **Bytes.** Messages are records; `Wire` knows a frame's two parts and the first byte of each, which is what
  decides how a reader goes on. Encoding and decoding of the fields are loops without a branch.
* **Floating point.** Portfolios and prices are integers; the Sharpe ratio is left out.
* **Parsing** of numbers, dates and arguments: a row is good or bad, arguments are right.
* **The logger's output.** Its mutex is in `Lifecycle`, for the signal handler that logs.
* **Scripts and tests**, and `src/final/`, which repeats `src/src/`.
* **Time.** Heartbeat timeouts, election timers and the 2 s of an RPC are events that may happen, within
  bounds.

"map" names a good half of the lines of `src/src/` that are code. Its share of all lines is far smaller and
must be: nine lines of ten in these files are comments, every file is there a second time under
`src/final/`, and what is left are the parts above.

## 8. Plan

Done: `Controller` with `JobService`, `RaftNode`, `RaftLog`, `Backtest`, `Strategy` with `PriceData`, `Wire`
with `Channel`, `Lifecycle`; theorems for every safety property of the passing runs. Next, in this order:

1. `Strategy`'s `Portfolio` and `Backtest`'s `Uninterrupted` as one: signals and purchases are shared already; a
   theorem that both loops have the same value would carry what is proved of the one over to the other.
2. `RaftNode` with the calls of `RaftLog` as steps of its own and a `Restart`, if the code learns to
   reconnect.
