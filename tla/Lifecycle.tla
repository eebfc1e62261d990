------------------------------ MODULE Lifecycle ------------------------------
(***************************************************************************)
(* How the programs start and end: main() of a controller, plain            *)
(* (main_controller.cpp) or replicated (main_raft_controller.cpp), and of a  *)
(* worker (main_worker.cpp), with start() and stop() of Controller,          *)
(* RaftController and Worker, their threads and the connections between them.*)
(*                                                                         *)
(* A signal runs its handler on the main thread, wherever that is, and the  *)
(* handler logs and calls stop(). The mutexes that main may hold then are   *)
(* those of print_statistics, workers_mutex_ and jobs_mutex_, and the       *)
(* logger's. (A log line of the controller's start() is not told apart from *)
(* the place start() is at; it would block the handler as "log" does.)       *)
(*                                                                         *)
(* These programs submit no jobs: a connection carries a registration,      *)
(* heartbeats and their acknowledgements. One signal for each process; a    *)
(* worker that dies, whatever it is doing, is in Controller. Workers that    *)
(* are not followed (AcceptOther) matter only where they use up an accept(). *)
(***************************************************************************)
EXTENDS Naturals, Sequences, FiniteSets

CONSTANTS
    Builds,         \* the programs to look at, of "plain" and "raft"
    Workers,        \* worker processes
    MaxInFlight     \* bound: messages on their way, in each direction

ASSUME LifecycleAssumption ==
    /\ Builds \subseteq {"plain", "raft"}
    /\ MaxInFlight \in Nat \ {0}

VARIABLES
    build,          \* which program the controller is
    main, back,     \* its main thread, and where a signal handler returns to
    struck,         \* where the signal hit it, "no" before
    running,        \* running_ of Controller
    listening,      \* server_socket_ is open
    base,           \* accept, scheduler and heartbeat thread of Controller
    raftAccept,     \* the thread that accepts other controllers
    handler,        \* the detached thread of each worker's connection
    registered,     \* workers_
    conn,           \* connection of each worker
    toController, toWorker, \* messages on their way
    wmain, wback, wstruck, wrunning, \* of each worker process
    wloop, wheart   \* its two threads

controllerVars == <<build, main, back, struck, running, listening, base, raftAccept>>
linkVars == <<handler, registered, conn, toController, toWorker>>
workerVars == <<wmain, wback, wstruck, wrunning, wloop, wheart>>
vars == <<controllerVars, linkVars, workerVars>>

BaseThreads == {"accept", "scheduler", "monitor"}
Joinable == {"run", "ended"}
Outcomes == {"exited", "aborted", "killed", "failed"}
Locks == {"workers", "jobs", "log"}
MainPlaces == {"start", "spawn", "raftspawn", "sleep"} \cup Locks
StopPlaces == {"handler", "nodestop", "raftjoin", "stop", "close", "join", "sockets"}
WorkerPlaces == {"ack", "spawn", "sleep"}

Up == main \notin Outcomes
WorkerUp(w) == wmain[w] \notin Outcomes

\* The main thread, running or interrupted, does not hold the mutex.
Free(lock) == main # lock /\ back # lock
CanLog(w) == wback[w] # "log"

TypeOK ==
    /\ build \in Builds
    /\ main \in MainPlaces \cup StopPlaces \cup {"destroy", "destroyed"} \cup Outcomes
    /\ back \in MainPlaces \cup {"none"}
    /\ struck \in MainPlaces \cup {"no"}
    /\ running \in BOOLEAN
    /\ listening \in BOOLEAN
    /\ base \in [BaseThreads -> {"none", "run", "ended", "joined"}]
    /\ raftAccept \in {"none", "check", "accept", "ended", "joined"}
    /\ handler \in [Workers -> {"none", "check", "recv", "cleanup", "ended"}]
    /\ registered \subseteq Workers
    /\ conn \in [Workers -> {"none", "backlog", "open", "cut"}]
    /\ toController \in [Workers -> Seq({"register", "heartbeat"})]
    /\ toWorker \in [Workers -> 0 .. MaxInFlight]
    /\ wmain \in [Workers -> WorkerPlaces \cup {"off", "handler", "stop", "join", "destroy"}
                         \cup Outcomes]
    /\ wback \in [Workers -> WorkerPlaces \cup {"log", "none"}]
    /\ \A w \in Workers : wback[w] = "log" => wmain[w] = "handler"
    /\ wstruck \in [Workers -> BOOLEAN]
    /\ wrunning \in [Workers -> BOOLEAN]
    /\ wloop \in [Workers -> {"none", "check", "recv", "ended", "joined"}]
    /\ wheart \in [Workers -> {"none", "check", "send", "ended", "joined"}]

Init ==
    /\ build \in Builds
    /\ main = "start" /\ back = "none" /\ struck = "no"
    /\ running = FALSE /\ listening = FALSE
    /\ base = [t \in BaseThreads |-> "none"]
    /\ raftAccept = "none"
    /\ handler = [w \in Workers |-> "none"]
    /\ registered = {}
    /\ conn = [w \in Workers |-> "none"]
    /\ toController = [w \in Workers |-> <<>>]
    /\ toWorker = [w \in Workers |-> 0]
    /\ wmain = [w \in Workers |-> "off"]
    /\ wback = [w \in Workers |-> "none"]
    /\ wstruck = [w \in Workers |-> FALSE]
    /\ wrunning = [w \in Workers |-> FALSE]
    /\ wloop = [w \in Workers |-> "none"]
    /\ wheart = [w \in Workers |-> "none"]

\* The end of the controller process: its connections close, its threads and its
\* memory are gone. Where a signal struck is kept unless the process was killed.
End(outcome) ==
    /\ main' = outcome
    /\ conn' = [w \in Workers |-> IF conn[w] = "none" THEN "none" ELSE "cut"]
    /\ base' = [t \in BaseThreads |-> "none"]
    /\ handler' = [w \in Workers |-> "none"]
    /\ toController' = [w \in Workers |-> <<>>]
    /\ running' = FALSE /\ listening' = FALSE /\ registered' = {}
    /\ back' = "none"
    /\ struck' = IF outcome = "killed" THEN "no" ELSE struck
    /\ UNCHANGED <<build, raftAccept, toWorker, workerVars>>

-----------------------------------------------------------------------------
(* Main thread of the controller: start() and the loop *)

\* setup_server_socket; another process may have the port.
Start ==
    /\ main = "start"
    /\ \/ /\ listening' = TRUE
          /\ running' = TRUE
          /\ main' = "spawn"
          /\ UNCHANGED <<build, back, struck, base, raftAccept, linkVars, workerVars>>
       \/ End("failed")

SpawnThreads ==
    /\ main = "spawn"
    /\ base' = [t \in BaseThreads |-> "run"]
    /\ main' = IF build = "raft" THEN "raftspawn" ELSE "log"
    /\ UNCHANGED <<build, back, struck, running, listening, raftAccept, linkVars,
                   workerVars>>

\* RaftController::start goes on: its own socket, without which it stops the
\* controller again, and a thread for it.
SpawnRaft ==
    /\ main = "raftspawn"
    /\ \/ raftAccept' = "check" /\ main' = "log"
       \/ raftAccept' = raftAccept /\ main' = "stop"
    /\ UNCHANGED <<build, back, struck, running, listening, base, linkVars, workerVars>>

\* RaftController overrides stop().
StopPlace == IF build = "raft" THEN "nodestop" ELSE "stop"

\* The loop of main(): sleep, print_statistics, which takes one mutex after
\* the other, and the loop's condition, which start() and a log line lead to.
Loop ==
    /\ \/ main = "sleep" /\ main' = "workers"
       \/ main = "workers" /\ main' = "jobs"
       \/ main = "jobs" /\ main' = "log"
       \/ main = "log" /\ main' = IF struck # "no" \/ ~running THEN StopPlace ELSE "sleep"
    /\ UNCHANGED <<build, back, struck, running, listening, base, raftAccept, linkVars,
                   workerVars>>

\* SIGINT or SIGTERM: the handler sets shutdown_requested, logs, calls stop().
Signal ==
    /\ main \in MainPlaces
    /\ struck = "no"
    /\ struck' = main
    /\ back' = main
    /\ main' = "handler"
    /\ UNCHANGED <<build, running, listening, base, raftAccept, linkVars, workerVars>>

\* Logger::info of the handler takes the mutex that main may hold.
HandlerLogs ==
    /\ main = "handler"
    /\ back # "log"
    /\ main' = StopPlace
    /\ UNCHANGED <<build, back, struck, running, listening, base, raftAccept, linkVars,
                   workerVars>>

-----------------------------------------------------------------------------
(* Main thread of the controller: stop() and the destructor *)

\* Mutant: stop() always returns to code that was interrupted.
AfterStopResumes == back

\* The end of stop(): back to the interrupted code, or out of main().
AfterStop == IF back = "none" THEN "destroy" ELSE back

\* Mutant: running_ is left to Controller::stop, and nothing is joined.
NodeStopKeepsRunning ==
    /\ main = "nodestop"
    /\ main' = "stop"
    /\ UNCHANGED <<build, back, struck, running, listening, base, raftAccept, linkVars,
                   workerVars>>

\* RaftNode::stop joins threads that look at a flag of their own; then
\* RaftController::stop clears running_ ...
NodeStop ==
    /\ main = "nodestop"
    /\ running' = FALSE
    /\ main' = "raftjoin"
    /\ UNCHANGED <<build, back, struck, listening, base, raftAccept, linkVars, workerVars>>

\* ... and joins the thread that is in accept(); the socket is closed after
\* that, and then comes Controller::stop.
RaftJoin ==
    /\ main = "raftjoin"
    /\ raftAccept \in {"none", "ended", "joined"}
    /\ raftAccept' = IF raftAccept = "ended" THEN "joined" ELSE raftAccept
    /\ main' = "stop"
    /\ UNCHANGED <<build, back, struck, running, listening, base,
                   linkVars, workerVars>>

\* Controller::stop returns at once when running_ is false already.
Stop ==
    /\ main = "stop"
    /\ running' = FALSE
    /\ main' = IF running THEN "close" ELSE AfterStop
    /\ back' = IF running THEN back ELSE "none"
    /\ UNCHANGED <<build, struck, listening, base, raftAccept, linkVars, workerVars>>

\* Mutant: the threads are joined without waking the accept thread.
CloseLater ==
    /\ main = "close"
    /\ main' = "join"
    /\ UNCHANGED <<build, back, struck, running, listening, base, raftAccept, linkVars,
                   workerVars>>

\* shutdown() and close() of the server socket; who waits to be accepted is cut.
Close ==
    /\ main = "close"
    /\ listening' = FALSE
    /\ conn' = [w \in Workers |-> IF conn[w] = "backlog" THEN "cut" ELSE conn[w]]
    /\ main' = "join"
    /\ UNCHANGED <<build, back, struck, running, base, raftAccept, handler, registered,
                   toController, toWorker, workerVars>>

\* Mutant: the scheduler is not joined.
JoinForgetsScheduler ==
    /\ main = "join"
    /\ \A t \in BaseThreads : base[t] # "run"
    /\ base' = [t \in BaseThreads |-> IF base[t] = "ended" /\ t # "scheduler" THEN "joined"
                                      ELSE base[t]]
    /\ main' = "sockets"
    /\ UNCHANGED <<build, back, struck, running, listening, raftAccept, linkVars,
                   workerVars>>

\* The detached handlers are not joinable.
Join ==
    /\ main = "join"
    /\ \A t \in BaseThreads : base[t] # "run"
    /\ base' = [t \in BaseThreads |-> IF base[t] = "ended" THEN "joined" ELSE base[t]]
    /\ main' = "sockets"
    /\ UNCHANGED <<build, back, struck, running, listening, raftAccept, linkVars,
                   workerVars>>

\* The connections of the registered workers are shut down.
CloseSockets ==
    /\ main = "sockets"
    /\ back # "workers"
    /\ conn' = [w \in Workers |-> IF w \in registered THEN "cut" ELSE conn[w]]
    /\ registered' = {}
    /\ main' = AfterStop
    /\ back' = "none"
    /\ UNCHANGED <<build, struck, running, listening, base, raftAccept, handler,
                   toController, toWorker, workerVars>>

\* The destructor calls stop() again, to no effect. A std::thread that is
\* still joinable calls terminate() when it is destroyed.
Destroy ==
    /\ main = "destroy"
    /\ IF \E t \in BaseThreads : base[t] \in Joinable
       THEN End("aborted")
       ELSE /\ main' = "destroyed"
            /\ UNCHANGED <<build, back, struck, running, listening, base, raftAccept,
                           linkVars, workerVars>>

Exit == main = "destroyed" /\ End("exited")

\* The process dies at any time.
Kill == Up /\ End("killed")

MainThread ==
    \/ Start \/ SpawnThreads \/ SpawnRaft \/ Loop
    \/ HandlerLogs \/ NodeStop \/ RaftJoin \/ Stop \/ Close \/ Join \/ CloseSockets
    \/ Destroy \/ Exit

-----------------------------------------------------------------------------
(* The other threads of the controller *)

\* A thread that finds running_ false ends: the accept thread when accept()
\* fails, the scheduler once it has jobs_mutex_, the monitor after a look at
\* workers_ under workers_mutex_.
BaseEnds(t) ==
    /\ Up
    /\ base[t] = "run"
    /\ ~running
    /\ t = "accept" => ~listening
    /\ t = "scheduler" => Free("jobs")
    /\ t = "monitor" => Free("workers")
    /\ base' = [base EXCEPT ![t] = "ended"]
    /\ UNCHANGED <<build, main, back, struck, running, listening, raftAccept, linkVars,
                   workerVars>>

Accept(w) ==
    /\ Up
    /\ base["accept"] = "run"
    /\ listening
    /\ Free("log")
    /\ conn[w] = "backlog"
    /\ conn' = [conn EXCEPT ![w] = "open"]
    /\ handler' = [handler EXCEPT ![w] = "check"]
    /\ base' = IF running THEN base ELSE [base EXCEPT !["accept"] = "ended"]
    /\ UNCHANGED <<build, main, back, struck, running, listening, raftAccept, registered,
                   toController, toWorker, workerVars>>

\* The connection of a worker that is not followed: it matters when running_ is
\* false already, as the accept thread then ends after it.
AcceptOther ==
    /\ Up
    /\ base["accept"] = "run"
    /\ listening
    /\ Free("log")
    /\ ~running
    /\ base' = [base EXCEPT !["accept"] = "ended"]
    /\ UNCHANGED <<build, main, back, struck, running, listening, raftAccept, linkVars,
                   workerVars>>

\* remove_worker takes these mutexes one inside the other.
CanRemove(w) == Free("workers") /\ (w \in registered => Free("jobs") /\ Free("log"))

\* A worker that sends no more heartbeats is removed; its connection stays.
MonitorRemoves(w) ==
    /\ Up
    /\ base["monitor"] = "run"
    /\ w \in registered
    /\ CanRemove(w)
    /\ wheart[w] \in {"ended", "joined"} \/ ~WorkerUp(w)
    /\ registered' = registered \ {w}
    /\ UNCHANGED <<controllerVars, handler, conn, toController, toWorker, workerVars>>

\* accept_raft_connections: the loop's condition.
RaftAcceptChecks ==
    /\ Up
    /\ raftAccept = "check"
    /\ raftAccept' = IF running THEN "accept" ELSE "ended"
    /\ UNCHANGED <<build, main, back, struck, running, listening, base,
                   linkVars, workerVars>>

\* accept() returns when another controller connects.
Visit ==
    /\ Up
    /\ raftAccept = "accept"
    /\ raftAccept' = "check"
    /\ UNCHANGED <<build, main, back, struck, running, listening, base, linkVars,
                   workerVars>>

\* handle_worker_connection: the loop's condition ...
HandlerChecks(w) ==
    /\ Up
    /\ handler[w] = "check"
    /\ handler' = [handler EXCEPT ![w] = IF running THEN "recv" ELSE "cleanup"]
    /\ UNCHANGED <<controllerVars, registered, conn, toController, toWorker, workerVars>>

\* ... a message, which takes workers_mutex_ and is acknowledged (not counted
\* beyond MaxInFlight), and the loop's condition again ...
HandlerReceives(w) ==
    /\ Up
    /\ handler[w] = "recv"
    /\ toController[w] # <<>>
    /\ Free("workers")
    /\ Head(toController[w]) = "register" => Free("log")
    /\ toController' = [toController EXCEPT ![w] = Tail(@)]
    /\ registered' = IF Head(toController[w]) = "register" THEN registered \cup {w}
                     ELSE registered
    /\ toWorker' = [toWorker EXCEPT ![w] = IF conn[w] = "open" /\ @ < MaxInFlight
                                       THEN @ + 1 ELSE @]
    /\ handler' = [handler EXCEPT ![w] = IF running THEN "recv" ELSE "cleanup"]
    /\ UNCHANGED <<controllerVars, conn, workerVars>>

\* ... or the end of the connection ...
HandlerLoses(w) ==
    /\ Up
    /\ handler[w] = "recv"
    /\ toController[w] = <<>>
    /\ conn[w] = "cut"
    /\ Free("log")
    /\ handler' = [handler EXCEPT ![w] = "cleanup"]
    /\ UNCHANGED <<controllerVars, registered, conn, toController, toWorker, workerVars>>

\* ... after which remove_worker and close_socket.
HandlerCleans(w) ==
    /\ Up
    /\ handler[w] = "cleanup"
    /\ CanRemove(w)
    /\ registered' = registered \ {w}
    /\ conn' = [conn EXCEPT ![w] = "cut"]
    /\ handler' = [handler EXCEPT ![w] = "ended"]
    /\ UNCHANGED <<controllerVars, toController, toWorker, workerVars>>

Handler(w) ==
    HandlerChecks(w) \/ HandlerReceives(w) \/ HandlerLoses(w) \/ HandlerCleans(w)

-----------------------------------------------------------------------------
(* Main thread of a worker: start(), the loop, stop() and the destructor *)

\* The end of a worker process: its connection closes, its threads are gone.
WorkerEnd(w, outcome) ==
    /\ wmain' = [wmain EXCEPT ![w] = outcome]
    /\ conn' = [conn EXCEPT ![w] = IF @ = "none" THEN "none" ELSE "cut"]
    /\ toWorker' = [toWorker EXCEPT ![w] = 0]
    /\ wback' = [wback EXCEPT ![w] = "none"]
    /\ wrunning' = [wrunning EXCEPT ![w] = FALSE]
    /\ wloop' = [wloop EXCEPT ![w] = "none"]
    /\ wheart' = [wheart EXCEPT ![w] = "none"]
    /\ UNCHANGED <<controllerVars, handler, registered, toController, wstruck>>

\* connect_to_controller, and the registration sent.
Connect(w) ==
    /\ wmain[w] = "off"
    /\ IF listening
       THEN /\ conn' = [conn EXCEPT ![w] = "backlog"]
            /\ toController' = [toController EXCEPT ![w] = <<"register">>]
            /\ wmain' = [wmain EXCEPT ![w] = "ack"]
            /\ UNCHANGED <<controllerVars, handler, registered, toWorker, wback,
                           wstruck, wrunning, wloop, wheart>>
       ELSE WorkerEnd(w, "failed")

\* receive_message in register_with_controller: the acknowledgement, or nothing.
Registration(w) ==
    /\ wmain[w] = "ack"
    /\ \/ /\ toWorker[w] > 0
          /\ toWorker' = [toWorker EXCEPT ![w] = @ - 1]
          /\ wrunning' = [wrunning EXCEPT ![w] = TRUE]
          /\ wmain' = [wmain EXCEPT ![w] = "spawn"]
          /\ UNCHANGED <<controllerVars, handler, registered, conn, toController,
                         wback, wstruck, wloop, wheart>>
       \/ toWorker[w] = 0 /\ conn[w] = "cut" /\ WorkerEnd(w, "failed")

WorkerSpawns(w) ==
    /\ wmain[w] = "spawn"
    /\ wloop' = [wloop EXCEPT ![w] = "check"]
    /\ wheart' = [wheart EXCEPT ![w] = "check"]
    /\ wmain' = [wmain EXCEPT ![w] = "sleep"]
    /\ UNCHANGED <<controllerVars, linkVars, wback, wstruck, wrunning>>

\* while (!shutdown_requested && worker.is_running())
LeaveLoop(w) ==
    /\ wmain[w] = "sleep"
    /\ wstruck[w] \/ ~wrunning[w]
    /\ wmain' = [wmain EXCEPT ![w] = "stop"]
    /\ UNCHANGED <<controllerVars, linkVars, wback, wstruck, wrunning, wloop, wheart>>

\* SIGINT or SIGTERM: the handler logs, sets shutdown_requested, calls stop(). It
\* may strike in a log line of start() next to the place: "Connected", "Registered",
\* "started successfully", with the logger's mutex held.
WorkerSignal(w) ==
    /\ wmain[w] \in WorkerPlaces
    /\ ~wstruck[w]
    /\ wstruck' = [wstruck EXCEPT ![w] = TRUE]
    /\ \E place \in {wmain[w], "log"} : wback' = [wback EXCEPT ![w] = place]
    /\ wmain' = [wmain EXCEPT ![w] = "handler"]
    /\ UNCHANGED <<controllerVars, linkVars, wrunning, wloop, wheart>>

\* Logger::info of the handler takes the mutex that main may hold.
WorkerHandlerLogs(w) ==
    /\ wmain[w] = "handler"
    /\ CanLog(w)
    /\ wmain' = [wmain EXCEPT ![w] = "stop"]
    /\ UNCHANGED <<controllerVars, linkVars, wback, wstruck, wrunning, wloop, wheart>>

\* The end of stop(): back to the interrupted code, or out of main().
AfterWorkerStop(w) ==
    /\ wmain' = [wmain EXCEPT ![w] = IF wback[w] = "none" THEN "destroy" ELSE wback[w]]
    /\ wback' = [wback EXCEPT ![w] = "none"]

\* Mutant: no early return, the threads are joined whatever running_ says.
WorkerStopAlwaysJoins(w) ==
    /\ wmain[w] = "stop"
    /\ wrunning' = [wrunning EXCEPT ![w] = FALSE]
    /\ wmain' = [wmain EXCEPT ![w] = "join"]
    /\ wback' = wback
    /\ UNCHANGED <<controllerVars, linkVars, wstruck, wloop, wheart>>

\* Worker::stop returns at once when running_ is false already.
WorkerStop(w) ==
    /\ wmain[w] = "stop"
    /\ wrunning' = [wrunning EXCEPT ![w] = FALSE]
    /\ IF wrunning[w]
       THEN wmain' = [wmain EXCEPT ![w] = "join"] /\ wback' = wback
       ELSE AfterWorkerStop(w)
    /\ UNCHANGED <<controllerVars, linkVars, wstruck, wloop, wheart>>

\* The connection is closed after both threads have been joined.
WorkerJoin(w) ==
    /\ wmain[w] = "join"
    /\ wloop[w] \in {"none", "ended"}
    /\ wheart[w] \in {"none", "ended"}
    /\ wloop' = [wloop EXCEPT ![w] = IF @ = "ended" THEN "joined" ELSE @]
    /\ wheart' = [wheart EXCEPT ![w] = IF @ = "ended" THEN "joined" ELSE @]
    /\ conn' = [conn EXCEPT ![w] = "cut"]
    /\ AfterWorkerStop(w)
    /\ UNCHANGED <<controllerVars, handler, registered, toController, toWorker, wstruck,
                   wrunning>>

\* As for the controller: a thread that was not joined calls terminate().
WorkerDestroy(w) ==
    /\ wmain[w] = "destroy"
    /\ WorkerEnd(w, IF {wloop[w], wheart[w]} \cap {"none", "joined"} = {} THEN "aborted"
                    ELSE "exited")

WorkerMain(w) ==
    \/ Connect(w) \/ Registration(w) \/ WorkerSpawns(w) \/ LeaveLoop(w)
    \/ WorkerHandlerLogs(w) \/ WorkerStop(w) \/ WorkerJoin(w) \/ WorkerDestroy(w)

-----------------------------------------------------------------------------
(* The two threads of a worker *)

\* Mutant: the worker thread ends with its connection and tells nobody.
WorkerLoopEndsAlone(w) ==
    /\ WorkerUp(w)
    /\ \/ /\ wloop[w] = "check"
          /\ wloop' = [wloop EXCEPT ![w] = IF wrunning[w] THEN "recv" ELSE "ended"]
          /\ toWorker' = toWorker
       \/ /\ wloop[w] = "recv"
          /\ toWorker[w] > 0
          /\ toWorker' = [toWorker EXCEPT ![w] = @ - 1]
          /\ wloop' = [wloop EXCEPT ![w] = IF wrunning[w] THEN "recv" ELSE "ended"]
       \/ /\ wloop[w] = "recv"
          /\ toWorker[w] = 0 /\ conn[w] = "cut"
          /\ wloop' = [wloop EXCEPT ![w] = "ended"]
          /\ toWorker' = toWorker
    /\ UNCHANGED <<controllerVars, handler, registered, conn, toController, wmain, wback,
                   wstruck, wrunning, wheart>>

\* worker_loop: a log line and the loop's condition, and receive_message, which
\* only a message (then the condition again) or the end of the connection wakes;
\* the latter is logged. (What it logs last, nothing waits for but join().)
WorkerLoop(w) ==
    /\ WorkerUp(w)
    /\ \/ /\ wloop[w] = "check"
          /\ CanLog(w)
          /\ wloop' = [wloop EXCEPT ![w] = IF wrunning[w] THEN "recv" ELSE "ended"]
          /\ UNCHANGED <<toWorker, wrunning>>
       \/ /\ wloop[w] = "recv"
          /\ toWorker[w] > 0
          /\ toWorker' = [toWorker EXCEPT ![w] = @ - 1]
          /\ wloop' = [wloop EXCEPT ![w] = IF wrunning[w] THEN "recv" ELSE "ended"]
          /\ wrunning' = wrunning
       \/ /\ wloop[w] = "recv"
          /\ toWorker[w] = 0 /\ conn[w] = "cut"
          /\ CanLog(w)
          /\ wrunning' = [wrunning EXCEPT ![w] = FALSE]
          /\ wloop' = [wloop EXCEPT ![w] = "ended"]
          /\ toWorker' = toWorker
    /\ UNCHANGED <<controllerVars, handler, registered, conn, toController, wmain, wback,
                   wstruck, wheart>>

\* heartbeat_loop: the loop's condition, or after the sleep a heartbeat (not
\* counted beyond MaxInFlight), whose failure is only logged, and the condition.
WorkerHeart(w) ==
    /\ WorkerUp(w)
    /\ wheart[w] \in {"check", "send"}
    /\ wheart[w] = "send" /\ conn[w] = "cut" => CanLog(w)
    /\ wheart' = [wheart EXCEPT ![w] = IF wrunning[w] THEN "send" ELSE "ended"]
    /\ toController' =
          IF wheart[w] = "send" /\ conn[w] # "cut" /\ Len(toController[w]) < MaxInFlight
          THEN [toController EXCEPT ![w] = Append(@, "heartbeat")]
          ELSE toController
    /\ UNCHANGED <<controllerVars, handler, registered, conn, toWorker, wmain, wback,
                   wstruck, wrunning, wloop>>

-----------------------------------------------------------------------------
Next ==
    \/ MainThread \/ Signal \/ Kill
    \/ \E t \in BaseThreads : BaseEnds(t)
    \/ RaftAcceptChecks \/ Visit \/ AcceptOther
    \/ \E w \in Workers :
        \/ Accept(w) \/ MonitorRemoves(w) \/ Handler(w)
        \/ WorkerMain(w) \/ WorkerLoop(w) \/ WorkerHeart(w)
        \/ WorkerSignal(w)

\* Every thread runs, and gets a mutex that main(), which sleeps between two
\* statistics, keeps giving back; a signal, the connection of another controller
\* or worker, or a killed process may or may not come.
Fairness ==
    /\ WF_vars(MainThread)
    /\ WF_vars(RaftAcceptChecks)
    /\ WF_vars(BaseEnds("accept"))
    /\ SF_vars(BaseEnds("scheduler")) /\ SF_vars(BaseEnds("monitor"))
    /\ \A w \in Workers :
        /\ SF_vars(Accept(w)) /\ SF_vars(Handler(w))
        /\ WF_vars(WorkerMain(w)) /\ WF_vars(WorkerLoop(w)) /\ WF_vars(WorkerHeart(w))

Spec == Init /\ [][Next]_vars /\ Fairness

-----------------------------------------------------------------------------
(* Properties *)

\* stop() in a signal handler is safe while main() sleeps, and only then: the
\* plain controller that is stopped there exits (or was killed on the way).
PlainStops ==
    (build = "plain" /\ struck = "sleep") ~> (main \in {"exited", "killed"})

\* How else a plain controller ends is decided by where the signal strikes. In
\* print_statistics, stop() waits for a mutex that main() holds: it never exits.
\* Between running_ = true and the threads, stop() finds none to join and the
\* destructor finds them joinable: no other signal aborts it.
StruckDecides ==
    build = "plain" =>
        /\ struck \in Locks => main \notin {"exited", "aborted"}
        /\ main = "aborted" => struck = "spawn"

\* A replicated controller that has opened its own socket never exits: it waits
\* in accept() for another controller, or its destructor aborts, as
\* RaftController::stop has already cleared the flag Controller::stop looks at.
RaftNeverExits == build = "raft" /\ main = "exited" => raftAccept = "none"

\* A worker that was signalled or has lost its connection ends, unless it waits for
\* ever for one of three things: for its own main thread, which its handler
\* interrupted in Logger::info; on an open connection, for a message to the thread
\* it joins, as its heartbeats and their answers have stopped; or for its
\* registration by a controller that hangs in its own signal handler, or whose
\* accept thread has ended while it waits to be visited.
WaitsForLog(w) == wmain[w] = "handler" /\ ~CanLog(w)

WaitsForMessage(w) ==
    /\ wmain[w] = "join" /\ wloop[w] = "recv" /\ wheart[w] = "ended"
    /\ toWorker[w] = 0 /\ conn[w] # "cut"

WaitsForAck(w) ==
    /\ wmain[w] = "ack" /\ toWorker[w] = 0 /\ conn[w] # "cut"
    /\ \/ back \in Locks
       \/ main = "raftjoin" /\ conn[w] = "backlog" /\ base["accept"] = "ended"

WorkerEnds ==
    \A w \in Workers :
        <>[](wstruck[w] \/ conn[w] = "cut") =>
            <>[](\/ wmain[w] \in Outcomes
                 \/ WaitsForLog(w) \/ WaitsForMessage(w) \/ WaitsForAck(w))

\* A worker exits normally only on a signal: one that has lost its controller
\* is aborted, as its own loop has cleared the flag stop() looks at.
ExitIsSignalled == \A w \in Workers : wmain[w] = "exited" => wstruck[w]
=============================================================================
