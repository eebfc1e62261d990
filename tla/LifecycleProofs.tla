--------------------------- MODULE LifecycleProofs ---------------------------
(***************************************************************************)
(* Proofs about Lifecycle for any number of workers and messages on their   *)
(* way: how the controller can end, as a function of where the signal       *)
(* struck, and how a worker can. Only safety: that processes do end is      *)
(* model-checked, under the module's fairness.                              *)
(***************************************************************************)
EXTENDS Lifecycle, TLAPS

-----------------------------------------------------------------------------
(* Types *)

LEMMA EndType ==
    ASSUME TypeOK, NEW outcome \in Outcomes, End(outcome)
    PROVE  TypeOK'
<1>1. /\ base' \in [BaseThreads -> {"none", "run", "ended", "joined"}]
      /\ handler' \in [Workers -> {"none", "check", "recv", "cleanup", "ended"}]
  BY DEF End
<1>2. conn' \in [Workers -> {"none", "backlog", "open", "cut"}]
  BY DEF End
<1>3. toController' \in [Workers -> Seq({"register", "heartbeat"})]
  <2>1. <<>> \in Seq({"register", "heartbeat"})
    OBVIOUS
  <2>2. QED  BY <2>1 DEF End
<1>4. QED
  BY <1>1, <1>2, <1>3 DEF TypeOK, End, Outcomes, workerVars

LEMMA MainType ==
    ASSUME TypeOK, MainThread
    PROVE  TypeOK'
<1> USE DEF Outcomes, linkVars, workerVars
<1>1. CASE Start
  <2>1. CASE End("failed")
    BY <2>1, EndType
  <2>2. CASE ~End("failed")
    <3>1. /\ main' = "spawn" /\ running' = TRUE /\ listening' = TRUE
          /\ UNCHANGED <<build, back, struck, base, raftAccept, linkVars, workerVars>>
      BY <1>1, <2>2 DEF Start
    <3>2. QED  BY <3>1 DEF TypeOK, MainPlaces
  <2>3. QED  BY <2>1, <2>2
<1>2. CASE SpawnThreads
  BY <1>2 DEF SpawnThreads, TypeOK, MainPlaces, Locks
<1>3. CASE SpawnRaft
  BY <1>3 DEF SpawnRaft, TypeOK, MainPlaces, StopPlaces, Locks
<1>4. CASE Loop
  BY <1>4 DEF Loop, TypeOK, MainPlaces, Locks, StopPlaces, StopPlace
<1>5. CASE HandlerLogs
  BY <1>5 DEF HandlerLogs, TypeOK, StopPlaces, StopPlace
<1>6. CASE NodeStop \/ Close \/ Join
  <2>1. CASE NodeStop
    BY <2>1 DEF NodeStop, TypeOK, StopPlaces
  <2>2. CASE Close
    <3>1. conn' \in [Workers -> {"none", "backlog", "open", "cut"}]
      BY <2>2 DEF Close, TypeOK
    <3>2. QED  BY <2>2, <3>1 DEF Close, TypeOK, StopPlaces
  <2>3. CASE Join
    <3>1. base' \in [BaseThreads -> {"none", "run", "ended", "joined"}]
      BY <2>3 DEF Join, TypeOK
    <3>2. QED  BY <2>3, <3>1 DEF Join, TypeOK, StopPlaces
  <2>4. QED  BY <1>6, <2>1, <2>2, <2>3
<1>7. CASE RaftJoin
  BY <1>7 DEF RaftJoin, TypeOK, StopPlaces
<1>8. CASE Stop
  BY <1>8 DEF Stop, AfterStop, TypeOK, StopPlaces
<1>9. CASE CloseSockets
  BY <1>9 DEF CloseSockets, AfterStop, TypeOK
<1>10. CASE Destroy
  <2>1. CASE End("aborted")
    BY <2>1, EndType
  <2>2. CASE ~End("aborted")
    BY <1>10, <2>2 DEF Destroy, TypeOK
  <2>3. QED  BY <2>1, <2>2
<1>11. CASE Exit
  BY <1>11, EndType DEF Exit
<1>12. QED
  BY <1>1, <1>2, <1>3, <1>4, <1>5, <1>6, <1>7, <1>8, <1>9, <1>10, <1>11 DEF MainThread

LEMMA SignalType ==
    ASSUME TypeOK, Signal \/ Kill
    PROVE  TypeOK'
<1>1. CASE Signal
  BY <1>1 DEF Signal, TypeOK, StopPlaces, linkVars, workerVars
<1>2. CASE Kill
  BY <1>2, EndType DEF Kill, Outcomes
<1>3. QED  BY <1>1, <1>2

LEMMA ThreadsType ==
    ASSUME TypeOK,
           \/ \E t \in BaseThreads : BaseEnds(t)
           \/ RaftAcceptChecks \/ Visit \/ AcceptOther
           \/ \E w \in Workers : Accept(w) \/ MonitorRemoves(w)
    PROVE  TypeOK'
<1> USE DEF controllerVars, linkVars, workerVars
<1>1. CASE \E t \in BaseThreads : BaseEnds(t)
  BY <1>1 DEF BaseEnds, TypeOK
<1>2. CASE RaftAcceptChecks \/ Visit \/ AcceptOther
  <2>1. CASE RaftAcceptChecks
    BY <2>1 DEF RaftAcceptChecks, TypeOK
  <2>2. CASE Visit
    BY <2>2 DEF Visit, TypeOK
  <2>3. CASE AcceptOther
    BY <2>3 DEF AcceptOther, TypeOK
  <2>4. QED  BY <1>2, <2>1, <2>2, <2>3
<1>3. ASSUME NEW w \in Workers, Accept(w) \/ MonitorRemoves(w) PROVE TypeOK'
  <2>1. CASE Accept(w)
    <3>1. /\ base' \in [BaseThreads -> {"none", "run", "ended", "joined"}]
          /\ handler' \in [Workers -> {"none", "check", "recv", "cleanup", "ended"}]
          /\ conn' \in [Workers -> {"none", "backlog", "open", "cut"}]
      BY <2>1 DEF Accept, TypeOK
    <3>2. QED  BY <2>1, <3>1 DEF Accept, TypeOK
  <2>2. CASE MonitorRemoves(w)
    BY <2>2 DEF MonitorRemoves, TypeOK
  <2>3. QED  BY <1>3, <2>1, <2>2
<1>4. QED  BY <1>1, <1>2, <1>3

LEMMA HandlerType ==
    ASSUME TypeOK, NEW w \in Workers, Handler(w)
    PROVE  TypeOK'
<1> USE DEF controllerVars, workerVars
<1>1. CASE HandlerChecks(w) \/ HandlerLoses(w)
  <2>1. CASE HandlerChecks(w)
    BY <2>1 DEF HandlerChecks, TypeOK
  <2>2. CASE HandlerLoses(w)
    BY <2>2 DEF HandlerLoses, TypeOK
  <2>3. QED  BY <1>1, <2>1, <2>2
<1>2. CASE HandlerReceives(w)
  <2>1. toController[w] \in Seq({"register", "heartbeat"}) /\ toController[w] # <<>>
    BY <1>2 DEF HandlerReceives, TypeOK
  <2>2. Tail(toController[w]) \in Seq({"register", "heartbeat"})
    BY <2>1
  <2>3. toController' \in [Workers -> Seq({"register", "heartbeat"})]
    BY <1>2, <2>2 DEF HandlerReceives, TypeOK
  <2>4. toWorker' \in [Workers -> 0 .. MaxInFlight]
    BY <1>2, LifecycleAssumption DEF HandlerReceives, TypeOK
  <2>5. QED  BY <1>2, <2>3, <2>4 DEF HandlerReceives, TypeOK
<1>3. CASE HandlerCleans(w)
  BY <1>3 DEF HandlerCleans, TypeOK
<1>4. QED  BY <1>1, <1>2, <1>3 DEF Handler

LEMMA WorkerEndType ==
    ASSUME TypeOK, NEW w \in Workers, NEW outcome \in Outcomes, WorkerEnd(w, outcome)
    PROVE  TypeOK'
BY LifecycleAssumption DEF WorkerEnd, TypeOK, Outcomes, controllerVars

\* A handler that waits for the logger is the only one that returns to a log line.
LogPlace == \A w \in Workers : wback[w] = "log" => wmain[w] = "handler"

LEMMA LogPlaceKept ==
    ASSUME TypeOK, NEW w \in Workers, NEW place, wback[w] # "log",
           wmain' = [wmain EXCEPT ![w] = place],
           wback' = wback \/ wback' = [wback EXCEPT ![w] = "none"]
    PROVE  LogPlace'
<1>1. \A v \in Workers : v # w => wback'[v] = wback[v] /\ wmain'[v] = wmain[v]
  BY DEF TypeOK
<1>2. wback'[w] # "log"
  BY DEF TypeOK
<1>3. QED  BY <1>1, <1>2 DEF LogPlace, TypeOK

LEMMA WorkerMainType ==
    ASSUME TypeOK, NEW w \in Workers, WorkerMain(w) \/ WorkerSignal(w)
    PROVE  TypeOK'
<1> USE DEF controllerVars, linkVars, Outcomes, WorkerPlaces
<1>1. CASE Connect(w)
  <2>1. CASE listening
    <3>1. /\ conn' = [conn EXCEPT ![w] = "backlog"]
          /\ toController' = [toController EXCEPT ![w] = <<"register">>]
          /\ wmain' = [wmain EXCEPT ![w] = "ack"]
          /\ UNCHANGED <<controllerVars, handler, registered, toWorker, wback,
                         wstruck, wrunning, wloop, wheart>>
      BY <1>1, <2>1 DEF Connect
    <3>2. toController' \in [Workers -> Seq({"register", "heartbeat"})]
      BY <3>1 DEF TypeOK
    <3>3. conn' \in [Workers -> {"none", "backlog", "open", "cut"}]
      BY <3>1 DEF TypeOK
    <3>4. LogPlace'
      BY <1>1, <3>1, LogPlaceKept DEF Connect, TypeOK
    <3>5. QED  BY <3>1, <3>2, <3>3, <3>4 DEF TypeOK, LogPlace
  <2>2. CASE ~listening
    BY <1>1, <2>2, WorkerEndType DEF Connect
  <2>3. QED  BY <2>1, <2>2
<1>2. CASE Registration(w)
  <2>1. CASE WorkerEnd(w, "failed")
    BY <2>1, WorkerEndType
  <2>2. CASE ~WorkerEnd(w, "failed")
    <3>1. /\ toWorker[w] > 0
          /\ toWorker' = [toWorker EXCEPT ![w] = @ - 1]
          /\ wrunning' = [wrunning EXCEPT ![w] = TRUE]
          /\ wmain' = [wmain EXCEPT ![w] = "spawn"]
          /\ UNCHANGED <<controllerVars, handler, registered, conn, toController,
                         wback, wstruck, wloop, wheart>>
      BY <1>2, <2>2 DEF Registration
    <3>2. toWorker' \in [Workers -> 0 .. MaxInFlight]
      BY <3>1, LifecycleAssumption DEF TypeOK
    <3>3. LogPlace'
      BY <1>2, <3>1, LogPlaceKept DEF Registration, TypeOK
    <3>4. QED  BY <3>1, <3>2, <3>3 DEF TypeOK, LogPlace
  <2>3. QED  BY <2>1, <2>2
<1>3. CASE WorkerSpawns(w) \/ LeaveLoop(w) \/ WorkerSignal(w) \/ WorkerHandlerLogs(w)
  <2>1. CASE WorkerSpawns(w)
    BY <2>1 DEF WorkerSpawns, TypeOK
  <2>2. CASE LeaveLoop(w)
    BY <2>2 DEF LeaveLoop, TypeOK
  <2>3. CASE WorkerSignal(w)
    <3>1. PICK place \in WorkerPlaces \cup {"log"} : wback' = [wback EXCEPT ![w] = place]
      BY <2>3 DEF WorkerSignal
    <3>2. /\ wmain' = [wmain EXCEPT ![w] = "handler"]
          /\ wstruck' = [wstruck EXCEPT ![w] = TRUE]
          /\ UNCHANGED <<controllerVars, linkVars, wrunning, wloop, wheart>>
      BY <2>3 DEF WorkerSignal
    <3>3. QED  BY <3>1, <3>2 DEF TypeOK
  <2>4. CASE WorkerHandlerLogs(w)
    <3>1. LogPlace'
      BY <2>4, LogPlaceKept DEF WorkerHandlerLogs, CanLog
    <3>2. QED  BY <2>4, <3>1 DEF WorkerHandlerLogs, TypeOK, LogPlace
  <2>5. QED  BY <1>3, <2>1, <2>2, <2>3, <2>4
<1>4. CASE WorkerStop(w)
  <2>1. CASE wrunning[w]
    <3>1. /\ wmain' = [wmain EXCEPT ![w] = "join"] /\ wback' = wback
          /\ wrunning' = [wrunning EXCEPT ![w] = FALSE]
          /\ UNCHANGED <<controllerVars, linkVars, wstruck, wloop, wheart>>
      BY <1>4, <2>1 DEF WorkerStop
    <3>2. LogPlace'
      BY <1>4, <3>1, LogPlaceKept DEF WorkerStop, TypeOK
    <3>3. QED  BY <3>1, <3>2 DEF TypeOK, LogPlace
  <2>2. CASE ~wrunning[w]
    <3>1. /\ \E place \in WorkerPlaces \cup {"destroy"} :
                wmain' = [wmain EXCEPT ![w] = place]
          /\ wback' = [wback EXCEPT ![w] = "none"]
          /\ wrunning' = [wrunning EXCEPT ![w] = FALSE]
          /\ UNCHANGED <<controllerVars, linkVars, wstruck, wloop, wheart>>
      <4>1. wback[w] \in WorkerPlaces \cup {"none"}
        BY <1>4 DEF WorkerStop, TypeOK
      <4>2. QED  BY <1>4, <2>2, <4>1 DEF WorkerStop, AfterWorkerStop
    <3>2. QED  BY <3>1 DEF TypeOK
  <2>3. QED  BY <2>1, <2>2
<1>5. CASE WorkerJoin(w)
  BY <1>5 DEF WorkerJoin, AfterWorkerStop, TypeOK
<1>6. CASE WorkerDestroy(w)
  BY <1>6, WorkerEndType DEF WorkerDestroy
<1>7. QED  BY <1>1, <1>2, <1>3, <1>4, <1>5, <1>6 DEF WorkerMain

LEMMA WorkerThreadsType ==
    ASSUME TypeOK, NEW w \in Workers, WorkerLoop(w) \/ WorkerHeart(w)
    PROVE  TypeOK'
<1> USE DEF controllerVars
<1>1. CASE WorkerLoop(w)
  <2>1. /\ wloop' \in [Workers -> {"none", "check", "recv", "ended", "joined"}]
        /\ wrunning' \in [Workers -> BOOLEAN]
    <3>1. wloop' = [wloop EXCEPT ![w] = IF wrunning[w] THEN "recv" ELSE "ended"]
          \/ wloop' = [wloop EXCEPT ![w] = "ended"]
      BY <1>1, Zenon DEF WorkerLoop
    <3>2. wrunning' = wrunning \/ wrunning' = [wrunning EXCEPT ![w] = FALSE]
      BY <1>1 DEF WorkerLoop
    <3>3. /\ wloop \in [Workers -> {"none", "check", "recv", "ended", "joined"}]
          /\ wrunning \in [Workers -> BOOLEAN]
      BY DEF TypeOK
    <3>4. wloop' \in [Workers -> {"none", "check", "recv", "ended", "joined"}]
      BY <3>1, <3>3
    <3>5. wrunning' \in [Workers -> BOOLEAN]
      BY <3>2, <3>3
    <3>6. QED  BY <3>4, <3>5
  <2>2. toWorker' \in [Workers -> 0 .. MaxInFlight]
    <3>1. \/ toWorker' = toWorker
          \/ toWorker[w] > 0 /\ toWorker' = [toWorker EXCEPT ![w] = toWorker[w] - 1]
      BY <1>1, Zenon DEF WorkerLoop
    <3>2. toWorker[w] \in 0 .. MaxInFlight /\ MaxInFlight \in Nat
      BY LifecycleAssumption DEF TypeOK
    <3>3. ASSUME toWorker[w] > 0 PROVE toWorker[w] - 1 \in 0 .. MaxInFlight
      BY <3>2, <3>3
    <3>4. toWorker \in [Workers -> 0 .. MaxInFlight]
      BY DEF TypeOK
    <3>5. QED  BY <3>1, <3>3, <3>4
  <2>3. UNCHANGED <<controllerVars, handler, registered, conn, toController, wmain, wback,
                    wstruck, wheart>>
    BY <1>1 DEF WorkerLoop
  <2>4. QED  BY <2>1, <2>2, <2>3 DEF TypeOK
<1>2. CASE WorkerHeart(w)
  <2>1. toController[w] \in Seq({"register", "heartbeat"})
    BY DEF TypeOK
  <2>2. Append(toController[w], "heartbeat") \in Seq({"register", "heartbeat"})
    BY <2>1
  <2>3. toController' \in [Workers -> Seq({"register", "heartbeat"})]
    BY <1>2, <2>2 DEF WorkerHeart, TypeOK
  <2>4. QED  BY <1>2, <2>3 DEF WorkerHeart, TypeOK
<1>3. QED  BY <1>1, <1>2

LEMMA InitType == Init => TypeOK
<1> SUFFICES ASSUME Init PROVE TypeOK
  OBVIOUS
<1>1. toController \in [Workers -> Seq({"register", "heartbeat"})]
  BY DEF Init
<1>2. toWorker \in [Workers -> 0 .. MaxInFlight]
  BY LifecycleAssumption DEF Init
<1>3. /\ wrunning \in [Workers -> BOOLEAN]
      /\ wback \in [Workers -> WorkerPlaces \cup {"log", "none"}]
      /\ wstruck \in [Workers -> BOOLEAN]
      /\ wmain \in [Workers -> WorkerPlaces \cup {"off", "handler", "stop", "join", "destroy"}
                                \cup Outcomes]
  BY DEF Init
<1>4. /\ base \in [BaseThreads -> {"none", "run", "ended", "joined"}]
      /\ handler \in [Workers -> {"none", "check", "recv", "cleanup", "ended"}]
      /\ conn \in [Workers -> {"none", "backlog", "open", "cut"}]
      /\ wloop \in [Workers -> {"none", "check", "recv", "ended", "joined"}]
      /\ wheart \in [Workers -> {"none", "check", "send", "ended", "joined"}]
  BY DEF Init
<1>5. QED
  BY <1>1, <1>2, <1>3, <1>4 DEF Init, TypeOK, MainPlaces

LEMMA NextType ==
    ASSUME TypeOK, [Next]_vars
    PROVE  TypeOK'
<1>1. CASE UNCHANGED vars
  BY <1>1 DEF vars, controllerVars, linkVars, workerVars, TypeOK
<1>2. CASE Next
  BY <1>2, MainType, SignalType, ThreadsType, HandlerType, WorkerMainType,
     WorkerThreadsType DEF Next
<1>3. QED  BY <1>1, <1>2

\* Every reachable state of the three programs is well typed; a signal handler
\* returns to where a signal can strike.
THEOREM TypeCorrect == Spec => []TypeOK
<1>1. Init => TypeOK
  BY InitType
<1>2. TypeOK /\ [Next]_vars => TypeOK'
  BY NextType
<1>3. QED  BY <1>1, <1>2, PTL DEF Spec

-----------------------------------------------------------------------------
(* How a controller ends *)

\* A replicated controller: Controller::stop finds running_ cleared unless
\* RaftController::start itself called it, before its own thread existed. The
\* threads of Controller stay joinable from then on.
RaftEnd ==
    /\ main \in MainPlaces \cup {"destroy"} => back = "none"
    /\ main \in {"close", "join", "sockets", "destroyed", "exited"} =>
          raftAccept = "none" /\ back = "none"
    /\ main = "raftjoin" => ~running
    /\ main = "stop" /\ (back # "none" \/ raftAccept # "none") => ~running
    /\ Up /\ (raftAccept # "none" \/ main = "raftspawn" \/ back = "raftspawn") =>
          \A t \in BaseThreads : base[t] \in Joinable
    /\ raftAccept # "none" =>
          {main, back} \cap {"start", "spawn", "raftspawn"} = {}

\* The plain controller before it is signalled, and while its handler runs:
\* running_ is set, so stop() will join the threads.
Undisturbed ==
    /\ main \in MainPlaces => back = "none"
    /\ main \notin {"raftspawn", "nodestop", "raftjoin"} /\ back # "raftspawn"
    /\ main = "spawn" /\ struck # "spawn" => running
    /\ main \in {"sleep"} \cup Locks /\ struck = "no" =>
          running /\ \A t \in BaseThreads : base[t] = "run"
    /\ main \in {"handler", "stop"} /\ back \in {"sleep"} \cup Locks => running
    /\ main = "handler" => back # "none"
    /\ back # "none" => back = struck

\* A handler that interrupted main() with a mutex held never returns: it cannot
\* log, or joins a thread that needs the mutex.
Hung ==
    Up /\ struck \in Locks =>
        /\ back = struck
        /\ main \in {"handler", "stop", "close", "join"}
        /\ struck = "log" => main = "handler"
        /\ struck = "jobs" => base["scheduler"] = "run"
        /\ struck = "workers" => base["monitor"] = "run"

\* A plain controller that was not struck in spawn leaves no joinable thread
\* to the destructor.
Joined ==
    /\ struck # "spawn" =>
          /\ main \in {"stop", "sleep"} \cup Locks /\ ~running /\ back = "none" =>
                \A t \in BaseThreads : base[t] \notin Joinable
          /\ main \in {"sockets", "destroy", "destroyed"} =>
                \A t \in BaseThreads : base[t] \notin Joinable
    /\ main = "aborted" => struck = "spawn"

PlainEnd == Undisturbed /\ Hung /\ Joined /\ StruckDecides

\* A worker that was never signalled stops only once its loop has cleared the
\* flag, so it joins nothing.
WorkerUnsignalled(w) ==
    ~wstruck[w] =>
        /\ wback[w] = "none"
        /\ wmain[w] \notin {"handler", "join", "exited"}
        /\ wmain[w] \in {"sleep", "stop", "destroy"} =>
              {wloop[w], wheart[w]} \cap {"none", "joined"} = {}
        /\ wmain[w] = "stop" => ~wrunning[w]

EndInv ==
    /\ TypeOK
    /\ build = "raft" => RaftEnd
    /\ build = "plain" => PlainEnd
    /\ \A w \in Workers : WorkerUnsignalled(w)

LEMMA InitEnd == Init => EndInv
<1> SUFFICES ASSUME Init PROVE EndInv
  OBVIOUS
<1>1. RaftEnd
  BY DEF Init, RaftEnd
<1>2. PlainEnd
  BY DEF Init, PlainEnd, Undisturbed, Hung, Joined, StruckDecides, Locks
<1>3. \A w \in Workers : WorkerUnsignalled(w)
  BY DEF Init, WorkerUnsignalled
<1>4. QED  BY <1>1, <1>2, <1>3, InitType DEF EndInv

\* What the connections' handlers, the monitor's removals and the workers do
\* touches no variable of the controller's own life.
LEMMA Bystanders ==
    ASSUME NEW w \in Workers,
           \/ MonitorRemoves(w) \/ Handler(w) \/ WorkerMain(w)
           \/ WorkerLoop(w) \/ WorkerHeart(w) \/ WorkerSignal(w)
    PROVE  UNCHANGED controllerVars
<1>1. CASE MonitorRemoves(w) \/ Handler(w)
  BY <1>1 DEF MonitorRemoves, Handler, HandlerChecks, HandlerReceives, HandlerLoses,
              HandlerCleans
<1>2. CASE WorkerMain(w)
  BY <1>2 DEF WorkerMain, Connect, Registration, WorkerSpawns, LeaveLoop,
              WorkerHandlerLogs, WorkerStop, WorkerJoin, WorkerDestroy, WorkerEnd
<1>3. CASE WorkerLoop(w) \/ WorkerHeart(w) \/ WorkerSignal(w)
  BY <1>3 DEF WorkerLoop, WorkerHeart, WorkerSignal
<1>4. QED  BY <1>1, <1>2, <1>3

LEMMA RaftStep ==
    ASSUME TypeOK, build = "raft", RaftEnd, Next
    PROVE  RaftEnd'
<1> USE DEF RaftEnd, Up, Outcomes, Joinable, MainPlaces, Locks
<1>1. CASE Start
  BY <1>1 DEF Start, End
<1>2. CASE SpawnThreads \/ SpawnRaft
  <2>1. CASE SpawnThreads
    BY <2>1 DEF SpawnThreads
  <2>2. CASE SpawnRaft
    BY <2>2 DEF SpawnRaft
  <2>3. QED  BY <1>2, <2>1, <2>2
<1>3. CASE Loop
  BY <1>3 DEF Loop, StopPlace
<1>4. CASE HandlerLogs
  BY <1>4 DEF HandlerLogs, StopPlace
<1>5. CASE NodeStop \/ RaftJoin
  BY <1>5 DEF NodeStop, RaftJoin
<1>6. CASE Stop
  BY <1>6 DEF Stop, AfterStop, TypeOK, MainPlaces, Locks
<1>7. CASE Close \/ Join
  BY <1>7 DEF Close, Join
<1>8. CASE CloseSockets
  BY <1>8 DEF CloseSockets, AfterStop
<1>9. CASE Destroy
  <2>1. CASE End("aborted")
    BY <2>1 DEF End
  <2>2. CASE ~End("aborted")
    <3>1. /\ main = "destroy" /\ main' = "destroyed"
          /\ \A t \in BaseThreads : base[t] \notin Joinable
          /\ UNCHANGED <<build, back, struck, running, listening, base, raftAccept>>
      BY <1>9, <2>2 DEF Destroy
    <3>2. "accept" \in BaseThreads
      BY DEF BaseThreads
    <3>3. raftAccept = "none" /\ back # "raftspawn"
      BY <3>1, <3>2
    <3>4. QED  BY <3>1, <3>3
  <2>3. QED  BY <2>1, <2>2
<1>10. CASE Exit \/ Kill
  BY <1>10 DEF Exit, Kill, End
<1>11. CASE Signal
  BY <1>11 DEF Signal
<1>12. ASSUME NEW t \in BaseThreads, BaseEnds(t) PROVE RaftEnd'
  BY <1>12 DEF BaseEnds, TypeOK
<1>13. CASE RaftAcceptChecks \/ Visit \/ AcceptOther
  BY <1>13 DEF RaftAcceptChecks, Visit, AcceptOther, TypeOK, BaseThreads
<1>14. ASSUME NEW w \in Workers, Accept(w) PROVE RaftEnd'
  BY <1>14 DEF Accept, TypeOK, BaseThreads
<1>15. CASE UNCHANGED controllerVars
  BY <1>15 DEF controllerVars
<1>16. QED
  BY <1>1, <1>2, <1>3, <1>4, <1>5, <1>6, <1>7, <1>8, <1>9, <1>10, <1>11, <1>12, <1>13,
     <1>14, <1>15, Bystanders DEF Next, MainThread

LEMMA PlainStep ==
    ASSUME TypeOK, build = "plain", PlainEnd, Next
    PROVE  PlainEnd'
<1> USE DEF PlainEnd, Undisturbed, Hung, Joined, StruckDecides, Up, Outcomes, Joinable, Locks,
            MainPlaces
<1>1. CASE Start
  BY <1>1 DEF Start, End
<1>2. CASE SpawnThreads
  BY <1>2 DEF SpawnThreads
<1>3. ~(SpawnRaft \/ NodeStop \/ RaftJoin)
  BY DEF SpawnRaft, NodeStop, RaftJoin
<1>4. CASE Loop
  BY <1>4 DEF Loop, StopPlace
<1>5. CASE HandlerLogs
  BY <1>5 DEF HandlerLogs, StopPlace
<1>6. CASE Stop
  BY <1>6 DEF Stop, AfterStop, TypeOK, MainPlaces
<1>7. CASE Close
  BY <1>7 DEF Close
<1>8. CASE Join
  BY <1>8 DEF Join, TypeOK, BaseThreads
<1>9. CASE CloseSockets
  BY <1>9 DEF CloseSockets, AfterStop, TypeOK, MainPlaces
<1>10. CASE Destroy
  BY <1>10 DEF Destroy, End
<1>11. CASE Exit \/ Kill
  BY <1>11 DEF Exit, Kill, End
<1>12. CASE Signal
  BY <1>12 DEF Signal, MainPlaces, TypeOK, BaseThreads
<1>13. ASSUME NEW t \in BaseThreads, BaseEnds(t) PROVE PlainEnd'
  BY <1>13 DEF BaseEnds, TypeOK, Free, BaseThreads
<1>14. CASE RaftAcceptChecks \/ Visit \/ AcceptOther
  BY <1>14 DEF RaftAcceptChecks, Visit, AcceptOther, TypeOK, BaseThreads
<1>15. ASSUME NEW w \in Workers, Accept(w) PROVE PlainEnd'
  BY <1>15 DEF Accept, TypeOK, BaseThreads
<1>16. CASE UNCHANGED controllerVars
  BY <1>16 DEF controllerVars
<1>17. QED
  BY <1>1, <1>2, <1>3, <1>4, <1>5, <1>6, <1>7, <1>8, <1>9, <1>10, <1>11, <1>12, <1>13,
     <1>14, <1>15, <1>16, Bystanders DEF Next, MainThread

LEMMA WorkerStep ==
    ASSUME TypeOK, NEW w \in Workers, WorkerUnsignalled(w), Next
    PROVE  WorkerUnsignalled(w)'
<1> USE DEF WorkerUnsignalled, WorkerPlaces
<1>1. CASE UNCHANGED workerVars
  BY <1>1 DEF workerVars
<1>2. ASSUME NEW v \in Workers, Connect(v) \/ Registration(v) \/ WorkerDestroy(v)
      PROVE  WorkerUnsignalled(w)'
  BY <1>2 DEF Connect, Registration, WorkerDestroy, WorkerEnd, TypeOK
<1>3. ASSUME NEW v \in Workers,
             WorkerSpawns(v) \/ LeaveLoop(v) \/ WorkerSignal(v) \/ WorkerHandlerLogs(v)
      PROVE  WorkerUnsignalled(w)'
  <2>1. CASE WorkerSignal(v)
    <3>1. /\ wmain' = [wmain EXCEPT ![v] = "handler"]
          /\ wstruck' = [wstruck EXCEPT ![v] = TRUE]
          /\ \E place \in WorkerPlaces \cup {"log"} : wback' = [wback EXCEPT ![v] = place]
          /\ UNCHANGED <<wrunning, wloop, wheart>>
      BY <2>1 DEF WorkerSignal
    <3>2. QED  BY <3>1 DEF TypeOK
  <2>2. CASE WorkerHandlerLogs(v)
    BY <2>2 DEF WorkerHandlerLogs, TypeOK
  <2>3. CASE WorkerSpawns(v) \/ LeaveLoop(v)
    BY <2>3 DEF WorkerSpawns, LeaveLoop, TypeOK
  <2>4. QED  BY <1>3, <2>1, <2>2, <2>3
<1>4. ASSUME NEW v \in Workers, WorkerStop(v) \/ WorkerJoin(v)
      PROVE  WorkerUnsignalled(w)'
  BY <1>4 DEF WorkerStop, WorkerJoin, AfterWorkerStop, TypeOK
<1>5. ASSUME NEW v \in Workers, WorkerLoop(v) PROVE WorkerUnsignalled(w)'
  <2>1. UNCHANGED <<wmain, wback, wstruck, wheart>>
    BY <1>5 DEF WorkerLoop
  <2>2. /\ wrunning' = wrunning \/ wrunning' = [wrunning EXCEPT ![v] = FALSE]
        /\ \E place \in {"recv", "ended"} : wloop' = [wloop EXCEPT ![v] = place]
    BY <1>5 DEF WorkerLoop
  <2>3. DOMAIN wloop = Workers /\ DOMAIN wrunning = Workers
    BY DEF TypeOK
  <2>4. wloop[w] \notin {"none", "joined"} => wloop'[w] \notin {"none", "joined"}
    <3>1. PICK place \in {"recv", "ended"} : wloop' = [wloop EXCEPT ![v] = place]
      BY <2>2
    <3>2. QED  BY <2>3, <3>1
  <2>5. ~wrunning[w] => ~wrunning'[w]
    BY <2>2, <2>3
  <2>6. QED  BY <2>1, <2>4, <2>5
<1>6. ASSUME NEW v \in Workers, WorkerHeart(v) PROVE WorkerUnsignalled(w)'
  BY <1>6 DEF WorkerHeart, TypeOK
<1>7. MainThread => UNCHANGED workerVars
  BY DEF MainThread, Start, SpawnThreads, SpawnRaft, Loop, HandlerLogs, NodeStop, RaftJoin,
         Stop, Close, Join, CloseSockets, Destroy, Exit, End
<1>8. Signal \/ Kill \/ RaftAcceptChecks \/ Visit \/ AcceptOther => UNCHANGED workerVars
  BY DEF Signal, Kill, End, RaftAcceptChecks, Visit, AcceptOther
<1>9. (\E t \in BaseThreads : BaseEnds(t)) => UNCHANGED workerVars
  BY DEF BaseEnds
<1>10. \A v \in Workers :
          Accept(v) \/ MonitorRemoves(v) \/ Handler(v) => UNCHANGED workerVars
  BY DEF Accept, MonitorRemoves, Handler, HandlerChecks, HandlerReceives, HandlerLoses,
         HandlerCleans
<1>11. QED
  BY <1>1, <1>2, <1>3, <1>4, <1>5, <1>6, <1>7, <1>8, <1>9, <1>10 DEF Next, WorkerMain

LEMMA EndHolds == Spec => []EndInv
<1>1. Init => EndInv
  BY InitEnd
<1>2. EndInv /\ [Next]_vars => EndInv'
  <2> SUFFICES ASSUME EndInv, [Next]_vars PROVE EndInv'
    OBVIOUS
  <2>1. TypeOK'
    BY NextType DEF EndInv
  <2>2. CASE UNCHANGED vars
    <3>1. UNCHANGED controllerVars /\ UNCHANGED workerVars
      BY <2>2 DEF vars
    <3>2. (build = "raft" => RaftEnd)'
      BY <3>1 DEF EndInv, RaftEnd, Up, controllerVars
    <3>3. (build = "plain" => PlainEnd)'
      BY <3>1 DEF EndInv, PlainEnd, Undisturbed, Hung, Joined, StruckDecides, Up,
                  controllerVars
    <3>4. (\A w \in Workers : WorkerUnsignalled(w))'
      BY <3>1 DEF EndInv, WorkerUnsignalled, workerVars
    <3>5. QED  BY <2>1, <3>2, <3>3, <3>4 DEF EndInv
  <2>3. CASE Next
    <3>1. build' = build
      <4>1. MainThread \/ Signal \/ Kill \/ RaftAcceptChecks \/ Visit \/ AcceptOther
                => build' = build
        BY DEF MainThread, Start, SpawnThreads, SpawnRaft, Loop, HandlerLogs, NodeStop,
               RaftJoin, Stop, Close, Join, CloseSockets, Destroy, Exit, End, Signal, Kill,
               RaftAcceptChecks, Visit, AcceptOther
      <4>2. (\E t \in BaseThreads : BaseEnds(t)) => build' = build
        BY DEF BaseEnds
      <4>3. \A w \in Workers : Accept(w) => build' = build
        BY DEF Accept
      <4>4. QED  BY <2>3, <4>1, <4>2, <4>3, Bystanders DEF Next, controllerVars
    <3>2. QED  BY <2>1, <2>3, <3>1, RaftStep, PlainStep, WorkerStep DEF EndInv
  <2>4. QED  BY <2>2, <2>3
<1>3. QED  BY <1>1, <1>2, PTL DEF Spec

\* A replicated controller that has opened its own socket does not exit,
\* whatever signal comes when: it aborts, is killed or waits.
THEOREM ReplicatedNeverExits == Spec => []RaftNeverExits
<1>1. EndInv => RaftNeverExits
  BY DEF EndInv, RaftEnd, RaftNeverExits
<1>2. QED  BY <1>1, EndHolds, PTL

\* How a plain controller ends is decided by where the signal struck: with a
\* mutex held it does not exit, between the flag and the threads it may abort,
\* and nowhere else.
THEOREM PlainEndDecided == Spec => []StruckDecides
<1>1. EndInv => StruckDecides
  BY DEF EndInv, PlainEnd, StruckDecides
<1>2. QED  BY <1>1, EndHolds, PTL

\* A worker that exits normally was signalled.
THEOREM WorkerExitSignalled == Spec => []ExitIsSignalled
<1>1. EndInv => ExitIsSignalled
  BY DEF EndInv, WorkerUnsignalled, ExitIsSignalled, TypeOK
<1>2. QED  BY <1>1, EndHolds, PTL
=============================================================================
