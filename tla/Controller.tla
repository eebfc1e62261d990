----------------------------- MODULE Controller -----------------------------
(***************************************************************************)
(* The controller's job dispatch (controller/controller.cpp) together with *)
(* the workers it talks to, seen from its sockets (worker/worker.cpp).      *)
(*                                                                         *)
(* Threads: any number of submitters, one scheduler, one heartbeat monitor  *)
(* and one handler per worker connection. They share pending_jobs_,         *)
(* active_jobs_ and completed_jobs_ under jobs_mutex_, and workers_ under   *)
(* workers_mutex_. A critical section that takes one mutex is one step; the *)
(* two places that hold one mutex while waiting for the other (the          *)
(* scheduler's pick, remove_worker) are split at that point.                *)
(*                                                                         *)
(* A connection is named by the worker_id its registration receives.        *)
(***************************************************************************)
EXTENDS Naturals, Sequences, FiniteSets

CONSTANTS
    MaxJobs,        \* bound: job ids handed out by next_job_id_
    MaxWorkers,     \* bound: worker ids handed out by next_worker_id_
    MaxFaults,      \* bound: worker processes or connections that break, and times
                    \* a worker is silent past the timeout
    LateJobs        \* bound: jobs submitted where a worker is late

ASSUME BoundsAssumption ==
    /\ MaxJobs \in Nat
    /\ MaxWorkers \in Nat
    /\ MaxFaults \in Nat
    /\ LateJobs \in Nat

Jobs == 1 .. MaxJobs
Workers == 1 .. MaxWorkers
None == 0           \* worker_id 0 and job_id 0 are never assigned
Ack == 0            \* WORKER_REGISTER_ACK among the job ids sent to a worker

VARIABLES
    submitted,      \* job ids pushed by submit_job
    pending,        \* pending_jobs_: queue of job ids
    active,         \* active_jobs_: job id -> assigned_worker_id
    completed,      \* completed_jobs_: job id -> result.success
    tally,          \* total_jobs_completed_ + total_jobs_failed_
    workers,        \* workers_: id -> active_jobs count, heartbeat overdue?
    schedPc,        \* where the scheduler thread is
    hand,           \* the job the scheduler has popped
    target,         \* the WorkerInfo* the scheduler holds
    doomed,         \* the monitor's dead_workers not yet removed
    removal,        \* the thread inside remove_worker, holding workers_mutex_
    conn,           \* handler thread of each connection
    proc,           \* worker process at the other end
    busy,           \* the job the worker process is computing
    toWorker,       \* bytes in flight to the worker, as messages
    toController,   \* bytes in flight to the controller, as messages
    stray,          \* jobs whose assignment was recorded on a worker that has
                    \* not got them; the program does not know (see SchedRecord)
    failures, lates \* how much of the fault bound is used up

jobVars == <<submitted, pending, active, completed, tally>>
schedVars == <<schedPc, hand, target>>
removeVars == <<doomed, removal>>
peerVars == <<proc, busy, toWorker, toController>>
extraVars == <<stray, failures, lates>>
vars == <<jobVars, workers, schedVars, removeVars, conn, peerVars, extraVars>>

NoRemoval == [by |-> "nobody", worker |-> None]
Heartbeat(n) == [type |-> "heartbeat", load |-> n]
Result(j, ok) == [type |-> "result", job |-> j, success |-> ok]
Message == [type : {"heartbeat"}, load : Nat]
           \cup [type : {"result"}, job : Jobs, success : BOOLEAN]

\* Mutexes held across a step.
JobsLocked == schedPc \in {"picking", "counting"}
WorkersLocked == removal.worker # None

Registered(w) == w \in DOMAIN workers
Occurs(q, x) == \E i \in DOMAIN q : q[i] = x
Queued(j) == Occurs(pending, j)
Assigned(j) == j \in DOMAIN active /\ active[j] # None

Without(f, x) == [y \in DOMAIN f \ {x} |-> f[y]]
With(f, x, v) == [y \in DOMAIN f \cup {x} |-> IF y = x THEN v ELSE f[y]]

JobsType ==
    /\ submitted \subseteq Jobs
    /\ pending \in Seq(Jobs)
    /\ DOMAIN active \subseteq Jobs
    /\ active \in [DOMAIN active -> Workers \cup {None}]
    /\ DOMAIN completed \subseteq Jobs
    /\ completed \in [DOMAIN completed -> BOOLEAN]
    /\ tally \in Nat

RegistryType ==
    /\ DOMAIN workers \subseteq Workers
    /\ workers \in [DOMAIN workers -> [load : Nat, late : BOOLEAN]]

ThreadsType ==
    /\ schedPc \in {"idle", "picking", "sending", "recording", "counting"}
    /\ hand \in Jobs \cup {None}
    /\ hand # None <=> schedPc \in {"sending", "recording"}
    /\ target \in Workers \cup {None}
    /\ target # None <=> schedPc \in {"sending", "recording", "counting"}
    /\ pending = <<>> => schedPc # "picking"
    /\ doomed \subseteq Workers
    /\ removal \in [by : {"nobody", "monitor", "handler"},
                    worker : Workers \cup {None}]

PeersType ==
    /\ conn \in [Workers -> {"none", "registering", "open", "closed"}]
    /\ proc \in [Workers -> {"off", "joining", "running", "gone"}]
    /\ busy \in [Workers -> Jobs \cup {None}]
    /\ toWorker \in [Workers -> Seq(Jobs \cup {Ack})]
    /\ toController \in [Workers -> Seq(Message)]

ExtraType ==
    /\ stray \subseteq Jobs
    /\ failures \in 0 .. MaxFaults
    /\ lates \in 0 .. MaxFaults

TypeOK == JobsType /\ RegistryType /\ ThreadsType /\ PeersType /\ ExtraType

Init ==
    /\ submitted = {}
    /\ pending = <<>>
    /\ active = [j \in {} |-> None]
    /\ completed = [j \in {} |-> FALSE]
    /\ tally = 0
    /\ workers = [w \in {} |-> [load |-> 0, late |-> FALSE]]
    /\ schedPc = "idle"
    /\ hand = None
    /\ target = None
    /\ doomed = {}
    /\ removal = NoRemoval
    /\ conn = [w \in Workers |-> "none"]
    /\ proc = [w \in Workers |-> "off"]
    /\ busy = [w \in Workers |-> None]
    /\ toWorker = [w \in Workers |-> <<>>]
    /\ toController = [w \in Workers |-> <<>>]
    /\ stray = {}
    /\ failures = 0
    /\ lates = 0

-----------------------------------------------------------------------------
(* Submitters *)

\* submit_job: take a fresh id from the atomic counter, push it on the queue.
\* Submitters that took their ids concurrently may push in either order.
Submit(j) ==
    /\ j \notin submitted
    /\ lates = 0 \/ Cardinality(submitted) < LateJobs
    /\ ~JobsLocked
    /\ submitted' = submitted \cup {j}
    /\ pending' = Append(pending, j)
    /\ UNCHANGED <<active, completed, tally, workers, schedVars, removeVars,
                   conn, peerVars, extraVars>>

-----------------------------------------------------------------------------
(* Scheduler thread *)

\* Mutant: the 100 ms wait ends and the queue is not looked at again.
SchedLockUnchecked ==
    /\ schedPc = "idle"
    /\ schedPc' = "picking"
    /\ UNCHANGED <<jobVars, workers, hand, target, removeVars, conn, peerVars,
                   extraVars>>

\* scheduler_loop: the wait ends holding jobs_mutex_ with a job to place.
SchedLock ==
    /\ schedPc = "idle"
    /\ pending # <<>>
    /\ schedPc' = "picking"
    /\ UNCHANGED <<jobVars, workers, hand, target, removeVars, conn, peerVars,
                   extraVars>>

\* select_worker_least_loaded: the first worker with the fewest active jobs.
LeastLoaded(w) ==
    /\ Registered(w)
    /\ \A v \in DOMAIN workers :
          \/ workers[w].load < workers[v].load
          \/ workers[w].load = workers[v].load /\ w <= v

\* No worker: leave the loop, releasing jobs_mutex_, and wait again.
SchedNoWorker ==
    /\ schedPc = "picking"
    /\ ~WorkersLocked
    /\ DOMAIN workers = {}
    /\ schedPc' = "idle"
    /\ UNCHANGED <<jobVars, workers, hand, target, removeVars, conn, peerVars,
                   extraVars>>

\* Mutant: front() without pop().
SchedPickNoPop(w) ==
    /\ schedPc = "picking"
    /\ ~WorkersLocked
    /\ LeastLoaded(w)
    /\ schedPc' = "sending"
    /\ hand' = Head(pending)
    /\ target' = w
    /\ UNCHANGED <<jobVars, workers, removeVars, conn, peerVars, extraVars>>

\* workers_mutex_ is taken inside jobs_mutex_ for the choice only; the pointer
\* returned is used after both are released.
SchedPick(w) ==
    /\ schedPc = "picking"
    /\ ~WorkersLocked
    /\ LeastLoaded(w)
    /\ schedPc' = "sending"
    /\ hand' = Head(pending)
    /\ pending' = Tail(pending)
    /\ target' = w
    /\ UNCHANGED <<submitted, active, completed, tally, workers, removeVars,
                   conn, peerVars, extraVars>>

\* What reading *target may yield. The map node of a removed worker is freed:
\* it still holds the old contents, or those of a worker registered since in
\* the same memory. (Other contents give no valid socket: SendFails.)
PointsTo(w) ==
    IF Registered(w) THEN {w} ELSE {w} \cup {v \in DOMAIN workers : v > w}

\* Whose socket the descriptor of w is: the kernel gives the number of a closed
\* one to a later connection.
SocketOf(w) ==
    IF conn[w] = "closed" THEN {u \in Workers : u > w} ELSE {w}

\* send_job_to_worker succeeds: the bytes are in the socket of worker u, lost
\* if its process is gone already.
SchedSend(w, u) ==
    /\ schedPc = "sending"
    /\ w \in PointsTo(target)
    /\ u \in SocketOf(w)
    /\ conn[u] \in {"registering", "open"}
    /\ schedPc' = "recording"
    /\ toWorker' = IF proc[u] = "gone" THEN toWorker
                   ELSE [toWorker EXCEPT ![u] = Append(@, hand)]
    /\ UNCHANGED <<jobVars, workers, hand, target, removeVars, conn, proc,
                   busy, toController, extraVars>>

\* Mutant: a failed send is logged and the job dropped.
SchedSendFailsDrops ==
    /\ schedPc = "sending"
    /\ ~Registered(target) \/ proc[target] = "gone"
    /\ schedPc' = "idle"
    /\ hand' = None
    /\ target' = None
    /\ UNCHANGED <<jobVars, workers, removeVars, conn, peerVars, extraVars>>

\* send_job_to_worker fails: the job goes back to the end of the queue.
SchedSendFails ==
    /\ schedPc = "sending"
    /\ ~Registered(target) \/ proc[target] = "gone"
    /\ schedPc' = "idle"
    /\ pending' = Append(pending, hand)
    /\ hand' = None
    /\ target' = None
    /\ UNCHANGED <<submitted, active, completed, tally, workers, removeVars,
                   conn, peerVars, extraVars>>

\* The worker has got the job and will answer, or has answered and the answer is
\* still to be handled; or it is dead, which its handler will see.
HasJob(w, j) ==
    \/ busy[w] = j
    \/ Occurs(toWorker[w], j)
    \/ \E i \in DOMAIN toController[w] :
            toController[w][i].type = "result" /\ toController[w][i].job = j

InCareOf(w, j) == Registered(w) /\ (proc[w] = "gone" \/ HasJob(w, j))

\* assign_job_to_worker after a successful send: jobs_mutex_ again, and the
\* assignment is recorded under the worker_id found behind the pointer. Nothing
\* makes sure that it is still true: the worker may have been removed since the
\* choice, its answer handled already, or the job sent to another.
SchedRecord(w) ==
    /\ schedPc = "recording"
    /\ w \in PointsTo(target)
    /\ active' = With(active, hand, w)
    /\ stray' = IF InCareOf(w, hand) THEN stray \ {hand} ELSE stray \cup {hand}
    /\ schedPc' = "counting"
    /\ hand' = None
    /\ target' = w
    /\ UNCHANGED <<submitted, pending, completed, tally, workers, removeVars,
                   conn, peerVars, failures, lates>>

\* worker.active_jobs++ without workers_mutex_, then jobs_mutex_ is released.
SchedCount ==
    /\ schedPc = "counting"
    /\ workers' = IF Registered(target)
                  THEN [workers EXCEPT ![target].load = @ + 1] ELSE workers
    /\ schedPc' = "idle"
    /\ target' = None
    /\ UNCHANGED <<jobVars, hand, removeVars, conn, peerVars, extraVars>>

-----------------------------------------------------------------------------
(* Connection handlers *)

\* WORKER_REGISTER: register_worker under workers_mutex_.
Register(w) ==
    /\ conn[w] = "none"
    /\ \A v \in Workers : v < w => conn[v] # "none"
    /\ ~WorkersLocked
    /\ conn' = [conn EXCEPT ![w] = "registering"]
    /\ proc' = [proc EXCEPT ![w] = "joining"]
    /\ workers' = With(workers, w, [load |-> 0, late |-> FALSE])
    /\ UNCHANGED <<jobVars, schedVars, removeVars, busy, toWorker,
                   toController, extraVars>>

\* ... and the acknowledgement, sent after the mutex is released.
SendAck(w) ==
    /\ conn[w] = "registering"
    /\ conn' = [conn EXCEPT ![w] = "open"]
    /\ toWorker' = IF proc[w] = "gone" THEN toWorker
                   ELSE [toWorker EXCEPT ![w] = Append(@, Ack)]
    /\ UNCHANGED <<jobVars, workers, schedVars, removeVars, proc, busy,
                   toController, extraVars>>

\* The handler's next message, once its registration is answered.
Received(w, type) ==
    /\ conn[w] = "open"
    /\ toController[w] # <<>>
    /\ Head(toController[w]).type = type

\* A heartbeat of an unregistered worker is ignored. A store that races with
\* the scheduler's active_jobs++ may be lost.
HandleHeartbeat(w) ==
    /\ Received(w, "heartbeat")
    /\ ~WorkersLocked
    /\ IF Registered(w)
       THEN \E n \in {Head(toController[w]).load}
                     \cup (IF schedPc = "counting" /\ target = w
                           THEN {workers[w].load} ELSE {}) :
               workers' = [workers EXCEPT ![w] = [load |-> n, late |-> FALSE]]
       ELSE workers' = workers
    /\ toController' = [toController EXCEPT ![w] = Tail(@)]
    /\ UNCHANGED <<jobVars, schedVars, removeVars, conn, proc, busy, toWorker,
                   extraVars>>

\* Mutant: only successful results reach completed_jobs_.
HandleResultSuccessOnly(w) ==
    /\ Received(w, "result")
    /\ ~JobsLocked
    /\ LET m == Head(toController[w])
       IN  IF m.job \in DOMAIN active
           THEN /\ active' = Without(active, m.job)
                /\ completed' = IF m.success THEN With(completed, m.job, TRUE)
                                ELSE completed
                /\ tally' = tally + 1
           ELSE UNCHANGED <<active, completed, tally>>
    /\ toController' = [toController EXCEPT ![w] = Tail(@)]
    /\ UNCHANGED <<submitted, pending, workers, schedVars, removeVars, conn,
                   proc, busy, toWorker, extraVars>>

\* A result counts only for a job in active_jobs_, whoever sends it.
HandleResult(w) ==
    /\ Received(w, "result")
    /\ ~JobsLocked
    /\ LET m == Head(toController[w])
       IN  IF m.job \in DOMAIN active
           THEN /\ active' = Without(active, m.job)
                /\ completed' = With(completed, m.job, m.success)
                /\ tally' = tally + 1
           ELSE UNCHANGED <<active, completed, tally>>
    /\ toController' = [toController EXCEPT ![w] = Tail(@)]
    /\ UNCHANGED <<submitted, pending, workers, schedVars, removeVars, conn,
                   proc, busy, toWorker, extraVars>>

\* Mutant: the handler closes its socket and leaves the registry alone.
HandleEofKeepsWorker(w) ==
    /\ conn[w] = "open"
    /\ proc[w] = "gone"
    /\ toController[w] = <<>>
    /\ conn' = [conn EXCEPT ![w] = "closed"]
    /\ UNCHANGED <<jobVars, workers, schedVars, removeVars, peerVars, extraVars>>

\* receive_message fails: leave the loop and enter remove_worker, which does
\* nothing for a worker already removed; then close the socket.
HandleEof(w) ==
    /\ conn[w] = "open"
    /\ proc[w] = "gone"
    /\ toController[w] = <<>>
    /\ ~WorkersLocked
    /\ IF Registered(w)
       THEN removal' = [by |-> "handler", worker |-> w] /\ conn' = conn
       ELSE removal' = removal /\ conn' = [conn EXCEPT ![w] = "closed"]
    /\ UNCHANGED <<jobVars, workers, schedVars, doomed, peerVars, extraVars>>

-----------------------------------------------------------------------------
(* Heartbeat monitor, and remove_worker *)

\* No heartbeat of w has been handled for longer than heartbeat_timeout_sec.
Late(w) ==
    /\ failures + lates < MaxFaults
    /\ Cardinality(submitted) <= LateJobs
    /\ Registered(w)
    /\ ~workers[w].late
    /\ workers' = [workers EXCEPT ![w].late = TRUE]
    /\ lates' = lates + 1
    /\ UNCHANGED <<jobVars, schedVars, removeVars, conn, peerVars, stray,
                   failures>>

\* check_worker_heartbeats: collect the overdue workers under workers_mutex_.
MonitorScan ==
    /\ doomed = {}
    /\ ~WorkersLocked
    /\ doomed' = {w \in DOMAIN workers : workers[w].late}
    /\ doomed' # {}
    /\ UNCHANGED <<jobVars, workers, schedVars, removal, conn, peerVars,
                   extraVars>>

\* Then remove them one by one, without looking at the clock again.
MonitorRemove(w) ==
    /\ w \in doomed
    /\ \A v \in doomed : w <= v
    /\ ~WorkersLocked
    /\ IF Registered(w)
       THEN removal' = [by |-> "monitor", worker |-> w] /\ doomed' = doomed
       ELSE removal' = removal /\ doomed' = doomed \ {w}
    /\ UNCHANGED <<jobVars, workers, schedVars, conn, peerVars, extraVars>>

AssignedTo(w) == {j \in DOMAIN active : active[j] = w}

\* The elements of a set of ids in the order the map iterates over them.
Listings(S) ==
    {q \in [1 .. Cardinality(S) -> S] :
        /\ \A a, b \in DOMAIN q : a < b => q[a] < q[b]
        /\ \A x \in S : \E a \in DOMAIN q : q[a] = x}

\* Mutant: the entries are erased and live on in the queue only.
UnassignErases(w) == [j \in DOMAIN active \ AssignedTo(w) |-> active[j]]

Unassign(w) ==
    [j \in DOMAIN active |-> IF active[j] = w THEN None ELSE active[j]]

\* remove_worker with both mutexes: its jobs are queued again and stay in
\* active_jobs_ under worker 0; the worker is erased. The handler goes on to
\* close its socket; the monitor leaves the socket and its handler as they are.
RemoveFinish(w) ==
    /\ removal.worker = w
    /\ WorkersLocked
    /\ ~JobsLocked
    /\ \E q \in Listings(AssignedTo(w)) : pending' = pending \o q
    /\ active' = Unassign(w)
    /\ workers' = Without(workers, w)
    /\ removal' = NoRemoval
    /\ IF removal.by = "monitor"
       THEN doomed' = doomed \ {w} /\ conn' = conn
       ELSE doomed' = doomed /\ conn' = [conn EXCEPT ![w] = "closed"]
    /\ UNCHANGED <<submitted, completed, tally, schedVars, peerVars, extraVars>>

-----------------------------------------------------------------------------
(* Worker processes *)

Exits(w) ==
    /\ proc' = [proc EXCEPT ![w] = "gone"]
    /\ busy' = [busy EXCEPT ![w] = None]
    /\ toWorker' = [toWorker EXCEPT ![w] = <<>>]

\* register_with_controller: the first message must be the acknowledgement;
\* on anything else the worker disconnects.
WorkerJoin(w) ==
    /\ proc[w] = "joining"
    /\ toWorker[w] # <<>>
    /\ IF Head(toWorker[w]) = Ack
       THEN /\ proc' = [proc EXCEPT ![w] = "running"]
            /\ toWorker' = [toWorker EXCEPT ![w] = Tail(@)]
            /\ busy' = busy
       ELSE Exits(w)
    /\ UNCHANGED <<jobVars, workers, schedVars, removeVars, conn, toController,
                   extraVars>>

\* worker_loop receives a JOB_ASSIGN and computes it in the same thread.
WorkerTake(w) ==
    /\ proc[w] = "running"
    /\ busy[w] = None
    /\ toWorker[w] # <<>>
    /\ busy' = [busy EXCEPT ![w] = Head(toWorker[w])]
    /\ toWorker' = [toWorker EXCEPT ![w] = Tail(@)]
    /\ UNCHANGED <<jobVars, workers, schedVars, removeVars, conn, proc,
                   toController, extraVars>>

\* process_job_with_checkpoint ends in send_job_result, success or not.
WorkerFinish(w) ==
    /\ busy[w] # None
    /\ \E ok \in BOOLEAN :
          toController' = [toController EXCEPT ![w] =
                              Append(@, Result(busy[w], ok))]
    /\ busy' = [busy EXCEPT ![w] = None]
    /\ UNCHANGED <<jobVars, workers, schedVars, removeVars, conn, proc,
                   toWorker, extraVars>>

\* heartbeat_loop. Bound: one heartbeat in flight for each worker.
WorkerBeat(w) ==
    /\ proc[w] = "running"
    /\ \A i \in DOMAIN toController[w] : toController[w][i].type # "heartbeat"
    /\ toController' = [toController EXCEPT ![w] =
                           Append(@, Heartbeat(IF busy[w] = None THEN 0 ELSE 1))]
    /\ UNCHANGED <<jobVars, workers, schedVars, removeVars, conn, proc, busy,
                   toWorker, extraVars>>

\* The process dies or its connection breaks; what it sent last may be lost.
Fail(w) ==
    /\ failures + lates < MaxFaults
    /\ proc[w] \in {"joining", "running"}
    /\ failures' = failures + 1
    /\ Exits(w)
    /\ \E n \in 0 .. Len(toController[w]) :
          toController' = [toController EXCEPT ![w] = SubSeq(@, 1, n)]
    /\ UNCHANGED <<jobVars, workers, schedVars, removeVars, conn, stray, lates>>

-----------------------------------------------------------------------------

Scheduler ==
    \/ SchedLock
    \/ SchedNoWorker
    \/ \E w \in Workers : SchedPick(w)
    \/ \E w, u \in Workers : SchedSend(w, u)
    \/ SchedSendFails
    \/ \E w \in Workers : SchedRecord(w)
    \/ SchedCount

Handler(w) ==
    \/ SendAck(w)
    \/ HandleHeartbeat(w)
    \/ HandleResult(w)
    \/ HandleEof(w)

Monitor == MonitorScan \/ \E w \in Workers : MonitorRemove(w)

Worker(w) == WorkerJoin(w) \/ WorkerTake(w) \/ WorkerFinish(w)

Next ==
    \/ \E j \in Jobs : Submit(j)
    \/ Scheduler
    \/ Monitor
    \/ \E w \in Workers :
          \/ Register(w)
          \/ Handler(w)
          \/ RemoveFinish(w)
          \/ Late(w)
          \/ Worker(w)
          \/ WorkerBeat(w)
          \/ Fail(w)

Spec == Init /\ [][Next]_vars

\* Every started thread runs, and a thread that finds a mutex free again and
\* again gets it in the end (strong fairness; glibc's mutexes are not fair but
\* starve nobody for ever). Submissions, failures and lateness are never due.
Fairness ==
    /\ WF_vars(Scheduler)
    /\ SF_vars(Monitor)
    /\ \A w \in Workers :
          /\ SF_vars(Handler(w))
          /\ SF_vars(RemoveFinish(w))
          /\ WF_vars(Worker(w))

FairSpec == Spec /\ Fairness

-----------------------------------------------------------------------------
(* Safety *)

\* A submitted job is at no more than one of: one place of the queue, the
\* scheduler's hand, assigned. Requeueing on removal, requeueing on a failed
\* send and recording an assignment never hand the same job out twice.
NoDoubleDispatch ==
    /\ \A a, b \in DOMAIN pending : pending[a] = pending[b] => a = b
    /\ ~Queued(hand)
    /\ \A j \in Jobs : Assigned(j) => ~Queued(j) /\ hand # j

\* Until a job has a result it is queued, about to be sent, or assigned to a worker
\* that has it or whose death is to be noticed, and an entry of active_jobs_ that
\* remove_worker set back to worker 0 is always due to be sent again. The one way
\* to lose a job is an assignment that was not true when it was recorded.
NeverForgotten ==
    \A j \in submitted :
        j \notin DOMAIN completed \/ j \in DOMAIN active
            => \/ Queued(j) \/ hand = j
               \/ Assigned(j) /\ (j \in stray \/ InCareOf(active[j], j))

\* What remove_worker and the scheduler agree on: an assignment in
\* active_jobs_ ends by a result or by the removal of that very worker, and is
\* never overwritten by another dispatch of the job.
RevokedOnlyByRemoval ==
    [][\A j \in Jobs :
        Assigned(j) =>
            \/ /\ j \in DOMAIN active'
               /\ \/ active'[j] = active[j]
                  \/ active'[j] = None /\ removal.worker = active[j]
            \/ j \notin DOMAIN active' /\ j \in DOMAIN completed']_vars

-----------------------------------------------------------------------------
(* Liveness *)

\* The scheduler waits for workers_mutex_ inside jobs_mutex_ while
\* remove_worker waits for jobs_mutex_ inside workers_mutex_.
LockCycle == schedPc = "picking" /\ WorkersLocked

\* Unless the threads lock each other out or no worker is left, a queued job
\* reaches the head of the queue and is sent to a worker, however often the
\* sends before it fail.
QueueDrains ==
    \A j \in Jobs :
        Queued(j) ~> Assigned(j) \/ LockCycle \/ DOMAIN workers = {}

\* The handler of a dead worker works off what it still received and then
\* removes the worker, whose jobs are queued again in the same step.
DeadWorkerRemoved ==
    \A w \in Workers :
        proc[w] = "gone" /\ Registered(w) ~> LockCycle \/ ~Registered(w)

-----------------------------------------------------------------------------
(* The service the controller implements *)

NotDone == submitted \ DOMAIN completed

Service == INSTANCE JobService WITH
    Job <- Jobs,
    waiting <- {j \in NotDone : Queued(j)},
    given <- {j \in NotDone : hand = j \/ Assigned(j)},
    result <- completed

\* Whatever the threads, the network and the workers do, the controller keeps
\* every submitted job until it has a result, gives out waiting jobs only, and
\* withdraws no result.
ImplementsService == Service!Spec
=============================================================================
