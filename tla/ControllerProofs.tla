-------------------------- MODULE ControllerProofs --------------------------
(* Theorems about Controller, for every number of jobs, workers and faults. *)
EXTENDS Controller, SequenceTheorems, FiniteSetTheorems, TLAPS

\* What the operations on queues and channels return.
LEMMA QueueOps ==
    ASSUME NEW S, NEW s \in Seq(S)
    PROVE  /\ \A x \in S : Append(s, x) \in Seq(S)
           /\ s # <<>> => Head(s) \in S /\ Tail(s) \in Seq(S)
           /\ \A t \in Seq(S) : s \o t \in Seq(S)
           /\ \A n \in 0 .. Len(s) : SubSeq(s, 1, n) \in Seq(S)
<1>1. \A x \in S : Append(s, x) \in Seq(S)
  OBVIOUS
<1>2. s # <<>> => Head(s) \in S /\ Tail(s) \in Seq(S)
  BY HeadTailProperties
<1>3. \A t \in Seq(S) : s \o t \in Seq(S)
  BY ConcatProperties
<1>4. \A n \in 0 .. Len(s) : SubSeq(s, 1, n) \in Seq(S)
  <2>1. Len(s) \in Nat /\ \A i \in 1 .. Len(s) : s[i] \in S
    BY LenProperties, ElementOfSeq
  <2>2. QED  BY <2>1, SubSeqProperties
<1>5. QED  BY <1>1, <1>2, <1>3, <1>4

\* A map stays a map of its type when one entry is set or removed.
LEMMA WithType ==
    ASSUME NEW D, NEW R, NEW f, DOMAIN f \subseteq D, f \in [DOMAIN f -> R],
           NEW x \in D, NEW v \in R
    PROVE  /\ DOMAIN With(f, x, v) \subseteq D
           /\ With(f, x, v) \in [DOMAIN With(f, x, v) -> R]
BY DEF With

LEMMA WithoutType ==
    ASSUME NEW D, NEW R, NEW f, DOMAIN f \subseteq D, f \in [DOMAIN f -> R],
           NEW x
    PROVE  /\ DOMAIN Without(f, x) \subseteq D
           /\ Without(f, x) \in [DOMAIN Without(f, x) -> R]
BY DEF Without

\* The listing of a worker's jobs is a sequence of jobs.
LEMMA ListingType ==
    ASSUME NEW S, S \subseteq Jobs, NEW q \in Listings(S)
    PROVE  q \in Seq(Jobs) /\ Cardinality(S) \in Nat
<1>1. IsFiniteSet(S)
  <2>1. IsFiniteSet(1 .. MaxJobs)
    BY BoundsAssumption, FS_Interval
  <2>2. QED  BY <2>1, FS_Subset DEF Jobs
<1>2. Cardinality(S) \in Nat
  BY <1>1, FS_CardinalityType
<1>3. q \in [1 .. Cardinality(S) -> Jobs]
  BY DEF Listings
<1>4. QED  BY <1>2, <1>3

\* What a step leaves alone keeps its type.
LEMMA SameType ==
    ASSUME TypeOK
    PROVE  /\ UNCHANGED jobVars => JobsType'
           /\ UNCHANGED workers => RegistryType'
           /\ UNCHANGED <<pending, schedVars, removeVars>> => ThreadsType'
           /\ UNCHANGED <<conn, peerVars>> => PeersType'
           /\ UNCHANGED extraVars => ExtraType'
<1>1. UNCHANGED jobVars => JobsType'
  BY DEF TypeOK, JobsType, jobVars
<1>2. UNCHANGED workers => RegistryType'
  BY DEF TypeOK, RegistryType
<1>3. UNCHANGED <<pending, schedVars, removeVars>> => ThreadsType'
  BY DEF TypeOK, ThreadsType, schedVars, removeVars
<1>4. UNCHANGED <<conn, peerVars>> => PeersType'
  BY DEF TypeOK, PeersType, peerVars
<1>5. UNCHANGED extraVars => ExtraType'
  BY DEF TypeOK, ExtraType, extraVars
<1>6. QED  BY <1>1, <1>2, <1>3, <1>4, <1>5

LEMMA InitTypeOK == Init => TypeOK
<1> SUFFICES ASSUME Init PROVE TypeOK
  OBVIOUS
<1>1. JobsType
  BY BoundsAssumption DEF Init, JobsType, NoRemoval, None
<1>2. RegistryType
  BY BoundsAssumption DEF Init, RegistryType, NoRemoval, None
<1>3. ThreadsType
  BY BoundsAssumption DEF Init, ThreadsType, NoRemoval, None
<1>4. PeersType
  BY BoundsAssumption DEF Init, PeersType, NoRemoval, None
<1>5. ExtraType
  BY BoundsAssumption DEF Init, ExtraType, NoRemoval, None
<1>6. QED  BY <1>1, <1>2, <1>3, <1>4, <1>5 DEF TypeOK

LEMMA SubmitType ==
    ASSUME TypeOK, NEW j \in Jobs, Submit(j)
    PROVE  TypeOK'
<1>1. JobsType'
  BY BoundsAssumption DEF TypeOK, JobsType, Submit, jobVars, schedVars, removeVars, peerVars, extraVars
<1>3. ThreadsType'
  BY BoundsAssumption DEF TypeOK, ThreadsType, Submit, jobVars, schedVars, removeVars, peerVars, extraVars
<1>6. QED
  BY <1>1, <1>3, SameType DEF TypeOK, Submit, jobVars, schedVars, removeVars, peerVars

LEMMA SchedLockType ==
    ASSUME TypeOK, SchedLock
    PROVE  TypeOK'
<1>3. ThreadsType'
  BY BoundsAssumption DEF TypeOK, ThreadsType, SchedLock, jobVars, schedVars, removeVars, peerVars, extraVars
<1>6. QED
  BY <1>3, SameType DEF TypeOK, SchedLock, jobVars, schedVars, removeVars, peerVars

LEMMA SchedNoWorkerType ==
    ASSUME TypeOK, SchedNoWorker
    PROVE  TypeOK'
<1>3. ThreadsType'
  BY BoundsAssumption DEF TypeOK, ThreadsType, SchedNoWorker, jobVars, schedVars, removeVars, peerVars, extraVars
<1>6. QED
  BY <1>3, SameType DEF TypeOK, SchedNoWorker, jobVars, schedVars, removeVars, peerVars

LEMMA SchedPickType ==
    ASSUME TypeOK, NEW w \in Workers, SchedPick(w)
    PROVE  TypeOK'
<1>1. JobsType'
  <2>1. pending # <<>>
    BY DEF TypeOK, ThreadsType, SchedPick
  <2>2. pending' \in Seq(Jobs)
    BY <2>1, QueueOps DEF TypeOK, JobsType, SchedPick
  <2>3. QED  BY <2>2 DEF TypeOK, JobsType, SchedPick
<1>3. ThreadsType'
  <2>1. pending # <<>>
    BY DEF TypeOK, ThreadsType, SchedPick
  <2>2. hand' \in Jobs
    BY <2>1, QueueOps DEF TypeOK, JobsType, SchedPick
  <2>3. hand' # None /\ target' # None
    BY <2>2 DEF SchedPick, Jobs, Workers, None
  <2>4. QED  BY <2>2, <2>3 DEF TypeOK, ThreadsType, SchedPick, removeVars
<1>6. QED
  BY <1>1, <1>3, SameType DEF TypeOK, SchedPick, jobVars, schedVars, removeVars, peerVars

LEMMA SchedSendType ==
    ASSUME TypeOK, NEW w \in Workers, NEW u \in Workers, SchedSend(w, u)
    PROVE  TypeOK'
<1>3. ThreadsType'
  BY BoundsAssumption DEF TypeOK, ThreadsType, SchedSend, jobVars, schedVars, removeVars, peerVars, extraVars
<1>4. PeersType'
  <2>1. hand \in Jobs
    BY DEF TypeOK, ThreadsType, SchedSend
  <2>2. toWorker' \in [Workers -> Seq(Jobs \cup {Ack})]
    <3>1. Append(toWorker[u], hand) \in Seq(Jobs \cup {Ack})
      BY <2>1, QueueOps DEF TypeOK, PeersType
    <3>2. QED  BY <3>1 DEF TypeOK, PeersType, SchedSend
  <2>3. QED  BY <2>2 DEF TypeOK, PeersType, SchedSend
<1>6. QED
  BY <1>3, <1>4, SameType DEF TypeOK, SchedSend, jobVars, schedVars, removeVars, peerVars

LEMMA SchedSendFailsType ==
    ASSUME TypeOK, SchedSendFails
    PROVE  TypeOK'
<1>1. JobsType'
  <2>1. hand \in Jobs
    BY DEF TypeOK, ThreadsType, SchedSendFails
  <2>2. pending' \in Seq(Jobs)
    BY <2>1, QueueOps DEF TypeOK, JobsType, SchedSendFails
  <2>3. QED  BY <2>2 DEF TypeOK, JobsType, SchedSendFails
<1>3. ThreadsType'
  BY BoundsAssumption DEF TypeOK, ThreadsType, SchedSendFails, jobVars, schedVars, removeVars, peerVars, extraVars
<1>6. QED
  BY <1>1, <1>3, SameType DEF TypeOK, SchedSendFails, jobVars, schedVars, removeVars, peerVars

LEMMA SchedRecordType ==
    ASSUME TypeOK, NEW w \in Workers, SchedRecord(w)
    PROVE  TypeOK'
<1>1. JobsType'
  <2>1. hand \in Jobs
    BY DEF TypeOK, ThreadsType, SchedRecord
  <2>2. /\ DOMAIN active' \subseteq Jobs
        /\ active' \in [DOMAIN active' -> Workers \cup {None}]
    BY <2>1 DEF TypeOK, JobsType, SchedRecord, With
  <2>3. QED  BY <2>2 DEF TypeOK, JobsType, SchedRecord
<1>3. ThreadsType'
  <2>1. w # None
    BY DEF Workers, None
  <2>2. QED  BY <2>1 DEF TypeOK, ThreadsType, SchedRecord, removeVars
<1>5. ExtraType'
  BY DEF TypeOK, ThreadsType, ExtraType, SchedRecord
<1>6. QED
  BY <1>1, <1>3, <1>5, SameType DEF TypeOK, SchedRecord, jobVars, schedVars, removeVars, peerVars

LEMMA SchedCountType ==
    ASSUME TypeOK, SchedCount
    PROVE  TypeOK'
<1>2. RegistryType'
  BY DEF TypeOK, RegistryType, SchedCount, Registered
<1>3. ThreadsType'
  BY BoundsAssumption DEF TypeOK, ThreadsType, SchedCount, jobVars, schedVars, removeVars, peerVars, extraVars
<1>6. QED
  BY <1>2, <1>3, SameType DEF TypeOK, SchedCount, jobVars, schedVars, removeVars, peerVars

LEMMA MonitorScanType ==
    ASSUME TypeOK, MonitorScan
    PROVE  TypeOK'
<1>3. ThreadsType'
  BY DEF TypeOK, RegistryType, ThreadsType, MonitorScan, jobVars, schedVars
<1>6. QED
  BY <1>3, SameType DEF TypeOK, MonitorScan, jobVars, schedVars, removeVars, peerVars

LEMMA MonitorRemoveType ==
    ASSUME TypeOK, NEW w \in Workers, MonitorRemove(w)
    PROVE  TypeOK'
<1>3. ThreadsType'
  BY BoundsAssumption DEF TypeOK, ThreadsType, MonitorRemove, jobVars, schedVars, removeVars, peerVars, extraVars
<1>6. QED
  BY <1>3, SameType DEF TypeOK, MonitorRemove, jobVars, schedVars, removeVars, peerVars

LEMMA RegisterType ==
    ASSUME TypeOK, NEW w \in Workers, Register(w)
    PROVE  TypeOK'
<1>2. RegistryType'
  <2>1. [load |-> 0, late |-> FALSE] \in [load : Nat, late : BOOLEAN]
    OBVIOUS
  <2>2. QED  BY <2>1 DEF TypeOK, RegistryType, Register, With
<1>4. PeersType'
  BY BoundsAssumption DEF TypeOK, PeersType, Register, jobVars, schedVars, removeVars, peerVars, extraVars
<1>6. QED
  BY <1>2, <1>4, SameType DEF TypeOK, Register, jobVars, schedVars, removeVars, peerVars

LEMMA SendAckType ==
    ASSUME TypeOK, NEW w \in Workers, SendAck(w)
    PROVE  TypeOK'
<1>4. PeersType'
  BY BoundsAssumption DEF TypeOK, PeersType, SendAck, jobVars, schedVars, removeVars, peerVars, extraVars
<1>6. QED
  BY <1>4, SameType DEF TypeOK, SendAck, jobVars, schedVars, removeVars, peerVars

LEMMA HandleHeartbeatType ==
    ASSUME TypeOK, NEW w \in Workers, HandleHeartbeat(w)
    PROVE  TypeOK'
<1>2. RegistryType'
  <2>1. /\ toController[w] \in Seq(Message)
        /\ toController[w] # <<>>
    BY DEF TypeOK, PeersType, HandleHeartbeat, Received
  <2>2. Head(toController[w]) \in Message
    BY <2>1, QueueOps
  <2>3. Head(toController[w]).load \in Nat
    BY <2>2 DEF Message, HandleHeartbeat, Received
  <2>4. CASE Registered(w)
    <3>1. workers[w].load \in Nat
      BY <2>4 DEF TypeOK, RegistryType, Registered
    <3>2. PICK n \in Nat :
              workers' = [workers EXCEPT ![w] = [load |-> n, late |-> FALSE]]
      BY <2>3, <2>4, <3>1 DEF HandleHeartbeat
    <3>3. QED  BY <2>4, <3>2 DEF TypeOK, RegistryType, Registered
  <2>5. CASE ~Registered(w)
    BY <2>5 DEF TypeOK, RegistryType, HandleHeartbeat
  <2>6. QED  BY <2>4, <2>5
<1>4. PeersType'
  <2>1. /\ toController[w] \in Seq(Message)
        /\ toController[w] # <<>>
    BY DEF TypeOK, PeersType, HandleHeartbeat, Received
  <2>2. Tail(toController[w]) \in Seq(Message)
    BY <2>1, QueueOps
  <2>3. QED  BY <2>2 DEF TypeOK, PeersType, HandleHeartbeat
<1>6. QED
  BY <1>2, <1>4, SameType DEF TypeOK, HandleHeartbeat, jobVars, schedVars, removeVars, peerVars

LEMMA HandleResultType ==
    ASSUME TypeOK, NEW w \in Workers, HandleResult(w)
    PROVE  TypeOK'
<1>1. JobsType'
  <2>1. /\ toController[w] \in Seq(Message)
        /\ toController[w] # <<>>
    BY DEF TypeOK, PeersType, HandleResult, Received
  <2>2. Head(toController[w]) \in Message
    BY <2>1, QueueOps
  <2>3. /\ Head(toController[w]).job \in Jobs
        /\ Head(toController[w]).success \in BOOLEAN
    BY <2>2 DEF Message, HandleResult, Received
  <2> DEFINE m == Head(toController[w])
  <2>4. CASE m.job \in DOMAIN active
    <3>1. /\ active' = Without(active, m.job)
          /\ completed' = With(completed, m.job, m.success)
          /\ tally' = tally + 1
      BY <2>4 DEF HandleResult
    <3>2. /\ DOMAIN active' \subseteq Jobs
          /\ active' \in [DOMAIN active' -> Workers \cup {None}]
      BY <3>1 DEF TypeOK, JobsType, Without
    <3>3. /\ DOMAIN completed' \subseteq Jobs
          /\ completed' \in [DOMAIN completed' -> BOOLEAN]
      <4> HIDE DEF m
      <4>1. /\ DOMAIN completed \subseteq Jobs
            /\ completed \in [DOMAIN completed -> BOOLEAN]
        BY DEF TypeOK, JobsType
      <4>2. m.job \in Jobs /\ m.success \in BOOLEAN
        BY <2>3 DEF m
      <4>3. QED  BY <3>1, <4>1, <4>2, WithType, Zenon
    <3>4. QED  BY <3>1, <3>2, <3>3 DEF TypeOK, JobsType, HandleResult
  <2>5. CASE m.job \notin DOMAIN active
    BY <2>5 DEF TypeOK, JobsType, HandleResult
  <2>6. QED  BY <2>4, <2>5
<1>4. PeersType'
  <2>1. /\ toController[w] \in Seq(Message)
        /\ toController[w] # <<>>
    BY DEF TypeOK, PeersType, HandleResult, Received
  <2>2. Tail(toController[w]) \in Seq(Message)
    BY <2>1, QueueOps
  <2>3. QED  BY <2>2 DEF TypeOK, PeersType, HandleResult
<1>6. QED
  BY <1>1, <1>4, SameType DEF TypeOK, HandleResult, jobVars, schedVars, removeVars, peerVars

LEMMA HandleEofType ==
    ASSUME TypeOK, NEW w \in Workers, HandleEof(w)
    PROVE  TypeOK'
<1>3. ThreadsType'
  BY BoundsAssumption DEF TypeOK, ThreadsType, HandleEof, jobVars, schedVars, removeVars, peerVars, extraVars
<1>4. PeersType'
  BY BoundsAssumption DEF TypeOK, PeersType, HandleEof, jobVars, schedVars, removeVars, peerVars, extraVars
<1>6. QED
  BY <1>3, <1>4, SameType DEF TypeOK, HandleEof, jobVars, schedVars, removeVars, peerVars

LEMMA RemoveFinishType ==
    ASSUME TypeOK, NEW w \in Workers, RemoveFinish(w)
    PROVE  TypeOK'
<1>1. JobsType'
  <2>1. AssignedTo(w) \subseteq Jobs
    BY DEF TypeOK, JobsType, AssignedTo
  <2>2. PICK q \in Listings(AssignedTo(w)) : pending' = pending \o q
    BY DEF RemoveFinish
  <2>3. pending' \in Seq(Jobs)
    BY <2>1, <2>2, ListingType, QueueOps DEF TypeOK, JobsType
  <2>4. /\ DOMAIN active' \subseteq Jobs
        /\ active' \in [DOMAIN active' -> Workers \cup {None}]
    BY DEF TypeOK, JobsType, RemoveFinish, Unassign
  <2>5. QED  BY <2>3, <2>4 DEF TypeOK, JobsType, RemoveFinish
<1>2. RegistryType'
  BY DEF TypeOK, RegistryType, RemoveFinish, Without
<1>3. ThreadsType'
  BY DEF TypeOK, ThreadsType, RemoveFinish, schedVars, NoRemoval, JobsLocked, None
<1>4. PeersType'
  BY DEF TypeOK, PeersType, RemoveFinish, peerVars
<1>6. QED
  BY <1>1, <1>2, <1>3, <1>4, SameType DEF TypeOK, RemoveFinish, jobVars, schedVars, removeVars, peerVars

LEMMA LateType ==
    ASSUME TypeOK, NEW w \in Workers, Late(w)
    PROVE  TypeOK'
<1>2. RegistryType'
  BY BoundsAssumption DEF TypeOK, RegistryType, Late, jobVars, schedVars, removeVars, peerVars, extraVars
<1>5. ExtraType'
  BY BoundsAssumption DEF TypeOK, ExtraType, Late, jobVars, schedVars, removeVars, peerVars, extraVars
<1>6. QED
  BY <1>2, <1>5, SameType DEF TypeOK, Late, jobVars, schedVars, removeVars, peerVars

LEMMA WorkerJoinType ==
    ASSUME TypeOK, NEW w \in Workers, WorkerJoin(w)
    PROVE  TypeOK'
<1>4. PeersType'
  <2>1. toWorker[w] \in Seq(Jobs \cup {Ack}) /\ toWorker[w] # <<>>
    BY DEF TypeOK, PeersType, WorkerJoin
  <2>2. Tail(toWorker[w]) \in Seq(Jobs \cup {Ack})
    BY <2>1, QueueOps
  <2>3. CASE Head(toWorker[w]) = Ack
    BY <2>2, <2>3 DEF TypeOK, PeersType, WorkerJoin
  <2>4. CASE Exits(w)
    BY <2>4 DEF TypeOK, PeersType, WorkerJoin, Exits, None
  <2>5. QED  BY <2>3, <2>4 DEF WorkerJoin
<1>6. QED
  BY <1>4, SameType DEF TypeOK, WorkerJoin, jobVars, schedVars, removeVars, peerVars

LEMMA WorkerTakeType ==
    ASSUME TypeOK, NEW w \in Workers, WorkerTake(w)
    PROVE  TypeOK'
<1>4. PeersType'
  <2>1. toWorker[w] \in Seq(Jobs \cup {Ack}) /\ toWorker[w] # <<>>
    BY DEF TypeOK, PeersType, WorkerTake
  <2>2. /\ Tail(toWorker[w]) \in Seq(Jobs \cup {Ack})
        /\ Head(toWorker[w]) \in Jobs \cup {None}
    BY <2>1, QueueOps DEF Ack, None
  <2>3. QED  BY <2>2 DEF TypeOK, PeersType, WorkerTake
<1>6. QED
  BY <1>4, SameType DEF TypeOK, WorkerTake, jobVars, schedVars, removeVars, peerVars

LEMMA WorkerFinishType ==
    ASSUME TypeOK, NEW w \in Workers, WorkerFinish(w)
    PROVE  TypeOK'
<1>4. PeersType'
  <2>1. busy[w] \in Jobs /\ toController[w] \in Seq(Message)
    BY DEF TypeOK, PeersType, WorkerFinish
  <2>2. PICK ok \in BOOLEAN :
            toController' = [toController EXCEPT ![w] =
                                Append(@, Result(busy[w], ok))]
    BY DEF WorkerFinish
  <2>3. Result(busy[w], ok) \in Message
    BY <2>1 DEF Result, Message
  <2>4. Append(toController[w], Result(busy[w], ok)) \in Seq(Message)
    BY <2>1, <2>3, QueueOps
  <2>5. QED  BY <2>2, <2>4 DEF TypeOK, PeersType, WorkerFinish
<1>6. QED
  BY <1>4, SameType DEF TypeOK, WorkerFinish, jobVars, schedVars, removeVars, peerVars

LEMMA WorkerBeatType ==
    ASSUME TypeOK, NEW w \in Workers, WorkerBeat(w)
    PROVE  TypeOK'
<1>4. PeersType'
  <2> DEFINE m == Heartbeat(IF busy[w] = None THEN 0 ELSE 1)
  <2>1. m \in Message /\ toController[w] \in Seq(Message)
    BY DEF TypeOK, PeersType, Heartbeat, Message
  <2>2. Append(toController[w], m) \in Seq(Message)
    BY <2>1, QueueOps
  <2>3. QED  BY <2>2 DEF TypeOK, PeersType, WorkerBeat
<1>6. QED
  BY <1>4, SameType DEF TypeOK, WorkerBeat, jobVars, schedVars, removeVars, peerVars

LEMMA FailType ==
    ASSUME TypeOK, NEW w \in Workers, Fail(w)
    PROVE  TypeOK'
<1>4. PeersType'
  <2>1. toController[w] \in Seq(Message)
    BY DEF TypeOK, PeersType
  <2>2. PICK n \in 0 .. Len(toController[w]) :
            toController' = [toController EXCEPT ![w] = SubSeq(@, 1, n)]
    BY DEF Fail
  <2>3. SubSeq(toController[w], 1, n) \in Seq(Message)
    BY <2>1, <2>2, QueueOps
  <2>4. QED  BY <2>2, <2>3 DEF TypeOK, PeersType, Fail, Exits, None
<1>5. ExtraType'
  BY BoundsAssumption DEF TypeOK, ExtraType, Fail, jobVars, schedVars, removeVars, peerVars, extraVars
<1>6. QED
  BY <1>4, <1>5, SameType DEF TypeOK, Fail, jobVars, schedVars, removeVars, peerVars

\* Every thread, connection and worker keeps to the types of its variables,
\* whatever the interleaving; in particular the scheduler holds a job and a
\* worker exactly between its pick and the end of assign_job_to_worker, and
\* takes from a queue that is not empty.
THEOREM TypeCorrect == Spec => []TypeOK
<1>1. Init => TypeOK
  BY InitTypeOK
<1>2. TypeOK /\ [Next]_vars => TypeOK'
  <2> SUFFICES ASSUME TypeOK, [Next]_vars PROVE TypeOK'
    OBVIOUS
  <2>1. ASSUME NEW j \in Jobs, Submit(j) PROVE TypeOK'
    BY <2>1, SubmitType
  <2>2. CASE Scheduler
    BY <2>2, SchedLockType, SchedNoWorkerType, SchedPickType, SchedSendType,
       SchedSendFailsType, SchedRecordType, SchedCountType DEF Scheduler
  <2>3. CASE Monitor
    BY <2>3, MonitorScanType, MonitorRemoveType DEF Monitor
  <2>4. ASSUME NEW w \in Workers, Handler(w) PROVE TypeOK'
    BY <2>4, SendAckType, HandleHeartbeatType, HandleResultType, HandleEofType
    DEF Handler
  <2>5. ASSUME NEW w \in Workers, Worker(w) PROVE TypeOK'
    BY <2>5, WorkerJoinType, WorkerTakeType, WorkerFinishType DEF Worker
  <2>6. ASSUME NEW w \in Workers,
               Register(w) \/ RemoveFinish(w) \/ Late(w) \/ WorkerBeat(w) \/ Fail(w)
        PROVE  TypeOK'
    BY <2>6, RegisterType, RemoveFinishType, LateType, WorkerBeatType, FailType
  <2>7. CASE UNCHANGED vars
    BY <2>7, SameType DEF TypeOK, vars, jobVars, schedVars, removeVars, peerVars
  <2>8. QED  BY <2>1, <2>2, <2>3, <2>4, <2>5, <2>6, <2>7 DEF Next
<1>3. QED  BY <1>1, <1>2, PTL DEF Spec

-----------------------------------------------------------------------------
(* Where a job is. *)

Distinct(q) == \A a, b \in DOMAIN q : q[a] = q[b] => a = b

LEMMA AppendOccurs ==
    ASSUME NEW s \in Seq(Jobs), NEW x \in Jobs
    PROVE  /\ \A j : Occurs(Append(s, x), j) <=> Occurs(s, j) \/ j = x
           /\ Distinct(s) /\ ~Occurs(s, x) => Distinct(Append(s, x))
<1>1. /\ DOMAIN s = 1 .. Len(s) /\ Len(s) \in Nat
      /\ DOMAIN Append(s, x) = 1 .. Len(s) + 1
      /\ \A i \in 1 .. Len(s) : Append(s, x)[i] = s[i]
      /\ Append(s, x)[Len(s) + 1] = x
  BY AppendProperties, LenProperties
<1>2. QED  BY <1>1 DEF Occurs, Distinct

LEMMA TailOccurs ==
    ASSUME NEW s \in Seq(Jobs), s # <<>>
    PROVE  /\ \A j : Occurs(s, j) <=> j = Head(s) \/ Occurs(Tail(s), j)
           /\ Distinct(s) => Distinct(Tail(s)) /\ ~Occurs(Tail(s), Head(s))
<1>1. /\ DOMAIN s = 1 .. Len(s) /\ Len(s) \in Nat \ {0}
      /\ DOMAIN Tail(s) = 1 .. Len(s) - 1
      /\ \A i \in 1 .. Len(s) - 1 : Tail(s)[i] = s[i + 1]
      /\ Head(s) = s[1]
  BY HeadTailProperties, EmptySeq, LenProperties
<1>2. \A i \in 2 .. Len(s) : i - 1 \in DOMAIN Tail(s) /\ Tail(s)[i - 1] = s[i]
  BY <1>1
<1>3. ASSUME NEW j, Occurs(s, j) PROVE j = Head(s) \/ Occurs(Tail(s), j)
  <2>1. PICK i \in 1 .. Len(s) : s[i] = j
    BY <1>1, <1>3 DEF Occurs
  <2>2. CASE i = 1
    BY <1>1, <2>1, <2>2
  <2>3. CASE i # 1
    <3>1. i - 1 \in DOMAIN Tail(s) /\ Tail(s)[i - 1] = j
      BY <1>1, <1>2, <2>1, <2>3
    <3>2. QED  BY <3>1 DEF Occurs
  <2>4. QED  BY <2>2, <2>3
<1>4. ASSUME NEW j, j = Head(s) \/ Occurs(Tail(s), j) PROVE Occurs(s, j)
  BY <1>1, <1>4 DEF Occurs
<1>5. ASSUME Distinct(s) PROVE Distinct(Tail(s)) /\ ~Occurs(Tail(s), Head(s))
  BY <1>1, <1>5 DEF Occurs, Distinct
<1>6. QED  BY <1>3, <1>4, <1>5

LEMMA ConcatOccurs ==
    ASSUME NEW s \in Seq(Jobs), NEW t \in Seq(Jobs)
    PROVE  /\ \A j : Occurs(s \o t, j) <=> Occurs(s, j) \/ Occurs(t, j)
           /\ Distinct(s) /\ Distinct(t) /\ (\A j : ~(Occurs(s, j) /\ Occurs(t, j)))
                => Distinct(s \o t)
<1>1. /\ DOMAIN s = 1 .. Len(s) /\ Len(s) \in Nat
      /\ DOMAIN t = 1 .. Len(t) /\ Len(t) \in Nat
      /\ DOMAIN (s \o t) = 1 .. Len(s) + Len(t)
      /\ \A i \in 1 .. Len(s) + Len(t) :
            (s \o t)[i] = IF i <= Len(s) THEN s[i] ELSE t[i - Len(s)]
  BY ConcatProperties, LenProperties
<1>2. \A i \in 1 .. Len(t) : (s \o t)[Len(s) + i] = t[i]
  BY <1>1
<1>3. ASSUME NEW j, Occurs(s \o t, j) PROVE Occurs(s, j) \/ Occurs(t, j)
  BY <1>1, <1>3 DEF Occurs
<1>4. ASSUME NEW j, Occurs(s, j) \/ Occurs(t, j) PROVE Occurs(s \o t, j)
  <2>1. CASE Occurs(s, j)
    BY <1>1, <2>1 DEF Occurs
  <2>2. CASE Occurs(t, j)
    <3>1. PICK i \in 1 .. Len(t) : t[i] = j
      BY <1>1, <2>2 DEF Occurs
    <3>2. Len(s) + i \in DOMAIN (s \o t) /\ (s \o t)[Len(s) + i] = j
      BY <1>1, <1>2, <3>1
    <3>3. QED  BY <3>2 DEF Occurs
  <2>3. QED  BY <1>4, <2>1, <2>2
<1>5. ASSUME Distinct(s), Distinct(t), \A j : ~(Occurs(s, j) /\ Occurs(t, j))
      PROVE  Distinct(s \o t)
  <2> SUFFICES ASSUME NEW a \in DOMAIN (s \o t), NEW b \in DOMAIN (s \o t),
                      (s \o t)[a] = (s \o t)[b]
               PROVE  a = b
    BY DEF Distinct
  <2>1. CASE a <= Len(s) /\ b <= Len(s)
    BY <1>1, <1>5, <2>1 DEF Distinct
  <2>2. CASE a > Len(s) /\ b > Len(s)
    BY <1>1, <1>5, <2>2 DEF Distinct
  <2>3. CASE a <= Len(s) /\ b > Len(s)
    <3>1. /\ a \in DOMAIN s /\ s[a] = (s \o t)[a]
          /\ b - Len(s) \in DOMAIN t /\ t[b - Len(s)] = (s \o t)[a]
      BY <1>1, <2>3
    <3>2. QED  BY <1>5, <3>1 DEF Occurs
  <2>4. CASE a > Len(s) /\ b <= Len(s)
    BY <1>1, <1>5, <2>4 DEF Occurs
  <2>5. QED  BY <1>1, <2>1, <2>2, <2>3, <2>4
<1>6. QED  BY <1>3, <1>4, <1>5

LEMMA ListingOccurs ==
    ASSUME NEW S, S \subseteq Jobs, NEW q \in Listings(S)
    PROVE  /\ Distinct(q)
           /\ \A j : Occurs(q, j) <=> j \in S
<1>1. /\ \A a, b \in DOMAIN q : a < b => q[a] < q[b]
      /\ \A x \in S : \E a \in DOMAIN q : q[a] = x
      /\ q \in [1 .. Cardinality(S) -> S]
  BY DEF Listings
<1>2. DOMAIN q \subseteq Int /\ \A a \in DOMAIN q : q[a] \in S /\ q[a] \in Int
  <2>1. Cardinality(S) \in Nat
    BY ListingType
  <2>2. S \subseteq Int
    BY BoundsAssumption DEF Jobs
  <2>3. DOMAIN q = 1 .. Cardinality(S) /\ \A a \in DOMAIN q : q[a] \in S
    BY <1>1
  <2>4. DOMAIN q \subseteq Int
    BY <2>1, <2>3
  <2>5. QED  BY <2>2, <2>3, <2>4
<1>3. Distinct(q)
  <2> SUFFICES ASSUME NEW a \in DOMAIN q, NEW b \in DOMAIN q, q[a] = q[b]
               PROVE  a = b
    BY DEF Distinct
  <2>1. a < b \/ b < a \/ a = b
    BY <1>2
  <2>2. QED  BY <1>1, <1>2, <2>1
<1>4. QED  BY <1>1, <1>2, <1>3 DEF Occurs

-----------------------------------------------------------------------------
(* The dispatch invariant. *)

\* Only submitted jobs are anywhere: submit_job's id is fresh.
SubmittedOnly ==
    \A j \in Jobs :
        Queued(j) \/ hand = j \/ j \in DOMAIN active \/ j \in DOMAIN completed
            => j \in submitted

\* A job without a result is queued, in the scheduler's hand or recorded.
KeptSomewhere ==
    \A j \in submitted :
        j \notin DOMAIN completed \/ j \in DOMAIN active
            => Queued(j) \/ hand = j \/ Assigned(j)

DispatchInv == NoDoubleDispatch /\ KeptSomewhere /\ SubmittedOnly

(* What each step that moves jobs does to the places. *)

LEMMA SubmitEffect ==
    ASSUME TypeOK, NEW k \in Jobs, Submit(k)
    PROVE  /\ \A j : Queued(j)' <=> Queued(j) \/ j = k
           /\ Distinct(pending) /\ ~Queued(k) => Distinct(pending')
BY AppendOccurs DEF TypeOK, JobsType, Submit, Queued

LEMMA SchedPickEffect ==
    ASSUME TypeOK, DispatchInv, NEW w \in Workers, SchedPick(w)
    PROVE  /\ \A j : Queued(j) <=> j = hand' \/ Queued(j)'
           /\ Distinct(pending') /\ ~Queued(hand)' /\ hand' \in Jobs
<1>1. /\ pending \in Seq(Jobs) /\ pending # <<>>
      /\ hand' = Head(pending) /\ hand' \in Jobs /\ pending' = Tail(pending)
  BY QueueOps DEF TypeOK, JobsType, ThreadsType, SchedPick
<1>2. QED  BY <1>1, TailOccurs DEF DispatchInv, NoDoubleDispatch, Distinct, Queued

LEMMA SchedSendFailsEffect ==
    ASSUME TypeOK, DispatchInv, SchedSendFails
    PROVE  /\ \A j : Queued(j)' <=> Queued(j) \/ j = hand
           /\ Distinct(pending') /\ ~Queued(hand)'
<1>1. /\ pending \in Seq(Jobs)
      /\ hand \in Jobs /\ hand' = None /\ None \notin Jobs
      /\ pending' = Append(pending, hand)
  BY DEF TypeOK, JobsType, ThreadsType, SchedSendFails, None, Jobs
<1>2. pending' \in Seq(Jobs)
  BY <1>1, QueueOps
<1>3. ~Queued(hand)'
  BY <1>1, <1>2, ElementOfSeq, LenProperties DEF Queued, Occurs
<1>4. QED  BY <1>1, <1>3, AppendOccurs
           DEF DispatchInv, NoDoubleDispatch, Distinct, Queued

LEMMA SchedRecordEffect ==
    ASSUME TypeOK, NEW w \in Workers, SchedRecord(w)
    PROVE  /\ DOMAIN active' = DOMAIN active \cup {hand}
           /\ \A j : Assigned(j)' <=> Assigned(j) \/ j = hand
BY DEF SchedRecord, With, Assigned, Workers, None

LEMMA HandleResultEffect ==
    ASSUME TypeOK, NEW w \in Workers, HandleResult(w),
           ~UNCHANGED <<submitted, pending, active, completed, hand>>
    PROVE  \E k \in Jobs, ok \in BOOLEAN :
              /\ k \in DOMAIN active
              /\ active' = Without(active, k)
              /\ completed' = With(completed, k, ok)
              /\ submitted' = submitted /\ pending' = pending /\ hand' = hand
<1>1. /\ toController[w] \in Seq(Message)
      /\ toController[w] # <<>>
  BY DEF TypeOK, PeersType, HandleResult, Received
<1>2. Head(toController[w]) \in Message
  BY <1>1, QueueOps
<1>3. /\ Head(toController[w]).job \in Jobs
      /\ Head(toController[w]).success \in BOOLEAN
  BY <1>2 DEF Message, HandleResult, Received
<1>4. Head(toController[w]).job \in DOMAIN active
  BY DEF HandleResult, schedVars
<1>5. QED  BY <1>3, <1>4 DEF HandleResult, schedVars

LEMMA RemoveFinishEffect ==
    ASSUME TypeOK, DispatchInv, NEW w \in Workers, RemoveFinish(w)
    PROVE  /\ \A j : Queued(j)' <=> Queued(j) \/ j \in AssignedTo(w)
           /\ \A j : Assigned(j) <=> Assigned(j)' \/ j \in AssignedTo(w)
           /\ \A j \in AssignedTo(w) : /\ Assigned(j) /\ ~Assigned(j)'
                                       /\ ~Queued(j) /\ hand # j
           /\ Distinct(pending')
<1> DEFINE S == AssignedTo(w)
<1>1. PICK q \in Listings(S) : pending' = pending \o q
  BY DEF RemoveFinish
<1>2. active' = [j \in DOMAIN active |-> IF active[j] = w THEN None ELSE active[j]]
  BY DEF RemoveFinish, Unassign
<1>3. /\ S \subseteq Jobs /\ w # None
      /\ \A j : j \in S <=> j \in DOMAIN active /\ active[j] = w
      /\ pending \in Seq(Jobs)
  BY DEF TypeOK, JobsType, AssignedTo, Workers, None
<1> HIDE DEF S
<1>4. /\ q \in Seq(Jobs)
      /\ Distinct(q)
      /\ \A j : Occurs(q, j) <=> j \in S
  BY <1>1, <1>3, ListingType, ListingOccurs
<1>5. \A j : Queued(j)' <=> Queued(j) \/ j \in S
  BY <1>1, <1>3, <1>4, ConcatOccurs DEF Queued
<1>6. \A j : Assigned(j) <=> Assigned(j)' \/ j \in S
  BY <1>2, <1>3 DEF Assigned
<1>7. \A j : j \in S => ~Assigned(j)'
  BY <1>2, <1>3 DEF Assigned
<1>8. \A j \in S : Assigned(j) /\ ~Queued(j) /\ hand # j
  BY <1>3, <1>6 DEF DispatchInv, NoDoubleDispatch
<1>9. Distinct(pending')
  <2>1. Distinct(pending)
    BY DEF DispatchInv, NoDoubleDispatch, Distinct
  <2>2. \A j : ~(Occurs(pending, j) /\ Occurs(q, j))
    BY <1>4, <1>8 DEF Queued
  <2>3. QED  BY <1>1, <1>3, <1>4, <2>1, <2>2, ConcatOccurs
<1>10. QED  BY <1>5, <1>6, <1>7, <1>8, <1>9 DEF S

(* The dispatch invariant is inductive. *)

LEMMA InitDispatch == Init => DispatchInv
BY DEF Init, DispatchInv, NoDoubleDispatch, KeptSomewhere, SubmittedOnly,
       Queued, Occurs, Assigned, Jobs, None

\* A step that touches neither the job tables nor the scheduler's hand.
LEMMA SameDispatch ==
    ASSUME DispatchInv, UNCHANGED <<submitted, pending, active, completed, hand>>
    PROVE  DispatchInv'
BY DEF DispatchInv, NoDoubleDispatch, KeptSomewhere, SubmittedOnly, Queued,
       Occurs, Assigned

LEMMA SubmitDispatch ==
    ASSUME TypeOK, DispatchInv, NEW k \in Jobs, Submit(k)
    PROVE  DispatchInv'
<1>1. /\ k \notin submitted /\ submitted' = submitted \cup {k}
      /\ active' = active /\ completed' = completed /\ hand' = hand
      /\ \A j : Assigned(j)' <=> Assigned(j)
  BY DEF Submit, schedVars, Assigned
<1>2. ~Queued(k) /\ hand # k /\ k \notin DOMAIN active /\ k \notin DOMAIN completed
  BY <1>1 DEF DispatchInv, SubmittedOnly
<1>3. NoDoubleDispatch'
  BY <1>1, <1>2, SubmitEffect DEF DispatchInv, NoDoubleDispatch, Distinct, Assigned
<1>4. KeptSomewhere'
  BY <1>1, SubmitEffect DEF DispatchInv, KeptSomewhere, TypeOK, JobsType
<1>5. SubmittedOnly'
  BY <1>1, SubmitEffect DEF DispatchInv, SubmittedOnly
<1>6. QED  BY <1>3, <1>4, <1>5 DEF DispatchInv

LEMMA SchedPickDispatch ==
    ASSUME TypeOK, DispatchInv, NEW w \in Workers, SchedPick(w)
    PROVE  DispatchInv'
<1>1. /\ hand = None /\ \A j \in Jobs : hand # j
      /\ submitted' = submitted /\ active' = active /\ completed' = completed
      /\ \A j : Assigned(j)' <=> Assigned(j)
  BY DEF TypeOK, ThreadsType, SchedPick, Assigned, None, Jobs
<1>2. NoDoubleDispatch'
  BY <1>1, SchedPickEffect DEF DispatchInv, NoDoubleDispatch, Distinct
<1>3. KeptSomewhere'
  BY <1>1, SchedPickEffect DEF DispatchInv, KeptSomewhere, TypeOK, JobsType
<1>4. SubmittedOnly'
  BY <1>1, SchedPickEffect DEF DispatchInv, SubmittedOnly
<1>5. QED  BY <1>2, <1>3, <1>4 DEF DispatchInv

LEMMA SchedSendFailsDispatch ==
    ASSUME TypeOK, DispatchInv, SchedSendFails
    PROVE  DispatchInv'
<1>1. /\ hand \in Jobs /\ hand' = None /\ None \notin Jobs
      /\ submitted' = submitted /\ active' = active /\ completed' = completed
      /\ \A j : Assigned(j)' <=> Assigned(j)
  BY DEF TypeOK, ThreadsType, SchedSendFails, Assigned, None, Jobs
<1>2. NoDoubleDispatch'
  BY <1>1, SchedSendFailsEffect DEF DispatchInv, NoDoubleDispatch, Distinct
<1>3. KeptSomewhere'
  BY <1>1, SchedSendFailsEffect DEF DispatchInv, KeptSomewhere, TypeOK, JobsType
<1>4. SubmittedOnly'
  BY <1>1, SchedSendFailsEffect DEF DispatchInv, SubmittedOnly
<1>5. QED  BY <1>2, <1>3, <1>4 DEF DispatchInv

LEMMA SchedRecordDispatch ==
    ASSUME TypeOK, DispatchInv, NEW w \in Workers, SchedRecord(w)
    PROVE  DispatchInv'
<1>1. /\ hand \in Jobs /\ hand' = None /\ None \notin Jobs
      /\ submitted' = submitted /\ pending' = pending /\ completed' = completed
      /\ \A j : Queued(j)' <=> Queued(j)
  BY DEF TypeOK, ThreadsType, SchedRecord, None, Jobs, Queued
<1>2. ~Queued(None)
  BY <1>1, ElementOfSeq, LenProperties DEF TypeOK, JobsType, Queued, Occurs
<1>3. NoDoubleDispatch'
  BY <1>1, <1>2, SchedRecordEffect DEF DispatchInv, NoDoubleDispatch
<1>4. KeptSomewhere'
  BY <1>1, SchedRecordEffect DEF DispatchInv, KeptSomewhere
<1>5. SubmittedOnly'
  BY <1>1, SchedRecordEffect DEF DispatchInv, SubmittedOnly
<1>6. QED  BY <1>3, <1>4, <1>5 DEF DispatchInv

LEMMA HandleResultDispatch ==
    ASSUME TypeOK, DispatchInv, NEW w \in Workers, HandleResult(w)
    PROVE  DispatchInv'
<1>1. CASE UNCHANGED <<submitted, pending, active, completed, hand>>
  BY <1>1, SameDispatch
<1>2. CASE ~UNCHANGED <<submitted, pending, active, completed, hand>>
  <2>1. PICK k \in Jobs, ok \in BOOLEAN :
            /\ k \in DOMAIN active
            /\ active' = Without(active, k)
            /\ completed' = With(completed, k, ok)
            /\ submitted' = submitted /\ pending' = pending /\ hand' = hand
    BY <1>2, HandleResultEffect
  <2>2. /\ DOMAIN active' = DOMAIN active \ {k}
        /\ DOMAIN completed' = DOMAIN completed \cup {k}
        /\ \A j : Assigned(j)' <=> Assigned(j) /\ j # k
        /\ \A j : Queued(j)' <=> Queued(j)
    BY <2>1 DEF With, Without, Assigned, Queued
  <2>3. NoDoubleDispatch'
    BY <2>1, <2>2 DEF DispatchInv, NoDoubleDispatch, Queued
  <2>4. KeptSomewhere'
    BY <2>1, <2>2 DEF DispatchInv, KeptSomewhere
  <2>5. SubmittedOnly'
    BY <2>1, <2>2 DEF DispatchInv, SubmittedOnly
  <2>6. QED  BY <2>3, <2>4, <2>5 DEF DispatchInv
<1>3. QED  BY <1>1, <1>2

LEMMA RemoveFinishDispatch ==
    ASSUME TypeOK, DispatchInv, NEW w \in Workers, RemoveFinish(w)
    PROVE  DispatchInv'
<1>1. /\ submitted' = submitted /\ completed' = completed /\ hand' = hand
      /\ DOMAIN active' = DOMAIN active
  BY DEF RemoveFinish, Unassign, schedVars
<1>2. NoDoubleDispatch'
  BY <1>1, RemoveFinishEffect DEF DispatchInv, NoDoubleDispatch, Distinct
<1>3. KeptSomewhere'
  BY <1>1, RemoveFinishEffect DEF DispatchInv, KeptSomewhere
<1>4. SubmittedOnly'
  BY <1>1, RemoveFinishEffect DEF DispatchInv, SubmittedOnly, Assigned
<1>5. QED  BY <1>2, <1>3, <1>4 DEF DispatchInv

LEMMA NextDispatch == TypeOK /\ DispatchInv /\ [Next]_vars => DispatchInv'
<1> SUFFICES ASSUME TypeOK, DispatchInv, [Next]_vars PROVE DispatchInv'
  OBVIOUS
<1>1. ASSUME NEW j \in Jobs, Submit(j) PROVE DispatchInv'
  BY <1>1, SubmitDispatch
<1>2. CASE Scheduler
  <2>1. CASE SchedLock \/ SchedNoWorker \/ SchedCount \/ \E w, u \in Workers : SchedSend(w, u)
    BY <2>1, SameDispatch
    DEF SchedLock, SchedNoWorker, SchedCount, SchedSend, jobVars
  <2>2. QED  BY <1>2, <2>1, SchedPickDispatch, SchedSendFailsDispatch,
                SchedRecordDispatch DEF Scheduler
<1>3. CASE Monitor
  BY <1>3, SameDispatch DEF Monitor, MonitorScan, MonitorRemove, jobVars, schedVars
<1>4. ASSUME NEW w \in Workers, Handler(w) PROVE DispatchInv'
  <2>1. CASE SendAck(w) \/ HandleHeartbeat(w) \/ HandleEof(w)
    BY <2>1, SameDispatch
    DEF SendAck, HandleHeartbeat, HandleEof, jobVars, schedVars
  <2>2. QED  BY <1>4, <2>1, HandleResultDispatch DEF Handler
<1>5. ASSUME NEW w \in Workers, Worker(w) PROVE DispatchInv'
  BY <1>5, SameDispatch
  DEF Worker, WorkerJoin, WorkerTake, WorkerFinish, jobVars, schedVars
<1>6. ASSUME NEW w \in Workers, Register(w) \/ Late(w) \/ WorkerBeat(w) \/ Fail(w)
      PROVE  DispatchInv'
  BY <1>6, SameDispatch DEF Register, Late, WorkerBeat, Fail, jobVars, schedVars
<1>7. ASSUME NEW w \in Workers, RemoveFinish(w) PROVE DispatchInv'
  BY <1>7, RemoveFinishDispatch
<1>8. CASE UNCHANGED vars
  BY <1>8, SameDispatch DEF vars, jobVars, schedVars
<1>9. QED  BY <1>1, <1>2, <1>3, <1>4, <1>5, <1>6, <1>7, <1>8 DEF Next

\* Where the jobs are, as an invariant of the specification.
LEMMA DispatchHolds == Spec => []DispatchInv
<1>1. Init => DispatchInv
  BY InitDispatch
<1>2. TypeOK /\ DispatchInv /\ [Next]_vars => DispatchInv'
  BY NextDispatch
<1>3. QED  BY <1>1, <1>2, TypeCorrect, PTL DEF Spec

\* remove_worker, failed sends and the recording of assignments between them
\* never put one job in two places of the dispatch, for any number of jobs,
\* workers, failures and timeouts.
THEOREM NeverDispatchedTwice == Spec => []NoDoubleDispatch
<1>1. DispatchInv => NoDoubleDispatch
  BY DEF DispatchInv
<1>2. QED  BY <1>1, DispatchHolds, PTL

-----------------------------------------------------------------------------
(* Where an assigned job is. *)

\* What the recipient of a channel finds there after a send and a receive.
LEMMA ChannelOps ==
    ASSUME NEW S, NEW s \in Seq(S), NEW x \in S
    PROVE  /\ \A i \in DOMAIN s :
                 i \in DOMAIN Append(s, x) /\ Append(s, x)[i] = s[i]
           /\ \E i \in DOMAIN Append(s, x) : Append(s, x)[i] = x
BY AppendProperties, LenProperties

LEMMA TailOps ==
    ASSUME NEW S, NEW s \in Seq(S), s # <<>>
    PROVE  \A i \in DOMAIN s :
              \/ s[i] = Head(s)
              \/ \E k \in DOMAIN Tail(s) : Tail(s)[k] = s[i]
<1>1. /\ DOMAIN s = 1 .. Len(s) /\ Len(s) \in Nat \ {0}
      /\ DOMAIN Tail(s) = 1 .. Len(s) - 1
      /\ \A i \in 1 .. Len(s) - 1 : Tail(s)[i] = s[i + 1]
      /\ Head(s) = s[1]
  BY HeadTailProperties, EmptySeq, LenProperties
<1>2. \A i \in DOMAIN s : i # 1 => i - 1 \in DOMAIN Tail(s) /\ Tail(s)[i - 1] = s[i]
  BY <1>1
<1>3. QED  BY <1>1, <1>2

\* A registered worker has a connection; an assignment that was true when it was
\* recorded stays true until it ends.
HeldInv ==
    /\ \A w \in Workers : Registered(w) => conn[w] # "none"
    /\ \A j \in Jobs : Assigned(j) /\ j \notin stray => InCareOf(active[j], j)

\* A step that revokes no registration, brings no worker back to life and takes no
\* job from a worker that lives keeps every assignment it does not make.
LEMMA KeepsHeld ==
    ASSUME TypeOK, HeldInv, stray' = stray,
           \A w \in Workers : Registered(w)' => conn'[w] # "none",
           \A j \in Jobs : Assigned(j)' => Assigned(j) /\ active'[j] = active[j],
           \A j \in Jobs : Assigned(j)' /\ InCareOf(active[j], j)
                               => InCareOf(active[j], j)'
    PROVE  HeldInv'
BY DEF HeldInv

LEMMA SchedSendHeld ==
    ASSUME TypeOK, HeldInv, NEW w \in Workers, NEW u \in Workers, SchedSend(w, u)
    PROVE  HeldInv'
<1>1. hand \in Jobs \cup {Ack} /\ toWorker \in [Workers -> Seq(Jobs \cup {Ack})]
  BY DEF TypeOK, ThreadsType, PeersType, SchedSend
<1>2. \A v \in Workers, j \in Jobs : Occurs(toWorker[v], j) => Occurs(toWorker[v], j)'
  <2>1. CASE toWorker' = toWorker
    BY <2>1 DEF Occurs
  <2>2. CASE toWorker' = [toWorker EXCEPT ![u] = Append(@, hand)]
    <3>1. \A i \in DOMAIN toWorker[u] :
             i \in DOMAIN toWorker'[u] /\ toWorker'[u][i] = toWorker[u][i]
      BY <1>1, <2>2, ChannelOps
    <3>2. QED  BY <1>1, <2>2, <3>1 DEF Occurs
  <2>3. QED  BY <2>1, <2>2 DEF SchedSend
<1>3. \A v \in Workers, j \in Jobs : InCareOf(v, j) => InCareOf(v, j)'
  BY <1>2 DEF SchedSend, InCareOf, HasJob, Registered
<1>4. QED
  BY <1>3, KeepsHeld
  DEF HeldInv, TypeOK, JobsType, SchedSend, jobVars, extraVars, Assigned, Registered

LEMMA SendAckHeld ==
    ASSUME TypeOK, HeldInv, NEW w \in Workers, SendAck(w)
    PROVE  HeldInv'
<1>1. toWorker \in [Workers -> Seq(Jobs \cup {Ack})] /\ Ack \in Jobs \cup {Ack}
  BY DEF TypeOK, PeersType
<1>2. \A v \in Workers, j \in Jobs : Occurs(toWorker[v], j) => Occurs(toWorker[v], j)'
  <2>1. CASE toWorker' = toWorker
    BY <2>1 DEF Occurs
  <2>2. CASE toWorker' = [toWorker EXCEPT ![w] = Append(@, Ack)]
    <3>1. \A i \in DOMAIN toWorker[w] :
             i \in DOMAIN toWorker'[w] /\ toWorker'[w][i] = toWorker[w][i]
      BY <1>1, <2>2, ChannelOps
    <3>2. QED  BY <1>1, <2>2, <3>1 DEF Occurs
  <2>3. QED  BY <2>1, <2>2 DEF SendAck
<1>3. \A v \in Workers, j \in Jobs : InCareOf(v, j) => InCareOf(v, j)'
  BY <1>2 DEF SendAck, InCareOf, HasJob, Registered
<1>4. \A v \in Workers : Registered(v)' => conn'[v] # "none"
  BY DEF HeldInv, TypeOK, PeersType, SendAck, Registered
<1>5. QED
  BY <1>3, <1>4, KeepsHeld
  DEF TypeOK, JobsType, SendAck, jobVars, extraVars, Assigned

LEMMA SchedRecordHeld ==
    ASSUME TypeOK, HeldInv, NEW w \in Workers, SchedRecord(w)
    PROVE  HeldInv'
<1>1. /\ hand \in Jobs
      /\ active' = With(active, hand, w)
      /\ stray' = IF InCareOf(w, hand) THEN stray \ {hand} ELSE stray \cup {hand}
  BY DEF TypeOK, ThreadsType, SchedRecord
<1>2. \A v \in Workers, j \in Jobs : InCareOf(v, j)' <=> InCareOf(v, j)
  BY DEF SchedRecord, peerVars, InCareOf, HasJob, Registered, Occurs
<1>3. ASSUME NEW j \in Jobs, Assigned(j)', j \notin stray'
      PROVE  InCareOf(active[j], j)'
  <2>1. CASE j = hand
    BY <1>1, <1>2, <1>3, <2>1 DEF With
  <2>2. CASE j # hand
    <3>1. active'[j] = active[j] /\ Assigned(j) /\ j \notin stray
      BY <1>1, <1>3, <2>2 DEF With, Assigned
    <3>2. active[j] \in Workers
      BY <3>1 DEF TypeOK, JobsType, Assigned
    <3>3. QED  BY <1>2, <3>1, <3>2 DEF HeldInv
  <2>3. QED  BY <2>1, <2>2
<1>4. \A v \in Workers : Registered(v)' => conn'[v] # "none"
  BY DEF HeldInv, SchedRecord, Registered
<1>5. QED  BY <1>3, <1>4 DEF HeldInv

LEMMA RegisterHeld ==
    ASSUME TypeOK, HeldInv, NEW w \in Workers, Register(w)
    PROVE  HeldInv'
<1>1. /\ ~Registered(w)
      /\ \A v \in Workers : Registered(v)' <=> Registered(v) \/ v = w
      /\ \A v \in Workers : v # w => proc'[v] = proc[v] /\ conn'[v] = conn[v]
      /\ conn'[w] # "none"
  BY DEF HeldInv, TypeOK, PeersType, Register, Registered, With
<1>2. \A v \in Workers, j \in Jobs : InCareOf(v, j) => InCareOf(v, j)'
  BY <1>1 DEF Register, InCareOf, HasJob, Occurs
<1>3. \A j \in Jobs : Assigned(j) => active[j] \in Workers
  BY DEF TypeOK, JobsType, Assigned
<1>4. QED
  BY <1>1, <1>2, <1>3, KeepsHeld
  DEF HeldInv, Register, jobVars, extraVars, Assigned

LEMMA HandleHeartbeatHeld ==
    ASSUME TypeOK, HeldInv, NEW w \in Workers, HandleHeartbeat(w)
    PROVE  HeldInv'
<1>1. /\ toController \in [Workers -> Seq(Message)]
      /\ toController[w] # <<>>
      /\ Head(toController[w]).type = "heartbeat"
      /\ toController' = [toController EXCEPT ![w] = Tail(@)]
  BY DEF TypeOK, PeersType, HandleHeartbeat, Received
<1>2. \A i \in DOMAIN toController[w] :
         \/ toController[w][i] = Head(toController[w])
         \/ \E k \in DOMAIN toController'[w] : toController'[w][k] = toController[w][i]
  BY <1>1, TailOps
<1>3. \A v \in Workers, j \in Jobs : HasJob(v, j) => HasJob(v, j)'
  <2>1. busy' = busy /\ toWorker' = toWorker
    BY DEF HandleHeartbeat
  <2>2. \A v \in Workers \ {w} : toController'[v] = toController[v]
    BY <1>1
  <2>3. \A v \in Workers \ {w}, j \in Jobs : HasJob(v, j) => HasJob(v, j)'
    BY <2>1, <2>2 DEF HasJob, Occurs
  <2>4. \A j \in Jobs : HasJob(w, j) => HasJob(w, j)'
    BY <1>1, <1>2, <2>1 DEF HasJob, Occurs
  <2>5. QED  BY <2>3, <2>4
<1>4. \A v \in Workers : Registered(v)' <=> Registered(v)
  BY DEF HandleHeartbeat, Registered
<1>5. \A v \in Workers, j \in Jobs : InCareOf(v, j) => InCareOf(v, j)'
  BY <1>3, <1>4 DEF InCareOf, HandleHeartbeat
<1>6. QED
  BY <1>4, <1>5, KeepsHeld
  DEF HeldInv, TypeOK, JobsType, HandleHeartbeat, jobVars, extraVars, Assigned

LEMMA HandleResultHeld ==
    ASSUME TypeOK, HeldInv, NEW w \in Workers, HandleResult(w)
    PROVE  HeldInv'
<1> DEFINE m == Head(toController[w])
<1>1. /\ toController \in [Workers -> Seq(Message)]
      /\ toController[w] # <<>>
      /\ toController' = [toController EXCEPT ![w] = Tail(@)]
  BY DEF TypeOK, PeersType, HandleResult, Received
<1>2. \A i \in DOMAIN toController[w] :
         \/ toController[w][i] = m
         \/ \E k \in DOMAIN toController'[w] : toController'[w][k] = toController[w][i]
  BY <1>1, TailOps
<1>3. \A j \in Jobs : Assigned(j)' => /\ Assigned(j) /\ active'[j] = active[j]
                                      /\ j # m.job
  <2>1. CASE m.job \in DOMAIN active
    BY <2>1 DEF HandleResult, Without, Assigned
  <2>2. CASE m.job \notin DOMAIN active
    BY <2>2 DEF HandleResult, Assigned
  <2>3. QED  BY <2>1, <2>2
<1> HIDE DEF m
<1>4. \A v \in Workers, j \in Jobs : j # m.job /\ HasJob(v, j) => HasJob(v, j)'
  <2>1. busy' = busy /\ toWorker' = toWorker
    BY DEF HandleResult
  <2>2. \A v \in Workers \ {w} : toController'[v] = toController[v]
    BY <1>1
  <2>3. \A v \in Workers \ {w}, j \in Jobs : HasJob(v, j) => HasJob(v, j)'
    BY <2>1, <2>2 DEF HasJob, Occurs
  <2>4. \A j \in Jobs : j # m.job /\ HasJob(w, j) => HasJob(w, j)'
    BY <1>2, <2>1 DEF HasJob, Occurs
  <2>5. QED  BY <2>3, <2>4
<1>5. \A v \in Workers, j \in Jobs : j # m.job /\ InCareOf(v, j) => InCareOf(v, j)'
  BY <1>4 DEF InCareOf, HandleResult, Registered
<1>6. QED
  BY <1>3, <1>5, KeepsHeld
  DEF HeldInv, TypeOK, JobsType, HandleResult, extraVars, Assigned, Registered

LEMMA RemoveFinishHeld ==
    ASSUME TypeOK, HeldInv, NEW w \in Workers, RemoveFinish(w)
    PROVE  HeldInv'
<1>1. \A v \in Workers : Registered(v)' <=> Registered(v) /\ v # w
  BY DEF RemoveFinish, Registered, Without
<1>2. \A v \in Workers, j \in Jobs : v # w /\ InCareOf(v, j) => InCareOf(v, j)'
  BY <1>1 DEF RemoveFinish, peerVars, InCareOf, HasJob, Occurs
<1>3. \A j \in Jobs : Assigned(j)' => /\ Assigned(j) /\ active'[j] = active[j]
                                      /\ active[j] # w /\ active[j] \in Workers
  BY DEF TypeOK, JobsType, RemoveFinish, Unassign, Assigned
<1>4. \A v \in Workers : Registered(v)' => conn'[v] # "none"
  BY <1>1 DEF HeldInv, TypeOK, PeersType, RemoveFinish
<1>5. QED
  BY <1>2, <1>3, <1>4, KeepsHeld DEF RemoveFinish, extraVars

\* A step of the worker's process: its job goes from the channel to the process
\* and on to the other channel, or the process is gone.
LEMMA WorkerHeld ==
    ASSUME TypeOK, HeldInv, NEW w \in Workers,
           UNCHANGED <<jobVars, workers, conn, stray>>,
           \A v \in Workers : proc[v] = "gone" => proc'[v] = "gone",
           \A v \in Workers, j \in Jobs :
              HasJob(v, j) => HasJob(v, j)' \/ proc'[v] = "gone"
    PROVE  HeldInv'
<1>1. \A v \in Workers, j \in Jobs : InCareOf(v, j) => InCareOf(v, j)'
  BY DEF InCareOf, Registered
<1>2. QED
  BY <1>1, KeepsHeld DEF HeldInv, TypeOK, JobsType, jobVars, Assigned, Registered

LEMMA WorkerJoinHeld ==
    ASSUME TypeOK, HeldInv, NEW w \in Workers, WorkerJoin(w)
    PROVE  HeldInv'
<1>1. /\ toWorker[w] \in Seq(Jobs \cup {Ack}) /\ toWorker[w] # <<>>
      /\ proc \in [Workers -> {"off", "joining", "running", "gone"}]
      /\ toWorker \in [Workers -> Seq(Jobs \cup {Ack})]
      /\ Ack \notin Jobs
  BY DEF TypeOK, PeersType, WorkerJoin, Ack, Jobs
<1>2. CASE Head(toWorker[w]) = Ack
  <2>1. /\ toWorker' = [toWorker EXCEPT ![w] = Tail(@)]
        /\ proc' = [proc EXCEPT ![w] = "running"] /\ busy' = busy
        /\ toController' = toController
    BY <1>2 DEF WorkerJoin
  <2>2. \A i \in DOMAIN toWorker[w] :
           \/ toWorker[w][i] = Ack
           \/ \E k \in DOMAIN toWorker'[w] : toWorker'[w][k] = toWorker[w][i]
    BY <1>1, <1>2, <2>1, TailOps
  <2>3. \A v \in Workers, j \in Jobs : HasJob(v, j) => HasJob(v, j)'
    BY <1>1, <2>1, <2>2 DEF HasJob, Occurs
  <2>4. QED  BY <1>1, <2>1, <2>3, WorkerHeld DEF WorkerJoin, extraVars
<1>3. CASE Head(toWorker[w]) # Ack
  <2>1. /\ proc' = [proc EXCEPT ![w] = "gone"]
        /\ \A v \in Workers : v # w => busy'[v] = busy[v] /\ toWorker'[v] = toWorker[v]
        /\ toController' = toController
    BY <1>3 DEF TypeOK, PeersType, WorkerJoin, Exits
  <2>2. \A v \in Workers, j \in Jobs : HasJob(v, j) => HasJob(v, j)' \/ proc'[v] = "gone"
    BY <1>1, <2>1 DEF HasJob, Occurs
  <2>3. QED  BY <1>1, <2>1, <2>2, WorkerHeld DEF WorkerJoin, extraVars
<1>4. QED  BY <1>2, <1>3

LEMMA WorkerTakeHeld ==
    ASSUME TypeOK, HeldInv, NEW w \in Workers, WorkerTake(w)
    PROVE  HeldInv'
<1>1. /\ toWorker[w] \in Seq(Jobs \cup {Ack}) /\ toWorker[w] # <<>>
      /\ toWorker \in [Workers -> Seq(Jobs \cup {Ack})]
      /\ busy \in [Workers -> Jobs \cup {None}]
      /\ None \notin Jobs
  BY DEF TypeOK, PeersType, WorkerTake, None, Jobs
<1>2. /\ toWorker' = [toWorker EXCEPT ![w] = Tail(@)]
      /\ busy[w] = None /\ busy' = [busy EXCEPT ![w] = Head(toWorker[w])]
      /\ toController' = toController /\ proc' = proc
  BY DEF WorkerTake
<1>3. \A i \in DOMAIN toWorker[w] :
         \/ toWorker[w][i] = busy'[w]
         \/ \E k \in DOMAIN toWorker'[w] : toWorker'[w][k] = toWorker[w][i]
  BY <1>1, <1>2, TailOps
<1>4. \A v \in Workers, j \in Jobs : HasJob(v, j) => HasJob(v, j)'
  BY <1>1, <1>2, <1>3 DEF HasJob, Occurs
<1>5. QED  BY <1>2, <1>4, WorkerHeld DEF WorkerTake, extraVars

LEMMA WorkerFinishHeld ==
    ASSUME TypeOK, HeldInv, NEW w \in Workers, WorkerFinish(w)
    PROVE  HeldInv'
<1>1. /\ toController \in [Workers -> Seq(Message)]
      /\ busy \in [Workers -> Jobs \cup {None}] /\ busy[w] \in Jobs
  BY DEF TypeOK, PeersType, WorkerFinish
<1>2. PICK ok \in BOOLEAN :
         toController' = [toController EXCEPT ![w] = Append(@, Result(busy[w], ok))]
  BY DEF WorkerFinish
<1>3. Result(busy[w], ok) \in Message
  BY <1>1 DEF Result, Message
<1>4. /\ \A i \in DOMAIN toController[w] :
            i \in DOMAIN toController'[w] /\ toController'[w][i] = toController[w][i]
      /\ \E i \in DOMAIN toController'[w] : toController'[w][i] = Result(busy[w], ok)
  <2>1. toController[w] \in Seq(Message)
    BY <1>1
  <2>2. toController'[w] = Append(toController[w], Result(busy[w], ok))
    BY <1>1, <1>2
  <2>3. QED  BY <1>3, <2>1, <2>2, ChannelOps
<1>5. /\ busy' = [busy EXCEPT ![w] = None] /\ toWorker' = toWorker /\ proc' = proc
      /\ Result(busy[w], ok).type = "result" /\ Result(busy[w], ok).job = busy[w]
  BY DEF WorkerFinish, Result
<1>6. \A v \in Workers, j \in Jobs : HasJob(v, j) => HasJob(v, j)'
  BY <1>1, <1>2, <1>4, <1>5 DEF HasJob, Occurs
<1>7. QED  BY <1>5, <1>6, WorkerHeld DEF WorkerFinish, extraVars

LEMMA WorkerBeatHeld ==
    ASSUME TypeOK, HeldInv, NEW w \in Workers, WorkerBeat(w)
    PROVE  HeldInv'
<1> DEFINE m == Heartbeat(IF busy[w] = None THEN 0 ELSE 1)
<1>1. m \in Message /\ toController \in [Workers -> Seq(Message)]
  BY DEF TypeOK, PeersType, Heartbeat, Message
<1>2. /\ toController' = [toController EXCEPT ![w] = Append(@, m)]
      /\ busy' = busy /\ toWorker' = toWorker /\ proc' = proc
  BY DEF WorkerBeat
<1> HIDE DEF m
<1>3. \A i \in DOMAIN toController[w] :
         i \in DOMAIN toController'[w] /\ toController'[w][i] = toController[w][i]
  BY <1>1, <1>2, ChannelOps
<1>4. \A v \in Workers, j \in Jobs : HasJob(v, j) => HasJob(v, j)'
  BY <1>1, <1>2, <1>3 DEF HasJob, Occurs
<1>5. QED  BY <1>2, <1>4, WorkerHeld DEF WorkerBeat, extraVars

LEMMA FailHeld ==
    ASSUME TypeOK, HeldInv, NEW w \in Workers, Fail(w)
    PROVE  HeldInv'
<1>1. /\ proc \in [Workers -> {"off", "joining", "running", "gone"}]
      /\ proc' = [proc EXCEPT ![w] = "gone"]
      /\ \A v \in Workers :
            v # w => /\ busy'[v] = busy[v] /\ toWorker'[v] = toWorker[v]
                     /\ toController'[v] = toController[v]
  BY DEF TypeOK, PeersType, Fail, Exits
<1>2. \A v \in Workers, j \in Jobs : HasJob(v, j) => HasJob(v, j)' \/ proc'[v] = "gone"
  BY <1>1 DEF HasJob, Occurs
<1>3. QED  BY <1>1, <1>2, WorkerHeld DEF Fail

\* A step that moves no job, message or registration.
LEMMA SameHeld ==
    ASSUME HeldInv,
           UNCHANGED <<active, proc, busy, toWorker, toController, stray>>,
           \A w \in Workers : Registered(w)' <=> Registered(w),
           \A w \in Workers : conn'[w] = "none" => conn[w] = "none",
           TypeOK
    PROVE  HeldInv'
<1>1. \A v \in Workers, j \in Jobs : InCareOf(v, j) => InCareOf(v, j)'
  BY DEF InCareOf, HasJob, Occurs
<1>2. QED  BY <1>1, KeepsHeld DEF HeldInv, TypeOK, JobsType, Assigned

LEMMA NextHeld == TypeOK /\ HeldInv /\ [Next]_vars => HeldInv'
<1> SUFFICES ASSUME TypeOK, HeldInv, [Next]_vars PROVE HeldInv'
  OBVIOUS
<1>1. CASE \E j \in Jobs : Submit(j)
  BY <1>1, SameHeld DEF Submit, peerVars, extraVars, Registered
<1>2. CASE Scheduler
  <2>1. CASE \/ SchedLock \/ SchedNoWorker \/ SchedSendFails
             \/ \E w \in Workers : SchedPick(w)
    BY <2>1, SameHeld DEF SchedLock, SchedNoWorker, SchedSendFails, SchedPick,
       jobVars, peerVars, extraVars, Registered
  <2>2. CASE SchedCount
    BY <2>2, SameHeld DEF SchedCount, jobVars, peerVars, extraVars, Registered
  <2>3. QED  BY <1>2, <2>1, <2>2, SchedSendHeld, SchedRecordHeld DEF Scheduler
<1>3. CASE Monitor
  BY <1>3, SameHeld DEF Monitor, MonitorScan, MonitorRemove, jobVars, peerVars,
     extraVars, Registered
<1>4. ASSUME NEW w \in Workers, Handler(w) PROVE HeldInv'
  <2>1. CASE HandleEof(w)
    BY <2>1, SameHeld DEF TypeOK, PeersType, HandleEof, jobVars, peerVars,
       extraVars, Registered
  <2>2. QED  BY <1>4, <2>1, SendAckHeld, HandleHeartbeatHeld, HandleResultHeld
             DEF Handler
<1>5. ASSUME NEW w \in Workers, Worker(w) PROVE HeldInv'
  BY <1>5, WorkerJoinHeld, WorkerTakeHeld, WorkerFinishHeld DEF Worker
<1>6. ASSUME NEW w \in Workers, Late(w) PROVE HeldInv'
  BY <1>6, SameHeld DEF Late, jobVars, peerVars, Registered
<1>7. CASE UNCHANGED vars
  BY <1>7, SameHeld DEF vars, jobVars, peerVars, extraVars, Registered
<1>8. QED
  BY <1>1, <1>2, <1>3, <1>4, <1>5, <1>6, <1>7, RegisterHeld, RemoveFinishHeld,
     WorkerBeatHeld, FailHeld DEF Next

\* A job without a result is queued, in the scheduler's hand, or assigned to a
\* registered worker that has it, has answered it, or is dead and will be
\* removed - unless its assignment was false from the start, recorded on a worker
\* that was erased, or had answered, in the meantime. So the window between
\* send_job_to_worker and the record is the only way in which the controller
\* loses a job.
THEOREM NoJobLost == Spec => []NeverForgotten
<1>1. Init => HeldInv
  BY DEF Init, HeldInv, Assigned, Registered
<1>2. TypeOK /\ HeldInv /\ [Next]_vars => HeldInv'
  BY NextHeld
<1>3. DispatchInv /\ HeldInv /\ TypeOK => NeverForgotten
  BY DEF DispatchInv, KeptSomewhere, HeldInv, NeverForgotten, TypeOK, JobsType
<1>4. QED  BY <1>1, <1>2, <1>3, TypeCorrect, DispatchHolds, PTL DEF Spec

\* The entry of a job in active_jobs_ changes hands only through the removal of
\* the worker it names, or ends with its result.
THEOREM RevocationSafe == Spec => RevokedOnlyByRemoval
<1>1. TypeOK /\ DispatchInv /\ [Next]_vars =>
         [\A j \in Jobs :
            Assigned(j) =>
                \/ /\ j \in DOMAIN active'
                   /\ \/ active'[j] = active[j]
                      \/ active'[j] = None /\ removal.worker = active[j]
                \/ j \notin DOMAIN active' /\ j \in DOMAIN completed']_vars
  <2> SUFFICES ASSUME TypeOK, DispatchInv, Next, NEW j \in Jobs, Assigned(j)
               PROVE  \/ /\ j \in DOMAIN active'
                         /\ \/ active'[j] = active[j]
                            \/ active'[j] = None /\ removal.worker = active[j]
                      \/ j \notin DOMAIN active' /\ j \in DOMAIN completed'
    OBVIOUS
  <2>1. CASE active' = active
    BY <2>1 DEF Assigned
  <2>2. ASSUME NEW w \in Workers, SchedRecord(w)
        PROVE  j \in DOMAIN active' /\ active'[j] = active[j]
    BY <2>2 DEF SchedRecord, With, Assigned, DispatchInv, NoDoubleDispatch
  <2>3. ASSUME NEW w \in Workers, HandleResult(w)
        PROVE  \/ j \in DOMAIN active' /\ active'[j] = active[j]
               \/ j \notin DOMAIN active' /\ j \in DOMAIN completed'
    BY <2>3 DEF HandleResult, With, Without, Assigned
  <2>4. ASSUME NEW w \in Workers, RemoveFinish(w)
        PROVE  /\ j \in DOMAIN active'
               /\ \/ active'[j] = active[j]
                  \/ active'[j] = None /\ removal.worker = active[j]
    BY <2>4 DEF RemoveFinish, Unassign, Assigned
  <2>5. \/ active' = active
        \/ \E w \in Workers : SchedRecord(w) \/ HandleResult(w) \/ RemoveFinish(w)
    BY DEF Next, Scheduler, Monitor, Handler, Worker, Submit, SchedLock,
           SchedNoWorker, SchedPick, SchedSend, SchedSendFails, SchedCount,
           MonitorScan, MonitorRemove, Register, SendAck, HandleHeartbeat,
           HandleEof, Late, WorkerJoin, WorkerTake, WorkerFinish, WorkerBeat,
           Fail, jobVars
  <2>6. QED  BY <2>1, <2>2, <2>3, <2>4, <2>5
<1>2. Init => DispatchInv
  BY InitDispatch
<1>3. TypeOK /\ DispatchInv /\ [Next]_vars => DispatchInv'
  BY NextDispatch
<1>4. QED  BY <1>1, <1>2, <1>3, TypeCorrect, PTL DEF Spec, RevokedOnlyByRemoval

-----------------------------------------------------------------------------
(* Controller implements JobService *)

\* The mapped variables, by name.
Waiting == {j \in NotDone : Queued(j)}
Given == {j \in NotDone : hand = j \/ Assigned(j)}

LEMMA Mapped ==
    ASSUME TypeOK, DispatchInv
    PROVE  /\ Waiting \cup Given \cup DOMAIN completed = submitted
           /\ Waiting \cap Given = {}
           /\ Waiting \cap DOMAIN completed = {}
           /\ Given \cap DOMAIN completed = {}
<1>1. submitted \subseteq Waiting \cup Given \cup DOMAIN completed
  BY DEF DispatchInv, KeptSomewhere, Waiting, Given, NotDone
<1>2. DOMAIN completed \subseteq submitted
  BY DEF TypeOK, JobsType, DispatchInv, SubmittedOnly
<1>3. \A j \in submitted : ~(Queued(j) /\ (hand = j \/ Assigned(j)))
  BY DEF TypeOK, JobsType, DispatchInv, NoDoubleDispatch
<1>4. QED  BY <1>1, <1>2, <1>3 DEF Waiting, Given, NotDone

\* Steps that move no job are stuttering steps of the service.
LEMMA Stutter ==
    ASSUME UNCHANGED <<submitted, pending, active, completed, hand>>
    PROVE  UNCHANGED <<Waiting, Given, completed>>
BY DEF Waiting, Given, NotDone, Queued, Occurs, Assigned

LEMMA SubmitServes ==
    ASSUME TypeOK, DispatchInv, NEW k \in Jobs, Submit(k)
    PROVE  /\ k \notin Waiting \cup Given \cup DOMAIN completed
           /\ Waiting' = Waiting \cup {k}
           /\ UNCHANGED <<Given, completed>>
<1>1. /\ k \notin submitted /\ submitted' = submitted \cup {k}
      /\ completed' = completed /\ hand' = hand /\ active' = active
  BY DEF Submit, schedVars
<1>2. /\ \A j : Queued(j)' <=> Queued(j) \/ j = k
      /\ k \notin DOMAIN completed /\ hand # k /\ ~Assigned(k)
      /\ \A j : Assigned(j)' <=> Assigned(j)
  BY <1>1, SubmitEffect DEF DispatchInv, SubmittedOnly, Assigned
<1>3. k \notin Waiting \cup Given \cup DOMAIN completed
  BY <1>1, Mapped
<1>4. Waiting' = Waiting \cup {k}
  BY <1>1, <1>2 DEF Waiting, NotDone
<1>5. Given' = Given
  BY <1>1, <1>2 DEF Given, NotDone
<1>6. QED  BY <1>1, <1>3, <1>4, <1>5

LEMMA SchedPickServes ==
    ASSUME TypeOK, DispatchInv, NEW w \in Workers, SchedPick(w)
    PROVE  \/ UNCHANGED <<Waiting, Given, completed>>
           \/ /\ hand' \in Jobs \cap Waiting
              /\ Waiting' = Waiting \ {hand'}
              /\ Given' = Given \cup {hand'}
              /\ completed' = completed
<1>1. /\ submitted' = submitted /\ completed' = completed /\ active' = active
      /\ hand = None /\ None \notin submitted
      /\ NotDone' = NotDone
  BY DEF SchedPick, TypeOK, ThreadsType, JobsType, Jobs, None, NotDone
<1>2. /\ \A j : Queued(j) <=> j = hand' \/ Queued(j)'
      /\ ~Queued(hand)' /\ hand' \in Jobs
      /\ \A j : Assigned(j)' <=> Assigned(j)
  BY <1>1, SchedPickEffect DEF Assigned
<1>3. \A j \in NotDone : hand # j
  BY <1>1 DEF NotDone
<1>4. CASE hand' \in NotDone
  <2>1. Waiting' = Waiting \ {hand'} /\ hand' \in Waiting
    BY <1>1, <1>2, <1>4 DEF Waiting
  <2>2. Given' = Given \cup {hand'}
    BY <1>1, <1>2, <1>3, <1>4 DEF Given
  <2>3. QED  BY <1>1, <1>2, <2>1, <2>2
<1>5. CASE hand' \notin NotDone
  <2>1. Waiting' = Waiting
    BY <1>1, <1>2, <1>5 DEF Waiting
  <2>2. Given' = Given
    BY <1>1, <1>2, <1>3, <1>5 DEF Given
  <2>3. QED  BY <1>1, <2>1, <2>2
<1>6. QED  BY <1>4, <1>5

LEMMA SchedSendFailsServes ==
    ASSUME TypeOK, DispatchInv, SchedSendFails
    PROVE  \E S \in SUBSET Given :
              /\ Given' = Given \ S
              /\ Waiting' = Waiting \cup S
              /\ completed' = completed
<1>1. /\ submitted' = submitted /\ completed' = completed /\ active' = active
      /\ hand' = None /\ None \notin submitted /\ hand \in Jobs
      /\ NotDone' = NotDone
  BY DEF SchedSendFails, TypeOK, ThreadsType, JobsType, Jobs, None, NotDone
<1>2. /\ \A j : Queued(j)' <=> Queued(j) \/ j = hand
      /\ \A j : Assigned(j)' <=> Assigned(j)
      /\ ~Assigned(hand)
  BY <1>1, SchedSendFailsEffect DEF Assigned, DispatchInv, NoDoubleDispatch
<1>3. \A j \in NotDone : hand' # j
  BY <1>1 DEF NotDone
<1>4. Given' = Given \ ({hand} \cap NotDone)
  BY <1>1, <1>2, <1>3 DEF Given
<1>5. Waiting' = Waiting \cup ({hand} \cap NotDone)
  BY <1>1, <1>2 DEF Waiting
<1>6. {hand} \cap NotDone \subseteq Given
  BY DEF Given
<1>7. QED  BY <1>1, <1>4, <1>5, <1>6

LEMMA SchedRecordServes ==
    ASSUME TypeOK, DispatchInv, NEW w \in Workers, SchedRecord(w)
    PROVE  UNCHANGED <<Waiting, Given, completed>>
<1>1. /\ submitted' = submitted /\ completed' = completed /\ pending' = pending
      /\ hand' = None /\ None \notin submitted
      /\ NotDone' = NotDone
  BY DEF SchedRecord, TypeOK, ThreadsType, JobsType, Jobs, None, NotDone
<1>2. /\ \A j : Assigned(j)' <=> Assigned(j) \/ j = hand
      /\ \A j : Queued(j)' <=> Queued(j)
  BY <1>1, SchedRecordEffect DEF Queued
<1>3. \A j \in NotDone : hand' # j
  BY <1>1 DEF NotDone
<1>4. QED  BY <1>1, <1>2, <1>3 DEF Waiting, Given

LEMMA HandleResultServes ==
    ASSUME TypeOK, DispatchInv, NEW w \in Workers, HandleResult(w)
    PROVE  \/ UNCHANGED <<Waiting, Given, completed>>
           \/ \E k \in Jobs, ok \in BOOLEAN :
                 /\ k \in Waiting \cup Given \cup DOMAIN completed
                 /\ Waiting' = Waiting \ {k}
                 /\ Given' = Given \ {k}
                 /\ completed' = With(completed, k, ok)
<1>1. CASE UNCHANGED <<submitted, pending, active, completed, hand>>
  BY <1>1, Stutter
<1>2. CASE ~UNCHANGED <<submitted, pending, active, completed, hand>>
  <2>1. PICK k \in Jobs, ok \in BOOLEAN :
            /\ k \in DOMAIN active
            /\ active' = Without(active, k)
            /\ completed' = With(completed, k, ok)
            /\ submitted' = submitted /\ pending' = pending /\ hand' = hand
    BY <1>2, HandleResultEffect
  <2>2. /\ DOMAIN completed' = DOMAIN completed \cup {k}
        /\ \A j : Assigned(j)' <=> Assigned(j) /\ j # k
        /\ \A j : Queued(j)' <=> Queued(j)
    BY <2>1 DEF Assigned, With, Without, Queued
  <2>3. NotDone' = NotDone \ {k}
    BY <2>1, <2>2 DEF NotDone
  <2>4. Waiting' = Waiting \ {k} /\ Given' = Given \ {k}
    BY <2>1, <2>2, <2>3 DEF Waiting, Given
  <2>5. k \in Waiting \cup Given \cup DOMAIN completed
    BY <2>1, Mapped DEF DispatchInv, SubmittedOnly
  <2>6. QED  BY <2>1, <2>4, <2>5
<1>3. QED  BY <1>1, <1>2

LEMMA RemoveFinishServes ==
    ASSUME TypeOK, DispatchInv, NEW w \in Workers, RemoveFinish(w)
    PROVE  \E S \in SUBSET Given :
              /\ Given' = Given \ S
              /\ Waiting' = Waiting \cup S
              /\ completed' = completed
<1> DEFINE S == AssignedTo(w) \cap NotDone
<1>1. /\ submitted' = submitted /\ completed' = completed /\ hand' = hand
      /\ NotDone' = NotDone
  BY DEF RemoveFinish, schedVars, NotDone
<1>2. /\ \A j : Queued(j)' <=> Queued(j) \/ j \in AssignedTo(w)
      /\ \A j : Assigned(j) <=> Assigned(j)' \/ j \in AssignedTo(w)
      /\ \A j \in AssignedTo(w) : Assigned(j) /\ ~Assigned(j)' /\ hand # j
  BY RemoveFinishEffect
<1>3. S \subseteq Given
  BY <1>2 DEF Given
<1>4. Given' = Given \ S
  BY <1>1, <1>2 DEF Given
<1>5. Waiting' = Waiting \cup S
  BY <1>1, <1>2 DEF Waiting
<1>6. QED  BY <1>1, <1>3, <1>4, <1>5

LEMMA NextServes ==
    TypeOK /\ DispatchInv /\ [Next]_vars => [Service!Next]_(Service!vars)
<1> SUFFICES ASSUME TypeOK, DispatchInv, [Next]_vars
             PROVE  Service!Next \/ UNCHANGED <<Waiting, Given, completed>>
  BY DEF Service!vars, Waiting, Given
<1>1. ASSUME NEW j \in Jobs, Submit(j) PROVE Service!Next
  <2>1. Service!Submit(j)
    BY <1>1, SubmitServes DEF Service!Submit, Service!Known, Waiting, Given
  <2>2. QED  BY <2>1 DEF Service!Next
<1>2. ASSUME NEW w \in Workers, SchedPick(w)
      PROVE  Service!Next \/ UNCHANGED <<Waiting, Given, completed>>
  <2>1. UNCHANGED <<Waiting, Given, completed>>
        \/ \E k \in Jobs : Service!Give(k)
    BY <1>2, SchedPickServes DEF Service!Give, Waiting, Given
  <2>2. QED  BY <2>1 DEF Service!Next
<1>3. CASE SchedSendFails
  <2>1. \E S \in SUBSET Given : Service!TakeBack(S)
    BY <1>3, SchedSendFailsServes DEF Service!TakeBack, Waiting, Given
  <2>2. QED  BY <2>1 DEF Service!Next, Given
<1>4. ASSUME NEW w \in Workers, SchedRecord(w)
      PROVE  UNCHANGED <<Waiting, Given, completed>>
  BY <1>4, SchedRecordServes
<1>5. ASSUME NEW w \in Workers, HandleResult(w)
      PROVE  Service!Next \/ UNCHANGED <<Waiting, Given, completed>>
  <2>1. UNCHANGED <<Waiting, Given, completed>>
        \/ \E k \in Jobs, ok \in BOOLEAN : Service!Finish(k, ok)
    BY <1>5, HandleResultServes
    DEF Service!Finish, Service!Known, Waiting, Given, With
  <2>2. QED  BY <2>1 DEF Service!Next
<1>6. ASSUME NEW w \in Workers, RemoveFinish(w) PROVE Service!Next
  <2>1. \E S \in SUBSET Given : Service!TakeBack(S)
    BY <1>6, RemoveFinishServes DEF Service!TakeBack, Waiting, Given
  <2>2. QED  BY <2>1 DEF Service!Next, Given
<1>7. \/ UNCHANGED <<submitted, pending, active, completed, hand>>
      \/ \E j \in Jobs : Submit(j)
      \/ SchedSendFails
      \/ \E w \in Workers : SchedPick(w) \/ SchedRecord(w) \/ HandleResult(w)
                            \/ RemoveFinish(w)
  BY DEF Next, vars, Scheduler, Monitor, Handler, Worker, SchedLock,
         SchedNoWorker, SchedSend, SchedCount, MonitorScan, MonitorRemove,
         Register, SendAck, HandleHeartbeat, HandleEof, Late, WorkerJoin,
         WorkerTake, WorkerFinish, WorkerBeat, Fail, jobVars, schedVars
<1>8. QED  BY <1>1, <1>2, <1>3, <1>4, <1>5, <1>6, <1>7, Stutter

\* The controller's threads together provide the job service: every step of
\* theirs is one step of JobService or leaves it unchanged.
THEOREM ServiceImplemented == Spec => ImplementsService
<1>1. Init => Service!Init
  BY DEF Init, Service!Init, NotDone
<1>2. Init => DispatchInv
  BY InitDispatch
<1>3. TypeOK /\ DispatchInv /\ [Next]_vars => DispatchInv'
  BY NextDispatch
<1>4. QED  BY <1>1, <1>2, <1>3, NextServes, TypeCorrect, PTL
           DEF Spec, ImplementsService, Service!Spec

=============================================================================
