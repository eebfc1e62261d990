-------------------------------- MODULE Wire --------------------------------
(***************************************************************************)
(* One connection between a worker and the controller, frame by frame.       *)
(*                                                                         *)
(* send_message makes two send() calls, the size (four bytes, high one       *)
(* first) and the body (whose first byte is the type of the message), and    *)
(* no mutex keeps the calls of two threads apart: of the worker, the thread   *)
(* that works and the one that sends heartbeats; of the controller, the       *)
(* handler of the connection and the scheduler. receive_message reads four    *)
(* bytes and then as many as they say.                                      *)
(*                                                                         *)
(* A stream is the sequence of the sizes and bodies on their way. Nobody      *)
(* stops or dies here (Lifecycle, Controller): a connection ends only        *)
(* because a side could not read it.                                        *)
(***************************************************************************)
EXTENDS Naturals, Sequences, SequencesExt

CONSTANTS
    MaxJobs,        \* bound: jobs the scheduler sends
    MaxBeats        \* bound: heartbeats

ASSUME WireAssumption == MaxJobs \in Nat /\ MaxBeats \in Nat

VARIABLES
    stream,         \* to each side, what was sent and not read
    have,           \* of each side, whose size it has read and not the body
    got,            \* of each side, the message it read last
    due,            \* of each thread, the message it has to send
    half,           \* threads between their two send() calls
    wstate,         \* the worker: registered or not, running_, its end
    registered,     \* the worker is in workers_
    cstate,         \* the controller's end of the connection
    jobs, beats,    \* sent so far
    results         \* handled so far

vars == <<stream, have, got, due, half, wstate, registered, cstate, jobs, beats, results>>

WorkerThreads == {"main", "loop", "heart"}
ControllerThreads == {"handler", "scheduler"}
Threads == WorkerThreads \cup ControllerThreads
Sides == {"worker", "controller"}
Messages == {"WORKER_REGISTER", "WORKER_REGISTER_ACK", "HEARTBEAT", "HEARTBEAT_ACK",
             "JOB_ASSIGN", "JOB_RESULT"}
None == "none"
Nothing == [from |-> None, msg |-> None]

SideOf(t) == IF t \in WorkerThreads THEN "worker" ELSE "controller"
Other(side) == IF side = "worker" THEN "controller" ELSE "worker"
Unit(part, t) == [part |-> part, from |-> t, msg |-> due[t]]

\* The side has not closed its socket.
IsOpen(side) == IF side = "worker" THEN wstate # "gone" ELSE cstate = "open"

TypeOK ==
    /\ stream \in [Sides -> Seq([part : {"size", "body"}, from : Threads, msg : Messages])]
    /\ have \in [Sides -> Threads \cup {None}]
    /\ got \in [Sides -> {Nothing} \cup [from : Threads, msg : Messages]]
    /\ due \in [Threads -> Messages \cup {None}]
    /\ half \subseteq Threads
    /\ wstate \in {"off", "registering", "running", "lost", "gone"}
    /\ registered \in BOOLEAN
    /\ cstate \in {"open", "closed"}
    /\ jobs \in 0 .. MaxJobs /\ beats \in 0 .. MaxBeats /\ results \in 0 .. MaxJobs

Init ==
    /\ stream = [side \in Sides |-> <<>>]
    /\ have = [side \in Sides |-> None]
    /\ got = [side \in Sides |-> Nothing]
    /\ due = [t \in Threads |-> None]
    /\ half = {}
    /\ wstate = "off"
    /\ registered = FALSE
    /\ cstate = "open"
    /\ jobs = 0 /\ beats = 0 /\ results = 0

-----------------------------------------------------------------------------
(* send_message *)

\* What a thread sends to a side that has closed its socket is lost.
Put(t, part) ==
    stream' = IF IsOpen(Other(SideOf(t)))
              THEN [stream EXCEPT ![Other(SideOf(t))] = Append(@, Unit(part, t))]
              ELSE stream

SendSize(t) ==
    /\ due[t] # None
    /\ t \notin half
    /\ IsOpen(SideOf(t))
    /\ Put(t, "size")
    /\ half' = half \cup {t}
    /\ UNCHANGED <<have, got, due, wstate, registered, cstate, jobs, beats, results>>

SendBody(t) ==
    /\ t \in half
    /\ IsOpen(SideOf(t))
    /\ Put(t, "body")
    /\ half' = half \ {t}
    /\ due' = [due EXCEPT ![t] = None]
    /\ UNCHANGED <<have, got, wstate, registered, cstate, jobs, beats, results>>

-----------------------------------------------------------------------------
(* What there is to send *)

\* connect_to_controller, register_with_controller.
Register ==
    /\ wstate = "off"
    /\ wstate' = "registering"
    /\ due' = [due EXCEPT !["main"] = "WORKER_REGISTER"]
    /\ UNCHANGED <<stream, have, got, half, registered, cstate, jobs, beats, results>>

\* Mutant: heartbeats are sent from the connection on.
BeatFromStart ==
    /\ wstate \in {"registering", "running", "lost"}
    /\ due["heart"] = None
    /\ beats < MaxBeats
    /\ beats' = beats + 1
    /\ due' = [due EXCEPT !["heart"] = "HEARTBEAT"]
    /\ UNCHANGED <<stream, have, got, half, wstate, registered, cstate, jobs, results>>

\* heartbeat_loop, started once registered; its sleep may outlast running_.
Beat ==
    /\ wstate \in {"running", "lost"}
    /\ due["heart"] = None
    /\ beats < MaxBeats
    /\ beats' = beats + 1
    /\ due' = [due EXCEPT !["heart"] = "HEARTBEAT"]
    /\ UNCHANGED <<stream, have, got, half, wstate, registered, cstate, jobs, results>>

\* send_job_to_worker: a worker in workers_ is given jobs.
Assign ==
    /\ registered
    /\ due["scheduler"] = None
    /\ jobs < MaxJobs
    /\ jobs' = jobs + 1
    /\ due' = [due EXCEPT !["scheduler"] = "JOB_ASSIGN"]
    /\ UNCHANGED <<stream, have, got, half, wstate, registered, cstate, beats, results>>

-----------------------------------------------------------------------------
(* receive_message *)

\* The side is in receive_message: main() while the worker registers, then its
\* worker thread; the handler.
Reading(side) ==
    IF side = "worker"
    THEN \/ wstate = "registering" /\ due["main"] = None
         \/ wstate = "running" /\ due["loop"] = None
    ELSE cstate = "open" /\ due["handler"] = None

\* Null is returned: main() disconnects; the worker thread clears running_,
\* which is the end of the process a little later; the handler removes the
\* worker and closes the socket.
GiveUp(side) ==
    /\ IF side = "worker"
       THEN /\ wstate' = IF wstate = "registering" THEN "gone" ELSE "lost"
            /\ UNCHANGED <<cstate, registered>>
       ELSE /\ cstate' = "closed" /\ registered' = FALSE
            /\ wstate' = wstate
    /\ stream' = [stream EXCEPT ![side] = <<>>]
    /\ have' = [have EXCEPT ![side] = None]
    /\ UNCHANGED <<got, due, half, jobs, beats, results>>

\* A body where a size is expected is a size over a megabyte, as its first
\* byte, the type, is not zero.
RecvSize(side) ==
    /\ Reading(side)
    /\ have[side] = None
    /\ stream[side] # <<>>
    /\ IF Head(stream[side]).part = "size"
       THEN /\ have' = [have EXCEPT ![side] = Head(stream[side]).from]
            /\ stream' = [stream EXCEPT ![side] = Tail(@)]
            /\ UNCHANGED <<got, due, half, wstate, registered, cstate, jobs, beats, results>>
       ELSE GiveUp(side)

\* What the worker makes of a message: register_with_controller, worker_loop
\* (the job is done and its result due).
WorkerTakes(msg) ==
    /\ wstate' = IF wstate = "registering"
                 THEN IF msg = "WORKER_REGISTER_ACK" THEN "running" ELSE "gone"
                 ELSE wstate
    /\ due' = IF wstate = "running" /\ msg = "JOB_ASSIGN"
              THEN [due EXCEPT !["loop"] = "JOB_RESULT"] ELSE due
    /\ UNCHANGED <<registered, results>>

\* Mutant: every message is taken for a result.
HandlerTakesAll(msg) ==
    /\ registered' = (registered \/ msg = "WORKER_REGISTER")
    /\ due' = CASE msg = "WORKER_REGISTER" -> [due EXCEPT !["handler"] = "WORKER_REGISTER_ACK"]
                [] msg = "HEARTBEAT" -> [due EXCEPT !["handler"] = "HEARTBEAT_ACK"]
                [] OTHER -> due
    /\ results' = results + 1
    /\ wstate' = wstate

\* handle_worker_connection.
HandlerTakes(msg) ==
    /\ registered' = (registered \/ msg = "WORKER_REGISTER")
    /\ due' = CASE msg = "WORKER_REGISTER" -> [due EXCEPT !["handler"] = "WORKER_REGISTER_ACK"]
                [] msg = "HEARTBEAT" -> [due EXCEPT !["handler"] = "HEARTBEAT_ACK"]
                [] OTHER -> due
    /\ results' = IF msg = "JOB_RESULT" THEN results + 1 ELSE results
    /\ wstate' = wstate

\* The body that belongs to the size.
RecvBody(side) ==
    /\ Reading(side)
    /\ have[side] # None
    /\ stream[side] # <<>>
    /\ Head(stream[side]).part = "body"
    /\ Head(stream[side]).from = have[side]
    /\ LET msg == Head(stream[side]).msg IN
        /\ got' = [got EXCEPT ![side] = [from |-> have[side], msg |-> msg]]
        /\ IF side = "worker" THEN WorkerTakes(msg) ELSE HandlerTakes(msg)
    /\ stream' = [stream EXCEPT ![side] = Tail(@)]
    /\ have' = [have EXCEPT ![side] = None]
    /\ UNCHANGED <<half, cstate, jobs, beats>>

\* Mutant: an unknown type is passed over.
RecvOverlapSkips(side) ==
    /\ Reading(side)
    /\ have[side] # None
    /\ stream[side] # <<>>
    /\ Head(stream[side]).part = "size" \/ Head(stream[side]).from # have[side]
    /\ \E i \in DOMAIN stream[side] :
        /\ stream[side][i].part = "body"
        /\ stream' = [stream EXCEPT ![side] = SubSeq(@, i + 1, Len(@))]
    /\ have' = [have EXCEPT ![side] = None]
    /\ UNCHANGED <<got, due, half, wstate, registered, cstate, jobs, beats, results>>

\* Another size where the body is expected, read with what follows it: its first
\* byte is zero, which is no type.
RecvOverlap(side) ==
    /\ Reading(side)
    /\ have[side] # None
    /\ stream[side] # <<>>
    /\ Head(stream[side]).part = "size" \/ Head(stream[side]).from # have[side]
    /\ \E i \in DOMAIN stream[side] : stream[side][i].part = "body"
    /\ GiveUp(side)

\* The other side has closed its socket: what is left may be lost.
RecvEnd(side) ==
    /\ Reading(side)
    /\ ~IsOpen(Other(side))
    /\ GiveUp(side)

\* The process of a worker that has lost the connection ends.
Leave ==
    /\ wstate = "lost"
    /\ wstate' = "gone"
    /\ stream' = [stream EXCEPT !["worker"] = <<>>]
    /\ UNCHANGED <<have, got, due, half, registered, cstate, jobs, beats, results>>

Recv(side) == RecvSize(side) \/ RecvBody(side) \/ RecvOverlap(side) \/ RecvEnd(side)
Send(t) == SendSize(t) \/ SendBody(t)

Next ==
    \/ Register \/ Beat \/ Assign \/ Leave
    \/ \E t \in Threads : Send(t)
    \/ \E side \in Sides : Recv(side)

Fairness ==
    /\ WF_vars(Register) /\ WF_vars(Leave)
    /\ \A t \in Threads : WF_vars(Send(t))
    /\ \A side \in Sides : WF_vars(Recv(side))

Spec == Init /\ [][Next]_vars /\ Fairness

-----------------------------------------------------------------------------
(* Properties *)

\* It takes a job and a heartbeat to break the connection of a registered worker:
\* the heartbeat gets between the parts of a result, or its acknowledgement
\* between the parts of a job. Without a job nothing breaks it; without a
\* heartbeat only a job that overtakes the acknowledgement of the registration.
BreaksTakeBoth ==
    /\ jobs = 0 => cstate = "open" /\ wstate \in {"off", "registering", "running"}
    /\ beats = 0 => wstate # "lost" /\ (cstate = "closed" => wstate = "gone")

\* A job that was sent is answered, unless the connection ends, on which
\* the controller takes it back.
JobAnswered == \A n \in 1 .. MaxJobs : (jobs = n) ~> (results >= n \/ cstate = "closed")

\* The side goes on reading.
Reads(side) ==
    IF side = "worker" THEN wstate \in {"off", "registering", "running"}
    ELSE cstate = "open"

\* The messages of t whose bodies are in a stream.
Bodies(s, t) ==
    LET bodies[i \in 0 .. Len(s)] ==
            IF i = 0 THEN <<>>
            ELSE IF s[i].part = "body" /\ s[i].from = t
                 THEN Append(bodies[i - 1], s[i].msg)
                 ELSE bodies[i - 1]
    IN  bodies[Len(s)]

\* The messages of a thread that have been sent to a side and not read.
OnTheirWay(side, t) == IF Reads(side) THEN Bodies(stream[side], t) ELSE <<>>

\* However the send() calls of two threads mix, a side never takes a message
\* that was not sent, or takes one twice or out of order: it gives up instead.
ToWorker == INSTANCE Channel WITH
    Senders <- ControllerThreads, None <- Nothing,
    queue <- [t \in ControllerThreads |-> OnTheirWay("worker", t)],
    got <- got["worker"], open <- Reads("worker")
ToController == INSTANCE Channel WITH
    Senders <- WorkerThreads, None <- Nothing,
    queue <- [t \in WorkerThreads |-> OnTheirWay("controller", t)],
    got <- got["controller"], open <- Reads("controller")

ChannelToWorker == ToWorker!Spec
ChannelToController == ToController!Spec
=============================================================================
