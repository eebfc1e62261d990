----------------------------- MODULE JobService -----------------------------
(***************************************************************************)
(* What submit_job and get_job_result promise, without threads, sockets or  *)
(* workers: a submitted job is kept until it has a result, a result is      *)
(* never withdrawn, and only a job that is waiting is given out. A job that  *)
(* was given out may be taken back, so it may run more than once and a later *)
(* run may replace its result.                                              *)
(***************************************************************************)
CONSTANT Job

VARIABLES
    waiting,    \* jobs to be given to a worker
    given,      \* jobs a worker is responsible for
    result      \* job -> success, for the jobs get_job_result answers

vars == <<waiting, given, result>>

Known == waiting \cup given \cup DOMAIN result

Init ==
    /\ waiting = {}
    /\ given = {}
    /\ result = [j \in {} |-> FALSE]

Submit(j) ==
    /\ j \notin Known
    /\ waiting' = waiting \cup {j}
    /\ UNCHANGED <<given, result>>

Give(j) ==
    /\ j \in waiting
    /\ waiting' = waiting \ {j}
    /\ given' = given \cup {j}
    /\ UNCHANGED result

\* The worker is dead or unreachable: all it was given waits again.
TakeBack(S) ==
    /\ S \subseteq given
    /\ given' = given \ S
    /\ waiting' = waiting \cup S
    /\ UNCHANGED result

\* The result may come from a worker the job was taken back from.
Finish(j, ok) ==
    /\ j \in Known
    /\ waiting' = waiting \ {j}
    /\ given' = given \ {j}
    /\ result' = [i \in DOMAIN result \cup {j} |->
                    IF i = j THEN ok ELSE result[i]]

Next ==
    \/ \E j \in Job : Submit(j) \/ Give(j) \/ \E ok \in BOOLEAN : Finish(j, ok)
    \/ \E S \in SUBSET given : TakeBack(S)

Spec == Init /\ [][Next]_vars
=============================================================================
