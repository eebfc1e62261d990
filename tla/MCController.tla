---------------------------- MODULE MCController ----------------------------
(***************************************************************************)
(* Controller on small instances, and what the documentation of the code    *)
(* says of it that does not hold.                                            *)
(***************************************************************************)
EXTENDS Controller

\* controller.h "Lock Acquisition Order": workers_mutex_ before jobs_mutex_,
\* "never acquire in reverse order", so the threads never wait in a cycle.
NoLockCycle == ~LockCycle

=============================================================================
