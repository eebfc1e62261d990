----------------------------- MODULE MCRaftNode -----------------------------
(***************************************************************************)
(* What the documentation of the Raft classes says of them, as properties   *)
(* of RaftNode; the runs show which of it the code does not keep.           *)
(***************************************************************************)
EXTENDS RaftNode, FiniteSets

Budget(elections, entries, timeouts, crashes) ==
    [elections |-> elections, entries |-> entries, timeouts |-> timeouts,
     crashes |-> crashes]

\* Three elections, so that an election meets the heartbeats of a leader that
\* was deposed; two elections with an entry each, so that the logs conflict; an
\* RPC that gives up, so that the next one reads its reply.
PairBudgets == {Budget(3, 0, 0, 0), Budget(2, 2, 0, 0), Budget(2, 0, 1, 0), Budget(1, 2, 1, 0)}
TrioBudgets == {Budget(1, 0, 0, 1), Budget(1, 2, 0, 0)}
RivalBudgets == {Budget(2, 0, 0, 0)}
CommitBudgets == {Budget(1, 1, 0, 0)}

\* "At most one leader per term" (raft_node.h, raft_node.cpp).
ElectionSafety ==
    \A m, n \in Nodes :
        role[m] = "leader" /\ role[n] = "leader" /\ term[m] = term[n] => m = n

OnMajority(n, i) ==
    Cardinality({p \in Nodes : i <= Len(log[p]) /\ log[p][i] = log[n][i]}) >= Majority

\* "Entry committed when replicated to majority" (raft_node.cpp): the first entry
\* of a leader, of its own term and in the logs of a majority, is committed by it
\* at last, unless it is no longer the leader.
MajorityCommits ==
    \A n \in Nodes :
        role[n] = "leader" /\ log[n] # <<>> /\ log[n][1] = term[n] /\ OnMajority(n, 1)
            ~> commit[n] > 0 \/ role[n] # "leader"

=============================================================================
