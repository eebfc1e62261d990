------------------------------ MODULE RaftNode ------------------------------
(***************************************************************************)
(* The replicated controllers' consensus as the code runs it: RaftNode      *)
(* (raft/raft_node.cpp) with its term, vote and entries (raft/raft_log.cpp) *)
(* and the RPCs of NetworkRaftNode and RaftController                       *)
(* (controller/raft_controller.cpp).                                       *)
(*                                                                         *)
(* Each node runs an election thread, a heartbeat thread, a client thread   *)
(* inside submit_job, and one handler for each connection from a peer. A    *)
(* mutex is held by the thread whose program counter is inside the          *)
(* critical section: see StateHeld, PeersHeld and NetworkHeld.              *)
(*                                                                         *)
(* Every node is connected to every other one. An entry is its term; the    *)
(* dummy entry 0 is left out. current_leader_ is only logged, last_applied_ *)
(* never written: both are left out too.                                   *)
(***************************************************************************)
EXTENDS Naturals, Sequences

CONSTANTS
    N,              \* number of controllers
    Budgets         \* bounds: a behaviour stays within one of them

\* How often a timer starts an election, a client appends an entry, an RPC is
\* given up after 2 s, a controller dies.
Bounds == [elections : Nat, entries : Nat, timeouts : Nat, crashes : Nat]

ASSUME BoundsAssumption ==
    /\ N \in Nat \ {0}
    /\ Budgets \subseteq Bounds

Nodes == 1 .. N
None == 0
Threads == {"election", "heartbeat", "client"}

VARIABLES
    role,       \* state_, or "terminated" when the process is gone
    term, vote, \* current_term_, voted_for_
    log,        \* entries_: the terms of the entries
    commit,     \* commit_index_
    next, match,\* next_index and match_index of each peer
    votes,      \* votes_received_
    pc, peer, req, \* of each thread: where it is, whom it calls, with what
    calls, replies, \* bytes in flight on the connection from a node to a peer
    hpc, hreq,  \* handler at the other end of the connection
    bounds      \* how often each of the bounded events happened

nodeVars == <<role, term, vote, log, commit>>
leaderVars == <<next, match>>
threadVars == <<pc, peer, req>>
netVars == <<calls, replies>>
handlerVars == <<hpc, hreq>>
vars == <<nodeVars, leaderVars, votes, threadVars, netVars, handlerVars, bounds>>

VoteRequest == [type : {"vote"}, term : Nat, lastIndex : Nat, lastTerm : Nat]
AppendRequest == [type : {"append"}, term : Nat, prevIndex : Nat,
                  prevTerm : Nat, entries : Seq(Nat), commit : Nat]
NoRequest == [type |-> "none"]
Request == VoteRequest \cup AppendRequest
Reply == [type : {"vote", "append"}, term : Nat, ok : BOOLEAN]

\* Program counters of a thread inside send_heartbeats.
Replicating == {"build", "send", "wait", "demote", "relock"}

\* become_leader keeps state_mutex_ until its first heartbeats are answered.
StateHeld(n) == pc[n]["election"] \in {"crown"} \cup Replicating

\* send_heartbeats keeps peers_mutex_ from the request to the end of the reply.
PeersHeld(n) == \E t \in Threads : pc[n][t] \in Replicating \ {"build"}

\* Mutant: the mutex covers the sending only.
NetworkHeldForSend(n) == FALSE

\* An RPC keeps the network mutex, one for all peers, until the reply is in.
NetworkHeld(n) == \E t \in Threads : pc[n][t] \in {"poll", "wait"}

Up(n) == role[n] # "terminated"
At(n, t, place) == Up(n) /\ pc[n][t] = place

LastTerm(n) == IF log[n] = <<>> THEN 0 ELSE log[n][Len(log[n])]

\* The peer after p in the order of the map of peers, None after the last.
PeerAfter(n, p) ==
    LET q == IF p + 1 = n THEN p + 2 ELSE p + 1
    IN  IF q > N THEN None ELSE q

Places ==
    {"sleep", "bump", "self", "snapshot", "list", "ask", "poll", "stepdown",
     "count", "crown", "append"} \cup Replicating

NodesType ==
    /\ role \in [Nodes -> {"follower", "candidate", "leader", "terminated"}]
    /\ term \in [Nodes -> Nat]
    /\ vote \in [Nodes -> Nodes \cup {None}]
    /\ log \in [Nodes -> Seq(Nat)]
    /\ commit \in [Nodes -> Nat]

LeadersType ==
    /\ next \in [Nodes -> [Nodes -> Nat \ {0}]]
    /\ match \in [Nodes -> [Nodes -> Nat]]
    /\ votes \in [Nodes -> Nat]

ThreadsType ==
    /\ pc \in [Nodes -> [Threads -> Places]]
    /\ peer \in [Nodes -> [Threads -> Nodes \cup {None}]]
    /\ req \in [Nodes -> [Threads -> Request \cup {NoRequest}]]
    /\ \A n \in Nodes, t \in Threads :
          /\ pc[n][t] \in {"ask", "poll"} \cup Replicating => peer[n][t] \in Nodes
          /\ pc[n][t] \in {"list", "ask", "poll", "stepdown"} =>
                t = "election" /\ req[n][t] \in VoteRequest
          /\ pc[n][t] \in {"send", "wait", "demote"} => req[n][t] \in AppendRequest

NetworkType ==
    /\ calls \in [Nodes -> [Nodes -> Seq(Request)]]
    /\ replies \in [Nodes -> [Nodes -> Seq(Reply)]]

HandlersType ==
    /\ hpc \in [Nodes -> [Nodes ->
                  {"idle", "adopt", "check", "grant", "concede", "store"}]]
    /\ hreq \in [Nodes -> [Nodes -> Request \cup {NoRequest}]]
    /\ \A p, n \in Nodes :
          /\ hpc[p][n] \in {"adopt", "check"} => hreq[p][n] \in Request
          /\ hpc[p][n] = "grant" => hreq[p][n] \in VoteRequest
          /\ hpc[p][n] \in {"concede", "store"} => hreq[p][n] \in AppendRequest

BoundsType == bounds \in Bounds

TypeOK ==
    /\ NodesType
    /\ LeadersType
    /\ ThreadsType
    /\ NetworkType
    /\ HandlersType
    /\ BoundsType

Init ==
    /\ role = [n \in Nodes |-> "follower"]
    /\ term = [n \in Nodes |-> 0]
    /\ vote = [n \in Nodes |-> None]
    /\ log = [n \in Nodes |-> <<>>]
    /\ commit = [n \in Nodes |-> 0]
    /\ next = [n \in Nodes |-> [p \in Nodes |-> 1]]
    /\ match = [n \in Nodes |-> [p \in Nodes |-> 0]]
    /\ votes = [n \in Nodes |-> 0]
    /\ pc = [n \in Nodes |-> [t \in Threads |-> "sleep"]]
    /\ peer = [n \in Nodes |-> [t \in Threads |-> None]]
    /\ req = [n \in Nodes |-> [t \in Threads |-> NoRequest]]
    /\ calls = [n \in Nodes |-> [p \in Nodes |-> <<>>]]
    /\ replies = [n \in Nodes |-> [p \in Nodes |-> <<>>]]
    /\ hpc = [p \in Nodes |-> [n \in Nodes |-> "idle"]]
    /\ hreq = [p \in Nodes |-> [n \in Nodes |-> NoRequest]]
    /\ bounds = [elections |-> 0, entries |-> 0, timeouts |-> 0, crashes |-> 0]

\* One more event of a bounded kind, within a budget.
Spend(kind) ==
    /\ bounds' = [bounds EXCEPT ![kind] = @ + 1]
    /\ \E b \in Budgets : \A k \in DOMAIN b : bounds'[k] <= b[k]

\* Mutant: the higher term is not stored.
BecomeFollowerKeepsTerm(n, newTerm) ==
    /\ ~StateHeld(n)
    /\ role' = [role EXCEPT ![n] = "follower"]
    /\ vote' = [vote EXCEPT ![n] = None]
    /\ UNCHANGED <<term, log, commit>>

\* become_follower, under state_mutex_: the term is stored whatever it was,
\* and the vote is cleared.
BecomeFollower(n, newTerm) ==
    /\ ~StateHeld(n)
    /\ role' = [role EXCEPT ![n] = "follower"]
    /\ term' = [term EXCEPT ![n] = newTerm]
    /\ vote' = [vote EXCEPT ![n] = None]
    /\ UNCHANGED <<log, commit>>

Step(n, t, place, p, r) ==
    /\ pc' = [pc EXCEPT ![n][t] = place]
    /\ peer' = [peer EXCEPT ![n][t] = p]
    /\ req' = [req EXCEPT ![n][t] = r]

Goto(n, t, place) == Step(n, t, place, peer[n][t], req[n][t])

\* The loops over the peers of start_election and of send_heartbeats.
NextAsk(n) ==
    LET q == PeerAfter(n, peer[n]["election"])
    IN  Step(n, "election", IF q = None THEN "count" ELSE "ask", q,
             IF q = None THEN NoRequest ELSE req[n]["election"])

NextBuild(n, t) ==
    LET q == PeerAfter(n, peer[n][t])
    IN  Step(n, t, IF q = None THEN "sleep" ELSE "build", q, NoRequest)

-----------------------------------------------------------------------------
(* Election thread *)

\* election_timer_loop: not the leader, and no heartbeat for the timeout drawn
\* at random on this look at the clock; then become_candidate.
Timeout(n) ==
    /\ At(n, "election", "sleep")
    /\ role[n] # "leader"
    /\ role' = [role EXCEPT ![n] = "candidate"]
    /\ Spend("elections")
    /\ Goto(n, "election", "bump")
    /\ UNCHANGED <<term, vote, log, commit, leaderVars, votes, netVars, handlerVars>>

\* start_election goes on without state_mutex_: increment_term also clears
\* the vote ...
BumpTerm(n) ==
    /\ At(n, "election", "bump")
    /\ term' = [term EXCEPT ![n] = @ + 1]
    /\ vote' = [vote EXCEPT ![n] = None]
    /\ Goto(n, "election", "self")
    /\ UNCHANGED <<role, log, commit, leaderVars, votes, netVars, handlerVars, bounds>>

\* ... and the vote for itself is a second step.
VoteSelf(n) ==
    /\ At(n, "election", "self")
    /\ vote' = [vote EXCEPT ![n] = n]
    /\ votes' = [votes EXCEPT ![n] = 1]
    /\ Goto(n, "election", "snapshot")
    /\ UNCHANGED <<role, term, log, commit, leaderVars, netVars, handlerVars, bounds>>

\* The request is filled in from the term of now, not the one incremented.
Snapshot(n) ==
    /\ At(n, "election", "snapshot")
    /\ Step(n, "election", "list", None,
            [type |-> "vote", term |-> term[n], lastIndex |-> Len(log[n]),
             lastTerm |-> LastTerm(n)])
    /\ UNCHANGED <<nodeVars, leaderVars, votes, netVars, handlerVars, bounds>>

\* The ids of the peers are copied under peers_mutex_.
ListPeers(n) ==
    /\ At(n, "election", "list")
    /\ ~PeersHeld(n)
    /\ NextAsk(n)
    /\ UNCHANGED <<nodeVars, leaderVars, votes, netVars, handlerVars, bounds>>

\* The reply to a RequestVote. Its type byte is not looked at: an answer to an
\* earlier AppendEntries is taken for a vote.
VoteReply(n) ==
    LET p == peer[n]["election"]
        m == Head(replies[n][p])
    IN  /\ At(n, "election", "poll")
        /\ replies[n][p] # <<>>
        /\ replies' = [replies EXCEPT ![n][p] = Tail(@)]
        /\ IF ~m.ok /\ m.term > req[n]["election"].term
           THEN Step(n, "election", "stepdown", None,
                     [req[n]["election"] EXCEPT !.term = m.term])
           ELSE NextAsk(n)
        /\ votes' = [votes EXCEPT ![n] = IF m.ok THEN @ + 1 ELSE @]
        /\ UNCHANGED <<nodeVars, leaderVars, calls, handlerVars, bounds>>

\* become_follower, and the election is over.
StepDown(n) ==
    /\ At(n, "election", "stepdown")
    /\ BecomeFollower(n, req[n]["election"].term)
    /\ Step(n, "election", "sleep", None, NoRequest)
    /\ UNCHANGED <<leaderVars, votes, netVars, handlerVars, bounds>>

\* Mutant: the candidate's own vote is not among those counted.
MajorityOfOthers == N \div 2 + 2

Majority == N \div 2 + 1

\* The votes are counted; become_leader takes state_mutex_. Neither the state
\* nor the term is looked at again.
CountVotes(n) ==
    /\ At(n, "election", "count")
    /\ IF votes[n] >= Majority
       THEN role' = [role EXCEPT ![n] = "leader"] /\ Goto(n, "election", "crown")
       ELSE role' = role /\ Goto(n, "election", "sleep")
    /\ UNCHANGED <<term, vote, log, commit, leaderVars, votes, netVars, handlerVars,
                   bounds>>

\* become_leader resets the peers under peers_mutex_ and starts to replicate.
Crown(n) ==
    /\ At(n, "election", "crown")
    /\ ~PeersHeld(n)
    /\ next' = [next EXCEPT ![n] = [p \in Nodes |-> Len(log[n]) + 1]]
    /\ match' = [match EXCEPT ![n] = [p \in Nodes |-> 0]]
    /\ NextBuild(n, "election")
    /\ UNCHANGED <<nodeVars, votes, netVars, handlerVars, bounds>>

-----------------------------------------------------------------------------
(* Heartbeat and client threads, and replication *)

Beat(n) ==
    /\ At(n, "heartbeat", "sleep")
    /\ role[n] = "leader"
    /\ NextBuild(n, "heartbeat")
    /\ UNCHANGED <<nodeVars, leaderVars, votes, netVars, handlerVars, bounds>>

\* submit_job, append_log_entry: is_leader is checked ...
Submit(n) ==
    /\ At(n, "client", "sleep")
    /\ role[n] = "leader"
    /\ Spend("entries")
    /\ Goto(n, "client", "append")
    /\ UNCHANGED <<nodeVars, leaderVars, votes, netVars, handlerVars>>

\* ... and the entry gets the term of when it is built. (The code reads the term
\* and the last index, then appends, under the log's mutex each time: here no
\* other thread comes between, and one client submits at a time.)
AppendEntry(n) ==
    /\ At(n, "client", "append")
    /\ log' = [log EXCEPT ![n] = Append(@, term[n])]
    /\ NextBuild(n, "client")
    /\ UNCHANGED <<role, term, vote, commit, leaderVars, votes, netVars,
                   handlerVars, bounds>>

\* replicate_log_to_peer under peers_mutex_: the request carries the term of
\* now, leader or not. at() throws when the log has been cut below
\* next_index - 1, which nothing catches. (The log is read in several calls,
\* between which a client may append; here they are one step.)
Build(n, t) ==
    LET i == next[n][peer[n][t]]
        r == [type |-> "append", term |-> term[n], prevIndex |-> i - 1,
              prevTerm |-> IF i > 1 THEN log[n][i - 1] ELSE 0,
              entries |-> SubSeq(log[n], i, Len(log[n])),
              commit |-> commit[n]]
    IN  /\ At(n, t, "build")
        /\ ~PeersHeld(n)
        /\ IF i > Len(log[n]) + 1
           THEN role' = [role EXCEPT ![n] = "terminated"] /\ UNCHANGED threadVars
           ELSE role' = role /\ Step(n, t, "send", peer[n][t], r)
        /\ UNCHANGED <<term, vote, log, commit, leaderVars, votes, netVars,
                       handlerVars, bounds>>

\* send_request_vote, send_append_entries: the network mutex is taken and the
\* request sent, unless the connection is broken.
Send(n, t) ==
    LET p == peer[n][t]
    IN  /\ pc[n][t] \in {"ask", "send"}
        /\ Up(n)
        /\ ~NetworkHeld(n)
        /\ IF Up(p)
           THEN /\ calls' = [calls EXCEPT ![n][p] = Append(@, req[n][t])]
                /\ Goto(n, t, IF pc[n][t] = "ask" THEN "poll" ELSE "wait")
           ELSE /\ calls' = calls
                /\ IF pc[n][t] = "ask" THEN NextAsk(n) ELSE NextBuild(n, t)
        /\ UNCHANGED <<nodeVars, leaderVars, votes, replies, handlerVars, bounds>>

\* recv gives up after 2 s, or the connection breaks; a late reply stays in
\* the stream for the next RPC.
RpcFails(n, t) ==
    LET p == peer[n][t]
    IN  /\ pc[n][t] \in {"poll", "wait"}
        /\ Up(n)
        /\ IF Up(p)
           THEN Spend("timeouts")
           ELSE bounds' = bounds
        /\ IF pc[n][t] = "poll" THEN NextAsk(n) ELSE NextBuild(n, t)
        /\ UNCHANGED <<nodeVars, leaderVars, votes, netVars, handlerVars>>

\* Mutant: off by one.
LastSentPlusOne(r) == r.prevIndex + Len(r.entries) + 1

\* The last index of the entries of an AppendEntries request.
LastSent(r) == r.prevIndex + Len(r.entries)

\* Mutant: the mutex may be taken again by its holder.
AfterAckGoesOn(n, t) == NextBuild(n, t)

\* advance_commit_index takes peers_mutex_, held by this very thread since
\* send_heartbeats, on its first turn: it waits for itself.
AfterAck(n, t) ==
    IF commit[n] < Len(log[n]) THEN Goto(n, t, "relock") ELSE NextBuild(n, t)

\* Mutant: no lower bound.
BackUpBelow(i) == i - 1

\* The next_index after a refusal.
BackUp(i) == IF i > 1 THEN i - 1 ELSE i

\* The reply to an AppendEntries; a vote (10 bytes) is too short and throws.
AppendReply(n, t) ==
    LET p == peer[n][t]
        m == Head(replies[n][p])
        r == req[n][t]
    IN  /\ At(n, t, "wait")
        /\ replies[n][p] # <<>>
        /\ replies' = [replies EXCEPT ![n][p] = Tail(@)]
        /\ \/ /\ m.type = "vote" \/ (m.ok /\ r.entries = <<>>)
              /\ NextBuild(n, t)
              /\ UNCHANGED leaderVars
           \/ /\ m.type = "append" /\ m.ok /\ r.entries # <<>>
              /\ next' = [next EXCEPT ![n][p] = LastSent(r) + 1]
              /\ match' = [match EXCEPT ![n][p] = LastSent(r)]
              /\ AfterAck(n, t)
           \/ /\ m.type = "append" /\ ~m.ok /\ m.term > term[n]
              /\ Step(n, t, "demote", p, [r EXCEPT !.term = m.term])
              /\ UNCHANGED leaderVars
           \/ /\ m.type = "append" /\ ~m.ok /\ m.term <= term[n]
              /\ next' = [next EXCEPT ![n][p] = BackUp(@)]
              /\ match' = match
              /\ NextBuild(n, t)
        /\ UNCHANGED <<nodeVars, votes, calls, handlerVars, bounds>>

\* become_follower with peers_mutex_ held: state_mutex_ must be free.
Demote(n, t) ==
    /\ At(n, t, "demote")
    /\ BecomeFollower(n, req[n][t].term)
    /\ NextBuild(n, t)
    /\ UNCHANGED <<leaderVars, votes, netVars, handlerVars, bounds>>

-----------------------------------------------------------------------------
(* Handler on node n of the connection from node p *)

Handling(p, n, place) == Up(n) /\ hpc[p][n] = place

HandlerGoto(p, n, place, r) ==
    /\ hpc' = [hpc EXCEPT ![p][n] = place]
    /\ hreq' = [hreq EXCEPT ![p][n] = r]

Respond(p, n, type, newTerm, ok) ==
    /\ replies' = [replies EXCEPT ![p][n] =
                      Append(@, [type |-> type, term |-> newTerm, ok |-> ok])]
    /\ HandlerGoto(p, n, "idle", NoRequest)

\* handle_request_vote, handle_append_entries: a stale term is refused.
Receive(p, n) ==
    LET r == Head(calls[p][n])
    IN  /\ Handling(p, n, "idle")
        /\ calls[p][n] # <<>>
        /\ calls' = [calls EXCEPT ![p][n] = Tail(@)]
        /\ IF r.term < term[n]
           THEN Respond(p, n, r.type, term[n], FALSE)
           ELSE /\ HandlerGoto(p, n, IF r.term > term[n] THEN "adopt" ELSE "check", r)
                /\ replies' = replies
        /\ UNCHANGED <<nodeVars, leaderVars, votes, threadVars, bounds>>

\* A higher term: become_follower.
Adopt(p, n) ==
    /\ Handling(p, n, "adopt")
    /\ BecomeFollower(n, hreq[p][n].term)
    /\ HandlerGoto(p, n, "check", hreq[p][n])
    /\ UNCHANGED <<leaderVars, votes, threadVars, netVars, bounds>>

UpToDate(r, n) ==
    \/ r.lastTerm > LastTerm(n)
    \/ r.lastTerm = LastTerm(n) /\ r.lastIndex >= Len(log[n])

\* voted_for is read ...
CheckVote(p, n) ==
    LET r == hreq[p][n]
    IN  /\ Handling(p, n, "check")
        /\ r.type = "vote"
        /\ IF vote[n] \in {None, p} /\ UpToDate(r, n)
           THEN HandlerGoto(p, n, "grant", r) /\ replies' = replies
           ELSE Respond(p, n, "vote", r.term, FALSE)
        /\ UNCHANGED <<nodeVars, leaderVars, votes, threadVars, calls, bounds>>

\* ... and written in a second step, with no lock in between.
Grant(p, n) ==
    /\ Handling(p, n, "grant")
    /\ vote' = [vote EXCEPT ![n] = p]
    /\ Respond(p, n, "vote", hreq[p][n].term, TRUE)
    /\ UNCHANGED <<role, term, log, commit, leaderVars, votes, threadVars,
                   calls, bounds>>

\* The state is looked at without state_mutex_: a candidate that hears from a
\* leader gives way, become_follower in that term ...
SeeLeader(p, n) ==
    /\ Handling(p, n, "check")
    /\ hreq[p][n].type = "append"
    /\ HandlerGoto(p, n, IF role[n] = "candidate" THEN "concede" ELSE "store", hreq[p][n])
    /\ UNCHANGED <<nodeVars, leaderVars, votes, threadVars, netVars, bounds>>

\* ... which also clears the vote of that term.
Concede(p, n) ==
    /\ Handling(p, n, "concede")
    /\ BecomeFollower(n, hreq[p][n].term)
    /\ HandlerGoto(p, n, "store", hreq[p][n])
    /\ UNCHANGED <<leaderVars, votes, threadVars, netVars, bounds>>

\* The entries es after index prev: from the first conflict on, l is replaced.
Merged(l, prev, es) ==
    LET agrees == \A k \in 1 .. Len(es) :
                      prev + k <= Len(l) => l[prev + k] = es[k]
    IN  IF agrees /\ prev + Len(es) <= Len(l) THEN l
        ELSE SubSeq(l, 1, prev) \o es

Smaller(a, b) == IF a < b THEN a ELSE b

\* The log part of handle_append_entries: a gap is refused, a conflict before
\* the entries is cut off and refused, otherwise the entries are merged.
Store(p, n) ==
    LET r == hreq[p][n]
        gap == r.prevIndex > Len(log[n])
        conflict == r.prevIndex > 0 /\ ~gap /\ log[n][r.prevIndex] # r.prevTerm
    IN  /\ Handling(p, n, "store")
        /\ log' = [log EXCEPT ![n] =
                      IF gap THEN @
                      ELSE IF conflict THEN SubSeq(@, 1, r.prevIndex - 1)
                      ELSE Merged(@, r.prevIndex, r.entries)]
        /\ commit' = [commit EXCEPT ![n] =
                         IF gap \/ conflict \/ r.commit <= @ THEN @
                         ELSE Smaller(r.commit, Len(log'[n]))]
        /\ Respond(p, n, "append", r.term, ~gap /\ ~conflict)
        /\ UNCHANGED <<role, term, vote, leaderVars, votes, threadVars, calls, bounds>>

-----------------------------------------------------------------------------

Crash(n) ==
    /\ Up(n)
    /\ role' = [role EXCEPT ![n] = "terminated"]
    /\ Spend("crashes")
    /\ UNCHANGED <<term, vote, log, commit, leaderVars, votes, threadVars,
                   netVars, handlerVars>>

Election(n) ==
    \/ BumpTerm(n) \/ VoteSelf(n) \/ Snapshot(n) \/ ListPeers(n)
    \/ VoteReply(n) \/ StepDown(n) \/ CountVotes(n) \/ Crown(n)

Replication(n, t) == Build(n, t) \/ Send(n, t) \/ AppendReply(n, t) \/ Demote(n, t)

Handler(p, n) ==
    \/ Receive(p, n) \/ Adopt(p, n) \/ CheckVote(p, n) \/ Grant(p, n)
    \/ SeeLeader(p, n) \/ Concede(p, n) \/ Store(p, n)

Next ==
    \/ \E n \in Nodes :
          \/ Timeout(n)
          \/ Election(n)
          \/ Beat(n)
          \/ Submit(n)
          \/ AppendEntry(n)
          \/ Crash(n)
          \/ \E t \in Threads : Replication(n, t) \/ RpcFails(n, t)
    \/ \E p, n \in Nodes : Handler(p, n)

Spec == Init /\ [][Next]_vars

\* A call over a broken connection returns.
BrokenCall(n, t) == RpcFails(n, t) /\ ~Up(peer[n][t])

ElectionThread(n) ==
    Election(n) \/ Replication(n, "election") \/ BrokenCall(n, "election")

HeartbeatThread(n) ==
    Beat(n) \/ Replication(n, "heartbeat") \/ BrokenCall(n, "heartbeat")

ClientThread(n) ==
    AppendEntry(n) \/ Replication(n, "client") \/ BrokenCall(n, "client")

\* Threads run, and an election or a client that finds peers_mutex_ free again
\* and again between heartbeats gets it. Some first election timer runs out.
Fairness ==
    /\ WF_vars(\E n \in Nodes : Timeout(n))
    /\ \A n \in Nodes :
          /\ SF_vars(ElectionThread(n))
          /\ SF_vars(ClientThread(n))
          /\ WF_vars(HeartbeatThread(n))
    /\ \A p, n \in Nodes : WF_vars(Handler(p, n))

FairSpec == Spec /\ Fairness

-----------------------------------------------------------------------------
(* Safety *)

\* The messages of one connection, at most one of them in the handler.
Outstanding(n, p) ==
    Len(calls[n][p]) + Len(replies[n][p]) + (IF hpc[n][p] = "idle" THEN 0 ELSE 1)

Calling(n, p, t) == pc[n][t] \in {"poll", "wait"} /\ peer[n][t] = p

\* What the one network mutex is for: while no RPC has timed out, a connection
\* carries one message for the one thread that waits for it, and none when no
\* thread waits, so that a reply is always read by the RPC it answers.
RepliesMatchCalls ==
    bounds.timeouts = 0 =>
        \A n, p \in Nodes : Up(p) =>
            /\ \A t, u \in Threads : Calling(n, p, t) /\ Calling(n, p, u) => t = u
            /\ Outstanding(n, p) = IF \E t \in Threads : Calling(n, p, t) THEN 1 ELSE 0
            /\ \A t \in Threads : Calling(n, p, t) =>
                  /\ \A i \in DOMAIN calls[n][p] : calls[n][p][i] = req[n][t]
                  /\ \A i \in DOMAIN replies[n][p] :
                        replies[n][p][i].type = req[n][t].type
                  /\ hpc[n][p] # "idle" => hreq[n][p] = req[n][t]

\* No other node has got as far in an election as its vote for itself, however
\* often n has stood.
Unopposed(n) == \A m \in Nodes \ {n} : votes[m] = 0

\* match_index "represents the highest index that definitely exists on this
\* follower": the follower holds the entries of the node up to there, while no
\* RPC has timed out (a late reply acknowledges what was sent after it) and no
\* other node has stood (two leaders of one term cut each other's log).
MatchIsReplicated ==
    \A n, p \in Nodes : bounds.timeouts = 0 /\ Unopposed(n) =>
        /\ match[n][p] <= Len(log[n])
        /\ match[n][p] <= Len(log[p])
        /\ \A i \in 1 .. match[n][p] : log[n][i] = log[p][i]

\* "Leader Append-Only" (raft_node.h), and of every node: as long as one node at
\* most has stood, no log is ever cut, however requests are delayed, repeated or
\* merged, and however often that node is elected again.
LogsOnlyGrow ==
    [][ \A n, p \in Nodes : Unopposed(n)' =>
          /\ Len(log[p]) <= Len(log'[p])
          /\ \A i \in 1 .. Len(log[p]) : log'[p][i] = log[p][i] ]_vars

\* "Log Matching" (raft_node.h): two logs agree as far as both go, as long as one
\* node at most has stood.
LogsMatch ==
    \A n, p, q \in Nodes : Unopposed(n) =>
        \A i \in 1 .. Smaller(Len(log[p]), Len(log[q])) : log[p][i] = log[q][i]

\* advance_commit_index never gets to its comparison, so that nothing is ever
\* committed by a leader, sent as committed, or committed by a follower.
NothingCommitted == \A n \in Nodes : commit[n] = 0

\* The first acknowledgement of an entry is the last one of a leader: the
\* thread that gets it waits for peers_mutex_ for ever, and holds it. Only a
\* rival that cuts the log before the acknowledgement can prevent it.
FirstAckIsLast ==
    \A n, p \in Nodes : Unopposed(n) /\ match[n][p] > 0 =>
        /\ \E t \in Threads : pc[n][t] = "relock"
        /\ \A q \in Nodes : match[n][q] > 0 => q = p

-----------------------------------------------------------------------------
(* Liveness *)

\* A candidate without a rival wins although a minority of the others is down.
CandidateWins ==
    \A n \in Nodes :
        pc[n]["election"] = "list" ~> role[n] = "leader" \/ ~Up(n)

\* Every follower that is up hears of a leader without a rival, unless an
\* acknowledgement stops the leader before: the heartbeats reach those behind a
\* broken connection too.
LeaderIsHeard ==
    \A n \in Nodes :
        role[n] = "leader" ~>
            \/ ~Up(n)
            \/ \E t \in Threads : pc[n][t] = "relock"
            \/ \A p \in Nodes : Up(p) => term[p] = term[n]
=============================================================================
