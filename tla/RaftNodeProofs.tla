--------------------------- MODULE RaftNodeProofs ---------------------------
(***************************************************************************)
(* What holds of RaftNode for every number of nodes and every bound:        *)
(* types; that no controller commits anything; that every reply is read by  *)
(* the call it answers; and, for a node without a rival, that the first     *)
(* acknowledgement stops it and that match_index tells the truth.           *)
(***************************************************************************)
EXTENDS RaftNode, SequenceTheorems, TLAPS

USE BoundsAssumption DEF None

\* Counting an event keeps the counters' type.
LEMMA SpendType ==
    ASSUME BoundsType, NEW kind \in {"elections", "entries", "timeouts", "crashes"},
           Spend(kind)
    PROVE  BoundsType'
BY DEF BoundsType, Bounds, Spend

-----------------------------------------------------------------------------
(* The loops over the peers, and the moves of a thread *)

\* The peer after p is another node, or there is none.
LEMMA PeerAfterType ==
    ASSUME NEW n \in Nodes, NEW p \in Nodes \cup {None}
    PROVE  PeerAfter(n, p) \in Nodes \cup {None}
BY DEF PeerAfter, Nodes

\* A thread that moves to a place with the peer and the request the place
\* needs stays well typed.
LEMMA StepType ==
    ASSUME ThreadsType, NEW n \in Nodes, NEW t \in Threads,
           NEW place \in Places, NEW p \in Nodes \cup {None},
           NEW r \in Request \cup {NoRequest},
           place \in {"ask", "poll"} \cup Replicating => p \in Nodes,
           place \in {"list", "ask", "poll", "stepdown"} =>
               t = "election" /\ r \in VoteRequest,
           place \in {"send", "wait", "demote"} => r \in AppendRequest,
           Step(n, t, place, p, r)
    PROVE  ThreadsType'
<1>1. /\ pc' \in [Nodes -> [Threads -> Places]]
      /\ peer' \in [Nodes -> [Threads -> Nodes \cup {None}]]
      /\ req' \in [Nodes -> [Threads -> Request \cup {NoRequest}]]
  BY DEF ThreadsType, Step
<1>2. ASSUME NEW m \in Nodes, NEW u \in Threads, m = n /\ u = t
      PROVE  pc'[m][u] = place /\ peer'[m][u] = p /\ req'[m][u] = r
  BY <1>2 DEF ThreadsType, Step
<1>3. ASSUME NEW m \in Nodes, NEW u \in Threads, ~(m = n /\ u = t)
      PROVE  pc'[m][u] = pc[m][u] /\ peer'[m][u] = peer[m][u] /\ req'[m][u] = req[m][u]
  BY <1>3 DEF ThreadsType, Step
<1>4. ASSUME NEW m \in Nodes, NEW u \in Threads
      PROVE  /\ pc'[m][u] \in {"ask", "poll"} \cup Replicating => peer'[m][u] \in Nodes
             /\ pc'[m][u] \in {"list", "ask", "poll", "stepdown"} =>
                   u = "election" /\ req'[m][u] \in VoteRequest
             /\ pc'[m][u] \in {"send", "wait", "demote"} => req'[m][u] \in AppendRequest
  <2>1. CASE m = n /\ u = t
    BY <2>1, <1>2
  <2>2. CASE ~(m = n /\ u = t)
    BY <2>2, <1>3 DEF ThreadsType
  <2>3. QED  BY <2>1, <2>2
<1>5. QED  BY <1>1, <1>4 DEF ThreadsType

\* A move without a new peer or request, to a place that asks for no more than
\* the old one.
LEMMA GotoType ==
    ASSUME ThreadsType, NEW n \in Nodes, NEW t \in Threads, NEW place \in Places,
           place \in {"ask", "poll"} \cup Replicating =>
               pc[n][t] \in {"ask", "poll"} \cup Replicating,
           place \in {"list", "ask", "poll", "stepdown"} =>
               pc[n][t] \in {"list", "ask", "poll", "stepdown"},
           place \in {"send", "wait", "demote"} =>
               pc[n][t] \in {"send", "wait", "demote"},
           Goto(n, t, place)
    PROVE  ThreadsType'
<1>1. /\ peer[n][t] \in Nodes \cup {None}
      /\ req[n][t] \in Request \cup {NoRequest}
  BY DEF ThreadsType
<1>2. /\ place \in {"ask", "poll"} \cup Replicating => peer[n][t] \in Nodes
      /\ place \in {"list", "ask", "poll", "stepdown"} =>
            t = "election" /\ req[n][t] \in VoteRequest
      /\ place \in {"send", "wait", "demote"} => req[n][t] \in AppendRequest
  BY DEF ThreadsType
<1>3. Step(n, t, place, peer[n][t], req[n][t])
  BY DEF Goto
<1>4. QED  BY <1>1, <1>2, <1>3, StepType

\* The next turn of send_heartbeats.
LEMMA NextBuildType ==
    ASSUME ThreadsType, NEW n \in Nodes, NEW t \in Threads, NextBuild(n, t)
    PROVE  ThreadsType'
<1> DEFINE q == PeerAfter(n, peer[n][t])
           place == IF q = None THEN "sleep" ELSE "build"
<1>1. q \in Nodes \cup {None}
  BY PeerAfterType DEF ThreadsType
<1>2. Step(n, t, place, q, NoRequest)
  BY DEF NextBuild
<1>3. /\ place \in Places
      /\ place \in {"ask", "poll"} \cup Replicating => q \in Nodes
      /\ place \notin {"list", "ask", "poll", "stepdown", "send", "wait", "demote"}
  BY <1>1 DEF Places, Replicating
<1> HIDE DEF q, place
<1>4. QED  BY <1>1, <1>2, <1>3, StepType

\* The next turn of start_election.
LEMMA NextAskType ==
    ASSUME ThreadsType, NEW n \in Nodes, req[n]["election"] \in VoteRequest,
           NextAsk(n)
    PROVE  ThreadsType'
<1> DEFINE q == PeerAfter(n, peer[n]["election"])
           place == IF q = None THEN "count" ELSE "ask"
           r == IF q = None THEN NoRequest ELSE req[n]["election"]
<1>1. q \in Nodes \cup {None}
  BY PeerAfterType DEF ThreadsType, Threads
<1>2. Step(n, "election", place, q, r)
  BY DEF NextAsk
<1>3. /\ place \in Places
      /\ place \in {"ask", "poll"} \cup Replicating => q \in Nodes
      /\ place \in {"list", "ask", "poll", "stepdown"} => r \in VoteRequest
      /\ place \notin {"send", "wait", "demote"}
      /\ r \in Request \cup {NoRequest}
  BY <1>1 DEF Places, Replicating, Request
<1>4. "election" \in Threads
  BY DEF Threads
<1> HIDE DEF q, place, r
<1>5. QED  BY <1>1, <1>2, <1>3, <1>4, StepType

-----------------------------------------------------------------------------
(* Election thread *)

\* What become_follower does to a node, given a term.
LEMMA BecomeFollowerType ==
    ASSUME NodesType, NEW n \in Nodes, NEW k \in Nat, BecomeFollower(n, k)
    PROVE  NodesType'
BY DEF NodesType, BecomeFollower

LEMMA LastTermType ==
    ASSUME NodesType, NEW n \in Nodes
    PROVE  LastTerm(n) \in Nat /\ Len(log[n]) \in Nat
<1>1. log[n] \in Seq(Nat)
  BY DEF NodesType
<1>2. QED  BY <1>1 DEF LastTerm

LEMMA TimeoutType ==
    ASSUME TypeOK, NEW n \in Nodes, Timeout(n)
    PROVE  TypeOK'
<1>1. ThreadsType'
  BY GotoType DEF TypeOK, Timeout, Threads, Places, Replicating
<1>2. NodesType'
  BY DEF TypeOK, NodesType, Timeout
<1>3. BoundsType'
  BY SpendType DEF TypeOK, Timeout
<1>4. QED
  BY <1>1, <1>2, <1>3
     DEF TypeOK, Timeout, LeadersType, NetworkType, HandlersType, leaderVars,
         netVars, handlerVars

LEMMA BumpTermType ==
    ASSUME TypeOK, NEW n \in Nodes, BumpTerm(n)
    PROVE  TypeOK'
<1>1. ThreadsType'
  BY GotoType DEF TypeOK, BumpTerm, Threads, Places, Replicating
<1>2. NodesType'
  BY DEF TypeOK, NodesType, BumpTerm
<1>3. QED
  BY <1>1, <1>2
     DEF TypeOK, BumpTerm, LeadersType, NetworkType, HandlersType, BoundsType,
         leaderVars, netVars, handlerVars

LEMMA VoteSelfType ==
    ASSUME TypeOK, NEW n \in Nodes, VoteSelf(n)
    PROVE  TypeOK'
<1>1. ThreadsType'
  BY GotoType DEF TypeOK, VoteSelf, Threads, Places, Replicating
<1>2. NodesType'
  BY DEF TypeOK, NodesType, VoteSelf
<1>3. LeadersType'
  BY DEF TypeOK, LeadersType, VoteSelf, leaderVars
<1>4. QED
  BY <1>1, <1>2, <1>3
     DEF TypeOK, VoteSelf, NetworkType, HandlersType, BoundsType, netVars,
         handlerVars

LEMMA SnapshotType ==
    ASSUME TypeOK, NEW n \in Nodes, Snapshot(n)
    PROVE  TypeOK'
<1> DEFINE r == [type |-> "vote", term |-> term[n], lastIndex |-> Len(log[n]),
                 lastTerm |-> LastTerm(n)]
<1>1. r \in VoteRequest
  BY LastTermType DEF TypeOK, NodesType, VoteRequest
<1>2. "election" \in Threads /\ "list" \in Places
  BY DEF Threads, Places
<1>3. Step(n, "election", "list", None, r)
  BY DEF Snapshot
<1> HIDE DEF r
<1>4. ThreadsType'
  BY <1>1, <1>2, <1>3, StepType DEF TypeOK, Replicating, Request
<1>5. QED
  BY <1>4
     DEF TypeOK, Snapshot, NodesType, LeadersType, NetworkType, HandlersType,
         BoundsType, nodeVars, leaderVars, netVars, handlerVars

LEMMA ListPeersType ==
    ASSUME TypeOK, NEW n \in Nodes, ListPeers(n)
    PROVE  TypeOK'
<1>1. req[n]["election"] \in VoteRequest
  BY DEF TypeOK, ThreadsType, ListPeers, At, Threads
<1>2. ThreadsType'
  BY <1>1, NextAskType DEF TypeOK, ListPeers
<1>3. QED
  BY <1>2
     DEF TypeOK, ListPeers, NodesType, LeadersType, NetworkType, HandlersType,
         BoundsType, nodeVars, leaderVars, netVars, handlerVars

\* Taking the first reply of a connection.
LEMMA TakeReplyType ==
    ASSUME NetworkType, NEW n \in Nodes, NEW p \in Nodes, replies[n][p] # <<>>,
           replies' = [replies EXCEPT ![n][p] = Tail(@)], UNCHANGED calls
    PROVE  /\ NetworkType'
           /\ Head(replies[n][p]) \in Reply
<1>1. replies[n][p] \in Seq(Reply)
  BY DEF NetworkType
<1>2. Tail(replies[n][p]) \in Seq(Reply) /\ Head(replies[n][p]) \in Reply
  BY <1>1, HeadTailProperties
<1>3. QED  BY <1>1, <1>2 DEF NetworkType

LEMMA VoteReplyType ==
    ASSUME TypeOK, NEW n \in Nodes, VoteReply(n)
    PROVE  TypeOK'
<1> DEFINE p == peer[n]["election"]
           r == req[n]["election"]
           m == Head(replies[n][p])
<1>1. p \in Nodes /\ r \in VoteRequest
  BY DEF TypeOK, ThreadsType, VoteReply, At, Threads
<1>2. NetworkType' /\ m \in Reply
  BY <1>1, TakeReplyType DEF TypeOK, VoteReply
<1>3. ThreadsType'
  <2>1. CASE ~m.ok /\ m.term > r.term
    <3> DEFINE s == [r EXCEPT !.term = m.term]
    <3>1. s \in VoteRequest
      BY <1>1, <1>2 DEF VoteRequest, Reply
    <3>2. Step(n, "election", "stepdown", None, s)
      BY <2>1 DEF VoteReply
    <3>3. "election" \in Threads /\ "stepdown" \in Places
      BY DEF Threads, Places
    <3> HIDE DEF s
    <3>4. QED  BY <3>1, <3>2, <3>3, StepType DEF TypeOK, Replicating, Request
  <2>2. CASE ~(~m.ok /\ m.term > r.term)
    BY <2>2, <1>1, NextAskType DEF TypeOK, VoteReply
  <2>3. QED  BY <2>1, <2>2
<1>4. LeadersType'
  BY DEF TypeOK, LeadersType, VoteReply, leaderVars
<1>5. QED
  BY <1>2, <1>3, <1>4
     DEF TypeOK, VoteReply, NodesType, HandlersType, BoundsType, nodeVars,
         handlerVars

LEMMA StepDownType ==
    ASSUME TypeOK, NEW n \in Nodes, StepDown(n)
    PROVE  TypeOK'
<1>1. req[n]["election"].term \in Nat
  BY DEF TypeOK, ThreadsType, StepDown, At, Threads, VoteRequest
<1>2. NodesType'
  BY <1>1, BecomeFollowerType DEF TypeOK, StepDown
<1>3. ThreadsType'
  BY StepType DEF TypeOK, StepDown, Threads, Places, Replicating
<1>4. QED
  BY <1>2, <1>3
     DEF TypeOK, StepDown, LeadersType, NetworkType, HandlersType, BoundsType,
         leaderVars, netVars, handlerVars

LEMMA CountVotesType ==
    ASSUME TypeOK, NEW n \in Nodes, CountVotes(n)
    PROVE  TypeOK'
<1>1. ThreadsType'
  <2>1. ASSUME NEW place \in {"crown", "sleep"}, Goto(n, "election", place)
        PROVE  ThreadsType'
    BY <2>1, GotoType DEF TypeOK, Threads, Places, Replicating
  <2>2. QED  BY <2>1 DEF CountVotes
<1>2. NodesType'
  BY DEF TypeOK, NodesType, CountVotes
<1>3. QED
  BY <1>1, <1>2
     DEF TypeOK, CountVotes, LeadersType, NetworkType, HandlersType, BoundsType,
         leaderVars, netVars, handlerVars

LEMMA CrownType ==
    ASSUME TypeOK, NEW n \in Nodes, Crown(n)
    PROVE  TypeOK'
<1>1. ThreadsType'
  BY NextBuildType DEF TypeOK, Crown, Threads
<1>2. Len(log[n]) \in Nat
  BY LastTermType DEF TypeOK
<1>3. LeadersType'
  BY <1>2 DEF TypeOK, LeadersType, Crown
<1>4. QED
  BY <1>1, <1>3
     DEF TypeOK, Crown, NodesType, NetworkType, HandlersType, BoundsType,
         nodeVars, netVars, handlerVars

-----------------------------------------------------------------------------
(* Heartbeat and client threads, and replication *)

LEMMA BeatType ==
    ASSUME TypeOK, NEW n \in Nodes, Beat(n)
    PROVE  TypeOK'
<1>1. ThreadsType'
  BY NextBuildType DEF TypeOK, Beat, Threads
<1>2. QED
  BY <1>1
     DEF TypeOK, Beat, NodesType, LeadersType, NetworkType, HandlersType,
         BoundsType, nodeVars, leaderVars, netVars, handlerVars

LEMMA SubmitType ==
    ASSUME TypeOK, NEW n \in Nodes, Submit(n)
    PROVE  TypeOK'
<1>1. ThreadsType'
  BY GotoType DEF TypeOK, Submit, Threads, Places, Replicating
<1>2. BoundsType'
  BY SpendType DEF TypeOK, Submit
<1>3. QED
  BY <1>1, <1>2
     DEF TypeOK, Submit, NodesType, LeadersType, NetworkType, HandlersType,
         nodeVars, leaderVars, netVars, handlerVars

LEMMA AppendEntryType ==
    ASSUME TypeOK, NEW n \in Nodes, AppendEntry(n)
    PROVE  TypeOK'
<1>1. ThreadsType'
  BY NextBuildType DEF TypeOK, AppendEntry, Threads
<1>2. log[n] \in Seq(Nat) /\ term[n] \in Nat
  BY DEF TypeOK, NodesType
<1>3. Append(log[n], term[n]) \in Seq(Nat)
  BY <1>2, AppendProperties
<1>4. NodesType'
  BY <1>3 DEF TypeOK, NodesType, AppendEntry
<1>5. QED
  BY <1>1, <1>4
     DEF TypeOK, AppendEntry, LeadersType, NetworkType, HandlersType,
         BoundsType, leaderVars, netVars, handlerVars

LEMMA BuildType ==
    ASSUME TypeOK, NEW n \in Nodes, NEW t \in Threads, Build(n, t)
    PROVE  TypeOK'
<1> DEFINE p == peer[n][t]
           i == next[n][p]
           r == [type |-> "append", term |-> term[n], prevIndex |-> i - 1,
                 prevTerm |-> IF i > 1 THEN log[n][i - 1] ELSE 0,
                 entries |-> SubSeq(log[n], i, Len(log[n])),
                 commit |-> commit[n]]
<1>1. p \in Nodes
  BY DEF TypeOK, ThreadsType, Build, At, Replicating
<1>2. /\ log[n] \in Seq(Nat) /\ term[n] \in Nat /\ commit[n] \in Nat
      /\ i \in Nat \ {0} /\ Len(log[n]) \in Nat
  BY <1>1, LastTermType DEF TypeOK, NodesType, LeadersType
<1>3. CASE i > Len(log[n]) + 1
  <2>1. role' = [role EXCEPT ![n] = "terminated"] /\ UNCHANGED threadVars
    BY <1>3 DEF Build
  <2>2. ThreadsType'
    BY <2>1 DEF TypeOK, ThreadsType, threadVars
  <2>3. NodesType'
    BY <2>1 DEF TypeOK, NodesType, Build
  <2>4. QED
    BY <2>2, <2>3
       DEF TypeOK, Build, LeadersType, NetworkType, HandlersType, BoundsType,
           leaderVars, netVars, handlerVars
<1>4. CASE ~(i > Len(log[n]) + 1)
  <2>1. role' = role /\ Step(n, t, "send", p, r)
    BY <1>4 DEF Build
  <2>2. SubSeq(log[n], i, Len(log[n])) \in Seq(Nat)
    BY <1>2, SubSeqProperties
  <2>3. ASSUME i > 1 PROVE log[n][i - 1] \in Nat
    <3>1. i - 1 \in 1 .. Len(log[n])
      BY <1>2, <1>4, <2>3
    <3>2. QED  BY <1>2, <3>1, ElementOfSeq
  <2>4. r \in AppendRequest
    BY <1>2, <2>2, <2>3 DEF AppendRequest
  <2> HIDE DEF r
  <2>5. ThreadsType'
    BY <1>1, <2>1, <2>4, StepType DEF TypeOK, Replicating, Places, Request
  <2>6. QED
    BY <2>1, <2>5
       DEF TypeOK, Build, NodesType, LeadersType, NetworkType, HandlersType,
           BoundsType, leaderVars, netVars, handlerVars
<1>5. QED  BY <1>3, <1>4

\* Sending a request over a connection.
LEMMA PutCallType ==
    ASSUME NetworkType, NEW n \in Nodes, NEW p \in Nodes, NEW r \in Request,
           calls' = [calls EXCEPT ![n][p] = Append(@, r)], UNCHANGED replies
    PROVE  NetworkType'
<1>1. calls[n][p] \in Seq(Request)
  BY DEF NetworkType
<1>2. Append(calls[n][p], r) \in Seq(Request)
  BY <1>1, AppendProperties
<1>3. QED  BY <1>2 DEF NetworkType

LEMMA SendType ==
    ASSUME TypeOK, NEW n \in Nodes, NEW t \in Threads, Send(n, t)
    PROVE  TypeOK'
<1> DEFINE p == peer[n][t]
<1>1. /\ p \in Nodes
      /\ req[n][t] \in Request
      /\ pc[n][t] = "ask" => t = "election" /\ req[n]["election"] \in VoteRequest
  BY DEF TypeOK, ThreadsType, Send, Replicating, Request
<1>2. NetworkType'
  <2>1. CASE Up(p)
    BY <1>1, <2>1, PutCallType DEF TypeOK, Send
  <2>2. CASE ~Up(p)
    BY <2>2 DEF TypeOK, NetworkType, Send
  <2>3. QED  BY <2>1, <2>2
<1>3. ThreadsType'
  <2>1. CASE Up(p) /\ pc[n][t] = "ask"
    BY <2>1, GotoType DEF TypeOK, Send, Places, Replicating
  <2>2. CASE Up(p) /\ pc[n][t] = "send"
    BY <2>2, GotoType DEF TypeOK, Send, Places, Replicating
  <2>3. CASE ~Up(p) /\ pc[n][t] = "ask"
    BY <2>3, <1>1, NextAskType DEF TypeOK, Send
  <2>4. CASE ~Up(p) /\ pc[n][t] = "send"
    BY <2>4, NextBuildType DEF TypeOK, Send
  <2>5. QED  BY <2>1, <2>2, <2>3, <2>4 DEF Send
<1>4. QED
  BY <1>2, <1>3
     DEF TypeOK, Send, NodesType, LeadersType, HandlersType, BoundsType,
         nodeVars, leaderVars, handlerVars

LEMMA RpcFailsType ==
    ASSUME TypeOK, NEW n \in Nodes, NEW t \in Threads, RpcFails(n, t)
    PROVE  TypeOK'
<1>1. pc[n][t] = "poll" => req[n]["election"] \in VoteRequest
  BY DEF TypeOK, ThreadsType
<1>2. ThreadsType'
  <2>1. CASE pc[n][t] = "poll"
    BY <2>1, <1>1, NextAskType DEF TypeOK, RpcFails
  <2>2. CASE pc[n][t] = "wait"
    BY <2>2, NextBuildType DEF TypeOK, RpcFails
  <2>3. QED  BY <2>1, <2>2 DEF RpcFails
<1>3. BoundsType'
  BY SpendType DEF TypeOK, BoundsType, RpcFails
<1>4. QED
  BY <1>2, <1>3
     DEF TypeOK, RpcFails, NodesType, LeadersType, NetworkType, HandlersType,
         nodeVars, leaderVars, netVars, handlerVars

LEMMA AfterAckType ==
    ASSUME ThreadsType, NEW n \in Nodes, NEW t \in Threads, pc[n][t] = "wait",
           AfterAck(n, t)
    PROVE  ThreadsType'
<1>1. CASE commit[n] < Len(log[n])
  BY <1>1, GotoType DEF AfterAck, Places, Replicating
<1>2. CASE ~(commit[n] < Len(log[n]))
  BY <1>2, NextBuildType DEF AfterAck
<1>3. QED  BY <1>1, <1>2

\* Setting next_index and match_index of one peer.
LEMMA SetPeerType ==
    ASSUME LeadersType, NEW n \in Nodes, NEW p \in Nodes,
           NEW i \in Nat \ {0}, NEW j \in Nat,
           next' = [next EXCEPT ![n][p] = i],
           match' = [match EXCEPT ![n][p] = j],
           votes' = votes
    PROVE  LeadersType'
<1>1. [next[n] EXCEPT ![p] = i] \in [Nodes -> Nat \ {0}]
  BY DEF LeadersType
<1>2. [match[n] EXCEPT ![p] = j] \in [Nodes -> Nat]
  BY DEF LeadersType
<1>3. QED  BY <1>1, <1>2 DEF LeadersType

LEMMA AppendReplyType ==
    ASSUME TypeOK, NEW n \in Nodes, NEW t \in Threads, AppendReply(n, t)
    PROVE  TypeOK'
<1> DEFINE p == peer[n][t]
           m == Head(replies[n][p])
           r == req[n][t]
<1>1. p \in Nodes /\ r \in AppendRequest /\ pc[n][t] = "wait"
  BY DEF TypeOK, ThreadsType, AppendReply, At, Replicating
<1>2. NetworkType' /\ m \in Reply
  BY <1>1, TakeReplyType DEF TypeOK, AppendReply
<1>3. LastSent(r) \in Nat
  <2>1. r.prevIndex \in Nat /\ r.entries \in Seq(Nat)
    BY <1>1 DEF AppendRequest
  <2>2. QED  BY <2>1 DEF LastSent
<1>4. ThreadsType' /\ LeadersType'
  <2>1. CASE NextBuild(n, t) /\ UNCHANGED leaderVars
    BY <2>1, NextBuildType DEF TypeOK, LeadersType, leaderVars, AppendReply
  <2>2. CASE /\ next' = [next EXCEPT ![n][p] = LastSent(r) + 1]
             /\ match' = [match EXCEPT ![n][p] = LastSent(r)]
             /\ AfterAck(n, t)
    <3>1. ThreadsType'
      BY <2>2, <1>1, AfterAckType DEF TypeOK
    <3>2. LastSent(r) + 1 \in Nat \ {0}
      BY <1>3
    <3>3. votes' = votes
      BY DEF AppendReply
    <3>4. LeadersType'
      BY <2>2, <1>1, <1>3, <3>2, <3>3, SetPeerType DEF TypeOK
    <3>5. QED  BY <3>1, <3>4
  <2>3. CASE Step(n, t, "demote", p, [r EXCEPT !.term = m.term]) /\ UNCHANGED leaderVars
    <3> DEFINE s == [r EXCEPT !.term = m.term]
    <3>1. s \in AppendRequest
      BY <1>1, <1>2 DEF AppendRequest, Reply
    <3>2. Step(n, t, "demote", p, s)
      BY <2>3
    <3> HIDE DEF s
    <3>3. ThreadsType'
      BY <1>1, <3>1, <3>2, StepType DEF TypeOK, Replicating, Places, Request
    <3>4. QED  BY <2>3, <3>3 DEF TypeOK, LeadersType, leaderVars, AppendReply
  <2>4. CASE /\ next' = [next EXCEPT ![n][p] = BackUp(@)]
             /\ match' = match
             /\ NextBuild(n, t)
    <3>1. ThreadsType'
      BY <2>4, NextBuildType DEF TypeOK
    <3>2. next[n][p] \in Nat \ {0} /\ match[n][p] \in Nat
      BY <1>1 DEF TypeOK, LeadersType
    <3>3. BackUp(next[n][p]) \in Nat \ {0}
      BY <3>2 DEF BackUp
    <3>4. match' = [match EXCEPT ![n][p] = match[n][p]]
      BY <2>4, <1>1 DEF TypeOK, LeadersType
    <3>5. votes' = votes
      BY DEF AppendReply
    <3> DEFINE i == BackUp(next[n][p])
    <3>6. next' = [next EXCEPT ![n][p] = i]
      BY <2>4
    <3> HIDE DEF i
    <3>7. i \in Nat \ {0}
      BY <3>3 DEF i
    <3>8. LeadersType'
      BY <1>1, <3>2, <3>4, <3>5, <3>6, <3>7, SetPeerType DEF TypeOK
    <3>9. QED  BY <3>1, <3>8
  <2>5. QED  BY <2>1, <2>2, <2>3, <2>4 DEF AppendReply
<1>5. QED
  BY <1>2, <1>4
     DEF TypeOK, AppendReply, NodesType, HandlersType, BoundsType, nodeVars,
         handlerVars

LEMMA DemoteType ==
    ASSUME TypeOK, NEW n \in Nodes, NEW t \in Threads, Demote(n, t)
    PROVE  TypeOK'
<1>1. req[n][t].term \in Nat
  BY DEF TypeOK, ThreadsType, Demote, At, AppendRequest
<1>2. NodesType'
  BY <1>1, BecomeFollowerType DEF TypeOK, Demote
<1>3. ThreadsType'
  BY NextBuildType DEF TypeOK, Demote
<1>4. QED
  BY <1>2, <1>3
     DEF TypeOK, Demote, LeadersType, NetworkType, HandlersType, BoundsType,
         leaderVars, netVars, handlerVars

-----------------------------------------------------------------------------
(* Handlers *)

\* A handler that moves to a place with the request the place needs.
LEMMA HandlerGotoType ==
    ASSUME HandlersType, NEW p \in Nodes, NEW n \in Nodes,
           NEW place \in {"idle", "adopt", "check", "grant", "concede", "store"},
           NEW r \in Request \cup {NoRequest},
           place \in {"adopt", "check"} => r \in Request,
           place = "grant" => r \in VoteRequest,
           place \in {"concede", "store"} => r \in AppendRequest,
           HandlerGoto(p, n, place, r)
    PROVE  HandlersType'
<1>1. /\ hpc' \in [Nodes -> [Nodes ->
                      {"idle", "adopt", "check", "grant", "concede", "store"}]]
      /\ hreq' \in [Nodes -> [Nodes -> Request \cup {NoRequest}]]
  BY DEF HandlersType, HandlerGoto
<1>2. ASSUME NEW q \in Nodes, NEW m \in Nodes, q = p /\ m = n
      PROVE  hpc'[q][m] = place /\ hreq'[q][m] = r
  BY <1>2 DEF HandlersType, HandlerGoto
<1>3. ASSUME NEW q \in Nodes, NEW m \in Nodes, ~(q = p /\ m = n)
      PROVE  hpc'[q][m] = hpc[q][m] /\ hreq'[q][m] = hreq[q][m]
  BY <1>3 DEF HandlersType, HandlerGoto
<1>4. ASSUME NEW q \in Nodes, NEW m \in Nodes
      PROVE  /\ hpc'[q][m] \in {"adopt", "check"} => hreq'[q][m] \in Request
             /\ hpc'[q][m] = "grant" => hreq'[q][m] \in VoteRequest
             /\ hpc'[q][m] \in {"concede", "store"} => hreq'[q][m] \in AppendRequest
  <2>1. CASE q = p /\ m = n
    BY <2>1, <1>2
  <2>2. CASE ~(q = p /\ m = n)
    BY <2>2, <1>3 DEF HandlersType
  <2>3. QED  BY <2>1, <2>2
<1>5. QED  BY <1>1, <1>4 DEF HandlersType

\* An answer goes into the stream and the handler is idle again.
LEMMA RespondType ==
    ASSUME NEW p \in Nodes, NEW n \in Nodes, NEW type \in {"vote", "append"},
           NEW k \in Nat, NEW ok \in BOOLEAN, HandlersType,
           replies \in [Nodes -> [Nodes -> Seq(Reply)]],
           Respond(p, n, type, k, ok)
    PROVE  /\ HandlersType'
           /\ replies' \in [Nodes -> [Nodes -> Seq(Reply)]]
<1> DEFINE m == [type |-> type, term |-> k, ok |-> ok]
<1>1. m \in Reply
  BY DEF Reply
<1>2. replies[p][n] \in Seq(Reply)
  OBVIOUS
<1>3. replies' = [replies EXCEPT ![p][n] = Append(@, m)]
  BY DEF Respond
<1> HIDE DEF m
<1>4. Append(replies[p][n], m) \in Seq(Reply)
  BY <1>1, <1>2, AppendProperties
<1>5. HandlersType'
  BY HandlerGotoType DEF Respond
<1>6. QED  BY <1>3, <1>4, <1>5

LEMMA ReceiveType ==
    ASSUME TypeOK, NEW p \in Nodes, NEW n \in Nodes, Receive(p, n)
    PROVE  TypeOK'
<1> DEFINE r == Head(calls[p][n])
<1>1. calls[p][n] \in Seq(Request) /\ calls[p][n] # <<>>
  BY DEF TypeOK, NetworkType, Receive
<1>2. r \in Request /\ Tail(calls[p][n]) \in Seq(Request)
  BY <1>1, HeadTailProperties
<1>3. r.type \in {"vote", "append"} /\ term[n] \in Nat
  BY <1>2 DEF TypeOK, NodesType, Request, VoteRequest, AppendRequest
<1>4. calls' \in [Nodes -> [Nodes -> Seq(Request)]]
  <2>1. calls' = [calls EXCEPT ![p][n] = Tail(@)]
    BY DEF Receive
  <2>2. QED  BY <1>2, <2>1 DEF TypeOK, NetworkType
<1>5. HandlersType' /\ replies' \in [Nodes -> [Nodes -> Seq(Reply)]]
  <2>1. CASE Respond(p, n, r.type, term[n], FALSE)
    BY <2>1, <1>3, RespondType DEF TypeOK, NetworkType
  <2>2. ASSUME NEW place \in {"adopt", "check"}, HandlerGoto(p, n, place, r),
               replies' = replies
        PROVE  HandlersType' /\ replies' \in [Nodes -> [Nodes -> Seq(Reply)]]
    BY <2>2, <1>2, HandlerGotoType DEF TypeOK, NetworkType
  <2>3. QED  BY <2>1, <2>2 DEF Receive
<1>6. QED
  BY <1>4, <1>5
     DEF TypeOK, Receive, NodesType, LeadersType, ThreadsType, NetworkType,
         BoundsType, nodeVars, leaderVars, threadVars

LEMMA AdoptType ==
    ASSUME TypeOK, NEW p \in Nodes, NEW n \in Nodes, Adopt(p, n)
    PROVE  TypeOK'
<1>1. hreq[p][n] \in Request
  BY DEF TypeOK, HandlersType, Adopt, Handling
<1>2. hreq[p][n].term \in Nat
  BY <1>1 DEF Request, VoteRequest, AppendRequest
<1>3. NodesType'
  BY <1>2, BecomeFollowerType DEF TypeOK, Adopt
<1>4. HandlersType'
  BY <1>1, HandlerGotoType DEF TypeOK, Adopt
<1>5. QED
  BY <1>3, <1>4
     DEF TypeOK, Adopt, LeadersType, ThreadsType, NetworkType, BoundsType,
         leaderVars, threadVars, netVars

LEMMA CheckVoteType ==
    ASSUME TypeOK, NEW p \in Nodes, NEW n \in Nodes, CheckVote(p, n)
    PROVE  TypeOK'
<1> DEFINE r == hreq[p][n]
<1>1. r \in VoteRequest
  BY DEF TypeOK, HandlersType, CheckVote, Handling, Request, AppendRequest
<1>2. r.term \in Nat /\ r \in Request
  BY <1>1 DEF VoteRequest, Request
<1>3. HandlersType' /\ replies' \in [Nodes -> [Nodes -> Seq(Reply)]]
  <2>1. CASE HandlerGoto(p, n, "grant", r) /\ replies' = replies
    BY <2>1, <1>1, <1>2, HandlerGotoType DEF TypeOK, NetworkType
  <2>2. CASE Respond(p, n, "vote", r.term, FALSE)
    BY <2>2, <1>2, RespondType DEF TypeOK, NetworkType
  <2>3. QED  BY <2>1, <2>2 DEF CheckVote
<1>4. QED
  BY <1>3
     DEF TypeOK, CheckVote, NodesType, LeadersType, ThreadsType, NetworkType,
         BoundsType, nodeVars, leaderVars, threadVars

LEMMA GrantType ==
    ASSUME TypeOK, NEW p \in Nodes, NEW n \in Nodes, Grant(p, n)
    PROVE  TypeOK'
<1>1. hreq[p][n].term \in Nat
  BY DEF TypeOK, HandlersType, Grant, Handling, VoteRequest
<1>2. HandlersType' /\ replies' \in [Nodes -> [Nodes -> Seq(Reply)]]
  BY <1>1, RespondType DEF TypeOK, NetworkType, Grant
<1>3. NodesType'
  BY DEF TypeOK, NodesType, Grant
<1>4. QED
  BY <1>2, <1>3
     DEF TypeOK, Grant, LeadersType, ThreadsType, NetworkType, BoundsType,
         leaderVars, threadVars

LEMMA SeeLeaderType ==
    ASSUME TypeOK, NEW p \in Nodes, NEW n \in Nodes, SeeLeader(p, n)
    PROVE  TypeOK'
<1>1. hreq[p][n] \in AppendRequest
  BY DEF TypeOK, HandlersType, SeeLeader, Handling, Request, VoteRequest
<1>2. HandlersType'
  BY <1>1, HandlerGotoType DEF TypeOK, SeeLeader, Request
<1>3. QED
  BY <1>2
     DEF TypeOK, SeeLeader, NodesType, LeadersType, ThreadsType, NetworkType,
         BoundsType, nodeVars, leaderVars, threadVars, netVars

LEMMA ConcedeType ==
    ASSUME TypeOK, NEW p \in Nodes, NEW n \in Nodes, Concede(p, n)
    PROVE  TypeOK'
<1>1. hreq[p][n] \in AppendRequest
  BY DEF TypeOK, HandlersType, Concede, Handling
<1>2. hreq[p][n].term \in Nat
  BY <1>1 DEF AppendRequest
<1>3. NodesType'
  BY <1>2, BecomeFollowerType DEF TypeOK, Concede
<1>4. HandlersType'
  BY <1>1, HandlerGotoType DEF TypeOK, Concede, Request
<1>5. QED
  BY <1>3, <1>4
     DEF TypeOK, Concede, LeadersType, ThreadsType, NetworkType, BoundsType,
         leaderVars, threadVars, netVars

LEMMA MergedType ==
    ASSUME NEW l \in Seq(Nat), NEW es \in Seq(Nat), NEW prev \in Nat,
           prev <= Len(l)
    PROVE  Merged(l, prev, es) \in Seq(Nat)
<1>1. SubSeq(l, 1, prev) \in Seq(Nat)
  BY SubSeqProperties
<1>2. SubSeq(l, 1, prev) \o es \in Seq(Nat)
  BY <1>1, ConcatProperties
<1>3. QED  BY <1>2 DEF Merged

LEMMA StoreType ==
    ASSUME TypeOK, NEW p \in Nodes, NEW n \in Nodes, Store(p, n)
    PROVE  TypeOK'
<1> DEFINE r == hreq[p][n]
           gap == r.prevIndex > Len(log[n])
           conflict == r.prevIndex > 0 /\ ~gap /\ log[n][r.prevIndex] # r.prevTerm
           stored == IF gap THEN log[n]
                     ELSE IF conflict THEN SubSeq(log[n], 1, r.prevIndex - 1)
                     ELSE Merged(log[n], r.prevIndex, r.entries)
           committed == IF gap \/ conflict \/ r.commit <= commit[n] THEN commit[n]
                        ELSE Smaller(r.commit, Len(log'[n]))
<1>1. r \in AppendRequest
  BY DEF TypeOK, HandlersType, Store, Handling, Request, VoteRequest
<1>2. /\ r.term \in Nat
      /\ r.prevIndex \in Nat
      /\ r.entries \in Seq(Nat)
      /\ r.commit \in Nat
  BY <1>1 DEF AppendRequest
<1>3. log[n] \in Seq(Nat) /\ commit[n] \in Nat
  BY DEF TypeOK, NodesType
<1>4. stored \in Seq(Nat)
  <2>1. CASE gap
    BY <2>1, <1>3
  <2>2. CASE ~gap /\ conflict
    <3>1. stored = SubSeq(log[n], 1, r.prevIndex - 1)
      BY <2>2
    <3>2. r.prevIndex - 1 <= Len(log[n]) /\ r.prevIndex - 1 \in Nat
      <4>1. Len(log[n]) \in Nat
        BY <1>3, LenProperties
      <4>2. QED  BY <2>2, <1>2, <4>1
    <3>3. SubSeq(log[n], 1, r.prevIndex - 1) \in Seq(Nat)
      BY <1>3, <3>2, SubSeqProperties
    <3>4. QED  BY <3>1, <3>3
  <2>3. CASE ~gap /\ ~conflict
    <3>1. stored = Merged(log[n], r.prevIndex, r.entries)
      BY <2>3
    <3>2. r.prevIndex <= Len(log[n])
      BY <2>3, <1>2, <1>3, LenProperties
    <3>3. QED  BY <1>2, <1>3, <3>1, <3>2, MergedType
  <2>4. QED  BY <2>1, <2>2, <2>3
<1>5. log' = [log EXCEPT ![n] = stored] /\ commit' = [commit EXCEPT ![n] = committed]
  BY DEF Store
<1>6. Respond(p, n, "append", r.term, ~gap /\ ~conflict)
  BY DEF Store
<1>7. UNCHANGED <<role, term, vote, leaderVars, votes, threadVars, calls, bounds>>
  BY DEF Store
<1> HIDE DEF stored
<1>8. log' \in [Nodes -> Seq(Nat)] /\ log'[n] = stored
  BY <1>4, <1>5 DEF TypeOK, NodesType
<1>9. committed \in Nat
  <2>1. Len(log'[n]) \in Nat
    BY <1>4, <1>8, LenProperties
  <2>2. QED  BY <1>2, <1>3, <2>1 DEF Smaller
<1>10. HandlersType' /\ replies' \in [Nodes -> [Nodes -> Seq(Reply)]]
  <2> DEFINE ok == ~gap /\ ~conflict
  <2>1. ok \in BOOLEAN /\ Respond(p, n, "append", r.term, ok)
    BY <1>6
  <2> HIDE DEF ok
  <2>2. HandlersType /\ replies \in [Nodes -> [Nodes -> Seq(Reply)]]
    BY DEF TypeOK, NetworkType
  <2>3. QED  BY <1>2, <2>1, <2>2, RespondType
<1> HIDE DEF committed
<1>11. NodesType'
  BY <1>5, <1>7, <1>8, <1>9 DEF TypeOK, NodesType
<1>12. QED
  BY <1>7, <1>10, <1>11
     DEF TypeOK, LeadersType, ThreadsType, NetworkType, BoundsType, leaderVars,
         threadVars

-----------------------------------------------------------------------------
(* The specification *)

LEMMA CrashType ==
    ASSUME TypeOK, NEW n \in Nodes, Crash(n)
    PROVE  TypeOK'
<1>1. NodesType'
  BY DEF TypeOK, NodesType, Crash
<1>2. BoundsType'
  BY SpendType DEF TypeOK, Crash
<1>3. QED
  BY <1>1, <1>2
     DEF TypeOK, Crash, LeadersType, ThreadsType, NetworkType, HandlersType,
         leaderVars, threadVars, netVars, handlerVars

LEMMA InitType ==
    Init => TypeOK
<1> SUFFICES ASSUME Init PROVE TypeOK
  OBVIOUS
<1>1. NodesType /\ LeadersType
  BY EmptySeq DEF Init, NodesType, LeadersType, None
<1>2. ThreadsType
  BY DEF Init, ThreadsType, Places, Replicating, None
<1>3. NetworkType /\ HandlersType
  BY EmptySeq DEF Init, NetworkType, HandlersType
<1>4. BoundsType
  BY DEF Init, BoundsType, Bounds
<1>5. QED  BY <1>1, <1>2, <1>3, <1>4 DEF TypeOK

LEMMA NextType ==
    ASSUME TypeOK, [Next]_vars
    PROVE  TypeOK'
<1>1. CASE UNCHANGED vars
  BY <1>1
     DEF vars, nodeVars, leaderVars, threadVars, netVars, handlerVars, TypeOK,
         NodesType, LeadersType, ThreadsType, NetworkType, HandlersType, BoundsType
<1>2. ASSUME NEW n \in Nodes, Election(n)
      PROVE  TypeOK'
  BY <1>2, BumpTermType, VoteSelfType, SnapshotType, ListPeersType,
     VoteReplyType, StepDownType, CountVotesType, CrownType DEF Election
<1>3. ASSUME NEW n \in Nodes, NEW t \in Threads, Replication(n, t)
      PROVE  TypeOK'
  BY <1>3, BuildType, SendType, AppendReplyType, DemoteType DEF Replication
<1>4. ASSUME NEW p \in Nodes, NEW n \in Nodes, Handler(p, n)
      PROVE  TypeOK'
  BY <1>4, ReceiveType, AdoptType, CheckVoteType, GrantType, SeeLeaderType,
     ConcedeType, StoreType DEF Handler
<1>5. ASSUME NEW n \in Nodes,
             Timeout(n) \/ Beat(n) \/ Submit(n) \/ AppendEntry(n) \/ Crash(n)
      PROVE  TypeOK'
  BY <1>5, TimeoutType, BeatType, SubmitType, AppendEntryType, CrashType
<1>6. ASSUME NEW n \in Nodes, NEW t \in Threads, RpcFails(n, t)
      PROVE  TypeOK'
  BY <1>6, RpcFailsType
<1>7. QED  BY <1>1, <1>2, <1>3, <1>4, <1>5, <1>6 DEF Next

\* Every variable of the consensus keeps its type, and a thread or a handler
\* that is about to use a request or a peer has one of the right kind.
THEOREM TypeCorrect == Spec => []TypeOK
<1>1. Init => TypeOK
  BY InitType
<1>2. TypeOK /\ [Next]_vars => TypeOK'
  BY NextType
<1>3. QED  BY <1>1, <1>2, PTL DEF Spec
-----------------------------------------------------------------------------
(* Nothing is ever committed *)

\* The inductive invariant: a commit index other than 0 comes out of a request
\* that carries one, which comes out of a commit index other than 0.
Quiet(r) == r.type = "append" => r.commit = 0

QuietThreads == \A n \in Nodes, t \in Threads : Quiet(req[n][t])

QuietCalls == \A n, p \in Nodes : \A i \in DOMAIN calls[n][p] : Quiet(calls[n][p][i])

QuietHandlers == \A p, n \in Nodes : Quiet(hreq[p][n])

CommitInv ==
    /\ NothingCommitted
    /\ QuietThreads
    /\ QuietCalls
    /\ QuietHandlers

\* A thread moves with a request that commits nothing.
LEMMA StepQuiet ==
    ASSUME TypeOK, CommitInv, NEW n \in Nodes, NEW t \in Threads,
           NEW place, NEW q, NEW r, Quiet(r), Step(n, t, place, q, r)
    PROVE  QuietThreads'
<1> SUFFICES ASSUME NEW m \in Nodes, NEW u \in Threads PROVE Quiet(req'[m][u])
  BY DEF QuietThreads, Quiet
<1>1. CASE m = n /\ u = t
  BY <1>1 DEF Step, TypeOK, ThreadsType
<1>2. CASE ~(m = n /\ u = t)
  <2>1. req'[m][u] = req[m][u]
    BY <1>2 DEF Step, TypeOK, ThreadsType
  <2>2. QED  BY <2>1 DEF CommitInv, QuietThreads
<1>3. QED  BY <1>1, <1>2

LEMMA GotoQuiet ==
    ASSUME TypeOK, CommitInv, NEW n \in Nodes, NEW t \in Threads,
           NEW place, Goto(n, t, place)
    PROVE  QuietThreads'
BY StepQuiet DEF Goto, CommitInv, QuietThreads

LEMMA NextAskQuiet ==
    ASSUME TypeOK, CommitInv, NEW n \in Nodes, NextAsk(n)
    PROVE  QuietThreads'
<1> DEFINE q == PeerAfter(n, peer[n]["election"])
           r == IF q = None THEN NoRequest ELSE req[n]["election"]
           place == IF q = None THEN "count" ELSE "ask"
<1>1. Quiet(r)
  BY DEF CommitInv, QuietThreads, Quiet, NoRequest, Threads
<1>2. Step(n, "election", place, q, r)
  BY DEF NextAsk
<1> HIDE DEF q, r, place
<1>3. QED  BY <1>1, <1>2, StepQuiet DEF Threads

LEMMA NextBuildQuiet ==
    ASSUME TypeOK, CommitInv, NEW n \in Nodes, NEW t \in Threads, NextBuild(n, t)
    PROVE  QuietThreads'
<1> DEFINE q == PeerAfter(n, peer[n][t])
           place == IF q = None THEN "sleep" ELSE "build"
<1>1. Quiet(NoRequest)
  BY DEF Quiet, NoRequest
<1>2. Step(n, t, place, q, NoRequest)
  BY DEF NextBuild
<1> HIDE DEF q, place
<1>3. QED  BY <1>1, <1>2, StepQuiet

\* A handler moves with a request that commits nothing.
LEMMA HandlerQuiet ==
    ASSUME TypeOK, CommitInv, NEW p \in Nodes, NEW n \in Nodes,
           NEW place, NEW r, Quiet(r), HandlerGoto(p, n, place, r)
    PROVE  QuietHandlers'
<1> SUFFICES ASSUME NEW q \in Nodes, NEW m \in Nodes PROVE Quiet(hreq'[q][m])
  BY DEF QuietHandlers, Quiet
<1>1. CASE q = p /\ m = n
  BY <1>1 DEF HandlerGoto, TypeOK, HandlersType
<1>2. CASE ~(q = p /\ m = n)
  <2>1. hreq'[q][m] = hreq[q][m]
    BY <1>2 DEF HandlerGoto, TypeOK, HandlersType
  <2>2. QED  BY <2>1 DEF CommitInv, QuietHandlers
<1>3. QED  BY <1>1, <1>2

LEMMA RespondQuiet ==
    ASSUME TypeOK, CommitInv, NEW p \in Nodes, NEW n \in Nodes,
           NEW type, NEW k, NEW ok, Respond(p, n, type, k, ok)
    PROVE  QuietHandlers'
BY HandlerQuiet DEF Respond, Quiet, NoRequest

\* The steps of the election thread.
LEMMA ElectionQuiet ==
    ASSUME TypeOK, CommitInv, NEW n \in Nodes, Timeout(n) \/ Election(n)
    PROVE  QuietThreads'
<1> "election" \in Threads
  BY DEF Threads
<1>1. CASE Timeout(n)
  BY <1>1, GotoQuiet DEF Timeout
<1>2. CASE BumpTerm(n)
  BY <1>2, GotoQuiet DEF BumpTerm
<1>3. CASE VoteSelf(n)
  BY <1>3, GotoQuiet DEF VoteSelf
<1>4. CASE Snapshot(n)
  <2> DEFINE r == [type |-> "vote", term |-> term[n], lastIndex |-> Len(log[n]),
                   lastTerm |-> LastTerm(n)]
  <2>1. Quiet(r)
    BY DEF Quiet
  <2>2. Step(n, "election", "list", None, r)
    BY <1>4 DEF Snapshot
  <2> HIDE DEF r
  <2>3. QED  BY <2>1, <2>2, StepQuiet
<1>5. CASE ListPeers(n)
  BY <1>5, NextAskQuiet DEF ListPeers
<1>6. CASE VoteReply(n)
  <2> DEFINE r == [req[n]["election"] EXCEPT
                       !.term = Head(replies[n][peer[n]["election"]]).term]
  <2>1. CASE Step(n, "election", "stepdown", None, r)
    <3>1. req[n]["election"] \in VoteRequest
      BY <1>6 DEF TypeOK, ThreadsType, VoteReply, At
    <3>2. r.type = "vote"
      BY <3>1 DEF VoteRequest
    <3>3. Quiet(r)
      BY <3>2 DEF Quiet
    <3> HIDE DEF r
    <3>4. QED  BY <2>1, <3>3, StepQuiet
  <2>2. CASE NextAsk(n)
    BY <2>2, NextAskQuiet
  <2>3. QED  BY <1>6, <2>1, <2>2 DEF VoteReply
<1>7. CASE StepDown(n)
  BY <1>7, StepQuiet DEF StepDown, Quiet, NoRequest
<1>8. CASE CountVotes(n)
  BY <1>8, GotoQuiet DEF CountVotes
<1>9. CASE Crown(n)
  BY <1>9, NextBuildQuiet DEF Crown
<1>10. QED
  BY <1>1, <1>2, <1>3, <1>4, <1>5, <1>6, <1>7, <1>8, <1>9 DEF Election

\* The steps of replication, by whatever thread: the request that is built
\* carries the commit index of the sender, which is 0.
LEMMA ReplicationQuiet ==
    ASSUME TypeOK, CommitInv, NEW n \in Nodes, NEW t \in Threads,
           Build(n, t) \/ AppendReply(n, t) \/ Demote(n, t)
    PROVE  QuietThreads'
<1>1. CASE Build(n, t)
  <2> DEFINE i == next[n][peer[n][t]]
             r == [type |-> "append", term |-> term[n], prevIndex |-> i - 1,
                   prevTerm |-> IF i > 1 THEN log[n][i - 1] ELSE 0,
                   entries |-> SubSeq(log[n], i, Len(log[n])),
                   commit |-> commit[n]]
  <2>1. Quiet(r)
    BY DEF Quiet, CommitInv, NothingCommitted
  <2>2. CASE Step(n, t, "send", peer[n][t], r)
    <3> HIDE DEF r
    <3>1. QED  BY <2>1, <2>2, StepQuiet
  <2>3. CASE UNCHANGED threadVars
    BY <2>3 DEF threadVars, CommitInv, QuietThreads, Quiet
  <2>4. QED  BY <1>1, <2>2, <2>3 DEF Build
<1>2. CASE AppendReply(n, t)
  <2> DEFINE p == peer[n][t]
             r == [req[n][t] EXCEPT !.term = Head(replies[n][p]).term]
  <2>1. CASE NextBuild(n, t)
    BY <2>1, NextBuildQuiet
  <2>2. CASE AfterAck(n, t)
    BY <2>2, NextBuildQuiet, GotoQuiet DEF AfterAck
  <2>3. CASE Step(n, t, "demote", p, r)
    <3>1. req[n][t] \in AppendRequest /\ Quiet(req[n][t])
      BY <1>2 DEF TypeOK, ThreadsType, AppendReply, At, CommitInv, QuietThreads
    <3>2. r.type = req[n][t].type /\ r.commit = req[n][t].commit
      BY <3>1 DEF AppendRequest
    <3>3. Quiet(r)
      BY <3>1, <3>2 DEF Quiet
    <3> HIDE DEF r
    <3>4. QED  BY <2>3, <3>3, StepQuiet
  <2>4. QED  BY <1>2, <2>1, <2>2, <2>3 DEF AppendReply
<1>3. CASE Demote(n, t)
  BY <1>3, NextBuildQuiet DEF Demote
<1>4. QED  BY <1>1, <1>2, <1>3

\* An element of Append(s, e) is e or an element of s.
LEMMA AppendElement ==
    ASSUME NEW S, NEW s \in Seq(S), NEW e \in S, NEW i \in DOMAIN Append(s, e)
    PROVE  \/ Append(s, e)[i] = e
           \/ i \in DOMAIN s /\ Append(s, e)[i] = s[i]
<1>1. Len(s) \in Nat /\ DOMAIN s = 1 .. Len(s)
  BY LenProperties
<1>2. Append(s, e) \in Seq(S) /\ Len(Append(s, e)) = Len(s) + 1
  BY AppendProperties
<1>3. i \in 1 .. Len(s) + 1
  BY <1>2, LenProperties
<1>4. CASE i = Len(s) + 1
  BY <1>4, AppendProperties
<1>5. CASE i # Len(s) + 1
  <2>1. i \in 1 .. Len(s)
    BY <1>1, <1>3, <1>5
  <2>2. Append(s, e)[i] = s[i]
    BY <2>1, AppendProperties
  <2>3. QED  BY <1>1, <2>1, <2>2
<1>6. QED  BY <1>4, <1>5

LEMMA SendQuiet ==
    ASSUME TypeOK, CommitInv, NEW n \in Nodes, NEW t \in Threads, Send(n, t)
    PROVE  QuietThreads' /\ QuietCalls'
<1> DEFINE p == peer[n][t]
<1>1. p \in Nodes /\ req[n][t] \in Request
  BY DEF TypeOK, ThreadsType, Send, Replicating, Request, At
<1>2. QuietThreads'
  <2>1. CASE pc[n][t] = "ask"
    <3>1. t = "election"
      BY <2>1 DEF TypeOK, ThreadsType
    <3>2. QED  BY <2>1, <3>1, GotoQuiet, NextAskQuiet DEF Send
  <2>2. CASE pc[n][t] # "ask"
    BY <2>2, GotoQuiet, NextBuildQuiet DEF Send
  <2>3. QED  BY <2>1, <2>2
<1>3. QuietCalls'
  <2>1. CASE calls' = calls
    BY <2>1 DEF CommitInv, QuietCalls, Quiet
  <2>2. CASE calls' = [calls EXCEPT ![n][p] = Append(@, req[n][t])]
    <3> SUFFICES ASSUME NEW m \in Nodes, NEW q \in Nodes,
                        NEW i \in DOMAIN calls'[m][q]
                 PROVE  Quiet(calls'[m][q][i])
      BY DEF QuietCalls, Quiet
    <3>1. CASE m = n /\ q = p
      <4>1. calls'[m][q] = Append(calls[n][p], req[n][t])
        BY <2>2, <3>1 DEF TypeOK, NetworkType
      <4>2. calls[n][p] \in Seq(Request)
        BY <1>1 DEF TypeOK, NetworkType
      <4>3. \/ calls'[m][q][i] = req[n][t]
            \/ i \in DOMAIN calls[n][p] /\ calls'[m][q][i] = calls[n][p][i]
        BY <1>1, <4>1, <4>2, AppendElement
      <4>4. QED  BY <1>1, <4>3 DEF CommitInv, QuietCalls, QuietThreads
    <3>2. CASE ~(m = n /\ q = p)
      <4>1. calls'[m][q] = calls[m][q]
        BY <2>2, <3>2 DEF TypeOK, NetworkType
      <4>2. QED  BY <4>1 DEF CommitInv, QuietCalls
    <3>3. QED  BY <3>1, <3>2
  <2>3. QED  BY <2>1, <2>2 DEF Send
<1>4. QED  BY <1>2, <1>3

LEMMA RpcFailsQuiet ==
    ASSUME TypeOK, CommitInv, NEW n \in Nodes, NEW t \in Threads, RpcFails(n, t)
    PROVE  QuietThreads'
<1>1. CASE pc[n][t] = "poll"
  BY <1>1, NextAskQuiet DEF RpcFails
<1>2. CASE pc[n][t] # "poll"
  BY <1>2, NextBuildQuiet DEF RpcFails
<1>3. QED  BY <1>1, <1>2

\* The message at the head of a connection is handled.
LEMMA ReceiveQuiet ==
    ASSUME TypeOK, CommitInv, NEW p \in Nodes, NEW n \in Nodes, Receive(p, n)
    PROVE  QuietCalls' /\ QuietHandlers'
<1> DEFINE r == Head(calls[p][n])
<1>1. calls[p][n] \in Seq(Request) /\ calls[p][n] # <<>>
  BY DEF TypeOK, NetworkType, Receive
<1>2. Quiet(r)
  <2>1. 1 \in DOMAIN calls[p][n] /\ r = calls[p][n][1]
    BY <1>1, HeadTailProperties, EmptySeq, LenProperties
  <2>2. QED  BY <2>1 DEF CommitInv, QuietCalls
<1>3. QuietHandlers'
  <2>1. CASE Respond(p, n, r.type, term[n], FALSE)
    BY <2>1, RespondQuiet
  <2>2. ASSUME NEW place, HandlerGoto(p, n, place, r)
        PROVE  QuietHandlers'
    <3> HIDE DEF r
    <3>1. QED  BY <1>2, <2>2, HandlerQuiet
  <2>3. QED  BY <2>1, <2>2 DEF Receive
<1>4. QuietCalls'
  <2> SUFFICES ASSUME NEW m \in Nodes, NEW q \in Nodes,
                      NEW i \in DOMAIN calls'[m][q]
               PROVE  Quiet(calls'[m][q][i])
    BY DEF QuietCalls, Quiet
  <2>1. CASE m = p /\ q = n
    <3>1. calls'[m][q] = Tail(calls[p][n])
      BY <2>1 DEF Receive, TypeOK, NetworkType
    <3>2. i + 1 \in DOMAIN calls[p][n] /\ calls'[m][q][i] = calls[p][n][i + 1]
      BY <1>1, <3>1, HeadTailProperties, LenProperties
    <3>3. QED  BY <3>2 DEF CommitInv, QuietCalls
  <2>2. CASE ~(m = p /\ q = n)
    <3>1. calls'[m][q] = calls[m][q]
      BY <2>2 DEF Receive, TypeOK, NetworkType
    <3>2. QED  BY <3>1 DEF CommitInv, QuietCalls
  <2>3. QED  BY <2>1, <2>2
<1>5. QED  BY <1>3, <1>4

\* A follower commits what the request says, which is nothing.
LEMMA StoreQuiet ==
    ASSUME TypeOK, CommitInv, NEW p \in Nodes, NEW n \in Nodes, Store(p, n)
    PROVE  NothingCommitted' /\ QuietHandlers'
<1> DEFINE r == hreq[p][n]
<1>1. r \in AppendRequest
  BY DEF TypeOK, HandlersType, Store, Handling, Request, VoteRequest
<1>2. r.commit = 0 /\ commit[n] = 0
  BY <1>1 DEF AppendRequest, CommitInv, QuietHandlers, Quiet, NothingCommitted
<1>3. commit' = [commit EXCEPT ![n] = commit[n]]
  BY <1>2 DEF Store
<1>4. NothingCommitted'
  BY <1>3 DEF TypeOK, NodesType, CommitInv, NothingCommitted
<1>5. QuietHandlers'
  BY RespondQuiet DEF Store
<1>6. QED  BY <1>4, <1>5

LEMMA HandlersQuiet ==
    ASSUME TypeOK, CommitInv, NEW p \in Nodes, NEW n \in Nodes, Handler(p, n)
    PROVE  CommitInv'
<1> DEFINE r == hreq[p][n]
<1>1. Quiet(r)
  BY DEF CommitInv, QuietHandlers
<1> HIDE DEF r
<1>2. CASE Receive(p, n)
  <2>1. UNCHANGED <<commit, req>>
    BY <1>2 DEF Receive, nodeVars, threadVars
  <2>2. QED
    BY <1>2, <2>1, ReceiveQuiet
       DEF CommitInv, NothingCommitted, QuietThreads, Quiet
<1>3. CASE Store(p, n)
  <2>1. UNCHANGED <<calls, req>>
    BY <1>3 DEF Store, threadVars
  <2>2. QED
    BY <1>3, <2>1, StoreQuiet DEF CommitInv, QuietThreads, QuietCalls, Quiet
<1>4. CASE \/ Adopt(p, n) \/ CheckVote(p, n) \/ Grant(p, n)
           \/ SeeLeader(p, n) \/ Concede(p, n)
  <2>1. UNCHANGED <<commit, calls, req>>
    BY <1>4
       DEF Adopt, CheckVote, Grant, SeeLeader, Concede, BecomeFollower,
           nodeVars, threadVars, netVars
  <2>2. QuietHandlers'
    BY <1>1, <1>4, HandlerQuiet, RespondQuiet
       DEF r, Adopt, CheckVote, Grant, SeeLeader, Concede
  <2>3. QED
    BY <2>1, <2>2 DEF CommitInv, NothingCommitted, QuietThreads, QuietCalls, Quiet
<1>5. QED  BY <1>2, <1>3, <1>4 DEF Handler

LEMMA NextQuiet ==
    ASSUME TypeOK, CommitInv, [Next]_vars
    PROVE  CommitInv'
<1>1. CASE UNCHANGED vars
  BY <1>1
     DEF vars, nodeVars, threadVars, netVars, handlerVars, CommitInv,
         NothingCommitted, QuietThreads, QuietCalls, QuietHandlers, Quiet
<1>2. ASSUME QuietThreads', UNCHANGED <<commit, calls, hreq>>
      PROVE  CommitInv'
  BY <1>2 DEF CommitInv, NothingCommitted, QuietCalls, QuietHandlers, Quiet
<1>3. ASSUME NEW n \in Nodes, Timeout(n) \/ Election(n)
      PROVE  CommitInv'
  <2>1. UNCHANGED <<commit, calls, hreq>>
    BY <1>3
       DEF Election, Timeout, BumpTerm, VoteSelf, Snapshot, ListPeers, VoteReply,
           StepDown, CountVotes, Crown, BecomeFollower, nodeVars, netVars,
           handlerVars
  <2>2. QED  BY <1>2, <1>3, <2>1, ElectionQuiet
<1>4. ASSUME NEW n \in Nodes, NEW t \in Threads,
             \/ Build(n, t) \/ AppendReply(n, t) \/ Demote(n, t) \/ RpcFails(n, t)
      PROVE  CommitInv'
  <2>1. UNCHANGED <<commit, calls, hreq>>
    BY <1>4
       DEF Build, AppendReply, Demote, RpcFails, BecomeFollower, nodeVars,
           netVars, handlerVars
  <2>2. QED  BY <1>2, <1>4, <2>1, ReplicationQuiet, RpcFailsQuiet
<1>5. ASSUME NEW n \in Nodes, NEW t \in Threads, Send(n, t)
      PROVE  CommitInv'
  <2>1. UNCHANGED <<commit, hreq>>
    BY <1>5 DEF Send, nodeVars, handlerVars
  <2>2. QED
    BY <1>5, <2>1, SendQuiet DEF CommitInv, NothingCommitted, QuietHandlers, Quiet
<1>6. ASSUME NEW n \in Nodes, Beat(n) \/ Submit(n) \/ AppendEntry(n)
      PROVE  CommitInv'
  <2>1. UNCHANGED <<commit, calls, hreq>>
    BY <1>6 DEF Beat, Submit, AppendEntry, nodeVars, netVars, handlerVars
  <2>2. QuietThreads'
    BY <1>6, NextBuildQuiet, GotoQuiet DEF Beat, Submit, AppendEntry, Threads
  <2>3. QED  BY <1>2, <2>1, <2>2
<1>7. ASSUME NEW n \in Nodes, Crash(n)
      PROVE  CommitInv'
  BY <1>7
     DEF Crash, threadVars, netVars, handlerVars, CommitInv, NothingCommitted,
         QuietThreads, QuietCalls, QuietHandlers, Quiet
<1>8. QED
  BY <1>1, <1>3, <1>4, <1>5, <1>6, <1>7, HandlersQuiet DEF Next, Replication

\* For every number of controllers, elections, entries, timeouts and crashes:
\* no leader and no follower ever commits an entry, because the only place a
\* commit index could start to grow is behind a mutex its caller holds.
THEOREM NothingEverCommitted == Spec => []NothingCommitted
<1>1. Init => CommitInv
  BY EmptySeq
     DEF Init, CommitInv, NothingCommitted, QuietThreads, QuietCalls,
         QuietHandlers, Quiet, NoRequest
<1>2. TypeOK /\ CommitInv /\ [Next]_vars => CommitInv'
  BY NextQuiet
<1>3. CommitInv => NothingCommitted
  BY DEF CommitInv
<1>4. QED  BY <1>1, <1>2, <1>3, TypeCorrect, PTL DEF Spec

-----------------------------------------------------------------------------
(* Every reply is read by the call it answers *)

\* Where the one message of a connection is while a thread waits with request r.
Waiting(n, p, r) ==
    \/ /\ calls[n][p] = <<r>>
       /\ replies[n][p] = <<>>
       /\ hpc[n][p] = "idle"
    \/ /\ calls[n][p] = <<>>
       /\ replies[n][p] = <<>>
       /\ hpc[n][p] # "idle"
       /\ hreq[n][p] = r
    \/ /\ calls[n][p] = <<>>
       /\ hpc[n][p] = "idle"
       /\ Len(replies[n][p]) = 1
       /\ replies[n][p][1].type = r.type

Silent(n, p) ==
    /\ calls[n][p] = <<>>
    /\ replies[n][p] = <<>>
    /\ hpc[n][p] = "idle"

InCall == {"poll", "wait"}

\* The network mutex keeps a second thread of a node out of its RPCs.
OneCaller ==
    \A n \in Nodes, t, u \in Threads :
        pc[n][t] \in InCall /\ pc[n][u] \in InCall => t = u

\* A connection to a dead peer may be left with a message, and is not used again.
Carries(n, p) ==
    /\ \A t \in Threads : Calling(n, p, t) => Waiting(n, p, req[n][t])
    /\ Up(p) => Silent(n, p) \/ \E t \in Threads : Calling(n, p, t)

CallsInv ==
    /\ OneCaller
    /\ bounds.timeouts = 0 => \A n, p \in Nodes : Carries(n, p)

\* A thread moves alone, and other threads and other nodes stay where they are.
Alone(n, t) ==
    \A m \in Nodes, u \in Threads : ~(m = n /\ u = t) =>
        /\ pc'[m][u] = pc[m][u]
        /\ peer'[m][u] = peer[m][u]
        /\ req'[m][u] = req[m][u]

LEMMA StepAlone ==
    ASSUME TypeOK, NEW n \in Nodes, NEW t \in Threads,
           NEW place, NEW q, NEW r, Step(n, t, place, q, r)
    PROVE  /\ Alone(n, t)
           /\ pc'[n][t] = place /\ peer'[n][t] = q /\ req'[n][t] = r
BY DEF TypeOK, ThreadsType, Step, Alone

LEMMA GotoAlone ==
    ASSUME TypeOK, NEW n \in Nodes, NEW t \in Threads,
           NEW place, Goto(n, t, place)
    PROVE  /\ Alone(n, t)
           /\ pc'[n][t] = place
           /\ peer'[n][t] = peer[n][t] /\ req'[n][t] = req[n][t]
BY StepAlone DEF Goto

\* The loops over the peers leave a thread at the next turn, or behind the loop.
LEMMA NextAskAlone ==
    ASSUME TypeOK, NEW n \in Nodes, NextAsk(n)
    PROVE  /\ Alone(n, "election")
           /\ pc'[n]["election"] \in {"ask", "count"}
           /\ pc'[n]["election"] = "ask" => peer'[n]["election"] # n
           /\ req'[n]["election"] \in {req[n]["election"], NoRequest}
<1> DEFINE q == PeerAfter(n, peer[n]["election"])
           place == IF q = None THEN "count" ELSE "ask"
           r == IF q = None THEN NoRequest ELSE req[n]["election"]
<1>1. "election" \in Threads
  BY DEF Threads
<1>2. Step(n, "election", place, q, r)
  BY DEF NextAsk
<1>3. q # n
  BY <1>1 DEF PeerAfter, TypeOK, ThreadsType, Nodes
<1>4. place \in {"ask", "count"} /\ r \in {req[n]["election"], NoRequest}
  OBVIOUS
<1> HIDE DEF q, place, r
<1>5. QED  BY <1>1, <1>2, <1>3, <1>4, StepAlone

LEMMA NextBuildAlone ==
    ASSUME TypeOK, NEW n \in Nodes, NEW t \in Threads, NextBuild(n, t)
    PROVE  /\ Alone(n, t)
           /\ pc'[n][t] \in {"build", "sleep"}
           /\ peer'[n][t] # n
           /\ req'[n][t] = NoRequest
<1> DEFINE q == PeerAfter(n, peer[n][t])
           place == IF q = None THEN "sleep" ELSE "build"
<1>1. Step(n, t, place, q, NoRequest)
  BY DEF NextBuild
<1>2. q # n
  BY DEF PeerAfter, TypeOK, ThreadsType, Nodes
<1>3. place \in {"build", "sleep"}
  OBVIOUS
<1> HIDE DEF q, place
<1>4. QED  BY <1>1, <1>2, <1>3, StepAlone

\* Whoever is terminated stays terminated.
LEMMA DeadStaysDead ==
    ASSUME TypeOK, [Next]_vars, NEW p \in Nodes, Up(p)'
    PROVE  Up(p)
<1>1. ASSUME NEW n \in Nodes, NEW v, Up(n), role' = [role EXCEPT ![n] = v]
      PROVE  Up(p)
  BY <1>1 DEF Up, TypeOK, NodesType
<1>2. CASE role' = role
  BY <1>2 DEF Up
<1>3. ASSUME NEW n \in Nodes, NEW k, Up(n), BecomeFollower(n, k)
      PROVE  Up(p)
  BY <1>1, <1>3 DEF BecomeFollower
<1>4. CASE UNCHANGED vars
  BY <1>2, <1>4 DEF vars, nodeVars
<1>5. ASSUME NEW n \in Nodes, Timeout(n) \/ Election(n)
      PROVE  Up(p)
  <2>1. CASE Timeout(n)
    BY <2>1, <1>1 DEF Timeout, At
  <2>2. CASE StepDown(n)
    BY <2>2, <1>3 DEF StepDown, At
  <2>3. CASE CountVotes(n)
    BY <2>3, <1>1, <1>2 DEF CountVotes, At
  <2>4. CASE \/ BumpTerm(n) \/ VoteSelf(n) \/ Snapshot(n) \/ ListPeers(n)
             \/ VoteReply(n) \/ Crown(n)
    BY <2>4, <1>2
       DEF BumpTerm, VoteSelf, Snapshot, ListPeers, VoteReply, Crown, nodeVars
  <2>5. QED  BY <1>5, <2>1, <2>2, <2>3, <2>4 DEF Election
<1>6. ASSUME NEW n \in Nodes, Beat(n) \/ Submit(n) \/ AppendEntry(n) \/ Crash(n)
      PROVE  Up(p)
  BY <1>6, <1>1, <1>2 DEF Beat, Submit, AppendEntry, Crash, nodeVars
<1>7. ASSUME NEW n \in Nodes, NEW t \in Threads, Replication(n, t) \/ RpcFails(n, t)
      PROVE  Up(p)
  <2>1. CASE Build(n, t)
    BY <2>1, <1>1, <1>2 DEF Build, At
  <2>2. CASE Demote(n, t)
    BY <2>2, <1>3 DEF Demote, At
  <2>3. CASE Send(n, t) \/ AppendReply(n, t) \/ RpcFails(n, t)
    BY <2>3, <1>2 DEF Send, AppendReply, RpcFails, nodeVars
  <2>4. QED  BY <1>7, <2>1, <2>2, <2>3 DEF Replication
<1>8. ASSUME NEW q \in Nodes, NEW n \in Nodes, Handler(q, n)
      PROVE  Up(p)
  <2>1. CASE Adopt(q, n) \/ Concede(q, n)
    BY <2>1, <1>3 DEF Adopt, Concede, Handling
  <2>2. CASE \/ Receive(q, n) \/ CheckVote(q, n) \/ Grant(q, n)
             \/ SeeLeader(q, n) \/ Store(q, n)
    BY <2>2, <1>2 DEF Receive, CheckVote, Grant, SeeLeader, Store, nodeVars
  <2>3. QED  BY <1>8, <2>1, <2>2 DEF Handler
<1>9. QED  BY <1>4, <1>5, <1>6, <1>7, <1>8 DEF Next

\* The counter of timeouts never goes back to 0.
LEMMA TimeoutsGrow ==
    ASSUME TypeOK, [Next]_vars, bounds.timeouts' = 0
    PROVE  bounds.timeouts = 0
<1>1. ASSUME NEW kind \in {"elections", "entries", "timeouts", "crashes"}, Spend(kind)
      PROVE  bounds.timeouts = 0
  BY <1>1 DEF TypeOK, BoundsType, Bounds, Spend
<1>2. CASE bounds' = bounds
  BY <1>2
<1>3. ASSUME NEW n \in Nodes, \/ Timeout(n) \/ Election(n) \/ Beat(n) \/ Submit(n)
                              \/ AppendEntry(n) \/ Crash(n)
      PROVE  bounds.timeouts = 0
  BY <1>1, <1>2, <1>3
     DEF Election, Timeout, BumpTerm, VoteSelf, Snapshot, ListPeers, VoteReply,
         StepDown, CountVotes, Crown, Beat, Submit, AppendEntry, Crash
<1>4. ASSUME NEW n \in Nodes, NEW t \in Threads, Replication(n, t) \/ RpcFails(n, t)
      PROVE  bounds.timeouts = 0
  BY <1>1, <1>2, <1>4 DEF Replication, Build, Send, AppendReply, Demote, RpcFails
<1>5. ASSUME NEW q \in Nodes, NEW n \in Nodes, Handler(q, n)
      PROVE  bounds.timeouts = 0
  BY <1>2, <1>5
     DEF Handler, Receive, Adopt, CheckVote, Grant, SeeLeader, Concede, Store
<1>6. CASE UNCHANGED vars
  BY <1>2, <1>6 DEF vars
<1>7. QED  BY <1>3, <1>4, <1>5, <1>6 DEF Next

\* A connection whose messages and callers stay as they are.
LEMMA LineKept ==
    ASSUME NEW n \in Nodes, NEW p \in Nodes, Carries(n, p),
           calls'[n][p] = calls[n][p], replies'[n][p] = replies[n][p],
           hpc'[n][p] = hpc[n][p], hreq'[n][p] = hreq[n][p],
           \A t \in Threads : /\ Calling(n, p, t)' <=> Calling(n, p, t)
                              /\ Calling(n, p, t) => req'[n][t] = req[n][t],
           Up(p)' => Up(p)
    PROVE  Carries(n, p)'
<1>1. Silent(n, p) => Silent(n, p)'
  BY DEF Silent
<1>2. ASSUME NEW t \in Threads, Calling(n, p, t)'
      PROVE  Waiting(n, p, req[n][t])'
  <2>1. Calling(n, p, t) /\ Waiting(n, p, req[n][t])
    BY <1>2 DEF Carries
  <2>2. req'[n][t] = req[n][t]
    BY <2>1
  <2>3. QED  BY <2>1, <2>2 DEF Waiting
<1>3. QED  BY <1>1, <1>2 DEF Carries

\* A thread that neither enters nor leaves a call disturbs no connection.
LEMMA StaysOut ==
    ASSUME TypeOK, CallsInv, [Next]_vars,
           NEW n \in Nodes, NEW t \in Threads, Alone(n, t),
           pc[n][t] \notin InCall, pc'[n][t] \notin InCall,
           UNCHANGED <<netVars, handlerVars>>
    PROVE  CallsInv'
<1>1. ASSUME NEW m \in Nodes, NEW u \in Threads
      PROVE  /\ pc'[m][u] \in InCall <=> pc[m][u] \in InCall
             /\ pc[m][u] \in InCall => /\ peer'[m][u] = peer[m][u]
                                       /\ req'[m][u] = req[m][u]
  <2>1. CASE m = n /\ u = t
    BY <2>1
  <2>2. CASE ~(m = n /\ u = t)
    BY <2>2 DEF Alone
  <2>3. QED  BY <2>1, <2>2
<1>2. OneCaller'
  BY <1>1 DEF CallsInv, OneCaller
<1>3. ASSUME bounds.timeouts' = 0, NEW m \in Nodes, NEW p \in Nodes
      PROVE  Carries(m, p)'
  <2>1. Carries(m, p)
    BY <1>3, TimeoutsGrow DEF CallsInv
  <2>2. Up(p)' => Up(p)
    BY DeadStaysDead
  <2>3. \A u \in Threads : /\ Calling(m, p, u)' <=> Calling(m, p, u)
                           /\ Calling(m, p, u) => req'[m][u] = req[m][u]
    BY <1>1 DEF Calling, InCall
  <2>4. UNCHANGED <<calls, replies, hpc, hreq>>
    BY DEF netVars, handlerVars
  <2>5. QED  BY <2>1, <2>2, <2>3, <2>4, LineKept
<1>4. QED  BY <1>2, <1>3 DEF CallsInv

\* A request is sent only when no thread of the node is in a call.
LEMMA SendCalls ==
    ASSUME TypeOK, CallsInv, [Next]_vars,
           NEW n \in Nodes, NEW t \in Threads, Send(n, t)
    PROVE  CallsInv'
<1> DEFINE p == peer[n][t]
<1>1. p \in Nodes /\ req[n][t] \in Request
  BY DEF TypeOK, ThreadsType, Send, Replicating, Request
<1>2. \A u \in Threads : pc[n][u] \notin InCall
  BY DEF Send, NetworkHeld, InCall
<1>3. CASE ~Up(p)
  <2>1. UNCHANGED <<netVars, handlerVars>>
    BY <1>3 DEF Send, netVars
  <2>2. CASE pc[n][t] = "ask"
    <3>1. t = "election"
      BY <2>2 DEF TypeOK, ThreadsType
    <3>2. NextAsk(n)
      BY <1>3, <2>2 DEF Send
    <3>3. QED
      BY <1>2, <2>1, <3>1, <3>2, NextAskAlone, StaysOut DEF InCall
  <2>3. CASE pc[n][t] # "ask"
    <3>1. NextBuild(n, t)
      BY <1>3, <2>3 DEF Send
    <3>2. QED  BY <1>2, <2>1, <3>1, NextBuildAlone, StaysOut DEF InCall
  <2>4. QED  BY <2>2, <2>3
<1>4. CASE Up(p)
  <2>1. PICK place \in InCall : Goto(n, t, place)
    BY <1>4 DEF Send, InCall
  <2>2. /\ Alone(n, t)
        /\ pc'[n][t] \in InCall
        /\ peer'[n][t] = p /\ req'[n][t] = req[n][t]
    BY <2>1, GotoAlone
  <2>3. OneCaller'
    <3> SUFFICES ASSUME NEW m \in Nodes, NEW u \in Threads, NEW w \in Threads,
                        pc'[m][u] \in InCall, pc'[m][w] \in InCall
                 PROVE  u = w
      BY DEF OneCaller
    <3>1. CASE m = n
      BY <1>2, <2>2, <3>1 DEF Alone
    <3>2. CASE m # n
      BY <2>2, <3>2 DEF Alone, CallsInv, OneCaller
    <3>3. QED  BY <3>1, <3>2
  <2>4. /\ calls' = [calls EXCEPT ![n][p] = Append(@, req[n][t])]
        /\ UNCHANGED <<replies, hpc, hreq>>
    BY <1>4 DEF Send, handlerVars
  <2>5. ASSUME bounds.timeouts' = 0, NEW m \in Nodes, NEW q \in Nodes
        PROVE  Carries(m, q)'
    <3>1. Carries(m, q)
      BY <2>5, TimeoutsGrow DEF CallsInv
    <3>2. CASE m = n /\ q = p
      <4>1. Silent(n, p)
        BY <1>2, <1>4, <3>1, <3>2 DEF Carries, Calling, InCall
      <4>2. /\ calls'[n][p] = <<req[n][t]>>
            /\ replies'[n][p] = <<>> /\ hpc'[n][p] = "idle"
        <5>1. calls'[n][p] = Append(calls[n][p], req[n][t])
          BY <1>1, <2>4 DEF TypeOK, NetworkType
        <5>2. Append(<<>>, req[n][t]) = <<req[n][t]>>
          BY <1>1
        <5>3. QED  BY <2>4, <4>1, <5>1, <5>2 DEF Silent
      <4>3. \A u \in Threads : Calling(n, p, u)' => u = t
        BY <1>2, <2>2 DEF Calling, InCall, Alone
      <4>4. Calling(n, p, t)'
        BY <2>2 DEF Calling, InCall
      <4>5. QED  BY <2>2, <3>2, <4>2, <4>3, <4>4 DEF Carries, Waiting
    <3>3. CASE ~(m = n /\ q = p)
      <4>1. calls'[m][q] = calls[m][q]
        BY <2>4, <3>3 DEF TypeOK, NetworkType
      <4>2. \A u \in Threads : /\ Calling(m, q, u)' <=> Calling(m, q, u)
                               /\ Calling(m, q, u) => req'[m][u] = req[m][u]
        BY <1>2, <2>2, <3>3 DEF Calling, InCall, Alone
      <4>3. Up(q)' => Up(q)
        BY DeadStaysDead
      <4>4. QED  BY <2>4, <3>1, <4>1, <4>2, <4>3, LineKept
    <3>4. QED  BY <3>2, <3>3
  <2>6. QED  BY <2>3, <2>5 DEF CallsInv
<1>5. QED  BY <1>3, <1>4

LEMMA NoLength ==
    ASSUME NEW S, NEW s \in Seq(S), Len(s) = 0
    PROVE  s = <<>>
BY EmptySeq

\* A call ends with the reply read, or given up on a connection that broke.
LEMMA CallEnds ==
    ASSUME TypeOK, CallsInv, [Next]_vars,
           NEW n \in Nodes, NEW t \in Threads, NEW p \in Nodes,
           Alone(n, t), peer[n][t] = p,
           pc[n][t] \in InCall, pc'[n][t] \notin InCall,
           UNCHANGED <<calls, handlerVars>>,
           \/ /\ replies[n][p] # <<>>
              /\ replies' = [replies EXCEPT ![n][p] = Tail(@)]
           \/ /\ replies' = replies
              /\ ~Up(p) \/ bounds.timeouts' # 0
    PROVE  CallsInv'
<1>1. UNCHANGED <<hpc, hreq>>
  BY DEF handlerVars
<1>2. \A u \in Threads : pc[n][u] \in InCall => u = t
  BY DEF CallsInv, OneCaller
<1>3. OneCaller'
  <2>1. ASSUME NEW m \in Nodes, NEW u \in Threads, pc'[m][u] \in InCall
        PROVE  pc[m][u] \in InCall
    BY <2>1 DEF Alone
  <2>2. QED  BY <2>1 DEF CallsInv, OneCaller
<1>4. ASSUME bounds.timeouts' = 0, NEW m \in Nodes, NEW q \in Nodes
      PROVE  Carries(m, q)'
  <2>1. Carries(m, q)
    BY <1>4, TimeoutsGrow DEF CallsInv
  <2>2. Up(q)' => Up(q)
    BY DeadStaysDead
  <2>3. CASE m = n /\ q = p
    <3>1. \A u \in Threads : ~Calling(n, p, u)'
      BY <1>2 DEF Calling, InCall, Alone
    <3>2. CASE replies' = replies
      <4>1. ~Up(p)
        BY <1>4, <3>2, HeadTailProperties DEF TypeOK, NetworkType
      <4>2. QED  BY <2>2, <2>3, <3>1, <4>1 DEF Carries
    <3>3. CASE replies[n][p] # <<>> /\ replies' = [replies EXCEPT ![n][p] = Tail(@)]
      <4>1. Waiting(n, p, req[n][t])
        BY <2>1, <2>3 DEF Carries, Calling, InCall
      <4>2. Len(replies[n][p]) = 1 /\ calls[n][p] = <<>> /\ hpc[n][p] = "idle"
        BY <3>3, <4>1 DEF Waiting
      <4>3. replies'[n][p] = Tail(replies[n][p])
        BY <3>3 DEF TypeOK, NetworkType
      <4>4. replies[n][p] \in Seq(Reply)
        BY DEF TypeOK, NetworkType
      <4>5. Tail(replies[n][p]) = <<>>
        <5>1. Tail(replies[n][p]) \in Seq(Reply) /\ Len(Tail(replies[n][p])) = 1 - 1
          BY <3>3, <4>2, <4>4, HeadTailProperties
        <5>2. Len(Tail(replies[n][p])) = 0
          BY <5>1
        <5>3. QED  BY <5>1, <5>2, NoLength
      <4>6. Silent(n, p)'
        BY <1>1, <4>2, <4>3, <4>5 DEF Silent
      <4>7. QED  BY <2>3, <3>1, <4>6 DEF Carries
    <3>4. QED  BY <3>2, <3>3
  <2>4. CASE ~(m = n /\ q = p)
    <3>1. replies'[m][q] = replies[m][q]
      <4>1. CASE replies' = replies
        BY <4>1
      <4>2. CASE replies' = [replies EXCEPT ![n][p] = Tail(@)]
        BY <2>4, <4>2 DEF TypeOK, NetworkType
      <4>3. QED  BY <4>1, <4>2
    <3>2. \A u \in Threads : /\ Calling(m, q, u)' <=> Calling(m, q, u)
                             /\ Calling(m, q, u) => req'[m][u] = req[m][u]
      BY <2>4 DEF Calling, InCall, Alone
    <3>3. QED  BY <1>1, <2>1, <2>2, <3>1, <3>2, LineKept
  <2>5. QED  BY <2>3, <2>4
<1>5. QED  BY <1>3, <1>4 DEF CallsInv

\* The steps of a handler: the message of a connection goes from the calls into
\* the handler, and from there into the replies.
LEMMA HandlerCarries ==
    ASSUME TypeOK, NEW p \in Nodes, NEW n \in Nodes, Handler(p, n),
           NEW r \in Request, Waiting(p, n, r)
    PROVE  Waiting(p, n, r)'
<1>1. /\ calls[p][n] \in Seq(Request)
      /\ replies[p][n] \in Seq(Reply)
  BY DEF TypeOK, NetworkType
<1>2. ASSUME NEW type, NEW k, NEW ok, Respond(p, n, type, k, ok),
             calls'[p][n] = <<>>, replies[p][n] = <<>>, type = r.type
      PROVE  Waiting(p, n, r)'
  <2> DEFINE m == [type |-> type, term |-> k, ok |-> ok]
  <2>1. replies'[p][n] = <<m>>
    <3>1. replies'[p][n] = Append(<<>>, m)
      BY <1>2 DEF Respond, TypeOK, NetworkType
    <3>2. QED  BY <3>1
  <2>2. hpc'[p][n] = "idle"
    BY <1>2 DEF Respond, HandlerGoto, TypeOK, HandlersType
  <2>3. m.type = r.type
    BY <1>2
  <2> HIDE DEF m
  <2>4. QED  BY <1>2, <2>1, <2>2, <2>3 DEF Waiting
<1>3. ASSUME NEW place \in {"adopt", "check", "grant", "concede", "store"},
             HandlerGoto(p, n, place, r), calls'[p][n] = <<>>,
             replies' = replies, replies[p][n] = <<>>
      PROVE  Waiting(p, n, r)'
  <2>1. hpc'[p][n] # "idle" /\ hreq'[p][n] = r
    BY <1>3 DEF HandlerGoto, TypeOK, HandlersType
  <2>2. QED  BY <1>3, <2>1 DEF Waiting
<1>4. CASE Receive(p, n)
  <2>1. calls[p][n] = <<r>> /\ replies[p][n] = <<>>
    BY <1>4 DEF Waiting, Receive, Handling
  <2>2. Head(calls[p][n]) = r
    BY <2>1
  <2>3. calls'[p][n] = <<>>
    <3>1. calls'[p][n] = Tail(calls[p][n])
      BY <1>4 DEF Receive, TypeOK, NetworkType
    <3>2. QED  BY <2>1, <3>1
  <2>4. CASE r.term < term[n]
    BY <1>2, <1>4, <2>1, <2>2, <2>3, <2>4 DEF Receive
  <2>5. CASE ~(r.term < term[n])
    <3> DEFINE place == IF r.term > term[n] THEN "adopt" ELSE "check"
    <3>1. HandlerGoto(p, n, place, r) /\ replies' = replies
      BY <1>4, <2>2, <2>5 DEF Receive
    <3>2. place \in {"adopt", "check", "grant", "concede", "store"}
      OBVIOUS
    <3> HIDE DEF place
    <3>3. QED  BY <1>3, <2>1, <2>3, <3>1, <3>2
  <2>6. QED  BY <2>4, <2>5
<1>5. CASE hpc[p][n] # "idle"
  <2>1. calls[p][n] = <<>> /\ replies[p][n] = <<>> /\ hreq[p][n] = r
    BY <1>5 DEF Waiting
  <2>2. CASE Adopt(p, n) \/ SeeLeader(p, n) \/ Concede(p, n)
    <3>1. \E place \in {"check", "concede", "store"} : HandlerGoto(p, n, place, r)
      BY <2>1, <2>2 DEF Adopt, SeeLeader, Concede
    <3>2. UNCHANGED <<calls, replies>>
      BY <2>2 DEF Adopt, SeeLeader, Concede, netVars
    <3>3. QED  BY <1>3, <2>1, <3>1, <3>2
  <2>3. CASE CheckVote(p, n)
    <3>1. r.type = "vote" /\ calls' = calls
      BY <2>1, <2>3 DEF CheckVote
    <3>2. \/ Respond(p, n, "vote", r.term, FALSE)
          \/ HandlerGoto(p, n, "grant", r) /\ replies' = replies
      BY <2>1, <2>3 DEF CheckVote
    <3>3. QED  BY <1>2, <1>3, <2>1, <3>1, <3>2
  <2>4. CASE Grant(p, n)
    <3>1. r.type = "vote"
      BY <2>1, <2>4 DEF Grant, Handling, TypeOK, HandlersType, VoteRequest
    <3>2. Respond(p, n, "vote", r.term, TRUE) /\ calls' = calls
      BY <2>1, <2>4 DEF Grant
    <3>3. QED  BY <1>2, <2>1, <3>1, <3>2
  <2>5. CASE Store(p, n)
    <3>1. r.type = "append"
      BY <2>1, <2>5 DEF Store, Handling, TypeOK, HandlersType, AppendRequest
    <3>2. calls' = calls
      BY <2>5 DEF Store
    <3>3. PICK ok : Respond(p, n, "append", r.term, ok)
      BY <2>1, <2>5 DEF Store
    <3>4. QED  BY <1>2, <2>1, <3>1, <3>2, <3>3
  <2>6. CASE Receive(p, n)
    BY <1>5, <2>6 DEF Receive, Handling
  <2>7. QED  BY <2>2, <2>3, <2>4, <2>5, <2>6 DEF Handler
<1>6. CASE hpc[p][n] = "idle" /\ ~Receive(p, n)
  BY <1>6 DEF Handler, Adopt, CheckVote, Grant, SeeLeader, Concede, Store, Handling
<1>7. QED  BY <1>4, <1>5, <1>6

\* A handler changes nothing of other connections, and of other nodes' logs.
LEMMA HandlerFrame ==
    ASSUME TypeOK, NEW p \in Nodes, NEW k \in Nodes, Handler(p, k)
    PROVE  /\ UNCHANGED <<pc, peer, req, match, votes, bounds>>
           /\ \A m \in Nodes : /\ role'[m] \in {role[m], "follower"}
                               /\ m # k => log'[m] = log[m]
           /\ \A m, q \in Nodes : ~(m = p /\ q = k) =>
                 /\ calls'[m][q] = calls[m][q] /\ replies'[m][q] = replies[m][q]
                 /\ hpc'[m][q] = hpc[m][q] /\ hreq'[m][q] = hreq[m][q]
<1>1. UNCHANGED <<pc, peer, req, match, votes, bounds>>
  BY DEF Handler, Receive, Adopt, CheckVote, Grant, SeeLeader, Concede, Store,
         threadVars, leaderVars
<1>2. \A m \in Nodes : role'[m] \in {role[m], "follower"} /\ (m # k => log'[m] = log[m])
  BY DEF Handler, Receive, Adopt, CheckVote, Grant, SeeLeader, Concede, Store,
         BecomeFollower, nodeVars, TypeOK, NodesType
<1>3. ASSUME NEW m \in Nodes, NEW q \in Nodes, ~(m = p /\ q = k)
      PROVE  /\ calls'[m][q] = calls[m][q] /\ replies'[m][q] = replies[m][q]
             /\ hpc'[m][q] = hpc[m][q] /\ hreq'[m][q] = hreq[m][q]
  <2>1. ASSUME NEW place, NEW r, HandlerGoto(p, k, place, r)
        PROVE  hpc'[m][q] = hpc[m][q] /\ hreq'[m][q] = hreq[m][q]
    BY <1>3, <2>1 DEF HandlerGoto, TypeOK, HandlersType
  <2>2. ASSUME NEW type, NEW v, NEW ok, Respond(p, k, type, v, ok)
        PROVE  /\ replies'[m][q] = replies[m][q]
               /\ hpc'[m][q] = hpc[m][q] /\ hreq'[m][q] = hreq[m][q]
    BY <1>3, <2>1, <2>2 DEF Respond, TypeOK, NetworkType
  <2>3. CASE Receive(p, k)
    <3>1. calls'[m][q] = calls[m][q]
      BY <1>3, <2>3 DEF Receive, TypeOK, NetworkType
    <3>2. QED  BY <2>1, <2>2, <2>3, <3>1 DEF Receive
  <2>4. CASE \/ Adopt(p, k) \/ CheckVote(p, k) \/ Grant(p, k)
             \/ SeeLeader(p, k) \/ Concede(p, k) \/ Store(p, k)
    <3>1. calls' = calls
      BY <2>4 DEF Adopt, CheckVote, Grant, SeeLeader, Concede, Store, netVars
    <3>2. \/ \E place, r : HandlerGoto(p, k, place, r) /\ replies' = replies
          \/ \E type, v, ok : Respond(p, k, type, v, ok)
      BY <2>4 DEF Adopt, CheckVote, Grant, SeeLeader, Concede, Store, netVars
    <3>3. QED  BY <2>1, <2>2, <3>1, <3>2
  <2>5. QED  BY <2>3, <2>4 DEF Handler
<1>4. QED  BY <1>1, <1>2, <1>3

LEMMA HandlerCalls ==
    ASSUME TypeOK, CallsInv, [Next]_vars, NEW p \in Nodes, NEW n \in Nodes,
           Handler(p, n)
    PROVE  CallsInv'
<1>1. UNCHANGED <<pc, peer, req>>
  BY DEF Handler, Receive, Adopt, CheckVote, Grant, SeeLeader, Concede, Store,
         threadVars
<1>2. ~Silent(p, n)
  BY DEF Handler, Receive, Adopt, CheckVote, Grant, SeeLeader, Concede, Store,
         Handling, Silent
<1>3. OneCaller'
  BY <1>1 DEF CallsInv, OneCaller
<1>4. ASSUME NEW m \in Nodes, NEW q \in Nodes, ~(m = p /\ q = n)
      PROVE  /\ calls'[m][q] = calls[m][q] /\ replies'[m][q] = replies[m][q]
             /\ hpc'[m][q] = hpc[m][q] /\ hreq'[m][q] = hreq[m][q]
  BY <1>4, HandlerFrame
<1>5. ASSUME bounds.timeouts' = 0, NEW m \in Nodes, NEW q \in Nodes
      PROVE  Carries(m, q)'
  <2>1. Carries(m, q)
    BY <1>5, TimeoutsGrow DEF CallsInv
  <2>2. Up(q)' => Up(q)
    BY DeadStaysDead
  <2>3. \A u \in Threads : Calling(m, q, u)' <=> Calling(m, q, u)
    BY <1>1 DEF Calling
  <2>4. CASE m = p /\ q = n
    <3>1. ASSUME NEW u \in Threads, Calling(p, n, u)
          PROVE  Waiting(p, n, req[p][u])'
      <4>1. req[p][u] \in Request
        BY <3>1 DEF Calling, TypeOK, ThreadsType, Replicating, Request
      <4>2. Waiting(p, n, req[p][u])
        BY <2>1, <2>4, <3>1 DEF Carries
      <4> DEFINE r == req[p][u]
      <4>3. req'[p][u] = r
        BY <1>1
      <4>4. \A s \in Request : Waiting(p, n, s) => Waiting(p, n, s)'
        BY HandlerCarries
      <4>5. QED  BY <4>1, <4>2, <4>3, <4>4 DEF Waiting
    <3>2. QED  BY <1>2, <2>1, <2>2, <2>3, <2>4, <3>1 DEF Carries
  <2>5. CASE ~(m = p /\ q = n)
    BY <1>1, <1>4, <2>1, <2>2, <2>3, <2>5, LineKept
  <2>6. QED  BY <2>4, <2>5
<1>6. QED  BY <1>3, <1>5 DEF CallsInv

LEMMA ElectionCalls ==
    ASSUME TypeOK, CallsInv, [Next]_vars, NEW n \in Nodes, Timeout(n) \/ Election(n)
    PROVE  CallsInv'
<1> DEFINE t == "election"
<1>1. t \in Threads
  BY DEF Threads
<1>2. CASE VoteReply(n)
  <2> DEFINE p == peer[n][t]
  <2>1. p \in Nodes /\ pc[n][t] \in InCall
    BY <1>1, <1>2 DEF VoteReply, At, TypeOK, ThreadsType, InCall
  <2>2. Alone(n, t) /\ pc'[n][t] \notin InCall
    <3>1. CASE NextAsk(n)
      BY <3>1, NextAskAlone DEF InCall
    <3>2. CASE ~NextAsk(n)
      <4>1. PICK r : Step(n, t, "stepdown", None, r)
        BY <1>2, <3>2 DEF VoteReply
      <4>2. QED  BY <1>1, <4>1, StepAlone DEF InCall
    <3>3. QED  BY <3>1, <3>2
  <2>3. /\ replies[n][p] # <<>> /\ replies' = [replies EXCEPT ![n][p] = Tail(@)]
        /\ UNCHANGED <<calls, handlerVars>>
    BY <1>2 DEF VoteReply
  <2> HIDE DEF p, t
  <2>4. QED  BY <1>1, <2>1, <2>2, <2>3, CallEnds DEF p
<1>3. CASE ~VoteReply(n)
  <2>1. UNCHANGED <<netVars, handlerVars>>
    BY <1>3
       DEF Election, Timeout, BumpTerm, VoteSelf, Snapshot, ListPeers, StepDown,
           CountVotes, Crown
  <2>2. pc[n][t] \notin InCall
    BY <1>3
       DEF Election, Timeout, BumpTerm, VoteSelf, Snapshot, ListPeers, StepDown,
           CountVotes, Crown, At, InCall
  <2>3. Alone(n, t) /\ pc'[n][t] \notin InCall
    <3>1. CASE NextAsk(n)
      BY <3>1, NextAskAlone DEF InCall
    <3>2. CASE NextBuild(n, t)
      BY <1>1, <3>2, NextBuildAlone DEF InCall
    <3>3. CASE \E place \in {"bump", "self", "snapshot", "crown", "sleep"} :
                   Goto(n, t, place)
      BY <1>1, <3>3, GotoAlone DEF InCall
    <3>4. CASE \E place \in {"list", "sleep"} : \E q, r : Step(n, t, place, q, r)
      BY <1>1, <3>4, StepAlone DEF InCall
    <3>5. QED
      BY <1>3, <3>1, <3>2, <3>3, <3>4
         DEF Election, Timeout, BumpTerm, VoteSelf, Snapshot, ListPeers, StepDown,
             CountVotes, Crown
  <2> HIDE DEF t
  <2>4. QED  BY <1>1, <2>1, <2>2, <2>3, StaysOut
<1>4. QED  BY <1>2, <1>3

LEMMA ReplicationCalls ==
    ASSUME TypeOK, CallsInv, [Next]_vars, NEW n \in Nodes, NEW t \in Threads,
           \/ Build(n, t) \/ AppendReply(n, t) \/ Demote(n, t) \/ RpcFails(n, t)
    PROVE  CallsInv'
<1> DEFINE p == peer[n][t]
<1>1. CASE Build(n, t)
  <2>1. UNCHANGED <<netVars, handlerVars>> /\ pc[n][t] \notin InCall
    BY <1>1 DEF Build, At, InCall
  <2>2. CASE UNCHANGED threadVars
    BY <2>1, <2>2, StaysOut DEF threadVars, Alone
  <2>3. CASE \E r : Step(n, t, "send", p, r)
    BY <2>1, <2>3, StepAlone, StaysOut DEF InCall
  <2>4. QED  BY <1>1, <2>2, <2>3 DEF Build
<1>2. CASE AppendReply(n, t)
  <2>1. p \in Nodes /\ pc[n][t] \in InCall
    BY <1>2 DEF AppendReply, At, TypeOK, ThreadsType, Replicating, InCall
  <2>2. Alone(n, t) /\ pc'[n][t] \notin InCall
    <3>1. CASE NextBuild(n, t)
      BY <3>1, NextBuildAlone DEF InCall
    <3>2. CASE Goto(n, t, "relock")
      BY <3>2, GotoAlone DEF InCall
    <3>3. CASE \E r : Step(n, t, "demote", p, r)
      BY <3>3, StepAlone DEF InCall
    <3>4. QED  BY <1>2, <3>1, <3>2, <3>3 DEF AppendReply, AfterAck
  <2>3. /\ replies[n][p] # <<>> /\ replies' = [replies EXCEPT ![n][p] = Tail(@)]
        /\ UNCHANGED <<calls, handlerVars>>
    BY <1>2 DEF AppendReply
  <2> HIDE DEF p
  <2>4. QED  BY <2>1, <2>2, <2>3, CallEnds DEF p
<1>3. CASE Demote(n, t)
  <2>1. UNCHANGED <<netVars, handlerVars>> /\ pc[n][t] \notin InCall
    BY <1>3 DEF Demote, At, InCall
  <2>2. NextBuild(n, t)
    BY <1>3 DEF Demote
  <2>3. QED  BY <2>1, <2>2, NextBuildAlone, StaysOut DEF InCall
<1>4. CASE RpcFails(n, t)
  <2>1. p \in Nodes /\ pc[n][t] \in InCall
    BY <1>4 DEF RpcFails, TypeOK, ThreadsType, Replicating, InCall
  <2>2. Alone(n, t) /\ pc'[n][t] \notin InCall
    <3>1. CASE pc[n][t] = "poll"
      <4>1. t = "election" /\ NextAsk(n)
        BY <1>4, <3>1 DEF RpcFails, TypeOK, ThreadsType
      <4>2. QED  BY <4>1, NextAskAlone DEF InCall
    <3>2. CASE pc[n][t] # "poll"
      BY <1>4, <3>2, NextBuildAlone DEF RpcFails, InCall
    <3>3. QED  BY <3>1, <3>2
  <2>3. ~Up(p) \/ bounds.timeouts' # 0
    BY <1>4 DEF RpcFails, Spend, TypeOK, BoundsType, Bounds
  <2>4. UNCHANGED <<calls, replies, handlerVars>>
    BY <1>4 DEF RpcFails, netVars
  <2> HIDE DEF p
  <2>5. QED  BY <2>1, <2>2, <2>3, <2>4, CallEnds DEF p
<1>5. QED  BY <1>1, <1>2, <1>3, <1>4

LEMMA NextCalls ==
    ASSUME TypeOK, CallsInv, [Next]_vars
    PROVE  CallsInv'
<1>1. ASSUME UNCHANGED <<threadVars, netVars, handlerVars>>
      PROVE  CallsInv'
  <2>1. \A n, p \in Nodes, t \in Threads : Calling(n, p, t)' <=> Calling(n, p, t)
    BY <1>1 DEF Calling, threadVars
  <2>2. ASSUME bounds.timeouts' = 0, NEW n \in Nodes, NEW p \in Nodes
        PROVE  Carries(n, p)'
    <3>1. Carries(n, p)
      BY <2>2, TimeoutsGrow DEF CallsInv
    <3>2. QED
      BY <1>1, <2>1, <3>1, DeadStaysDead, LineKept
         DEF threadVars, netVars, handlerVars
  <2>3. QED  BY <1>1, <2>2 DEF CallsInv, OneCaller, threadVars
<1>2. CASE UNCHANGED vars
  BY <1>1, <1>2 DEF vars
<1>3. ASSUME NEW n \in Nodes, Crash(n)
      PROVE  CallsInv'
  BY <1>1, <1>3 DEF Crash
<1>4. ASSUME NEW n \in Nodes, Beat(n) \/ Submit(n) \/ AppendEntry(n)
      PROVE  CallsInv'
  <2>1. UNCHANGED <<netVars, handlerVars>>
    BY <1>4 DEF Beat, Submit, AppendEntry
  <2>2. CASE Beat(n)
    <3>1. "heartbeat" \in Threads /\ NextBuild(n, "heartbeat")
          /\ pc[n]["heartbeat"] \notin InCall
      BY <2>2 DEF Beat, Threads, At, InCall
    <3>2. QED  BY <2>1, <3>1, NextBuildAlone, StaysOut DEF InCall
  <2>3. CASE Submit(n)
    <3>1. "client" \in Threads /\ Goto(n, "client", "append")
          /\ pc[n]["client"] \notin InCall
      BY <2>3 DEF Submit, Threads, At, InCall
    <3>2. QED  BY <2>1, <3>1, GotoAlone, StaysOut DEF InCall
  <2>4. CASE AppendEntry(n)
    <3>1. "client" \in Threads /\ NextBuild(n, "client")
          /\ pc[n]["client"] \notin InCall
      BY <2>4 DEF AppendEntry, Threads, At, InCall
    <3>2. QED  BY <2>1, <3>1, NextBuildAlone, StaysOut DEF InCall
  <2>5. QED  BY <1>4, <2>2, <2>3, <2>4
<1>5. QED
  BY <1>2, <1>3, <1>4, ElectionCalls, ReplicationCalls, SendCalls, HandlerCalls
     DEF Next, Replication

\* Without timeouts every reply is read by the call it answers, for any number
\* of controllers, elections, entries and crashes: the network mutex is enough,
\* although it is taken anew for each RPC and the type of a vote is not checked.
THEOREM RepliesAnswerCalls == Spec => []RepliesMatchCalls
<1>1. Init => CallsInv
  BY DEF Init, CallsInv, OneCaller, Carries, Silent, Calling, InCall
<1>2. TypeOK /\ CallsInv /\ [Next]_vars => CallsInv'
  BY NextCalls
<1>3. TypeOK /\ CallsInv => RepliesMatchCalls
  <2> SUFFICES ASSUME TypeOK, CallsInv, bounds.timeouts = 0,
                      NEW n \in Nodes, NEW p \in Nodes, Up(p)
               PROVE
            /\ \A t, u \in Threads : Calling(n, p, t) /\ Calling(n, p, u) => t = u
            /\ Outstanding(n, p) = IF \E t \in Threads : Calling(n, p, t) THEN 1 ELSE 0
            /\ \A t \in Threads : Calling(n, p, t) =>
                  /\ \A i \in DOMAIN calls[n][p] : calls[n][p][i] = req[n][t]
                  /\ \A i \in DOMAIN replies[n][p] :
                        replies[n][p][i].type = req[n][t].type
                  /\ hpc[n][p] # "idle" => hreq[n][p] = req[n][t]
    BY DEF RepliesMatchCalls
  <2>1. Carries(n, p)
    BY DEF CallsInv
  <2>2. calls[n][p] \in Seq(Request) /\ replies[n][p] \in Seq(Reply)
    BY DEF TypeOK, NetworkType
  <2>3. \A t, u \in Threads : Calling(n, p, t) /\ Calling(n, p, u) => t = u
    BY DEF CallsInv, OneCaller, Calling, InCall
  <2>4. CASE \A t \in Threads : ~Calling(n, p, t)
    <3>1. Silent(n, p)
      BY <2>1, <2>4 DEF Carries
    <3>2. Len(calls[n][p]) = 0 /\ Len(replies[n][p]) = 0 /\ hpc[n][p] = "idle"
      BY <3>1 DEF Silent
    <3>3. Outstanding(n, p) = 0
      BY <3>2 DEF Outstanding
    <3>4. QED  BY <2>4, <3>3
  <2>5. ASSUME NEW t \in Threads, Calling(n, p, t)
        PROVE  /\ Outstanding(n, p) = 1
               /\ \A i \in DOMAIN calls[n][p] : calls[n][p][i] = req[n][t]
               /\ \A i \in DOMAIN replies[n][p] : replies[n][p][i].type = req[n][t].type
               /\ hpc[n][p] # "idle" => hreq[n][p] = req[n][t]
    <3>1. Waiting(n, p, req[n][t])
      BY <2>1, <2>5 DEF Carries
    <3>2. /\ DOMAIN calls[n][p] = 1 .. Len(calls[n][p])
          /\ DOMAIN replies[n][p] = 1 .. Len(replies[n][p])
      BY <2>2, LenProperties
    <3>3. CASE calls[n][p] = <<req[n][t]>> /\ replies[n][p] = <<>> /\ hpc[n][p] = "idle"
      <4>1. Len(calls[n][p]) = 1 /\ Len(replies[n][p]) = 0 /\ calls[n][p][1] = req[n][t]
        BY <3>3
      <4>2. QED  BY <3>2, <3>3, <4>1 DEF Outstanding
    <3>4. CASE calls[n][p] = <<>> /\ replies[n][p] = <<>> /\ hpc[n][p] # "idle"
      <4>1. Len(calls[n][p]) = 0 /\ Len(replies[n][p]) = 0 /\ hreq[n][p] = req[n][t]
        BY <3>1, <3>4 DEF Waiting
      <4>2. QED  BY <3>2, <3>4, <4>1 DEF Outstanding
    <3>5. CASE calls[n][p] = <<>> /\ Len(replies[n][p]) = 1 /\ hpc[n][p] = "idle"
      <4>1. Len(calls[n][p]) = 0 /\ replies[n][p][1].type = req[n][t].type
        BY <3>1, <3>5 DEF Waiting
      <4>2. QED  BY <3>2, <3>5, <4>1 DEF Outstanding
    <3>6. QED  BY <3>1, <3>3, <3>4, <3>5 DEF Waiting
  <2>6. QED  BY <2>3, <2>4, <2>5
<1>4. QED  BY <1>1, <1>2, <1>3, TypeCorrect, PTL DEF Spec

-----------------------------------------------------------------------------
(* Nodes that have no rival *)

\* A node that never voted for itself never led, and never sent anything.
NeverStood ==
    \A n \in Nodes : votes[n] = 0 =>
        /\ pc[n]["election"] \in {"sleep", "bump", "self"}
        /\ pc[n]["heartbeat"] = "sleep"
        /\ pc[n]["client"] = "sleep"
        /\ role[n] # "leader"
        /\ \A p \in Nodes : Silent(n, p)

\* A node is not among its peers.
NotItself ==
    \A n \in Nodes :
        /\ Silent(n, n)
        /\ \A t \in Threads :
              pc[n][t] \in {"ask", "poll"} \cup Replicating => peer[n][t] # n

\* The entries of a request are in the log at their place, after the entry
\* that the request names.
Fits(r, l) ==
    r.type = "append" =>
        /\ LastSent(r) <= Len(l)
        /\ \A k \in 1 .. Len(r.entries) : r.entries[k] = l[r.prevIndex + k]
        /\ r.prevIndex > 0 => r.prevTerm = l[r.prevIndex]

\* The log a is a beginning of l.
Begins(a, l) ==
    /\ Len(a) <= Len(l)
    /\ \A i \in 1 .. Len(a) : a[i] = l[i]

RequestsFit(n) ==
    /\ \A t \in Threads : Fits(req[n][t], log[n])
    /\ \A p \in Nodes : /\ \A i \in DOMAIN calls[n][p] : Fits(calls[n][p][i], log[n])
                        /\ Fits(hreq[n][p], log[n])

\* The others have their entries from the node without a rival.
OneSource ==
    \A n \in Nodes : Unopposed(n) =>
        /\ RequestsFit(n)
        /\ \A p \in Nodes : Begins(log[p], log[n])

\* The mutex of the peers keeps a second thread out of replication.
OneReplicator ==
    \A n \in Nodes, t, u \in Threads :
        pc[n][t] \in Replicating \ {"build"} /\ pc[n][u] \in Replicating \ {"build"}
            => t = u

\* Whoever got an acknowledgement waits for itself.
AckStops ==
    \A n, p \in Nodes : Unopposed(n) /\ match[n][p] > 0 =>
        \E t \in Threads : pc[n][t] = "relock" /\ peer[n][t] = p

\* What is acknowledged is stored, on its way back and once it is counted.
AckIsTrue ==
    bounds.timeouts = 0 =>
        \A n, p \in Nodes : Unopposed(n) =>
            /\ match[n][p] <= Len(log[p])
            /\ \A t \in Threads, i \in DOMAIN replies[n][p] :
                  Calling(n, p, t) /\ pc[n][t] = "wait" /\ replies[n][p][i].ok
                      => LastSent(req[n][t]) <= Len(log[p])

SourceInv ==
    /\ NeverStood
    /\ NotItself
    /\ OneSource
    /\ OneReplicator
    /\ AckStops

\* ThreadStep is every step of a thread.
ThreadStep(n, t) ==
    \/ t = "election" /\ (Timeout(n) \/ Election(n))
    \/ t = "heartbeat" /\ Beat(n)
    \/ t = "client" /\ (Submit(n) \/ AppendEntry(n))
    \/ Replication(n, t)
    \/ RpcFails(n, t)

LEMMA ThreeKinds ==
    ASSUME Next
    PROVE  \/ \E n \in Nodes : Crash(n)
           \/ \E n \in Nodes, t \in Threads : ThreadStep(n, t)
           \/ \E p, n \in Nodes : Handler(p, n)
BY DEF Next, ThreadStep, Threads

-----------------------------------------------------------------------------
(* Beginnings of logs *)

LEMMA BeginsTransitive ==
    ASSUME NEW a \in Seq(Nat), NEW b \in Seq(Nat), NEW c \in Seq(Nat),
           Begins(a, b), Begins(b, c)
    PROVE  Begins(a, c)
<1>1. Len(a) \in Nat /\ Len(b) \in Nat /\ Len(c) \in Nat
  BY LenProperties
<1>2. QED  BY <1>1 DEF Begins

LEMMA AppendBegins ==
    ASSUME NEW a \in Seq(Nat), NEW e \in Nat
    PROVE  Begins(a, Append(a, e))
<1>1. /\ Len(Append(a, e)) = Len(a) + 1 /\ Len(a) \in Nat
      /\ \A i \in 1 .. Len(a) : Append(a, e)[i] = a[i]
  BY AppendProperties, LenProperties
<1>2. QED  BY <1>1 DEF Begins

\* A request fits a log that has grown.
LEMMA FitsLonger ==
    ASSUME NEW r \in Request \cup {NoRequest},
           NEW a \in Seq(Nat), NEW b \in Seq(Nat), Fits(r, a), Begins(a, b)
    PROVE  Fits(r, b)
<1> SUFFICES ASSUME r.type = "append" PROVE Fits(r, b)
  BY DEF Fits
<1>1. r \in AppendRequest
  BY DEF Request, VoteRequest, NoRequest
<1>2. r.prevIndex \in Nat /\ r.entries \in Seq(Nat) /\ Len(r.entries) \in Nat
  BY <1>1, LenProperties DEF AppendRequest
<1>3. Len(a) \in Nat /\ Len(b) \in Nat
  BY LenProperties
<1>4. LastSent(r) \in Nat /\ LastSent(r) = r.prevIndex + Len(r.entries)
  BY <1>2 DEF LastSent
<1>5. /\ LastSent(r) <= Len(a) /\ Len(a) <= Len(b)
      /\ \A i \in 1 .. Len(a) : a[i] = b[i]
      /\ \A k \in 1 .. Len(r.entries) : r.entries[k] = a[r.prevIndex + k]
      /\ r.prevIndex > 0 => r.prevTerm = a[r.prevIndex]
  BY DEF Fits, Begins
<1>6. ASSUME NEW k \in 1 .. Len(r.entries)
      PROVE  r.entries[k] = b[r.prevIndex + k]
  <2>1. r.prevIndex + Len(r.entries) <= Len(a)
    BY <1>4, <1>5
  <2> DEFINE prev == r.prevIndex
             n == Len(r.entries)
  <2>2. prev \in Nat /\ n \in Nat /\ prev + n <= Len(a) /\ k \in 1 .. n
    BY <1>2, <2>1
  <2> HIDE DEF prev, n
  <2>3. prev + k \in 1 .. Len(a)
    BY <1>3, <2>2
  <2>4. r.prevIndex + k \in 1 .. Len(a)
    BY <2>3 DEF prev
  <2>5. QED  BY <1>5, <2>4
<1>7. ASSUME r.prevIndex > 0
      PROVE  r.prevTerm = b[r.prevIndex]
  <2>1. r.prevIndex \in 1 .. Len(a)
    BY <1>2, <1>3, <1>4, <1>5, <1>7
  <2>2. QED  BY <1>5, <1>7, <2>1
<1>8. LastSent(r) <= Len(b)
  BY <1>3, <1>4, <1>5
<1>9. QED  BY <1>6, <1>7, <1>8 DEF Fits

\* Entries of L, stored in a beginning of L, make a longer one.
LEMMA MergedBegins ==
    ASSUME NEW l \in Seq(Nat), NEW L \in Seq(Nat), NEW es \in Seq(Nat), NEW prev \in Nat,
           Begins(l, L), prev <= Len(l), prev + Len(es) <= Len(L),
           \A k \in 1 .. Len(es) : es[k] = L[prev + k]
    PROVE  /\ Begins(Merged(l, prev, es), L)
           /\ Len(l) <= Len(Merged(l, prev, es))
           /\ prev + Len(es) <= Len(Merged(l, prev, es))
<1>1. Len(l) \in Nat /\ Len(L) \in Nat /\ Len(es) \in Nat
  BY LenProperties
<1>2. \A k \in 1 .. Len(es) : prev + k <= Len(l) => l[prev + k] = es[k]
  BY <1>1 DEF Begins
<1>3. CASE prev + Len(es) <= Len(l)
  <2>1. Merged(l, prev, es) = l
    BY <1>2, <1>3 DEF Merged
  <2>2. QED  BY <1>1, <1>3, <2>1
<1>4. CASE ~(prev + Len(es) <= Len(l))
  <2> DEFINE a == SubSeq(l, 1, prev)
             m == a \o es
  <2>1. Merged(l, prev, es) = m
    BY <1>4 DEF Merged
  <2>2. /\ a \in Seq(Nat) /\ Len(a) = prev
        /\ \A i \in 1 .. prev : a[i] = l[i]
    <3>1. \A i \in 1 .. prev : l[i] \in Nat
      <4>1. 1 .. prev \subseteq 1 .. Len(l)
        BY <1>1
      <4>2. QED  BY <4>1, ElementOfSeq
    <3>2. /\ SubSeq(l, 1, prev) \in Seq(Nat)
          /\ Len(SubSeq(l, 1, prev)) = IF 1 <= prev THEN prev - 1 + 1 ELSE 0
          /\ \A i \in 1 .. prev - 1 + 1 : SubSeq(l, 1, prev)[i] = l[1 + i - 1]
      BY <3>1, SubSeqProperties
    <3>3. QED  BY <3>2
  <2> HIDE DEF a
  <2>3. /\ m \in Seq(Nat)
        /\ Len(m) = prev + Len(es)
        /\ \A i \in 1 .. prev + Len(es) :
              m[i] = IF i <= prev THEN a[i] ELSE es[i - prev]
    <3>1. /\ a \o es \in Seq(Nat)
          /\ Len(a \o es) = Len(a) + Len(es)
          /\ \A i \in 1 .. Len(a) + Len(es) :
                (a \o es)[i] = IF i <= Len(a) THEN a[i] ELSE es[i - Len(a)]
      BY <2>2, ConcatProperties
    <3>2. QED  BY <2>2, <3>1
  <2> HIDE DEF m
  <2>4. ASSUME NEW i \in 1 .. Len(m)
        PROVE  m[i] = L[i]
    <3>1. CASE i <= prev
      <4>1. i \in 1 .. prev /\ i \in 1 .. Len(l)
        BY <1>1, <2>3, <3>1
      <4>2. a[i] = l[i] /\ l[i] = L[i]
        BY <2>2, <4>1 DEF Begins
      <4>3. QED  BY <2>3, <3>1, <4>2
    <3>2. CASE ~(i <= prev)
      <4>1. i - prev \in 1 .. Len(es) /\ prev + (i - prev) = i
        BY <1>1, <2>3, <3>2
      <4>2. m[i] = es[i - prev]
        BY <2>3, <3>2
      <4>3. QED  BY <4>1, <4>2
    <3>3. QED  BY <3>1, <3>2
  <2>5. QED  BY <1>1, <1>4, <2>1, <2>3, <2>4 DEF Begins
<1>5. QED  BY <1>3, <1>4

-----------------------------------------------------------------------------
(* What a step of a thread or of a handler leaves alone *)

InReplication == Replicating \ {"build"}

\* A thread moves alone. It gets into replication only past the mutex of the
\* peers, and never to the node itself; who waits for the mutex it holds does
\* not move again.
LEMMA ThreadMoves ==
    ASSUME TypeOK, NotItself, NEW n \in Nodes, NEW t \in Threads, ThreadStep(n, t)
    PROVE  /\ Alone(n, t)
           /\ pc[n][t] # "relock"
           /\ pc'[n][t] \in InReplication =>
                 pc[n][t] \in InReplication \/ ~PeersHeld(n)
           /\ pc'[n][t] \in {"ask", "poll"} \cup Replicating => peer'[n][t] # n
<1> DEFINE Good == /\ Alone(n, t)
                   /\ pc'[n][t] \in InReplication =>
                         pc[n][t] \in InReplication \/ ~PeersHeld(n)
                   /\ pc'[n][t] \in {"ask", "poll"} \cup Replicating =>
                         peer'[n][t] # n
<1>1. ASSUME t = "election", NextAsk(n)
      PROVE  Good
  BY <1>1, NextAskAlone DEF InReplication, Replicating
<1>2. ASSUME NextBuild(n, t)
      PROVE  Good
  BY <1>2, NextBuildAlone DEF InReplication, Replicating
<1>3. ASSUME NEW place, Goto(n, t, place),
             place \in {"ask", "poll"} \cup Replicating => peer[n][t] # n,
             place \in InReplication => pc[n][t] \in InReplication
      PROVE  Good
  BY <1>3, GotoAlone
<1>4. ASSUME NEW place, NEW q, NEW r, Step(n, t, place, q, r),
             place \in {"ask", "poll"} \cup Replicating => q # n,
             place \in InReplication => pc[n][t] \in InReplication \/ ~PeersHeld(n)
      PROVE  Good
  BY <1>4, StepAlone
<1>5. pc[n][t] \in {"ask", "poll"} \cup Replicating => peer[n][t] # n
  BY DEF NotItself
<1>6. pc[n][t] # "relock"
  BY DEF ThreadStep, Timeout, Election, BumpTerm, VoteSelf, Snapshot, ListPeers,
         VoteReply, StepDown, CountVotes, Crown, Beat, Submit, AppendEntry,
         Replication, Build, Send, AppendReply, Demote, RpcFails, At
<1> SUFFICES Good
  BY <1>6
<1>7. CASE t = "election" /\ (Timeout(n) \/ Election(n))
  <2>1. CASE NextAsk(n)
    BY <1>1, <1>7, <2>1
  <2>2. CASE NextBuild(n, t)
    BY <1>2, <2>2
  <2>3. CASE \E place \in {"bump", "self", "snapshot", "crown", "sleep"} :
                 Goto(n, t, place)
    BY <1>3, <2>3 DEF InReplication, Replicating
  <2>4. CASE \E place \in {"list", "stepdown", "sleep"} : \E q, r : Step(n, t, place, q, r)
    BY <1>4, <2>4 DEF InReplication, Replicating
  <2>5. QED
    BY <1>7, <2>1, <2>2, <2>3, <2>4
       DEF Election, Timeout, BumpTerm, VoteSelf, Snapshot, ListPeers, VoteReply,
           StepDown, CountVotes, Crown
<1>8. CASE t = "heartbeat" /\ Beat(n)
  BY <1>2, <1>8 DEF Beat
<1>9. CASE t = "client" /\ Submit(n)
  BY <1>3, <1>9 DEF Submit, InReplication, Replicating
<1>10. CASE t = "client" /\ AppendEntry(n)
  BY <1>2, <1>10 DEF AppendEntry
<1>11. CASE Build(n, t)
  <2>1. peer[n][t] # n /\ ~PeersHeld(n)
    BY <1>5, <1>11 DEF Build, At, Replicating
  <2>2. CASE UNCHANGED threadVars
    BY <1>5, <2>1, <2>2 DEF threadVars, Alone
  <2>3. CASE \E r : Step(n, t, "send", peer[n][t], r)
    BY <1>4, <2>1, <2>3
  <2>4. QED  BY <1>11, <2>2, <2>3 DEF Build
<1>12. CASE Send(n, t)
  <2>1. CASE pc[n][t] = "ask"
    <3>1. t = "election"
      BY <2>1 DEF TypeOK, ThreadsType
    <3>2. Goto(n, t, "poll") \/ NextAsk(n)
      BY <1>12, <2>1 DEF Send
    <3>3. QED  BY <1>1, <1>3, <1>5, <2>1, <3>1, <3>2 DEF InReplication, Replicating
  <2>2. CASE pc[n][t] = "send"
    <3>1. Goto(n, t, "wait") \/ NextBuild(n, t)
      BY <1>12, <2>2 DEF Send
    <3>2. QED  BY <1>2, <1>3, <1>5, <2>2, <3>1 DEF InReplication, Replicating
  <2>3. QED  BY <1>12, <2>1, <2>2 DEF Send
<1>13. CASE AppendReply(n, t)
  <2>1. pc[n][t] = "wait"
    BY <1>13 DEF AppendReply, At
  <2>2. \/ NextBuild(n, t)
        \/ Goto(n, t, "relock")
        \/ \E r : Step(n, t, "demote", peer[n][t], r)
    BY <1>13 DEF AppendReply, AfterAck
  <2>3. QED  BY <1>2, <1>3, <1>4, <1>5, <2>1, <2>2 DEF InReplication, Replicating
<1>14. CASE Demote(n, t)
  BY <1>2, <1>14 DEF Demote
<1>15. CASE RpcFails(n, t)
  <2>1. CASE pc[n][t] = "poll"
    <3>1. t = "election" /\ NextAsk(n)
      BY <1>15, <2>1 DEF RpcFails, TypeOK, ThreadsType
    <3>2. QED  BY <1>1, <3>1
  <2>2. CASE pc[n][t] # "poll"
    BY <1>2, <1>15, <2>2 DEF RpcFails
  <2>3. QED  BY <2>1, <2>2
<1>16. QED
  BY <1>7, <1>8, <1>9, <1>10, <1>11, <1>12, <1>13, <1>14, <1>15
     DEF ThreadStep, Replication

\* A thread of k changes nothing of another node m.
Untouched(m) ==
    /\ role'[m] = role[m]
    /\ log'[m] = log[m]
    /\ votes'[m] = votes[m]
    /\ match'[m] = match[m]
    /\ calls'[m] = calls[m]
    /\ replies'[m] = replies[m]

LEMMA ThreadFrame ==
    ASSUME TypeOK, NEW k \in Nodes, NEW t \in Threads, ThreadStep(k, t)
    PROVE  /\ UNCHANGED handlerVars
           /\ \A m \in Nodes : m # k => Untouched(m)
<1> SUFFICES /\ UNCHANGED handlerVars
             /\ \A m \in Nodes : m # k =>
                   /\ role'[m] = role[m] /\ log'[m] = log[m]
                   /\ votes'[m] = votes[m] /\ match'[m] = match[m]
                   /\ calls'[m] = calls[m] /\ replies'[m] = replies[m]
  BY DEF Untouched
<1> USE DEF TypeOK, NodesType, LeadersType, NetworkType
<1>1. CASE Timeout(k) \/ BumpTerm(k) \/ VoteSelf(k) \/ Snapshot(k) \/ ListPeers(k)
  BY <1>1
     DEF Timeout, BumpTerm, VoteSelf, Snapshot, ListPeers, nodeVars, leaderVars, netVars
<1>2. CASE VoteReply(k)
  BY <1>2 DEF VoteReply, nodeVars, leaderVars
<1>3. CASE StepDown(k) \/ CountVotes(k) \/ Crown(k)
  BY <1>3 DEF StepDown, CountVotes, Crown, BecomeFollower, nodeVars, leaderVars, netVars
<1>4. CASE Beat(k) \/ Submit(k) \/ AppendEntry(k)
  BY <1>4 DEF Beat, Submit, AppendEntry, nodeVars, leaderVars, netVars
<1>5. CASE Build(k, t)
  BY <1>5 DEF Build, leaderVars, netVars
<1>6. CASE Send(k, t)
  BY <1>6 DEF Send, nodeVars, leaderVars
<1>7. CASE AppendReply(k, t)
  <2>1. UNCHANGED <<role, log, votes, calls, handlerVars>>
    BY <1>7 DEF AppendReply, nodeVars
  <2>2. \A m \in Nodes : m # k => match'[m] = match[m]
    BY <1>7 DEF AppendReply, leaderVars
  <2>3. \A m \in Nodes : m # k => replies'[m] = replies[m]
    BY <1>7 DEF AppendReply
  <2>4. QED  BY <2>1, <2>2, <2>3
<1>8. CASE Demote(k, t) \/ RpcFails(k, t)
  BY <1>8 DEF Demote, RpcFails, BecomeFollower, nodeVars, leaderVars, netVars
<1>9. QED
  BY <1>1, <1>2, <1>3, <1>4, <1>5, <1>6, <1>7, <1>8
     DEF ThreadStep, Election, Replication

-----------------------------------------------------------------------------
(* Who never stood sends nothing, and nobody calls itself *)

\* The own vote makes the difference: before it, a node only takes a timeout.
LEMMA FirstSteps ==
    ASSUME NeverStood, NEW n \in Nodes, votes[n] = 0,
           NEW t \in Threads, ThreadStep(n, t)
    PROVE  t = "election" /\ (Timeout(n) \/ BumpTerm(n) \/ VoteSelf(n))
<1>1. /\ pc[n]["election"] \in {"sleep", "bump", "self"}
      /\ pc[n]["heartbeat"] = "sleep" /\ pc[n]["client"] = "sleep"
      /\ role[n] # "leader"
  BY DEF NeverStood
<1>2. pc[n][t] \in {"sleep", "bump", "self"}
  BY <1>1 DEF Threads
<1>3. ~Replication(n, t) /\ ~RpcFails(n, t)
  BY <1>2 DEF Replication, Build, Send, AppendReply, Demote, RpcFails, At
<1>4. ~Beat(n) /\ ~Submit(n) /\ ~AppendEntry(n)
  BY <1>1 DEF Beat, Submit, AppendEntry, At
<1>5. \/ ~Election(n)
      \/ BumpTerm(n) \/ VoteSelf(n)
  BY <1>1 DEF Election, Snapshot, ListPeers, VoteReply, StepDown, CountVotes, Crown, At
<1>6. QED  BY <1>3, <1>4, <1>5 DEF ThreadStep

\* Nor is anything of it handled.
LEMMA NothingToHandle ==
    ASSUME NEW p \in Nodes, NEW k \in Nodes, Silent(p, k)
    PROVE  ~Handler(p, k)
BY DEF Silent, Handler, Receive, Adopt, CheckVote, Grant, SeeLeader, Concede,
       Store, Handling

\* A vote counted is never taken back.
LEMMA VotesStay ==
    ASSUME TypeOK, [Next]_vars, NEW n \in Nodes, votes'[n] = 0
    PROVE  votes[n] = 0
<1>1. CASE votes' = votes
  BY <1>1
<1>2. ASSUME NEW k \in Nodes, VoteSelf(k)
      PROVE  votes[n] = 0
  BY <1>2 DEF VoteSelf, TypeOK, LeadersType
<1>3. ASSUME NEW k \in Nodes, VoteReply(k)
      PROVE  votes[n] = 0
  BY <1>3 DEF VoteReply, TypeOK, LeadersType
<1>4. ASSUME NEW k \in Nodes, NEW t \in Threads, ThreadStep(k, t)
      PROVE  votes[n] = 0
  <2>1. VoteSelf(k) \/ VoteReply(k) \/ votes' = votes
    BY <1>4
       DEF ThreadStep, Election, Timeout, BumpTerm, Snapshot, ListPeers, StepDown,
           CountVotes, Crown, Beat, Submit, AppendEntry, Replication, Build, Send,
           AppendReply, Demote, RpcFails
  <2>2. QED  BY <1>1, <1>2, <1>3, <2>1
<1>5. ASSUME NEW p \in Nodes, NEW k \in Nodes, Handler(p, k)
      PROVE  votes[n] = 0
  BY <1>1, <1>5, HandlerFrame
<1>6. ASSUME NEW k \in Nodes, Crash(k)
      PROVE  votes[n] = 0
  BY <1>1, <1>6 DEF Crash
<1>7. CASE UNCHANGED vars
  BY <1>1, <1>7 DEF vars
<1>8. QED  BY <1>4, <1>5, <1>6, <1>7, ThreeKinds

LEMMA UnopposedBefore ==
    ASSUME TypeOK, [Next]_vars, NEW n \in Nodes, Unopposed(n)'
    PROVE  Unopposed(n)
BY VotesStay DEF Unopposed

LEMMA NextNeverStood ==
    ASSUME TypeOK, NeverStood, NotItself, [Next]_vars
    PROVE  NeverStood'
<1> SUFFICES ASSUME NEW n \in Nodes, votes'[n] = 0
             PROVE  /\ pc'[n]["election"] \in {"sleep", "bump", "self"}
                    /\ pc'[n]["heartbeat"] = "sleep"
                    /\ pc'[n]["client"] = "sleep"
                    /\ role'[n] # "leader"
                    /\ \A p \in Nodes : Silent(n, p)'
  BY DEF NeverStood
<1>1. votes[n] = 0
  BY VotesStay
<1>2. /\ pc[n]["election"] \in {"sleep", "bump", "self"}
      /\ pc[n]["heartbeat"] = "sleep"
      /\ pc[n]["client"] = "sleep"
      /\ role[n] # "leader"
      /\ \A p \in Nodes : Silent(n, p)
  BY <1>1 DEF NeverStood
<1> DEFINE Good == /\ pc'[n]["election"] \in {"sleep", "bump", "self"}
                   /\ pc'[n]["heartbeat"] = "sleep"
                   /\ pc'[n]["client"] = "sleep"
                   /\ role'[n] # "leader"
                   /\ \A p \in Nodes : Silent(n, p)'
<1>3. ASSUME NEW k \in Nodes, NEW t \in Threads, ThreadStep(k, t), k # n
      PROVE  Good
  <2>1. \A u \in Threads : pc'[n][u] = pc[n][u]
    BY <1>3, ThreadMoves DEF Alone
  <2>2. /\ role'[n] = role[n] /\ calls'[n] = calls[n] /\ replies'[n] = replies[n]
        /\ hpc' = hpc
    BY <1>3, ThreadFrame DEF Untouched, handlerVars
  <2>3. QED  BY <1>2, <2>1, <2>2 DEF Silent, Threads
<1>4. ASSUME NEW t \in Threads, ThreadStep(n, t)
      PROVE  Good
  <2>1. t = "election" /\ (Timeout(n) \/ BumpTerm(n) \/ VoteSelf(n))
    BY <1>1, <1>4, FirstSteps
  <2>2. ~VoteSelf(n)
    BY DEF VoteSelf, TypeOK, LeadersType
  <2>3. UNCHANGED <<netVars, handlerVars>>
    BY <2>1, <2>2 DEF Timeout, BumpTerm
  <2>4. role'[n] \in {role[n], "candidate"}
    BY <2>1, <2>2 DEF Timeout, BumpTerm, TypeOK, NodesType
  <2>5. Goto(n, "election", "bump") \/ Goto(n, "election", "self")
    BY <2>1, <2>2 DEF Timeout, BumpTerm
  <2>6. /\ pc'[n]["election"] \in {"bump", "self"}
        /\ pc'[n]["heartbeat"] = pc[n]["heartbeat"]
        /\ pc'[n]["client"] = pc[n]["client"]
    BY <2>5, GotoAlone DEF Alone, Threads
  <2>7. QED  BY <1>2, <2>3, <2>4, <2>6 DEF Silent, netVars, handlerVars
<1>5. ASSUME NEW p \in Nodes, NEW k \in Nodes, Handler(p, k)
      PROVE  Good
  <2>1. p # n
    BY <1>2, <1>5, NothingToHandle
  <2>2. /\ pc' = pc /\ role'[n] \in {role[n], "follower"}
        /\ \A q \in Nodes : /\ calls'[n][q] = calls[n][q]
                            /\ replies'[n][q] = replies[n][q]
                            /\ hpc'[n][q] = hpc[n][q]
    BY <1>5, <2>1, HandlerFrame
  <2>3. QED  BY <1>2, <2>2 DEF Silent
<1>6. ASSUME NEW k \in Nodes, Crash(k)
      PROVE  Good
  <2>1. UNCHANGED <<threadVars, netVars, handlerVars>>
    BY <1>6 DEF Crash
  <2>2. role'[n] \in {role[n], "terminated"}
    BY <1>6 DEF Crash, TypeOK, NodesType
  <2>3. QED  BY <1>2, <2>1, <2>2 DEF Silent, threadVars, netVars, handlerVars
<1>7. CASE UNCHANGED vars
  BY <1>2, <1>7 DEF vars, nodeVars, threadVars, netVars, handlerVars, Silent
<1>8. QED  BY <1>3, <1>4, <1>5, <1>6, <1>7, ThreeKinds

LEMMA NextNotItself ==
    ASSUME TypeOK, NotItself, [Next]_vars
    PROVE  NotItself'
<1> SUFFICES ASSUME NEW n \in Nodes
             PROVE  /\ Silent(n, n)'
                    /\ \A t \in Threads :
                          pc'[n][t] \in {"ask", "poll"} \cup Replicating =>
                              peer'[n][t] # n
  BY DEF NotItself
<1> DEFINE Here == Silent(n, n)'
           There == \A t \in Threads :
                       pc'[n][t] \in {"ask", "poll"} \cup Replicating => peer'[n][t] # n
<1>1. /\ Silent(n, n)
      /\ \A t \in Threads :
            pc[n][t] \in {"ask", "poll"} \cup Replicating => peer[n][t] # n
  BY DEF NotItself
<1>2. ASSUME NEW k \in Nodes, NEW t \in Threads, ThreadStep(k, t)
      PROVE  Here /\ There
  <2>1. There
    <3> SUFFICES ASSUME NEW u \in Threads,
                        pc'[n][u] \in {"ask", "poll"} \cup Replicating
                 PROVE  peer'[n][u] # n
      OBVIOUS
    <3>1. CASE k = n /\ u = t
      BY <1>2, <3>1, ThreadMoves
    <3>2. CASE ~(k = n /\ u = t)
      <4>1. pc'[n][u] = pc[n][u] /\ peer'[n][u] = peer[n][u]
        BY <1>2, <3>2, ThreadMoves DEF Alone
      <4>2. QED  BY <1>1, <4>1
    <3>3. QED  BY <3>1, <3>2
  <2>2. Here
    <3>1. hpc' = hpc
      BY <1>2, ThreadFrame DEF handlerVars
    <3>2. CASE k # n
      BY <1>1, <1>2, <3>1, <3>2, ThreadFrame DEF Untouched, Silent
    <3>3. CASE k = n /\ Send(n, t)
      <4>1. peer[n][t] \in Nodes /\ peer[n][t] # n
        BY <1>1, <3>3 DEF Send, TypeOK, ThreadsType, Replicating
      <4>2. replies' = replies
            /\ calls' \in {calls, [calls EXCEPT ![n][peer[n][t]] = Append(@, req[n][t])]}
        BY <3>3 DEF Send
      <4>3. calls \in [Nodes -> [Nodes -> Seq(Request)]]
        BY DEF TypeOK, NetworkType
      <4>4. calls'[n][n] = calls[n][n]
        BY <4>1, <4>2, <4>3
      <4>5. QED  BY <1>1, <3>1, <4>2, <4>4 DEF Silent
    <3>4. CASE k = n /\ (VoteReply(n) \/ AppendReply(n, t))
      <4>1. PICK u \in Threads : /\ pc[n][u] \in {"poll", "wait"}
                                 /\ replies' = [replies EXCEPT ![n][peer[n][u]] = Tail(@)]
        BY <3>4 DEF VoteReply, AppendReply, At, Threads
      <4>2. peer[n][u] \in Nodes /\ peer[n][u] # n
        BY <1>1, <4>1 DEF TypeOK, ThreadsType, Replicating
      <4>3. replies'[n][n] = replies[n][n] /\ calls' = calls
        BY <3>4, <4>1, <4>2 DEF VoteReply, AppendReply, TypeOK, NetworkType
      <4>4. QED  BY <1>1, <3>1, <4>3 DEF Silent
    <3>5. CASE k = n /\ ~Send(n, t) /\ ~VoteReply(n) /\ ~AppendReply(n, t)
      <4>1. UNCHANGED <<calls, replies>>
        BY <1>2, <3>5
           DEF ThreadStep, Election, Timeout, BumpTerm, VoteSelf, Snapshot, ListPeers,
               StepDown, CountVotes, Crown, Beat, Submit, AppendEntry, Replication,
               Build, Demote, RpcFails, netVars
      <4>2. QED  BY <1>1, <3>1, <4>1 DEF Silent
    <3>6. QED  BY <3>2, <3>3, <3>4, <3>5
  <2>3. QED  BY <2>1, <2>2
<1>3. ASSUME NEW p \in Nodes, NEW k \in Nodes, Handler(p, k)
      PROVE  Here /\ There
  <2>1. ~(p = n /\ k = n)
    BY <1>1, <1>3, NothingToHandle
  <2>2. QED  BY <1>1, <1>3, <2>1, HandlerFrame DEF Silent
<1>4. ASSUME UNCHANGED <<threadVars, netVars, handlerVars>>
      PROVE  Here /\ There
  BY <1>1, <1>4 DEF threadVars, netVars, handlerVars, Silent
<1>5. CASE UNCHANGED vars
  BY <1>4, <1>5 DEF vars
<1>6. ASSUME NEW k \in Nodes, Crash(k)
      PROVE  Here /\ There
  BY <1>4, <1>6 DEF Crash
<1>7. QED  BY <1>2, <1>3, <1>5, <1>6, ThreeKinds

\* Replication is entered past the mutex only.
LEMMA NextOneReplicator ==
    ASSUME TypeOK, NotItself, OneReplicator, [Next]_vars
    PROVE  OneReplicator'
<1>1. ASSUME NEW k \in Nodes, NEW t \in Threads, ThreadStep(k, t)
      PROVE  OneReplicator'
  <2> SUFFICES ASSUME NEW n \in Nodes, NEW u \in Threads, NEW w \in Threads,
                      pc'[n][u] \in InReplication, pc'[n][w] \in InReplication,
                      u # w
               PROVE  FALSE
    BY DEF OneReplicator, InReplication
  <2>1. /\ Alone(k, t)
        /\ pc'[k][t] \in InReplication =>
              pc[k][t] \in InReplication \/ ~PeersHeld(k)
    BY <1>1, ThreadMoves
  <2>2. ASSUME NEW a \in Threads, NEW b \in Threads, a # b,
               pc[n][a] \in InReplication
        PROVE  pc[n][b] \notin InReplication
    BY <2>2 DEF OneReplicator, InReplication
  <2>3. \A a \in Threads : ~(n = k /\ a = t) => pc'[n][a] = pc[n][a]
    BY <2>1 DEF Alone
  <2>4. \A a \in Threads : pc[n][a] \in InReplication => PeersHeld(n)
    BY DEF PeersHeld, InReplication
  <2>5. QED  BY <2>1, <2>2, <2>3, <2>4
<1>2. ASSUME pc' = pc
      PROVE  OneReplicator'
  BY <1>2 DEF OneReplicator
<1>3. ASSUME NEW p \in Nodes, NEW k \in Nodes, Handler(p, k)
      PROVE  OneReplicator'
  BY <1>2, <1>3, HandlerFrame
<1>4. ASSUME NEW k \in Nodes, Crash(k)
      PROVE  OneReplicator'
  BY <1>2, <1>4 DEF Crash, threadVars
<1>5. CASE UNCHANGED vars
  BY <1>2, <1>5 DEF vars, threadVars
<1>6. QED  BY <1>1, <1>3, <1>4, <1>5, ThreeKinds

-----------------------------------------------------------------------------
(* Where the others have their entries from *)

LEMMA NoRequestFits ==
    ASSUME NEW l
    PROVE  Fits(NoRequest, l)
BY DEF Fits, NoRequest

\* The request that is built is a part of the log, from its place on.
LEMMA BuiltFits ==
    ASSUME TypeOK, NEW n \in Nodes, NEW i \in Nat \ {0}, i <= Len(log[n]) + 1,
           NEW k \in Nat, NEW c \in Nat
    PROVE  Fits([type |-> "append", term |-> k, prevIndex |-> i - 1,
                 prevTerm |-> IF i > 1 THEN log[n][i - 1] ELSE 0,
                 entries |-> SubSeq(log[n], i, Len(log[n])),
                 commit |-> c], log[n])
<1> DEFINE l == log[n]
           es == SubSeq(l, i, Len(l))
           pt == IF i > 1 THEN l[i - 1] ELSE 0
           r == [type |-> "append", term |-> k, prevIndex |-> i - 1,
                 prevTerm |-> pt, entries |-> es, commit |-> c]
<1>1. l \in Seq(Nat) /\ Len(l) \in Nat
  BY LenProperties DEF TypeOK, NodesType
<1>2. r.prevIndex = i - 1 /\ r.prevTerm = pt /\ r.entries = es
  OBVIOUS
<1> HIDE DEF l
<1>3. /\ Len(es) = IF i <= Len(l) THEN Len(l) - i + 1 ELSE 0
      /\ \A j \in 1 .. Len(l) - i + 1 : es[j] = l[i + j - 1]
  <2>1. \A j \in i .. Len(l) : l[j] \in Nat
    BY <1>1, ElementOfSeq
  <2>2. QED  BY <1>1, <2>1, SubSeqProperties
<1>4. i <= Len(l) + 1
  BY DEF l
<1>5. Len(es) = Len(l) + 1 - i
  BY <1>1, <1>3, <1>4
<1> HIDE DEF es
<1>6. i - 1 + Len(es) <= Len(l)
  BY <1>1, <1>5
<1>7. \A j \in 1 .. Len(es) : es[j] = l[i - 1 + j]
  BY <1>1, <1>3, <1>5
<1>8. i - 1 > 0 => pt = l[i - 1]
  OBVIOUS
<1> HIDE DEF pt
<1>9. Fits(r, l)
  <2> HIDE DEF r
  <2>1. QED  BY <1>2, <1>6, <1>7, <1>8 DEF Fits, LastSent
<1>10. QED  BY <1>9 DEF l, es, pt

\* Whatever a thread does, its request is about the log of its node.
LEMMA ThreadFits ==
    ASSUME TypeOK, NEW n \in Nodes, NEW t \in Threads, ThreadStep(n, t),
           \A u \in Threads : Fits(req[n][u], log[n])
    PROVE  Fits(req'[n][t], log[n])
<1>1. Fits(req[n][t], log[n]) /\ Fits(req[n]["election"], log[n])
  BY DEF Threads
<1>2. ASSUME t = "election", NextAsk(n)
      PROVE  Fits(req'[n][t], log[n])
  BY <1>1, <1>2, NextAskAlone, NoRequestFits
<1>3. ASSUME NextBuild(n, t)
      PROVE  Fits(req'[n][t], log[n])
  BY <1>3, NextBuildAlone, NoRequestFits
<1>4. ASSUME NEW place, Goto(n, t, place)
      PROVE  Fits(req'[n][t], log[n])
  BY <1>1, <1>4, GotoAlone
<1>5. ASSUME NEW place, NEW q, NEW r, Step(n, t, place, q, r), Fits(r, log[n])
      PROVE  Fits(req'[n][t], log[n])
  BY <1>5, StepAlone
<1>6. CASE t = "election" /\ Snapshot(n)
  <2> DEFINE r == [type |-> "vote", term |-> term[n], lastIndex |-> Len(log[n]),
                   lastTerm |-> LastTerm(n)]
  <2>1. Fits(r, log[n])
    BY DEF Fits
  <2>2. Step(n, t, "list", None, r)
    BY <1>6 DEF Snapshot
  <2> HIDE DEF r
  <2>3. QED  BY <1>5, <2>1, <2>2
<1>7. CASE t = "election" /\ VoteReply(n)
  <2> DEFINE r == [req[n][t] EXCEPT !.term = Head(replies[n][peer[n][t]]).term]
  <2>1. req[n][t] \in VoteRequest
    BY <1>7 DEF VoteReply, At, TypeOK, ThreadsType
  <2>2. Fits(r, log[n])
    BY <2>1 DEF Fits, VoteRequest
  <2>3. NextAsk(n) \/ Step(n, t, "stepdown", None, r)
    BY <1>7 DEF VoteReply
  <2> HIDE DEF r
  <2>4. QED  BY <1>2, <1>5, <1>7, <2>2, <2>3
<1>8. CASE t = "election" /\ (Timeout(n) \/ Election(n)) /\ ~Snapshot(n) /\ ~VoteReply(n)
  <2>1. \/ NextAsk(n) \/ NextBuild(n, t) \/ Step(n, t, "sleep", None, NoRequest)
        \/ \E place : Goto(n, t, place)
    BY <1>8
       DEF Election, Timeout, BumpTerm, VoteSelf, ListPeers, StepDown, CountVotes, Crown
  <2>2. QED  BY <1>2, <1>3, <1>4, <1>5, <1>8, <2>1, NoRequestFits
<1>9. CASE \/ t = "heartbeat" /\ Beat(n)
           \/ t = "client" /\ (Submit(n) \/ AppendEntry(n))
           \/ Demote(n, t)
  <2>1. NextBuild(n, t) \/ \E place : Goto(n, t, place)
    BY <1>9 DEF Beat, Submit, AppendEntry, Demote
  <2>2. QED  BY <1>3, <1>4, <2>1
<1>10. CASE Build(n, t)
  <2> DEFINE i == next[n][peer[n][t]]
             r == [type |-> "append", term |-> term[n], prevIndex |-> i - 1,
                   prevTerm |-> IF i > 1 THEN log[n][i - 1] ELSE 0,
                   entries |-> SubSeq(log[n], i, Len(log[n])),
                   commit |-> commit[n]]
  <2>1. CASE UNCHANGED threadVars
    BY <1>1, <2>1 DEF threadVars
  <2>2. CASE ~(i > Len(log[n]) + 1)
    <3>1. /\ i \in Nat \ {0} /\ Len(log[n]) \in Nat
          /\ term[n] \in Nat /\ commit[n] \in Nat
      BY <1>10, LastTermType
         DEF Build, At, TypeOK, ThreadsType, LeadersType, NodesType, Replicating
    <3>2. Step(n, t, "send", peer[n][t], r)
      BY <1>10, <2>2 DEF Build
    <3>3. i <= Len(log[n]) + 1
      BY <2>2, <3>1
    <3> HIDE DEF i
    <3>4. Fits(r, log[n])
      BY <3>1, <3>3, BuiltFits
    <3> HIDE DEF r
    <3>5. QED  BY <1>5, <3>2, <3>4
  <2>3. QED  BY <1>10, <2>1, <2>2 DEF Build
<1>11. CASE Send(n, t) \/ RpcFails(n, t)
  <2>1. CASE pc[n][t] \in {"ask", "poll"}
    <3>1. t = "election"
      BY <2>1 DEF TypeOK, ThreadsType
    <3>2. NextAsk(n) \/ \E place : Goto(n, t, place)
      BY <1>11, <2>1 DEF Send, RpcFails
    <3>3. QED  BY <1>2, <1>4, <3>1, <3>2
  <2>2. CASE pc[n][t] \notin {"ask", "poll"}
    <3>1. NextBuild(n, t) \/ \E place : Goto(n, t, place)
      BY <1>11, <2>2 DEF Send, RpcFails
    <3>2. QED  BY <1>3, <1>4, <3>1
  <2>3. QED  BY <2>1, <2>2
<1>12. CASE AppendReply(n, t)
  <2> DEFINE r == [req[n][t] EXCEPT !.term = Head(replies[n][peer[n][t]]).term]
  <2>1. req[n][t] \in AppendRequest
    BY <1>12 DEF AppendReply, At, TypeOK, ThreadsType
  <2>2. /\ r.type = req[n][t].type /\ r.prevIndex = req[n][t].prevIndex
        /\ r.prevTerm = req[n][t].prevTerm /\ r.entries = req[n][t].entries
    BY <2>1 DEF AppendRequest
  <2>3. NextBuild(n, t) \/ Goto(n, t, "relock") \/ Step(n, t, "demote", peer[n][t], r)
    BY <1>12 DEF AppendReply, AfterAck
  <2> HIDE DEF r
  <2>4. Fits(r, log[n])
    BY <1>1, <2>2 DEF Fits, LastSent
  <2>5. QED  BY <1>3, <1>4, <1>5, <2>3, <2>4
<1>13. QED
  BY <1>6, <1>7, <1>8, <1>9, <1>10, <1>11, <1>12 DEF ThreadStep, Replication

\* A follower that stores what fits the log of the sender keeps a beginning of
\* that log, loses nothing, and says yes only to what it has.
LEMMA StoreBegins ==
    ASSUME TypeOK, NEW n \in Nodes, NEW k \in Nodes, Store(n, k),
           Begins(log[k], log[n]), Fits(hreq[n][k], log[n])
    PROVE  /\ Begins(log'[k], log[n])
           /\ Len(log[k]) <= Len(log'[k])
           /\ \E ok \in BOOLEAN :
                 /\ Respond(n, k, "append", hreq[n][k].term, ok)
                 /\ ok => LastSent(hreq[n][k]) <= Len(log'[k])
<1> DEFINE r == hreq[n][k]
           l == log[k]
           L == log[n]
           gap == r.prevIndex > Len(l)
           conflict == r.prevIndex > 0 /\ ~gap /\ l[r.prevIndex] # r.prevTerm
           said == ~gap /\ ~conflict
<1>1. r \in AppendRequest
  BY DEF TypeOK, HandlersType, Store, Handling, Request, VoteRequest
<1>2. /\ r.type = "append" /\ r.prevIndex \in Nat /\ r.entries \in Seq(Nat)
      /\ Len(r.entries) \in Nat
  BY <1>1, LenProperties DEF AppendRequest
<1>3. l \in Seq(Nat) /\ L \in Seq(Nat) /\ Len(l) \in Nat /\ Len(L) \in Nat
  BY LenProperties DEF TypeOK, NodesType
<1>4. /\ log'[k] = IF gap THEN l
                   ELSE IF conflict THEN SubSeq(l, 1, r.prevIndex - 1)
                   ELSE Merged(l, r.prevIndex, r.entries)
      /\ Respond(n, k, "append", r.term, said)
  BY DEF Store, TypeOK, NodesType
<1>5. /\ r.prevIndex + Len(r.entries) <= Len(L)
      /\ \A j \in 1 .. Len(r.entries) : r.entries[j] = L[r.prevIndex + j]
      /\ r.prevIndex > 0 => r.prevTerm = L[r.prevIndex]
  BY <1>2 DEF Fits, LastSent
<1> HIDE DEF r, l, L
<1>6. ~conflict
  <2> SUFFICES ASSUME r.prevIndex > 0, ~gap PROVE l[r.prevIndex] = r.prevTerm
    OBVIOUS
  <2>1. r.prevIndex \in 1 .. Len(l)
    BY <1>2, <1>3
  <2>2. QED  BY <1>5, <2>1 DEF Begins, l, L
<1>7. CASE gap
  <2>1. said = FALSE /\ log'[k] = l
    BY <1>4, <1>7
  <2>2. Respond(n, k, "append", r.term, FALSE)
    BY <1>4, <2>1
  <2>3. Begins(log'[k], log[n]) /\ Len(log[k]) <= Len(log'[k])
    BY <1>3, <2>1 DEF l
  <2>4. Respond(n, k, "append", hreq[n][k].term, FALSE)
    BY <2>2 DEF r
  <2>5. QED  BY <2>3, <2>4
<1>8. CASE ~gap
  <2>1. log'[k] = Merged(l, r.prevIndex, r.entries)
    BY <1>4, <1>6, <1>8
  <2>2. r.prevIndex <= Len(l)
    BY <1>2, <1>3, <1>8
  <2>3. Begins(l, L)
    BY DEF l, L
  <2>4. /\ Begins(log'[k], L)
        /\ Len(l) <= Len(log'[k])
        /\ r.prevIndex + Len(r.entries) <= Len(log'[k])
    BY <1>2, <1>3, <1>5, <2>1, <2>2, <2>3, MergedBegins
  <2>5. said \in BOOLEAN
    OBVIOUS
  <2> HIDE DEF said
  <2>6. Begins(log'[k], log[n]) /\ Len(log[k]) <= Len(log'[k])
    BY <2>4 DEF l, L
  <2>7. LastSent(r) <= Len(log'[k])
    BY <2>4 DEF LastSent
  <2>8. QED  BY <1>4, <2>5, <2>6, <2>7 DEF r
<1>9. QED  BY <1>7, <1>8

\* The requests of a node fit its log as long as the log only grows.
LEMMA RequestsStayFit ==
    ASSUME TypeOK, TypeOK', NEW n \in Nodes, Begins(log[n], log'[n]),
           \A u \in Threads : Fits(req'[n][u], log[n]),
           \A p \in Nodes : /\ \A i \in DOMAIN calls'[n][p] :
                                  Fits(calls'[n][p][i], log[n])
                            /\ Fits(hreq'[n][p], log[n])
    PROVE  RequestsFit(n)'
<1>1. log[n] \in Seq(Nat) /\ log'[n] \in Seq(Nat)
  BY DEF TypeOK, NodesType
<1>2. ASSUME NEW r \in Request \cup {NoRequest}, Fits(r, log[n])
      PROVE  Fits(r, log'[n])
  BY <1>1, <1>2, FitsLonger
<1>3. ASSUME NEW u \in Threads
      PROVE  Fits(req'[n][u], log'[n])
  <2>1. req'[n][u] \in Request \cup {NoRequest}
    BY DEF TypeOK, ThreadsType
  <2>2. QED  BY <1>2, <2>1
<1>4. ASSUME NEW p \in Nodes
      PROVE  Fits(hreq'[n][p], log'[n])
  <2>1. hreq'[n][p] \in Request \cup {NoRequest}
    BY DEF TypeOK, HandlersType
  <2>2. QED  BY <1>2, <2>1
<1>5. ASSUME NEW p \in Nodes, NEW i \in DOMAIN calls'[n][p]
      PROVE  Fits(calls'[n][p][i], log'[n])
  <2>1. calls'[n][p] \in Seq(Request)
    BY DEF TypeOK, NetworkType
  <2>2. i \in 1 .. Len(calls'[n][p])
    BY <2>1, LenProperties
  <2>3. calls'[n][p][i] \in Request
    BY <2>1, <2>2, ElementOfSeq
  <2>4. QED  BY <1>2, <2>3
<1>6. QED  BY <1>3, <1>4, <1>5 DEF RequestsFit, Fits

\* A node without a rival, when it moves itself.
LEMMA OwnStepSource ==
    ASSUME TypeOK, TypeOK', [Next]_vars, NotItself, NEW n \in Nodes,
           RequestsFit(n), \A p \in Nodes : Begins(log[p], log[n]),
           NEW t \in Threads, ThreadStep(n, t)
    PROVE  /\ RequestsFit(n)'
           /\ Begins(log[n], log'[n])
           /\ \A p \in Nodes : Begins(log'[p], log'[n]) /\ Len(log[p]) <= Len(log'[p])
<1>1. UNCHANGED handlerVars /\ \A m \in Nodes : m # n => log'[m] = log[m]
  BY ThreadFrame DEF Untouched
<1>2. \A p \in Nodes : log[p] \in Seq(Nat) /\ log'[p] \in Seq(Nat) /\ Len(log[p]) \in Nat
  BY LenProperties DEF TypeOK, NodesType
<1>3. Begins(log[n], log'[n])
  <2>1. CASE log' = log
    BY <2>1, <1>2 DEF Begins
  <2>2. CASE log' # log
    <3>1. AppendEntry(n)
      BY <2>2
         DEF ThreadStep, Election, Timeout, BumpTerm, VoteSelf, Snapshot, ListPeers,
             VoteReply, StepDown, CountVotes, Crown, BecomeFollower, Beat, Submit,
             Replication, Build, Send, AppendReply, Demote, RpcFails, nodeVars
    <3>2. log'[n] = Append(log[n], term[n]) /\ term[n] \in Nat
      BY <3>1 DEF AppendEntry, TypeOK, NodesType
    <3>3. QED  BY <1>2, <3>2, AppendBegins
  <2>3. QED  BY <2>1, <2>2
<1>4. \A p \in Nodes : Begins(log'[p], log'[n]) /\ Len(log[p]) <= Len(log'[p])
  <2> SUFFICES ASSUME NEW p \in Nodes
               PROVE  Begins(log'[p], log'[n]) /\ Len(log[p]) <= Len(log'[p])
    OBVIOUS
  <2>1. CASE p = n
    BY <1>2, <1>3, <2>1 DEF Begins
  <2>2. CASE p # n
    <3>1. Begins(log[p], log'[n])
      BY <1>2, <1>3, BeginsTransitive
    <3>2. log'[p] = log[p]
      BY <1>1, <2>2
    <3>3. QED  BY <1>2, <3>1, <3>2
  <2>3. QED  BY <2>1, <2>2
<1>5. \A u \in Threads : Fits(req[n][u], log[n])
  BY DEF RequestsFit
<1>6. \A u \in Threads : Fits(req'[n][u], log[n])
  <2>1. Fits(req'[n][t], log[n])
    BY <1>5, ThreadFits
  <2>2. \A u \in Threads : u # t => req'[n][u] = req[n][u]
    BY ThreadMoves DEF Alone
  <2>3. QED  BY <1>5, <2>1, <2>2
<1>7. ASSUME NEW p \in Nodes, NEW i \in DOMAIN calls'[n][p]
      PROVE  Fits(calls'[n][p][i], log[n])
  <2>1. CASE calls' = calls
    BY <1>7, <2>1 DEF RequestsFit
  <2>2. CASE calls' # calls
    <3>1. Send(n, t) /\ calls' = [calls EXCEPT ![n][peer[n][t]] = Append(@, req[n][t])]
      BY <2>2
         DEF ThreadStep, Election, Timeout, BumpTerm, VoteSelf, Snapshot, ListPeers,
             VoteReply, StepDown, CountVotes, Crown, Beat, Submit, AppendEntry,
             Replication, Build, Send, AppendReply, Demote, RpcFails, netVars
    <3>2. peer[n][t] \in Nodes /\ req[n][t] \in Request
      BY <3>1 DEF Send, TypeOK, ThreadsType, Replicating, Request
    <3>3. calls[n][p] \in Seq(Request)
      BY DEF TypeOK, NetworkType
    <3>4. \/ calls'[n][p] = calls[n][p]
          \/ calls'[n][p] = Append(calls[n][p], req[n][t])
      BY <3>1, <3>2 DEF TypeOK, NetworkType
    <3>5. \/ calls'[n][p][i] = req[n][t]
          \/ i \in DOMAIN calls[n][p] /\ calls'[n][p][i] = calls[n][p][i]
      <4>1. CASE calls'[n][p] = calls[n][p]
        BY <1>7, <4>1
      <4>2. CASE calls'[n][p] = Append(calls[n][p], req[n][t])
        BY <1>7, <3>2, <3>3, <4>2, AppendElement
      <4>3. QED  BY <3>4, <4>1, <4>2
    <3>6. QED  BY <1>5, <3>5 DEF RequestsFit
  <2>3. QED  BY <2>1, <2>2
<1>8. \A p \in Nodes : Fits(hreq'[n][p], log[n])
  BY <1>1 DEF RequestsFit, handlerVars
<1>9. RequestsFit(n)'
  BY <1>3, <1>6, <1>7, <1>8, RequestsStayFit
<1>10. QED  BY <1>3, <1>4, <1>9

\* A node without a rival, when another handles its request.
LEMMA HandlerSource ==
    ASSUME TypeOK, TypeOK', NEW n \in Nodes, NEW k \in Nodes, k # n, Handler(n, k),
           RequestsFit(n), \A p \in Nodes : Begins(log[p], log[n])
    PROVE  /\ RequestsFit(n)'
           /\ Begins(log[n], log'[n])
           /\ \A p \in Nodes : Begins(log'[p], log'[n]) /\ Len(log[p]) <= Len(log'[p])
<1>1. /\ UNCHANGED <<pc, peer, req>>
      /\ \A m \in Nodes : m # k => log'[m] = log[m]
      /\ \A q \in Nodes : q # k => /\ calls'[n][q] = calls[n][q]
                                   /\ hreq'[n][q] = hreq[n][q]
  BY HandlerFrame
<1>2. \A p \in Nodes : log[p] \in Seq(Nat) /\ log'[p] \in Seq(Nat) /\ Len(log[p]) \in Nat
  BY LenProperties DEF TypeOK, NodesType
<1>3. Fits(hreq[n][k], log[n]) /\ Begins(log[k], log[n])
  BY DEF RequestsFit
<1>4. Begins(log'[k], log[n]) /\ Len(log[k]) <= Len(log'[k])
  <2>1. CASE Store(n, k)
    BY <1>3, <2>1, StoreBegins
  <2>2. CASE ~Store(n, k)
    <3>1. log' = log
      BY <2>2
         DEF Handler, Receive, Adopt, CheckVote, Grant, SeeLeader, Concede,
             BecomeFollower, nodeVars
    <3>2. QED  BY <1>2, <1>3, <3>1
  <2>3. QED  BY <2>1, <2>2
<1>5. \A p \in Nodes : Begins(log'[p], log'[n]) /\ Len(log[p]) <= Len(log'[p])
  <2> SUFFICES ASSUME NEW p \in Nodes
               PROVE  Begins(log'[p], log'[n]) /\ Len(log[p]) <= Len(log'[p])
    OBVIOUS
  <2>1. log'[n] = log[n]
    BY <1>1
  <2>2. CASE p = k
    BY <1>4, <2>1, <2>2
  <2>3. CASE p # k
    BY <1>1, <1>2, <2>1, <2>3
  <2>4. QED  BY <2>2, <2>3
<1>6. Begins(log[n], log'[n])
  BY <1>1, <1>2 DEF Begins
<1>7. ASSUME NEW i \in DOMAIN calls'[n][k]
      PROVE  Fits(calls'[n][k][i], log[n])
  <2>1. CASE calls' = calls
    BY <1>7, <2>1 DEF RequestsFit
  <2>2. CASE Receive(n, k)
    <3>1. calls'[n][k] = Tail(calls[n][k]) /\ calls[n][k] # <<>>
      BY <2>2 DEF Receive, TypeOK, NetworkType
    <3>2. calls[n][k] \in Seq(Request)
      BY DEF TypeOK, NetworkType
    <3>3. i + 1 \in DOMAIN calls[n][k] /\ calls'[n][k][i] = calls[n][k][i + 1]
      BY <1>7, <3>1, <3>2, HeadTailProperties, LenProperties
    <3>4. QED  BY <3>3 DEF RequestsFit
  <2>3. QED
    BY <2>1, <2>2
       DEF Handler, Adopt, CheckVote, Grant, SeeLeader, Concede, Store, netVars
<1>8. Fits(hreq'[n][k], log[n])
  <2>1. ASSUME NEW place, NEW r, HandlerGoto(n, k, place, r), Fits(r, log[n])
        PROVE  Fits(hreq'[n][k], log[n])
    <3>1. hreq'[n][k] = r
      BY <2>1 DEF HandlerGoto, TypeOK, HandlersType
    <3>2. QED  BY <2>1, <3>1
  <2>2. ASSUME NEW type, NEW v, NEW ok, Respond(n, k, type, v, ok)
        PROVE  Fits(hreq'[n][k], log[n])
    BY <2>1, <2>2, NoRequestFits DEF Respond
  <2>3. CASE Receive(n, k)
    <3> DEFINE r == Head(calls[n][k])
    <3>1. calls[n][k] \in Seq(Request) /\ calls[n][k] # <<>>
      BY <2>3 DEF Receive, TypeOK, NetworkType
    <3>2. 1 \in DOMAIN calls[n][k] /\ r = calls[n][k][1]
      BY <3>1, HeadTailProperties, EmptySeq, LenProperties
    <3>3. Fits(r, log[n])
      BY <3>2 DEF RequestsFit
    <3>4. \/ \E place : HandlerGoto(n, k, place, r)
          \/ \E type, v, ok : Respond(n, k, type, v, ok)
      BY <2>3 DEF Receive
    <3> HIDE DEF r
    <3>5. QED  BY <2>1, <2>2, <3>3, <3>4
  <2>4. CASE ~Receive(n, k)
    <3>1. \/ \E place : HandlerGoto(n, k, place, hreq[n][k])
          \/ \E type, v, ok : Respond(n, k, type, v, ok)
      BY <2>4 DEF Handler, Adopt, CheckVote, Grant, SeeLeader, Concede, Store
    <3>2. QED  BY <1>3, <2>1, <2>2, <3>1
  <2>5. QED  BY <2>3, <2>4
<1>9. ASSUME NEW p \in Nodes
      PROVE  /\ \A i \in DOMAIN calls'[n][p] : Fits(calls'[n][p][i], log[n])
             /\ Fits(hreq'[n][p], log[n])
  <2>1. CASE p = k
    BY <1>7, <1>8, <2>1
  <2>2. CASE p # k
    BY <1>1, <2>2 DEF RequestsFit
  <2>3. QED  BY <2>1, <2>2
<1>10. \A u \in Threads : Fits(req'[n][u], log[n])
  BY <1>1 DEF RequestsFit
<1>11. RequestsFit(n)'
  BY <1>6, <1>9, <1>10, RequestsStayFit
<1>12. QED  BY <1>5, <1>6, <1>11

\* Every step: logs only grow, and from one source.
LEMMA NextOneSource ==
    ASSUME TypeOK, TypeOK', SourceInv, [Next]_vars, NEW n \in Nodes, Unopposed(n)'
    PROVE  /\ RequestsFit(n)'
           /\ Begins(log[n], log'[n])
           /\ \A p \in Nodes : Begins(log'[p], log'[n]) /\ Len(log[p]) <= Len(log'[p])
<1> DEFINE Goal == /\ RequestsFit(n)'
                   /\ Begins(log[n], log'[n])
                   /\ \A p \in Nodes : /\ Begins(log'[p], log'[n])
                                       /\ Len(log[p]) <= Len(log'[p])
<1>1. Unopposed(n)
  BY UnopposedBefore
<1>2. RequestsFit(n) /\ \A p \in Nodes : Begins(log[p], log[n])
  BY <1>1 DEF SourceInv, OneSource
<1>3. NotItself /\ NeverStood
  BY DEF SourceInv
<1>4. \A p \in Nodes : Len(log[p]) \in Nat
  BY LenProperties DEF TypeOK, NodesType
<1>5. ASSUME UNCHANGED <<log, threadVars, netVars, handlerVars>>
      PROVE  Goal
  BY <1>2, <1>4, <1>5 DEF RequestsFit, Fits, Begins, threadVars, netVars, handlerVars
<1>6. ASSUME NEW k \in Nodes, NEW t \in Threads, ThreadStep(k, t)
      PROVE  Goal
  <2>1. CASE k = n
    BY <1>2, <1>3, <1>6, <2>1, OwnStepSource
  <2>2. CASE k # n
    <3>1. votes'[k] = 0 /\ votes[k] = 0
      BY <1>1, <2>2 DEF Unopposed
    <3>2. ~VoteSelf(k)
      BY <3>1 DEF VoteSelf, TypeOK, LeadersType
    <3>3. t = "election" /\ (Timeout(k) \/ BumpTerm(k))
      BY <1>3, <1>6, <3>1, <3>2, FirstSteps
    <3>4. log' = log /\ UNCHANGED <<netVars, handlerVars>>
      BY <3>3 DEF Timeout, BumpTerm
    <3>5. \A u \in Threads : req'[n][u] = req[n][u]
      BY <1>3, <1>6, <2>2, ThreadMoves DEF Alone
    <3>6. RequestsFit(n)'
      BY <1>2, <3>4, <3>5 DEF RequestsFit, netVars, handlerVars
    <3>7. QED  BY <1>2, <1>4, <3>4, <3>6 DEF Begins
  <2>3. QED  BY <2>1, <2>2
<1>7. ASSUME NEW p \in Nodes, NEW k \in Nodes, Handler(p, k)
      PROVE  Goal
  <2>1. p = n
    <3>1. SUFFICES ASSUME p # n PROVE FALSE
      OBVIOUS
    <3>2. Silent(p, k)
      BY <1>1, <1>3, <3>1 DEF Unopposed, NeverStood
    <3>3. QED  BY <1>7, <3>2, NothingToHandle
  <2>2. k # n
    BY <1>3, <1>7, <2>1, NothingToHandle DEF NotItself
  <2>3. QED  BY <1>2, <1>7, <2>1, <2>2, HandlerSource
<1>8. ASSUME NEW k \in Nodes, Crash(k)
      PROVE  Goal
  BY <1>5, <1>8 DEF Crash
<1>9. CASE UNCHANGED vars
  BY <1>5, <1>9 DEF vars, nodeVars
<1>10. QED  BY <1>6, <1>7, <1>8, <1>9, ThreeKinds

-----------------------------------------------------------------------------
(* Acknowledgements *)

\* match_index changes when a leader is crowned, and with an acknowledgement.
LEMMA MatchChanges ==
    ASSUME TypeOK, NEW n \in Nodes, NEW t \in Threads, ThreadStep(n, t),
           NEW p \in Nodes, match'[n][p] # match[n][p]
    PROVE  \/ match'[n][p] = 0
           \/ /\ AppendReply(n, t)
              /\ p = peer[n][t]
              /\ replies[n][p] # <<>>
              /\ Head(replies[n][p]).ok
              /\ req[n][t].entries # <<>>
              /\ match'[n][p] = LastSent(req[n][t])
              /\ AfterAck(n, t)
<1>1. CASE Crown(n)
  BY <1>1 DEF Crown, TypeOK, LeadersType
<1>2. CASE AppendReply(n, t)
  <2>1. match' # match
    OBVIOUS
  <2>2. /\ Head(replies[n][peer[n][t]]).ok
        /\ req[n][t].entries # <<>>
        /\ match' = [match EXCEPT ![n][peer[n][t]] = LastSent(req[n][t])]
        /\ AfterAck(n, t)
    BY <1>2, <2>1 DEF AppendReply, leaderVars
  <2>3. peer[n][t] \in Nodes /\ replies[n][peer[n][t]] # <<>>
    BY <1>2 DEF AppendReply, At, TypeOK, ThreadsType, Replicating
  <2>4. p = peer[n][t] /\ match'[n][p] = LastSent(req[n][t])
    BY <2>2, <2>3 DEF TypeOK, LeadersType
  <2>5. QED  BY <1>2, <2>2, <2>3, <2>4
<1>3. CASE ~Crown(n) /\ ~AppendReply(n, t)
  <2>1. match' = match
    BY <1>3
       DEF ThreadStep, Election, Timeout, BumpTerm, VoteSelf, Snapshot, ListPeers,
           VoteReply, StepDown, CountVotes, Beat, Submit, AppendEntry, Replication,
           Build, Send, Demote, RpcFails, leaderVars
  <2>2. QED  BY <2>1
<1>4. QED  BY <1>1, <1>2, <1>3

LEMMA NextAckStops ==
    ASSUME TypeOK, CommitInv, SourceInv, [Next]_vars, NEW n \in Nodes, NEW p \in Nodes,
           Unopposed(n)', match'[n][p] > 0
    PROVE  \E t \in Threads : pc'[n][t] = "relock" /\ peer'[n][t] = p
<1> DEFINE Goal == \E t \in Threads : pc'[n][t] = "relock" /\ peer'[n][t] = p
<1>1. Unopposed(n)
  BY UnopposedBefore
<1>2. NotItself /\ OneReplicator /\ AckStops
  BY DEF SourceInv
<1>3. ASSUME NEW q \in Nodes, match[n][q] > 0
      PROVE  \E u \in Threads : pc[n][u] = "relock" /\ peer[n][u] = q
  BY <1>1, <1>2, <1>3 DEF AckStops
<1>4. ASSUME match'[n][p] = match[n][p], UNCHANGED <<pc, peer>>
      PROVE  Goal
  BY <1>3, <1>4
<1>5. ASSUME NEW k \in Nodes, NEW t \in Threads, ThreadStep(k, t),
             match'[n][p] = match[n][p]
      PROVE  Goal
  <2>1. PICK u \in Threads : pc[n][u] = "relock" /\ peer[n][u] = p
    BY <1>3, <1>5
  <2>2. Alone(k, t) /\ pc[k][t] # "relock"
    BY <1>2, <1>5, ThreadMoves
  <2>3. pc'[n][u] = pc[n][u] /\ peer'[n][u] = peer[n][u]
    BY <2>1, <2>2 DEF Alone
  <2>4. QED  BY <2>1, <2>3
<1>6. ASSUME NEW k \in Nodes, NEW t \in Threads, ThreadStep(k, t),
             match'[n][p] # match[n][p]
      PROVE  Goal
  <2>1. k = n
    BY <1>6, ThreadFrame DEF Untouched
  <2>2. /\ p = peer[n][t] /\ AppendReply(n, t) /\ AfterAck(n, t)
        /\ req[n][t].entries # <<>>
    BY <1>6, <2>1, MatchChanges
  <2>3. req[n][t] \in AppendRequest
    BY <2>2 DEF AppendReply, At, TypeOK, ThreadsType
  <2>4. /\ req[n][t].type = "append" /\ req[n][t].prevIndex \in Nat
        /\ Len(req[n][t].entries) \in Nat /\ Len(req[n][t].entries) > 0
    BY <2>2, <2>3, EmptySeq, LenProperties DEF AppendRequest
  <2>5. LastSent(req[n][t]) <= Len(log[n])
    BY <1>1, <2>4 DEF SourceInv, OneSource, RequestsFit, Fits
  <2>6. Len(log[n]) \in Nat
    BY LenProperties DEF TypeOK, NodesType
  <2>7. commit[n] < Len(log[n])
    BY <2>4, <2>5, <2>6 DEF CommitInv, NothingCommitted, LastSent
  <2>8. Goto(n, t, "relock")
    BY <2>2, <2>7 DEF AfterAck
  <2>9. QED  BY <2>2, <2>8, GotoAlone
<1>7. ASSUME NEW q \in Nodes, NEW k \in Nodes, Handler(q, k)
      PROVE  Goal
  BY <1>4, <1>7, HandlerFrame
<1>8. ASSUME NEW k \in Nodes, Crash(k)
      PROVE  Goal
  BY <1>4, <1>8 DEF Crash, leaderVars, threadVars
<1>9. CASE UNCHANGED vars
  BY <1>4, <1>9 DEF vars, leaderVars, threadVars
<1>10. QED  BY <1>5, <1>6, <1>7, <1>8, <1>9, ThreeKinds

LEMMA NextSource ==
    ASSUME TypeOK, TypeOK', CommitInv, SourceInv, [Next]_vars
    PROVE  SourceInv'
<1>1. NeverStood /\ NotItself /\ OneReplicator
  BY DEF SourceInv
<1>2. NeverStood' /\ NotItself' /\ OneReplicator'
  BY <1>1, NextNeverStood, NextNotItself, NextOneReplicator
<1>3. OneSource'
  BY NextOneSource DEF OneSource
<1>4. AckStops'
  BY NextAckStops DEF AckStops
<1>5. QED  BY <1>2, <1>3, <1>4 DEF SourceInv

LEMMA InitSource ==
    ASSUME Init
    PROVE  SourceInv
<1>1. NeverStood
  BY DEF Init, NeverStood, Silent, Threads
<1>2. NotItself
  BY DEF Init, NotItself, Silent, Replicating
<1>3. OneReplicator
  BY DEF Init, OneReplicator, Replicating
<1>4. AckStops
  BY DEF Init, AckStops
<1>5. OneSource
  <2> SUFFICES ASSUME NEW n \in Nodes
               PROVE  RequestsFit(n) /\ \A p \in Nodes : Begins(log[p], log[n])
    BY DEF OneSource
  <2>1. RequestsFit(n)
    BY EmptySeq DEF Init, RequestsFit, Fits, NoRequest
  <2>2. \A p \in Nodes : Begins(log[p], log[n])
    BY DEF Init, Begins
  <2>3. QED  BY <2>1, <2>2
<1>6. QED  BY <1>1, <1>2, <1>3, <1>4, <1>5 DEF SourceInv

\* The first acknowledgement of an entry is the last one, for any number of
\* controllers, entries, timeouts and crashes, and however often the leader is
\* elected again, as long as no other node stands: only a rival can cut the log
\* that the acknowledged entry is in.
THEOREM LeaderStops == Spec => []FirstAckIsLast
<1>1. Init => CommitInv
  BY EmptySeq
     DEF Init, CommitInv, NothingCommitted, QuietThreads, QuietCalls,
         QuietHandlers, Quiet, NoRequest
<1>2. Init => SourceInv
  BY InitSource
<1>3. TypeOK /\ CommitInv /\ [Next]_vars => CommitInv'
  BY NextQuiet
<1>4. TypeOK /\ TypeOK' /\ CommitInv /\ SourceInv /\ [Next]_vars => SourceInv'
  BY NextSource
<1>5. SourceInv => FirstAckIsLast
  <2> SUFFICES ASSUME SourceInv, NEW n \in Nodes, NEW p \in Nodes,
                      Unopposed(n), match[n][p] > 0
               PROVE  /\ \E t \in Threads : pc[n][t] = "relock"
                      /\ \A q \in Nodes : match[n][q] > 0 => q = p
    BY DEF FirstAckIsLast
  <2>1. \A q \in Nodes : match[n][q] > 0 =>
            \E t \in Threads : pc[n][t] = "relock" /\ peer[n][t] = q
    BY DEF SourceInv, AckStops
  <2>2. \A t, u \in Threads : pc[n][t] = "relock" /\ pc[n][u] = "relock" => t = u
    BY DEF SourceInv, OneReplicator, Replicating
  <2>3. QED  BY <2>1, <2>2
<1>6. QED  BY <1>1, <1>2, <1>3, <1>4, <1>5, TypeCorrect, PTL DEF Spec

\* The thread that sends names a peer, and the request is there to be sent.
LEMMA SenderReady ==
    ASSUME TypeOK, NEW n \in Nodes, NEW t \in Threads, pc[n][t] \in {"ask", "send"}
    PROVE  peer[n][t] \in Nodes /\ req[n][t] \in Request
<1>1. peer[n][t] \in Nodes
  BY DEF TypeOK, ThreadsType, Replicating
<1>2. req[n][t] \in Request
  BY DEF TypeOK, ThreadsType, Request
<1>3. QED  BY <1>1, <1>2

\* A request that is sent to a peer that is up makes the connection to it longer.
LEMMA SendPuts ==
    ASSUME TypeOK, NEW n \in Nodes, NEW t \in Threads, Send(n, t), Up(peer[n][t])
    PROVE  /\ peer[n][t] \in Nodes
           /\ calls'[n][peer[n][t]] # <<>>
           /\ calls' # calls
<1> DEFINE p == peer[n][t]
<1>1. p \in Nodes /\ req[n][t] \in Request
  BY SenderReady DEF Send
<1> HIDE DEF p
<1>2. calls \in [Nodes -> [Nodes -> Seq(Request)]]
  BY DEF TypeOK, NetworkType
<1>3. calls' = [calls EXCEPT ![n][p] = Append(@, req[n][t])]
  BY DEF Send, p
<1>4. calls'[n][p] = Append(calls[n][p], req[n][t]) /\ calls[n][p] \in Seq(Request)
  BY <1>1, <1>2, <1>3
<1>5. Len(calls'[n][p]) = Len(calls[n][p]) + 1 /\ Len(calls[n][p]) \in Nat
  BY <1>1, <1>4, AppendProperties, LenProperties
<1>6. calls'[n][p] # <<>>
  BY <1>5, EmptySeq
<1>7. calls' # calls
  BY <1>5
<1>8. QED  BY <1>1, <1>6, <1>7 DEF p

\* A thread whose call ends is not in another one at once.
LEMMA CallLeft ==
    ASSUME TypeOK, NEW n \in Nodes, NEW t \in Threads, pc[n][t] \in InCall,
           \/ t = "election" /\ VoteReply(n)
           \/ AppendReply(n, t)
           \/ RpcFails(n, t)
    PROVE  pc'[n][t] \notin InCall
<1>1. ASSUME t = "election", NextAsk(n)
      PROVE  pc'[n][t] \notin InCall
  BY <1>1, NextAskAlone DEF InCall
<1>2. ASSUME NextBuild(n, t)
      PROVE  pc'[n][t] \notin InCall
  BY <1>2, NextBuildAlone DEF InCall
<1>3. ASSUME NEW place \in {"stepdown", "demote"}, NEW q, NEW r,
             Step(n, t, place, q, r)
      PROVE  pc'[n][t] \notin InCall
  BY <1>3, StepAlone DEF InCall
<1>4. CASE t = "election" /\ VoteReply(n)
  <2>1. \/ NextAsk(n)
        \/ \E q, r : Step(n, t, "stepdown", q, r)
    BY <1>4 DEF VoteReply
  <2>2. QED  BY <1>1, <1>3, <1>4, <2>1
<1>5. CASE AppendReply(n, t)
  <2>1. \/ NextBuild(n, t)
        \/ Goto(n, t, "relock")
        \/ \E q, r : Step(n, t, "demote", q, r)
    BY <1>5 DEF AppendReply, AfterAck
  <2>2. QED  BY <1>2, <1>3, <2>1, GotoAlone DEF InCall
<1>6. CASE RpcFails(n, t)
  <2>1. pc[n][t] = "poll" => t = "election"
    BY DEF TypeOK, ThreadsType
  <2>2. (t = "election" /\ NextAsk(n)) \/ NextBuild(n, t)
    BY <1>6, <2>1 DEF RpcFails
  <2>3. QED  BY <1>1, <1>2, <2>2
<1>7. QED  BY <1>4, <1>5, <1>6

\* The reply that comes out of a step is the one of the request on its way, and
\* a yes means that the entries are there.
LEMMA NextAckIsTrue ==
    ASSUME TypeOK, TypeOK', CallsInv, CallsInv', SourceInv, AckIsTrue, [Next]_vars
    PROVE  AckIsTrue'
<1> SUFFICES ASSUME bounds.timeouts' = 0, NEW n \in Nodes, NEW p \in Nodes, Unopposed(n)'
             PROVE  /\ match'[n][p] <= Len(log'[p])
                    /\ \A t \in Threads, i \in DOMAIN replies'[n][p] :
                          Calling(n, p, t)' /\ pc'[n][t] = "wait" /\ replies'[n][p][i].ok
                              => LastSent(req'[n][t]) <= Len(log'[p])
  BY DEF AckIsTrue
<1>1. bounds.timeouts = 0 /\ Unopposed(n)
  BY TimeoutsGrow, UnopposedBefore
<1>2. /\ match[n][p] <= Len(log[p])
      /\ \A t \in Threads, i \in DOMAIN replies[n][p] :
            Calling(n, p, t) /\ pc[n][t] = "wait" /\ replies[n][p][i].ok
                => LastSent(req[n][t]) <= Len(log[p])
  BY <1>1 DEF AckIsTrue
<1>3. /\ Len(log[p]) <= Len(log'[p])
      /\ Len(log[p]) \in Nat /\ Len(log'[p]) \in Nat
      /\ match[n][p] \in Nat
  <2>1. Len(log[p]) <= Len(log'[p])
    BY NextOneSource
  <2>2. log[p] \in Seq(Nat) /\ log'[p] \in Seq(Nat) /\ match[n][p] \in Nat
    BY DEF TypeOK, NodesType, LeadersType
  <2>3. QED  BY <2>1, <2>2, LenProperties
<1>4. /\ \A t \in Threads : Calling(n, p, t) => Waiting(n, p, req[n][t])
      /\ \A t \in Threads : Calling(n, p, t)' => Waiting(n, p, req[n][t])'
  BY <1>1 DEF CallsInv, Carries
<1>5. \A t, u \in Threads : pc[n][t] \in InCall /\ pc[n][u] \in InCall => t = u
  BY DEF CallsInv, OneCaller
<1>6. \A t \in Threads : pc[n][t] = "wait" => /\ req[n][t] \in AppendRequest
                                             /\ LastSent(req[n][t]) \in Nat
  BY DEF TypeOK, ThreadsType, AppendRequest, LastSent
<1>7. replies[n][p] \in Seq(Reply) /\ replies'[n][p] \in Seq(Reply)
  BY DEF TypeOK, NetworkType
<1> DEFINE Counted == match'[n][p] <= Len(log'[p])
           Answered == \A t \in Threads, i \in DOMAIN replies'[n][p] :
               Calling(n, p, t)' /\ pc'[n][t] = "wait" /\ replies'[n][p][i].ok
                   => LastSent(req'[n][t]) <= Len(log'[p])
<1>8. ASSUME match'[n][p] = match[n][p]
      PROVE  Counted
  BY <1>2, <1>3, <1>8
<1>9. ASSUME replies'[n][p] = replies[n][p],
             \A t \in Threads : Calling(n, p, t)' /\ pc'[n][t] = "wait" =>
                 Calling(n, p, t) /\ pc[n][t] = "wait" /\ req'[n][t] = req[n][t]
      PROVE  Answered
  BY <1>2, <1>3, <1>6, <1>9
<1>10. ASSUME UNCHANGED <<match, replies, threadVars>>
       PROVE  Counted /\ Answered
  <2>1. \A t \in Threads : Calling(n, p, t)' <=> Calling(n, p, t)
    BY <1>10 DEF Calling, threadVars
  <2>2. QED  BY <1>8, <1>9, <1>10, <2>1 DEF threadVars
<1>11. ASSUME NEW k \in Nodes, NEW t \in Threads, ThreadStep(k, t)
       PROVE  Counted
  <2>1. CASE match'[n][p] = match[n][p]
    BY <1>8, <2>1
  <2>2. CASE match'[n][p] # match[n][p]
    <3>1. k = n
      BY <1>11, <2>2, ThreadFrame DEF Untouched
    <3>2. CASE match'[n][p] = 0
      BY <1>3, <3>2
    <3>3. CASE match'[n][p] # 0
      <4>1. /\ AppendReply(n, t) /\ p = peer[n][t] /\ replies[n][p] # <<>>
            /\ Head(replies[n][p]).ok /\ match'[n][p] = LastSent(req[n][t])
        BY <1>11, <2>2, <3>1, <3>3, MatchChanges
      <4>2. Calling(n, p, t) /\ pc[n][t] = "wait"
        BY <4>1 DEF AppendReply, At, Calling
      <4>3. 1 \in DOMAIN replies[n][p] /\ Head(replies[n][p]) = replies[n][p][1]
        BY <1>7, <4>1, EmptySeq, LenProperties
      <4>4. LastSent(req[n][t]) <= Len(log[p]) /\ LastSent(req[n][t]) \in Nat
        BY <1>2, <1>6, <4>1, <4>2, <4>3
      <4>5. QED  BY <1>3, <4>1, <4>4
    <3>4. QED  BY <3>2, <3>3
  <2>3. QED  BY <2>1, <2>2
<1>12. ASSUME NEW k \in Nodes, NEW t \in Threads, ThreadStep(k, t)
       PROVE  Answered
  <2>1. NotItself
    BY DEF SourceInv
  <2>2. Alone(k, t)
    BY <1>12, <2>1, ThreadMoves
  <2>3. CASE k # n
    <3>1. replies'[n] = replies[n]
      BY <1>12, <2>3, ThreadFrame DEF Untouched
    <3>2. \A u \in Threads : pc'[n][u] = pc[n][u] /\ peer'[n][u] = peer[n][u]
                             /\ req'[n][u] = req[n][u]
      BY <2>2, <2>3 DEF Alone
    <3>3. QED  BY <1>9, <3>1, <3>2 DEF Calling
  <2>4. CASE k = n /\ Send(n, t) /\ calls' # calls
    <3>1. PICK place \in InCall : Goto(n, t, place)
      BY <2>4 DEF Send, InCall
    <3>2. pc'[n][t] \in InCall /\ peer'[n][t] = peer[n][t] /\ peer[n][t] \in Nodes
      BY <2>4, <3>1, GotoAlone DEF Send, TypeOK, ThreadsType, Replicating
    <3>3. \A u \in Threads : Calling(n, p, u)' => u = t
      BY <2>2, <2>4 DEF Alone, Send, NetworkHeld, Calling
    <3>4. CASE p = peer[n][t]
      <4>1. Waiting(n, p, req[n][t])'
        BY <1>4, <3>2, <3>4 DEF Calling, InCall
      <4>2. calls'[n][p] # <<>>
        <5>1. Up(peer[n][t])
          BY <2>4 DEF Send
        <5>2. QED  BY <2>4, <3>4, <5>1, SendPuts
      <4>3. replies'[n][p] = <<>>
        BY <4>1, <4>2 DEF Waiting
      <4>4. QED  BY <4>3
    <3>5. CASE p # peer[n][t]
      BY <3>2, <3>3, <3>5 DEF Calling
    <3>6. QED  BY <3>4, <3>5
  <2>5. CASE k = n /\ (pc[n][t] \in InCall \/ pc'[n][t] \notin InCall)
    <3>1. \A u \in Threads : u # t => pc'[n][u] = pc[n][u] /\ peer'[n][u] = peer[n][u]
                                      /\ req'[n][u] = req[n][u]
      BY <2>2, <2>5 DEF Alone
    <3>2. pc'[n][t] \notin InCall
      <4>1. CASE pc[n][t] \in InCall
        <5>1. \/ t = "election" /\ VoteReply(n)
              \/ AppendReply(n, t) \/ RpcFails(n, t)
          BY <1>12, <2>5, <4>1
             DEF ThreadStep, Election, Timeout, BumpTerm, VoteSelf, Snapshot, ListPeers,
                 StepDown, CountVotes, Crown, Beat, Submit, AppendEntry, Replication,
                 Build, Send, Demote, At, InCall
        <5>2. QED  BY <4>1, <5>1, CallLeft
      <4>2. QED  BY <2>5, <4>1
    <3>3. CASE replies'[n][p] = replies[n][p]
      <4>1. \A u \in Threads : Calling(n, p, u)' /\ pc'[n][u] = "wait" =>
                Calling(n, p, u) /\ pc[n][u] = "wait" /\ req'[n][u] = req[n][u]
        BY <3>1, <3>2 DEF Calling, InCall
      <4>2. QED  BY <1>9, <3>3, <4>1
    <3>4. CASE replies'[n][p] # replies[n][p]
      <4>1. pc[n][t] \in InCall
        BY <1>12, <2>5, <3>4
           DEF ThreadStep, Election, Timeout, BumpTerm, VoteSelf, Snapshot, ListPeers,
               VoteReply, StepDown, CountVotes, Crown, Beat, Submit, AppendEntry,
               Replication, Build, Send, AppendReply, Demote, RpcFails, At, InCall,
               netVars
      <4>2. \A u \in Threads : ~Calling(n, p, u)'
        BY <1>5, <3>1, <3>2, <4>1 DEF Calling, InCall
      <4>3. QED  BY <4>2
    <3>5. QED  BY <3>3, <3>4
  <2>6. CASE k = n /\ ~(pc[n][t] \in InCall \/ pc'[n][t] \notin InCall)
    <3>1. Send(n, t)
      <4>1. CASE t = "election" /\ (NextAsk(n) \/ Timeout(n) \/ Election(n))
        <5>1. \/ NextAsk(n) \/ NextBuild(n, t)
              \/ \E place \in {"bump", "self", "snapshot", "crown", "sleep"} :
                     Goto(n, t, place)
              \/ \E place \in {"list", "stepdown", "sleep"} :
                     \E q, r : Step(n, t, place, q, r)
          BY <4>1
             DEF Election, Timeout, BumpTerm, VoteSelf, Snapshot, ListPeers, VoteReply,
                 StepDown, CountVotes, Crown
        <5>2. QED
          BY <2>6, <4>1, <5>1, NextAskAlone, NextBuildAlone, GotoAlone, StepAlone
             DEF InCall
      <4>2. CASE NextBuild(n, t) \/ Goto(n, t, "append") \/ UNCHANGED threadVars
                 \/ \E q, r : Step(n, t, "send", q, r)
        BY <2>6, <4>2, NextBuildAlone, GotoAlone, StepAlone DEF InCall, threadVars
      <4>3. ~AppendReply(n, t) /\ ~RpcFails(n, t)
        BY <2>6 DEF AppendReply, RpcFails, At, InCall
      <4>4. QED
        BY <1>12, <2>6, <4>1, <4>2, <4>3
           DEF ThreadStep, Beat, Submit, AppendEntry, Replication, Build, Demote
    <3>2. calls' # calls
      <4>1. SUFFICES ASSUME calls' = calls PROVE FALSE
        OBVIOUS
      <4>2. CASE ~Up(peer[n][t])
        <5>1. \/ pc[n][t] = "ask" /\ NextAsk(n)
              \/ NextBuild(n, t)
          BY <3>1, <4>2 DEF Send
        <5>2. pc[n][t] = "ask" => t = "election"
          BY DEF TypeOK, ThreadsType
        <5>3. QED  BY <2>6, <5>1, <5>2, NextAskAlone, NextBuildAlone DEF InCall
      <4>3. CASE Up(peer[n][t])
        BY <3>1, <4>1, <4>3, SendPuts
      <4>4. QED  BY <4>2, <4>3
    <3>3. QED  BY <2>4, <2>6, <3>1, <3>2
  <2>7. QED  BY <2>3, <2>5, <2>6
<1>13. ASSUME NEW q \in Nodes, NEW k \in Nodes, Handler(q, k)
       PROVE  Counted /\ Answered
  <2>1. UNCHANGED <<pc, peer, req, match>>
    BY <1>13, HandlerFrame
  <2>2. Counted
    BY <1>8, <2>1
  <2>3. \A t \in Threads : Calling(n, p, t)' <=> Calling(n, p, t)
    BY <2>1 DEF Calling
  <2>4. CASE replies'[n][p] = replies[n][p]
    BY <1>9, <2>1, <2>2, <2>3, <2>4
  <2>5. CASE replies'[n][p] # replies[n][p]
    <3>1. q = n /\ k = p
      BY <1>13, <2>5, HandlerFrame
    <3> SUFFICES ASSUME NEW t \in Threads, NEW i \in DOMAIN replies'[n][p],
                        Calling(n, p, t), pc[n][t] = "wait", replies'[n][p][i].ok
                 PROVE  LastSent(req[n][t]) <= Len(log'[p])
      BY <2>1, <2>2, <2>3
    <3>2. Waiting(n, p, req[n][t])
      BY <1>4
    <3>3. replies[n][p] = <<>>
      BY <1>13, <3>1, <3>2 DEF Waiting, Handler, Receive, Adopt, CheckVote, Grant,
          SeeLeader, Concede, Store, Handling
    <3>4. ASSUME NEW type, NEW v, NEW ok, Respond(n, p, type, v, ok)
          PROVE  ok
      <4> DEFINE m == [type |-> type, term |-> v, ok |-> ok]
      <4>1. replies'[n][p] = Append(<<>>, m)
        BY <3>3, <3>4 DEF Respond, TypeOK, NetworkType
      <4>2. replies'[n][p] = <<m>>
        BY <4>1
      <4>3. i = 1 /\ replies'[n][p][i] = m
        BY <4>2
      <4>4. QED  BY <4>3
    <3>5. Store(n, p)
      <4>1. ~Receive(n, p) /\ ~CheckVote(n, p)
        BY <2>5, <3>4 DEF Receive, CheckVote
      <4>2. ~Grant(n, p)
        <5>1. SUFFICES ASSUME Grant(n, p) PROVE FALSE
          OBVIOUS
        <5>2. hreq[n][p] \in VoteRequest /\ hreq[n][p] = req[n][t]
          BY <3>2, <5>1 DEF Waiting, Grant, Handling, TypeOK, HandlersType
        <5>3. QED  BY <1>6, <5>2 DEF VoteRequest, AppendRequest
      <4>3. QED
        BY <1>13, <2>5, <3>1, <4>1, <4>2 DEF Handler, Adopt, SeeLeader, Concede, netVars
    <3>6. hreq[n][p] = req[n][t]
      BY <3>2, <3>5 DEF Waiting, Store, Handling
    <3>7. Begins(log[p], log[n]) /\ Fits(hreq[n][p], log[n])
      BY <1>1 DEF SourceInv, OneSource, RequestsFit
    <3>8. PICK ok \in BOOLEAN : /\ Respond(n, p, "append", hreq[n][p].term, ok)
                                /\ ok => LastSent(hreq[n][p]) <= Len(log'[p])
      BY <3>5, <3>7, StoreBegins
    <3>9. QED  BY <3>4, <3>6, <3>8
  <2>6. QED  BY <2>2, <2>4, <2>5
<1>14. ASSUME NEW k \in Nodes, Crash(k)
       PROVE  Counted /\ Answered
  BY <1>10, <1>14 DEF Crash, leaderVars, netVars
<1>15. CASE UNCHANGED vars
  BY <1>10, <1>15 DEF vars, leaderVars, netVars
<1>16. QED  BY <1>11, <1>12, <1>13, <1>14, <1>15, ThreeKinds

\* While no RPC times out, match_index tells the truth about every follower of
\* a node without a rival, for any number of controllers, entries and crashes.
THEOREM MatchTellsTheTruth == Spec => []MatchIsReplicated
<1>1. Init => CommitInv
  BY EmptySeq
     DEF Init, CommitInv, NothingCommitted, QuietThreads, QuietCalls,
         QuietHandlers, Quiet, NoRequest
<1>2. Init => SourceInv
  BY InitSource
<1>3. Init => CallsInv
  BY DEF Init, CallsInv, OneCaller, Carries, Silent, Calling, InCall
<1>4. Init => AckIsTrue
  BY EmptySeq DEF Init, AckIsTrue
<1>5. TypeOK /\ CommitInv /\ [Next]_vars => CommitInv'
  BY NextQuiet
<1>6. TypeOK /\ TypeOK' /\ CommitInv /\ SourceInv /\ [Next]_vars => SourceInv'
  BY NextSource
<1>7. TypeOK /\ CallsInv /\ [Next]_vars => CallsInv'
  BY NextCalls
<1>8. /\ TypeOK /\ TypeOK' /\ CallsInv /\ CallsInv' /\ SourceInv /\ AckIsTrue
      /\ [Next]_vars
      => AckIsTrue'
  BY NextAckIsTrue
<1>9. TypeOK /\ SourceInv /\ AckIsTrue => MatchIsReplicated
  <2> SUFFICES ASSUME TypeOK, SourceInv, AckIsTrue, bounds.timeouts = 0,
                      NEW n \in Nodes, NEW p \in Nodes, Unopposed(n)
               PROVE  /\ match[n][p] <= Len(log[n])
                      /\ match[n][p] <= Len(log[p])
                      /\ \A i \in 1 .. match[n][p] : log[n][i] = log[p][i]
    BY DEF MatchIsReplicated
  <2>1. match[n][p] <= Len(log[p])
    BY DEF AckIsTrue
  <2>2. Begins(log[p], log[n])
    BY DEF SourceInv, OneSource
  <2>3. match[n][p] \in Nat /\ Len(log[p]) \in Nat /\ Len(log[n]) \in Nat
    BY LenProperties DEF TypeOK, LeadersType, NodesType
  <2>4. QED  BY <2>1, <2>2, <2>3 DEF Begins
<1>10. QED
  BY <1>1, <1>2, <1>3, <1>4, <1>5, <1>6, <1>7, <1>8, <1>9, TypeCorrect, PTL DEF Spec

-----------------------------------------------------------------------------
(* What the documentation says of logs *)

LEMMA SourceAlways == Spec => [](TypeOK /\ SourceInv)
<1>1. Init => CommitInv
  BY EmptySeq
     DEF Init, CommitInv, NothingCommitted, QuietThreads, QuietCalls,
         QuietHandlers, Quiet, NoRequest
<1>2. Init => SourceInv
  BY InitSource
<1>3. TypeOK /\ CommitInv /\ [Next]_vars => CommitInv'
  BY NextQuiet
<1>4. TypeOK /\ TypeOK' /\ CommitInv /\ SourceInv /\ [Next]_vars => SourceInv'
  BY NextSource
<1>5. QED  BY <1>1, <1>2, <1>3, <1>4, TypeCorrect, PTL DEF Spec

\* For any number of controllers, elections, entries, timeouts and crashes: no log
\* is ever cut or overwritten, the leader's or another's, as long as one node at
\* most has stood.
THEOREM LogsAreNotCut == Spec => LogsOnlyGrow
<1> DEFINE Grow == \A n, p \in Nodes : Unopposed(n)' =>
                      /\ Len(log[p]) <= Len(log'[p])
                      /\ \A i \in 1 .. Len(log[p]) : log'[p][i] = log[p][i]
<1>1. TypeOK /\ TypeOK' /\ SourceInv /\ [Next]_vars => Grow
  <2> SUFFICES ASSUME TypeOK, TypeOK', SourceInv, [Next]_vars,
                      NEW n \in Nodes, NEW p \in Nodes, Unopposed(n)'
               PROVE  /\ Len(log[p]) <= Len(log'[p])
                      /\ \A i \in 1 .. Len(log[p]) : log'[p][i] = log[p][i]
    OBVIOUS
  <2>1. /\ Begins(log[n], log'[n]) /\ Begins(log'[p], log'[n])
        /\ Len(log[p]) <= Len(log'[p])
    BY NextOneSource
  <2>2. Begins(log[p], log[n])
    BY UnopposedBefore DEF SourceInv, OneSource
  <2>3. /\ log[p] \in Seq(Nat) /\ log[n] \in Seq(Nat) /\ log'[n] \in Seq(Nat)
        /\ Len(log[p]) \in Nat /\ Len(log'[p]) \in Nat
    BY LenProperties DEF TypeOK, NodesType
  <2>4. Begins(log[p], log'[n])
    BY <2>1, <2>2, <2>3, BeginsTransitive
  <2>5. QED  BY <2>1, <2>3, <2>4 DEF Begins
<1>2. TypeOK /\ TypeOK' /\ SourceInv /\ [Next]_vars => [Grow]_vars
  BY <1>1
<1>3. QED  BY <1>2, SourceAlways, PTL DEF Spec, LogsOnlyGrow

\* For any number of controllers, elections, entries, timeouts and crashes: two
\* logs agree as far as both go, as long as one node at most has stood.
THEOREM LogMatching == Spec => []LogsMatch
<1>1. TypeOK /\ SourceInv => LogsMatch
  <2> SUFFICES ASSUME TypeOK, SourceInv, NEW n \in Nodes, NEW p \in Nodes,
                      NEW q \in Nodes, Unopposed(n),
                      NEW i \in 1 .. Smaller(Len(log[p]), Len(log[q]))
               PROVE  log[p][i] = log[q][i]
    BY DEF LogsMatch
  <2>1. Begins(log[p], log[n]) /\ Begins(log[q], log[n])
    BY DEF SourceInv, OneSource
  <2>2. Len(log[p]) \in Nat /\ Len(log[q]) \in Nat
    BY LenProperties DEF TypeOK, NodesType
  <2>3. i \in 1 .. Len(log[p]) /\ i \in 1 .. Len(log[q])
    BY <2>2 DEF Smaller
  <2>4. QED  BY <2>1, <2>3 DEF Begins
<1>2. QED  BY <1>1, SourceAlways, PTL

=============================================================================
