--------------------------- MODULE RaftLogProofs ---------------------------
(***************************************************************************)
(* Proofs about RaftLog, in four parts: type correctness; that no crash     *)
(* between two writes of the file makes a node vote twice in a term; that   *)
(* the acknowledged entries are kept, each in its place; and that a damaged *)
(* file loses what it held and makes nothing up.                            *)
(***************************************************************************)
EXTENDS RaftLog, SequenceTheorems, TLAPS

\* The ids of the nodes and the bounds are numbers.
LEMMA Constants ==
    /\ Candidates \subseteq Nat /\ None \notin Candidates
    /\ MaxTerm \in Nat /\ MaxEntries \in Nat /\ MaxGarbage \in Nat /\ Block \in Nat
BY LogAssumption DEF None

LEMMA EntryTypes ==
    /\ Blank \in Entry
    /\ EmptyFile \in File
    /\ None \in Candidates \cup {None}
BY DEF Blank, Entry, EmptyFile, File, None

\* The calls that a plan is made of.
LEMMA CallTypes ==
    /\ \A t \in Nat : CallOf("set_current_term", t) \in Call
    /\ \A c \in Candidates : CallOf("set_voted_for", c) \in Call
    /\ \A i \in Nat : CallOf("truncate_from", i) \in Call
    /\ CallOf("increment_term", 0) \in Call
    /\ CallOf("clear_vote", 0) \in Call
    /\ \A e \in Entry : AppendOf(e) \in Call
BY EntryTypes, Constants DEF Call, Ops, CallOf, AppendOf

LEMMA FileType ==
    ASSUME NEW t \in Nat, NEW v \in Candidates \cup {None}, NEW es \in Seq(Entry),
           NEW written \in Seq(Entry)
    PROVE  FileOf(t, v, es, written) \in File
BY DEF FileOf, File

\* What a leader does not replace is a part of what was acknowledged.
LEMMA AckedBelowType ==
    ASSUME TypeOK, NEW i \in Nat
    PROVE  AckedBelow(i) \in Seq(Entry)
BY DEF AckedBelow, TypeOK

LEMMA LastIndexType ==
    ASSUME TypeOK
    PROVE  LastIndex \in Nat
<1>1. CASE entries = <<>>
  BY <1>1 DEF LastIndex
<1>2. CASE entries # <<>>
  <2>1. entries[Len(entries)] \in Entry
    BY <1>2 DEF TypeOK
  <2>2. QED  BY <1>2, <2>1 DEF LastIndex, Last, Entry
<1>3. QED  BY <1>1, <1>2

\* The calls that store entries are calls, and touch the entries only.
LEMMA StorePlanCalls ==
    ASSUME NEW first \in Nat, NEW es \in Seq(Entry), TypeOK
    PROVE  /\ StorePlan(first, es) \in Seq(Call)
           /\ \A i \in DOMAIN StorePlan(first, es) :
                 StorePlan(first, es)[i].op \in {"append", "truncate_from"}
<1> DEFINE
  cut == IF first <= LastIndex THEN <<CallOf("truncate_from", first)>> ELSE <<>>
  appends == [i \in DOMAIN es |-> AppendOf(es[i])]
<1>1. cut \in Seq(Call) /\ \A i \in DOMAIN cut : cut[i].op = "truncate_from"
  BY CallTypes DEF CallOf
<1>2. /\ appends \in Seq(Call) /\ Len(appends) = Len(es)
      /\ \A i \in DOMAIN appends : appends[i].op = "append"
  <2>1. \A i \in 1 .. Len(es) : AppendOf(es[i]) \in Call
    BY CallTypes
  <2>2. appends = [i \in 1 .. Len(es) |-> AppendOf(es[i])]
    OBVIOUS
  <2>3. appends \in Seq(Call)
    BY <2>1, <2>2
  <2>4. QED  BY <2>2, <2>3 DEF AppendOf
<1> HIDE DEF cut, appends
<1>3. /\ cut \o appends \in Seq(Call)
      /\ \A i \in DOMAIN (cut \o appends) :
            (cut \o appends)[i].op \in {"append", "truncate_from"}
  BY <1>1, <1>2
<1>4. StorePlan(first, es) = IF es = <<>> THEN <<>> ELSE cut \o appends
  BY DEF StorePlan, cut, appends
<1>5. QED  BY <1>3, <1>4

\* What the members are after a call.
LEMMA ChangedType ==
    ASSUME TypeOK, NEW c \in Call, Changed(c)
    PROVE  /\ term' \in Nat
           /\ vote' \in Candidates \cup {None}
           /\ entries' \in Seq(Entry)
<1>1. c.op \in Ops /\ c.n \in Nat /\ c.e \in Entry
  BY DEF Call
<1>2. c.op = "set_voted_for" => c.n \in Candidates
  BY DEF Call
<1>3. term' \in Nat
  BY <1>1 DEF Changed, TypeOK
<1>4. vote' \in Candidates \cup {None}
  BY <1>2 DEF Changed, TypeOK
<1>5. entries' \in Seq(Entry)
  <2>1. Append(entries, c.e) \in Seq(Entry)
    BY <1>1 DEF TypeOK
  <2>2. c.n < Len(entries) => SubSeq(entries, 1, c.n) \in Seq(Entry)
    BY <1>1 DEF TypeOK
  <2>3. QED  BY <2>1, <2>2 DEF Changed, TypeOK
<1>6. QED  BY <1>3, <1>4, <1>5

\* A request changes the plan and the history only.
LEMMA PlanType ==
    ASSUME TypeOK, NEW calls \in Seq(Call), NEW candidate \in Candidates \cup {None},
           NEW answer \in BOOLEAN, Plan(calls, candidate, answer), acked' \in Seq(Entry),
           role' \in {"follower", "candidate", "leader"}, conceded' \in SUBSET Nat,
           bounds' = bounds
    PROVE  TypeOK'
BY DEF Plan, TypeOK

LEMMA SpendType ==
    ASSUME TypeOK, NEW kind \in {"crashes", "faults"}, NEW max, Spend(kind, max)
    PROVE  bounds' \in [crashes : Nat, faults : Nat]
BY DEF Spend, TypeOK

\* The entries of a request from the first new one on.
LEMMA StoreRest ==
    ASSUME TypeOK, NEW prev \in 0 .. MaxEntries, NEW len \in 0 .. MaxEntries - prev,
           NEW es \in [1 .. len -> 1 .. term], NEW f \in DOMAIN es
    PROVE  /\ prev + f \in Nat
           /\ [i \in 1 .. Len(es) - f + 1 |->
                 [term |-> es[f + i - 1], index |-> prev + (f + i - 1)]] \in Seq(Entry)
<1> DEFINE
  count == Len(es) - f + 1
  entry(i) == [term |-> es[f + i - 1], index |-> prev + (f + i - 1)]
<1>0. prev \in Nat /\ len \in Nat /\ DOMAIN es = 1 .. len /\ Len(es) = len /\ term \in Nat
  BY Constants DEF TypeOK
<1>1. f \in Nat /\ prev + f \in Nat /\ f \in 1 .. len /\ count \in Nat
  BY <1>0
<1>2. \A i \in 1 .. count : entry(i) \in Entry
  <2>1. SUFFICES ASSUME NEW i \in 1 .. count
                 PROVE es[f + i - 1] \in Nat /\ prev + (f + i - 1) \in Nat
    BY DEF Entry
  <2>2. f + i - 1 \in 1 .. len
    BY <1>0, <1>1
  <2>3. es[f + i - 1] \in 1 .. term
    BY <2>2
  <2>4. QED  BY <1>0, <2>2, <2>3
<1>3. [i \in 1 .. count |-> entry(i)] \in Seq(Entry)
  <2> HIDE DEF count, entry
  <2>1. QED  BY <1>1, <1>2
<1>4. QED  BY <1>1, <1>3

LEMMA RequestType ==
    ASSUME TypeOK, Request
    PROVE  TypeOK'
<1>0. /\ acked \in Seq(Entry) /\ LastIndex \in Nat /\ term \in Nat /\ Self \in Candidates
      /\ role \in {"follower", "candidate", "leader"} /\ conceded \in SUBSET Nat
  BY LastIndexType DEF TypeOK, Candidates
<1>8. ASSUME NEW t \in Nat PROVE <<CallOf("set_current_term", t), CallOf("clear_vote", 0)>>
                                  \in Seq(Call)
  BY CallTypes
<1>1. ASSUME NEW t \in 1 .. MaxTerm, Follow(t) PROVE TypeOK'
  <2>1. t \in Nat
    BY Constants
  <2>2. QED  BY <1>0, <1>1, <1>8, <2>1, PlanType DEF Follow, BecomeFollower
<1>9. ASSUME Concede PROVE TypeOK'
  <2>1. conceded' \in SUBSET Nat
    BY <1>0, <1>9 DEF Concede
  <2>2. QED  BY <1>0, <1>8, <1>9, <2>1, PlanType DEF Concede, BecomeFollower
<1>2. ASSUME Stand PROVE TypeOK'
  <2>1. <<CallOf("increment_term", 0), CallOf("set_voted_for", Self)>> \in Seq(Call)
    BY <1>0, CallTypes
  <2>2. QED  BY <1>0, <1>2, <2>1, PlanType DEF Stand
<1>3. ASSUME NEW c \in Peers, Vote(c) PROVE TypeOK'
  <2>1. c \in Candidates
    BY DEF Candidates
  <2>2. <<CallOf("set_voted_for", c)>> \in Seq(Call)
    BY <2>1, CallTypes
  <2>3. QED  BY <1>0, <1>3, <2>1, <2>2, PlanType DEF Vote, standing
<1>4. ASSUME Lead PROVE TypeOK'
  <2>1. [term |-> term, index |-> LastIndex + 1] \in Entry
    BY <1>0 DEF Entry
  <2>2. <<AppendOf([term |-> term, index |-> LastIndex + 1])>> \in Seq(Call)
    BY <2>1, CallTypes
  <2>3. QED  BY <1>0, <1>4, <2>2, PlanType DEF Lead
<1>5. ASSUME NEW prev \in 1 .. MaxEntries, NEW t \in 1 .. MaxTerm, Refuse(prev, t)
      PROVE TypeOK'
  <2>1. prev \in Nat
    BY Constants
  <2>2. <<CallOf("truncate_from", prev)>> \in Seq(Call)
    BY <2>1, CallTypes
  <2>3. AckedBelow(prev) \in Seq(Entry)
    BY <2>1, AckedBelowType
  <2>4. QED  BY <1>0, <1>5, <2>2, <2>3, PlanType DEF Refuse, standing
<1>6. ASSUME NEW prev \in 0 .. MaxEntries, NEW len \in 0 .. MaxEntries - prev,
             NEW es \in [1 .. len -> 1 .. term], Store(prev, es)
      PROVE TypeOK'
  <2>0. prev \in Nat /\ len \in Nat /\ DOMAIN es = 1 .. len /\ Len(es) = len
    BY Constants
  <2>1. CASE Plan(<<>>, None, TRUE) /\ acked' = acked
    BY <1>0, <1>6, <2>1 DEF Plan, TypeOK, Store, standing
  <2>2. ASSUME NEW f \in DOMAIN es,
               Plan(StorePlan(prev + f, [i \in 1 .. Len(es) - f + 1 |->
                        [term |-> es[f + i - 1], index |-> prev + (f + i - 1)]]),
                    None, TRUE),
               acked' = AckedBelow(prev + f)
        PROVE TypeOK'
    <3> DEFINE rest == [i \in 1 .. Len(es) - f + 1 |->
                           [term |-> es[f + i - 1], index |-> prev + (f + i - 1)]]
    <3>1. prev + f \in Nat /\ rest \in Seq(Entry)
      BY StoreRest
    <3>2. Plan(StorePlan(prev + f, rest), None, TRUE)
      BY <2>2
    <3> HIDE DEF rest
    <3>3. StorePlan(prev + f, rest) \in Seq(Call)
      BY <3>1, StorePlanCalls
    <3>4. AckedBelow(prev + f) \in Seq(Entry)
      BY <3>1, AckedBelowType
    <3>5. UNCHANGED <<role, conceded, bounds>>
      BY <1>6 DEF Store, standing
    <3>6. QED  BY <1>0, <2>2, <3>2, <3>3, <3>4, <3>5, PlanType
  <2>3. QED  BY <1>6, <2>1, <2>2 DEF Store
<1>7. QED  BY <1>1, <1>2, <1>3, <1>4, <1>5, <1>6, <1>9 DEF Request

LEMMA OpenType ==
    ASSUME TypeOK, Open \/ OpenFails
    PROVE  TypeOK'
<1>1. todo # <<>> /\ Changed(Head(todo)) /\ todo' = Tail(todo)
  BY DEF Open, OpenFails
<1>2. Head(todo) \in Call /\ todo' \in Seq(Call)
  BY <1>1 DEF TypeOK
<1>3. /\ term' \in Nat /\ vote' \in Candidates \cup {None} /\ entries' \in Seq(Entry)
  BY <1>1, <1>2, ChangedType
<1>4. CASE Open
  BY <1>2, <1>3, <1>4, EntryTypes DEF Open, TypeOK, answers, standing
<1>5. CASE OpenFails
  <2>1. bounds' \in [crashes : Nat, faults : Nat]
    BY <1>5, SpendType DEF OpenFails
  <2>2. acked' \in Seq(Entry)
    BY <1>5 DEF OpenFails
  <2>3. granted' \in SUBSET (Nat \X Candidates) /\ conceded' \in SUBSET Nat
    BY <1>5 DEF OpenFails
  <2>4. QED  BY <1>2, <1>3, <1>5, <2>1, <2>2, <2>3 DEF OpenFails, TypeOK
<1>6. QED  BY <1>4, <1>5

LEMMA FlushType ==
    ASSUME TypeOK, Flush
    PROVE  TypeOK'
<1>1. PICK k \in Block .. Len(entries) - 1 :
         \E cut \in {<<>>} \cup {<<e>> : e \in Pieces(entries[k + 1])} :
            file' = FileOf(term, vote, entries, SubSeq(entries, 1, k) \o cut)
  BY DEF Flush
<1>2. PICK cut \in {<<>>} \cup {<<e>> : e \in Pieces(entries[k + 1])} :
         file' = FileOf(term, vote, entries, SubSeq(entries, 1, k) \o cut)
  BY <1>1
<1>3. k \in Nat /\ k + 1 \in 1 .. Len(entries)
  BY Constants DEF TypeOK
<1>4. entries[k + 1] \in Entry
  BY <1>3 DEF TypeOK
<1>5. Pieces(entries[k + 1]) \subseteq Entry
  BY <1>4 DEF Pieces, Entry
<1>6. cut \in Seq(Entry)
  <2>1. CASE cut = <<>>
    BY <2>1
  <2>2. ASSUME NEW e \in Pieces(entries[k + 1]), cut = <<e>>
        PROVE  cut \in Seq(Entry)
    BY <1>5, <2>2
  <2>3. QED  BY <2>1, <2>2
<1>7. SubSeq(entries, 1, k) \in Seq(Entry)
  BY <1>3 DEF TypeOK
<1>8. SubSeq(entries, 1, k) \o cut \in Seq(Entry)
  BY <1>6, <1>7
<1>9. file' \in File
  BY <1>2, <1>8, FileType DEF TypeOK
<1>10. QED  BY <1>9 DEF Flush, TypeOK, answers, standing

LEMMA RestartType ==
    ASSUME TypeOK, Restart
    PROVE  TypeOK'
<1>1. file.term \in Nat /\ file.vote \in Candidates \cup {None}
      /\ file.entries \in Seq(Entry) /\ file.count \in Nat
  BY DEF TypeOK, File
<1>2. entries' \in Seq(Entry)
  <2>1. CASE ~file.exists
    <3>1. entries' = <<Blank>>
      BY <2>1 DEF Restart
    <3>2. QED  BY <3>1, EntryTypes
  <2>2. CASE file.exists
    <3> DEFINE most == IF file.header THEN file.count - Len(file.entries)
                       ELSE MaxGarbage
    <3>0. PICK blanks \in 0 .. most :
             entries' = file.entries \o [i \in 1 .. blanks |-> Blank]
      BY <2>2 DEF Restart
    <3>1. blanks \in Nat
      BY <1>1, Constants
    <3>2. [i \in 1 .. blanks |-> Blank] \in Seq(Entry)
      BY <3>1, EntryTypes
    <3>3. QED  BY <1>1, <3>0, <3>2
  <2>3. QED  BY <2>1, <2>2
<1>3. QED  BY <1>1, <1>2 DEF Restart, TypeOK, answers, standing

LEMMA InitType == Init => TypeOK
<1> SUFFICES ASSUME Init PROVE TypeOK
  OBVIOUS
<1>1. file \in File
  BY EntryTypes DEF Init, File
<1>2. bounds \in [crashes : Nat, faults : Nat]
  BY DEF Init
<1>3. term \in Nat /\ vote \in Candidates \cup {None} /\ promise \in Candidates \cup {None}
      /\ pc \in {"up", "writing", "down"} /\ ack \in BOOLEAN
  BY DEF Init
<1>4. entries \in Seq(Entry) /\ todo \in Seq(Call) /\ acked \in Seq(Entry)
  BY DEF Init
<1>5. /\ granted \in SUBSET (Nat \X Candidates) /\ lost \in SUBSET {"vote", "entries"}
      /\ conceded \in SUBSET Nat /\ role \in {"follower", "candidate", "leader"}
  BY DEF Init
<1>6. QED  BY <1>1, <1>2, <1>3, <1>4, <1>5 DEF TypeOK

LEMMA NextType == TypeOK /\ [Next]_vars => TypeOK'
<1> SUFFICES ASSUME TypeOK, [Next]_vars
             PROVE  TypeOK'
  OBVIOUS
<1>1. CASE Request
  BY <1>1, RequestType
<1>2. CASE Answer
  <2>1. granted' \in SUBSET (Nat \X Candidates)
    BY <1>2 DEF Answer, TypeOK
  <2>2. QED  BY <1>2, <2>1 DEF Answer, TypeOK, None, standing
<1>3. CASE Open \/ OpenFails
  BY <1>3, OpenType
<1>4. CASE Flush
  BY <1>4, FlushType
<1>5. CASE Close
  <2>1. file' \in File
    BY <1>5, FileType DEF Close, TypeOK
  <2>2. QED  BY <1>5, <2>1 DEF Close, TypeOK, answers, standing
<1>6. CASE Crash
  <2>1. bounds' \in [crashes : Nat, faults : Nat]
    BY <1>6, SpendType DEF Crash
  <2>2. acked' \in Seq(Entry)
    BY <1>6 DEF Crash, TypeOK
  <2>3. lost' \in SUBSET {"vote", "entries"}
    BY <1>6 DEF Crash, TypeOK
  <2>4. todo' \in Seq(Call) /\ promise' = None /\ ack' = FALSE /\ pc' = "down"
    BY <1>6 DEF Crash
  <2>5. QED  BY <1>6, <2>1, <2>2, <2>3, <2>4 DEF Crash, TypeOK
<1>7. CASE Restart
  BY <1>7, RestartType
<1>8. CASE UNCHANGED vars
  BY <1>8 DEF vars, answers, standing, TypeOK
<1>9. QED  BY <1>1, <1>2, <1>3, <1>4, <1>5, <1>6, <1>7, <1>8 DEF Next

\* Every variable keeps its type, whatever the ids and the bounds are.
THEOREM TypeCorrect == Spec => []TypeOK
<1>1. QED  BY InitType, NextType, PTL DEF Spec

-----------------------------------------------------------------------------
(* One vote a term *)

EntryCallsOnly == \A i \in DOMAIN todo : todo[i].op \in {"append", "truncate_from"}

\* A vote that binds no more: of an earlier term, or for the node itself in a term
\* whose election it gave up.
Past(x) == x[1] < term \/ (term \in conceded /\ x = <<term, Self>>)

\* Every other vote given is the one in the members.
VotesAreOld == \A x \in granted : Past(x) \/ x = <<term, vote>>

\* A candidate has voted for itself or is about to.
CandidateVote == role = "candidate" => promise = Self \/ (todo = <<>> /\ vote = Self)

\* A file that was not written is counted as a loss.
FaultIsLoss == AllWritten \/ "vote" \in lost

\* The file has the term and the vote, but while it is written.
FileHoldsVote ==
    pc # "writing" \/ file.header => file.term = term /\ file.vote = vote

\* What is left of a plan fits the term and the vote.
PlanFits ==
    \/ promise = None /\ EntryCallsOnly
    \/ /\ promise = None
       /\ \E t \in Nat :
             /\ \/ t > term
                \/ t = term /\ \A x \in granted : Past(x)
             /\ todo = <<CallOf("set_current_term", t), CallOf("clear_vote", 0)>>
    \/ /\ promise = None
       /\ todo = <<CallOf("clear_vote", 0)>>
       /\ \A x \in granted : Past(x)
    \/ promise # None /\ todo = <<>> /\ vote = promise
    \/ promise # None /\ todo = <<CallOf("set_voted_for", promise)>>
          /\ vote \in {None, promise}
    \/ promise # None /\ todo = <<CallOf("increment_term", 0),
                                  CallOf("set_voted_for", promise)>>

VoteInv ==
    /\ FaultIsLoss
    /\ "vote" \notin lost =>
          VoteSurvives /\ VotesAreOld /\ FileHoldsVote /\ PlanFits /\ CandidateVote

\* A request only makes a plan.
LEMMA RequestPlans ==
    ASSUME Request
    PROVE  /\ UNCHANGED <<term, vote, entries, file, pc, granted, lost, bounds>>
           /\ Idle
           /\ conceded \subseteq conceded'
<1> DEFINE Kept == /\ UNCHANGED <<term, vote, entries, file, pc, granted, lost, bounds>>
                   /\ Idle
                   /\ conceded \subseteq conceded'
<1>1. \A t \in 1 .. MaxTerm : Follow(t) => Kept
  BY DEF Follow, BecomeFollower, Plan
<1>2. Stand => Kept
  BY DEF Stand, Plan
<1>3. \A c \in Peers : Vote(c) => Kept
  BY DEF Vote, Plan, standing
<1>4. Lead => Kept
  BY DEF Lead, Plan
<1>5. \A prev, t : Refuse(prev, t) => Kept
  BY DEF Refuse, Plan, standing
<1>6. ASSUME NEW prev, NEW es, Store(prev, es) PROVE Kept
  <2>1. UNCHANGED <<term, vote, entries, file, pc, granted, lost>>
    BY <1>6, Zenon DEF Store, Plan
  <2>2. Idle /\ UNCHANGED <<standing, bounds>>
    BY <1>6, Zenon DEF Store
  <2>3. QED  BY <2>1, <2>2 DEF standing
<1>7. Concede => Kept
  BY DEF Concede, BecomeFollower, Plan
<1> HIDE DEF Kept
<1>8. Kept
  BY <1>1, <1>2, <1>3, <1>4, <1>5, <1>6, <1>7 DEF Request
<1>9. QED  BY <1>8 DEF Kept

\* The requests make plans that fit.
LEMMA RequestKeepsVoteInv ==
    ASSUME TypeOK, VoteInv, Request
    PROVE  VoteInv'
<1>0. /\ UNCHANGED <<term, vote, entries, file, pc, granted, lost, bounds>>
      /\ Idle
      /\ conceded \subseteq conceded'
  BY RequestPlans
<1>10. /\ FaultIsLoss' /\ FaultIsLoss
       /\ "vote" \notin lost => VoteSurvives' /\ VotesAreOld' /\ FileHoldsVote'
  BY <1>0 DEF VoteInv, VoteSurvives, VotesAreOld, Past, FileHoldsVote, FaultIsLoss, AllWritten
<1> SUFFICES ASSUME "vote" \notin lost
             PROVE  PlanFits' /\ CandidateVote'
  BY <1>0, <1>10 DEF VoteInv
<1>11. CandidateVote /\ VotesAreOld
  BY DEF VoteInv
<1>1. ASSUME NEW t \in 1 .. MaxTerm, Follow(t) PROVE PlanFits' /\ CandidateVote'
  <2>1. t \in Nat
    BY Constants
  <2>2. QED
    BY <1>0, <1>1, <2>1 DEF Follow, BecomeFollower, Plan, PlanFits, CandidateVote
<1>12. CASE Concede
  <2>1. term \in Nat /\ vote = Self /\ term \in conceded'
    <3>1. Self # None
      BY Constants DEF Candidates
    <3>2. AllWritten
      BY <1>10 DEF FaultIsLoss
    <3>3. QED  BY <1>11, <1>12, <3>1, <3>2 DEF Concede, Idle, CandidateVote, TypeOK
  <2>2. \A x \in granted' : Past(x)'
    BY <1>0, <1>11, <2>1 DEF VotesAreOld, Past
  <2>3. QED
    BY <1>0, <1>12, <2>1, <2>2 DEF Concede, BecomeFollower, Plan, PlanFits, CandidateVote
<1>2. CASE Stand
  <2>1. Self \in Candidates
    BY DEF Candidates
  <2>2. QED  BY <1>2, <2>1, Constants DEF Stand, Plan, PlanFits, CandidateVote
<1>3. ASSUME NEW c \in Peers, Vote(c) PROVE PlanFits' /\ CandidateVote'
  <2>1. c \in Candidates
    BY DEF Candidates
  <2>2. PlanFits'
    BY <1>0, <1>3, <2>1, Constants DEF Vote, Plan, PlanFits
  <2>3. CandidateVote'
    BY <1>0, <1>3, <1>11, Constants DEF Vote, Plan, Idle, CandidateVote, standing, Candidates
  <2>4. QED  BY <2>2, <2>3
<1>4. CASE Lead
  <2>1. promise' = None /\ todo' = <<AppendOf([term |-> term, index |-> LastIndex + 1])>>
    BY <1>4 DEF Lead, Plan
  <2>2. EntryCallsOnly'
    BY <2>1 DEF EntryCallsOnly, AppendOf
  <2>3. QED  BY <1>4, <2>1, <2>2 DEF PlanFits, CandidateVote, Lead
<1>5. ASSUME NEW prev \in 1 .. MaxEntries, NEW t \in 1 .. MaxTerm, Refuse(prev, t)
      PROVE PlanFits' /\ CandidateVote'
  BY <1>5 DEF Refuse, Plan, PlanFits, EntryCallsOnly, CallOf, CandidateVote, standing
<1>6. ASSUME NEW prev \in 0 .. MaxEntries, NEW len \in 0 .. MaxEntries - prev,
             NEW es \in [1 .. len -> 1 .. term], Store(prev, es)
      PROVE PlanFits' /\ CandidateVote'
  <2>1. Plan(<<>>, None, TRUE) => PlanFits'
    BY DEF Plan, PlanFits, EntryCallsOnly
  <2>2. ASSUME NEW f \in DOMAIN es,
               Plan(StorePlan(prev + f, [i \in 1 .. Len(es) - f + 1 |->
                        [term |-> es[f + i - 1], index |-> prev + (f + i - 1)]]),
                    None, TRUE)
        PROVE PlanFits'
    <3> DEFINE rest == [i \in 1 .. Len(es) - f + 1 |->
                           [term |-> es[f + i - 1], index |-> prev + (f + i - 1)]]
    <3>1. prev + f \in Nat /\ rest \in Seq(Entry)
      BY StoreRest
    <3>2. Plan(StorePlan(prev + f, rest), None, TRUE)
      BY <2>2
    <3> HIDE DEF rest
    <3>3. promise' = None /\ EntryCallsOnly'
      BY <3>1, <3>2, StorePlanCalls DEF Plan, EntryCallsOnly
    <3>4. QED  BY <3>3 DEF PlanFits
  <2>3. CandidateVote'
    BY <1>6 DEF Store, CandidateVote, standing
  <2>4. QED  BY <1>6, <2>1, <2>2, <2>3 DEF Store
<1>7. QED  BY <1>1, <1>12, <1>2, <1>3, <1>4, <1>5, <1>6 DEF Request

\* A call moves the term and the vote as its plan says.
LEMMA OpenKeepsVoteInv ==
    ASSUME TypeOK, VoteInv, Open
    PROVE  VoteInv'
<1>0. /\ todo # <<>> /\ Changed(Head(todo)) /\ todo' = Tail(todo)
      /\ pc' = "writing" /\ ~file'.header
      /\ UNCHANGED <<promise, granted, lost, role, conceded, bounds>>
  BY DEF Open, EmptyFile, answers, standing
<1> SUFFICES ASSUME "vote" \notin lost
             PROVE  VotesAreOld' /\ PlanFits'
  <2>1. "vote" \notin lost => CandidateVote'
    BY <1>0 DEF VoteInv, CandidateVote
  <2>2. QED
    BY <1>0, <2>1 DEF VoteInv, VoteSurvives, FileHoldsVote, FaultIsLoss, AllWritten
<1>1. VotesAreOld /\ PlanFits
  BY DEF VoteInv
<1>2. /\ term \in Nat /\ vote \in Candidates \cup {None} /\ todo \in Seq(Call)
      /\ granted \in SUBSET (Nat \X Candidates)
      /\ \A x \in granted : x[1] \in Nat /\ x[2] \in Candidates /\ x = <<x[1], x[2]>>
  BY DEF TypeOK
<1>3. CASE promise = None /\ EntryCallsOnly
  <2>1. Head(todo).op \in {"append", "truncate_from"}
    BY <1>0, <1>2, <1>3 DEF EntryCallsOnly
  <2>2. term' = term /\ vote' = vote
    BY <1>0, <2>1 DEF Changed
  <2>3. EntryCallsOnly'
    BY <1>0, <1>2, <1>3 DEF EntryCallsOnly
  <2>4. QED  BY <1>0, <1>1, <1>3, <2>2, <2>3 DEF VotesAreOld, Past, PlanFits
<1>4. ASSUME promise = None,
             NEW t \in Nat, t > term \/ (t = term /\ \A x \in granted : Past(x)),
             todo = <<CallOf("set_current_term", t), CallOf("clear_vote", 0)>>
      PROVE VotesAreOld' /\ PlanFits'
  <2>1. term' = t /\ vote' = vote /\ todo' = <<CallOf("clear_vote", 0)>>
    BY <1>0, <1>4 DEF Changed, CallOf
  <2>2. \A x \in granted : Past(x)'
    BY <1>0, <1>1, <1>2, <1>4, <2>1 DEF VotesAreOld, Past
  <2>3. QED  BY <1>0, <1>4, <2>1, <2>2 DEF VotesAreOld, PlanFits
<1>5. CASE /\ promise = None
           /\ todo = <<CallOf("clear_vote", 0)>>
           /\ \A x \in granted : Past(x)
  <2>1. term' = term /\ todo' = <<>>
    BY <1>0, <1>5 DEF Changed, CallOf
  <2>2. QED  BY <1>0, <1>5, <2>1 DEF VotesAreOld, Past, PlanFits, EntryCallsOnly
<1>6. CASE /\ promise # None
           /\ todo = <<CallOf("set_voted_for", promise)>>
           /\ vote \in {None, promise}
  <2>1. term' = term /\ vote' = promise /\ todo' = <<>>
    BY <1>0, <1>6 DEF Changed, CallOf
  <2>2. \A x \in granted : Past(x) \/ x = <<term, promise>>
    BY <1>1, <1>2, <1>6, Constants DEF VotesAreOld
  <2>3. QED  BY <1>0, <1>6, <2>1, <2>2 DEF VotesAreOld, Past, PlanFits
<1>7. CASE /\ promise # None
           /\ todo = <<CallOf("increment_term", 0), CallOf("set_voted_for", promise)>>
  <2>1. term' = term + 1 /\ vote' = None
        /\ todo' = <<CallOf("set_voted_for", promise)>>
    BY <1>0, <1>7 DEF Changed, CallOf
  <2>2. \A x \in granted : Past(x)'
    BY <1>1, <1>2, <2>1 DEF VotesAreOld, Past
  <2>3. QED  BY <1>0, <1>7, <2>1, <2>2 DEF VotesAreOld, PlanFits
<1>8. QED  BY <1>0, <1>1, <1>3, <1>4, <1>5, <1>6, <1>7 DEF PlanFits

LEMMA AnswerKeepsVoteInv ==
    ASSUME TypeOK, VoteInv, Answer
    PROVE  VoteInv'
<1>1. /\ UNCHANGED <<term, vote, file, pc, todo, role, conceded, lost, bounds>>
      /\ todo = <<>> /\ promise' = None
  BY DEF Answer, standing
<1> SUFFICES ASSUME "vote" \notin lost
             PROVE  VoteSurvives' /\ VotesAreOld' /\ FileHoldsVote' /\ PlanFits'
                    /\ CandidateVote'
  BY <1>1 DEF VoteInv, FaultIsLoss, AllWritten
<1>0. VoteSurvives /\ VotesAreOld /\ FileHoldsVote /\ PlanFits /\ CandidateVote
      /\ AllWritten /\ term \in Nat
  BY DEF VoteInv, FaultIsLoss, TypeOK
<1>2. FileHoldsVote' /\ PlanFits'
  BY <1>0, <1>1 DEF FileHoldsVote, PlanFits, EntryCallsOnly
<1>3. CASE promise = None
  <2>1. granted' = granted
    BY <1>3 DEF Answer
  <2>2. CandidateVote'
    BY <1>0, <1>1, <1>3 DEF CandidateVote
  <2>3. QED  BY <1>0, <1>1, <1>2, <2>1, <2>2 DEF VoteSurvives, VotesAreOld, Past
<1>4. CASE promise # None
  <2>1. vote = promise /\ granted' = granted \cup {<<term, vote>>}
    BY <1>0, <1>1, <1>4 DEF PlanFits, Answer
  <2>2. VotesAreOld'
    BY <1>0, <1>1, <2>1 DEF VotesAreOld, Past
  <2>3. VoteSurvives'
    BY <1>0, <1>1, <2>1 DEF VotesAreOld, Past, VoteSurvives
  <2>4. CandidateVote'
    BY <1>0, <1>1, <2>1 DEF CandidateVote
  <2>5. QED  BY <1>2, <2>2, <2>3, <2>4
<1>5. QED  BY <1>3, <1>4

LEMMA CrashKeepsVoteInv ==
    ASSUME TypeOK, VoteInv, Crash
    PROVE  VoteInv'
<1>1. /\ UNCHANGED <<term, vote, file, granted, conceded>>
      /\ todo' = <<>> /\ promise' = None /\ role' = "follower"
      /\ lost \subseteq lost' /\ bounds'.faults = bounds.faults
  BY DEF Crash, Spend, TypeOK
<1> SUFFICES ASSUME "vote" \notin lost'
             PROVE  FileHoldsVote'
  BY <1>1 DEF VoteInv, VoteSurvives, VotesAreOld, Past, PlanFits, EntryCallsOnly,
              CandidateVote, FaultIsLoss, AllWritten
<1>2. FileHoldsVote
  BY <1>1 DEF VoteInv
<1>3. pc # "writing" \/ file.header
  BY DEF Crash, TypeOK
<1>4. QED  BY <1>1, <1>2, <1>3 DEF FileHoldsVote

LEMMA InitVoteInv == Init => VoteInv
BY DEF Init, VoteInv, VoteSurvives, VotesAreOld, FileHoldsVote, PlanFits,
       EntryCallsOnly, EmptyFile, CandidateVote, FaultIsLoss, AllWritten

LEMMA NextVoteInv == TypeOK /\ VoteInv /\ [Next]_vars => VoteInv'
<1> SUFFICES ASSUME TypeOK, VoteInv, [Next]_vars
             PROVE  VoteInv'
  OBVIOUS
<1>1. CASE Request
  BY <1>1, RequestKeepsVoteInv
<1>2. CASE Answer
  BY <1>2, AnswerKeepsVoteInv
<1>3. CASE Open
  BY <1>3, OpenKeepsVoteInv
<1>4. CASE OpenFails
  BY <1>4 DEF OpenFails, VoteInv, FaultIsLoss
<1>5. CASE Flush \/ Close
  <2>1. file'.term = term /\ file'.vote = vote
    BY <1>5 DEF Flush, Close, FileOf
  <2>2. UNCHANGED <<term, vote, todo, promise, granted, role, conceded, lost, bounds>>
    BY <1>5 DEF Flush, Close, answers, standing
  <2>3. QED
    BY <2>1, <2>2 DEF VoteInv, VoteSurvives, VotesAreOld, Past, FileHoldsVote,
                      PlanFits, EntryCallsOnly, CandidateVote, FaultIsLoss, AllWritten
<1>6. CASE Crash
  BY <1>6, CrashKeepsVoteInv
<1>7. CASE Restart
  <2>1. UNCHANGED <<file, todo, promise, granted, role, conceded, lost, bounds>> /\ pc = "down"
        /\ term' = file.term /\ vote' = file.vote
    BY <1>7 DEF Restart, answers, standing
  <2>2. SUFFICES ASSUME "vote" \notin lost
                 PROVE  VoteInv'
    BY <2>1 DEF VoteInv, FaultIsLoss, AllWritten
  <2>3. term' = term /\ vote' = vote
    BY <2>1, <2>2 DEF VoteInv, FileHoldsVote
  <2>4. QED
    BY <2>1, <2>3 DEF VoteInv, VoteSurvives, VotesAreOld, Past, FileHoldsVote,
                      PlanFits, EntryCallsOnly, CandidateVote, FaultIsLoss, AllWritten
<1>8. CASE UNCHANGED vars
  BY <1>8 DEF vars, answers, standing, VoteInv, VoteSurvives, VotesAreOld, Past,
              FileHoldsVote, PlanFits, EntryCallsOnly, CandidateVote, FaultIsLoss, AllWritten
<1>9. QED  BY <1>1, <1>2, <1>3, <1>4, <1>5, <1>6, <1>7, <1>8 DEF Next

\* For any ids and bounds a node gives one vote a term, whatever crashes come
\* between its calls of the log, as long as no crash or fault loses the vote; a
\* second one, for one other, only after it gave up its own election of the term.
THEOREM OneVotePerTerm == Spec => []VoteIsKept
<1>1. VoteInv => VoteIsKept
  BY DEF VoteInv, VoteIsKept
<1>2. QED  BY <1>1, InitType, NextType, InitVoteInv, NextVoteInv, PTL DEF Spec

-----------------------------------------------------------------------------
(* Entries: what was acknowledged stays in the log, and entries stay in place *)

Safe == "entries" \notin lost

\* Entry by entry, what IsPrefix says.
Begins(s, t) == Len(s) <= Len(t) /\ \A i \in 1 .. Len(s) : s[i] = t[i]

\* After a loss nothing counts as acknowledged any more.
AckedInLog ==
    /\ Begins(acked, entries)
    /\ ~Safe => acked = <<>>

\* While the node is up the vector has its dummy entry; the entries are in place.
InPlace ==
    /\ IF pc = "down" THEN todo = <<>> ELSE entries # <<>>
    /\ \A i \in DOMAIN entries : entries[i].index = i - 1

\* The file has the entries, but while it is written.
FileHoldsEntries ==
    /\ pc # "writing" /\ file.exists =>
          file.header /\ file.entries = entries /\ file.count = Len(entries)
    /\ file.exists => entries # <<>>
    /\ ~file.exists => pc # "writing" /\ entries \in {<<>>, <<Blank>>}

\* A planned cut comes first, is within the log, and spares what was
\* acknowledged; a planned entry will come to be where its index says.
CutFits(i) ==
    todo[i].op = "truncate_from" =>
        i = 1 /\ todo[i].n \in 1 .. Len(entries) /\ Len(acked) <= todo[i].n

AppendFits(i) ==
    todo[i].op = "append" =>
        todo[i].e.index = IF todo[1].op = "truncate_from" THEN todo[1].n + i - 2
                          ELSE Len(entries) + i - 1

\* A plan is either of changes to the entries, or of changes to the others.
OneKind ==
    \A i, j \in DOMAIN todo :
        todo[i].op \in {"append", "truncate_from"} => todo[j].op \in {"append", "truncate_from"}

StepsFit == OneKind /\ \A i \in DOMAIN todo : CutFits(i) /\ AppendFits(i)

EntriesInv ==
    /\ TypeOK
    /\ AckedInLog
    /\ Safe => InPlace /\ FileHoldsEntries /\ StepsFit

-----------------------------------------------------------------------------
(* Prefixes *)

LEMMA BeginsIsPrefix ==
    ASSUME NEW s \in Seq(Entry), NEW t \in Seq(Entry), Begins(s, t)
    PROVE  IsPrefix(s, t)
<1>1. /\ Len(s) \in Nat /\ Len(t) \in Nat /\ Len(s) <= Len(t)
      /\ \A i \in 1 .. Len(s) : s[i] \in Entry /\ t[i] \in Entry /\ s[i] = t[i]
  BY DEF Begins
<1>2. /\ SubSeq(s, 1, Len(s)) \in Seq(Entry) /\ Len(SubSeq(s, 1, Len(s))) = Len(s)
      /\ \A i \in 1 .. Len(s) : SubSeq(s, 1, Len(s))[i] = s[i]
  BY <1>1, SubSeqProperties, Z3
<1>3. /\ SubSeq(t, 1, Len(s)) \in Seq(Entry) /\ Len(SubSeq(t, 1, Len(s))) = Len(s)
      /\ \A i \in 1 .. Len(s) : SubSeq(t, 1, Len(s))[i] = t[i]
  BY <1>1, SubSeqProperties, Z3
<1>4. SubSeq(s, 1, Len(s)) = SubSeq(t, 1, Len(s))
  BY <1>1, <1>2, <1>3, SeqEqual
<1>5. QED  BY <1>1, <1>4 DEF IsPrefix

\* What is left of what was acknowledged, once a leader replaces the rest.
LEMMA AckedBelowBegins ==
    ASSUME TypeOK, AckedInLog, NEW i \in Nat
    PROVE  /\ Begins(AckedBelow(i), entries)
           /\ Len(AckedBelow(i)) <= i
           /\ ~Safe => AckedBelow(i) = <<>>
<1> DEFINE k == IF i < Len(acked) THEN i ELSE Len(acked)
<1>1. /\ acked \in Seq(Entry) /\ entries \in Seq(Entry) /\ k \in Nat
      /\ k <= i /\ k <= Len(acked) /\ Len(acked) <= Len(entries)
      /\ \A j \in 1 .. k : acked[j] \in Entry /\ acked[j] = entries[j]
  BY DEF TypeOK, AckedInLog, Begins
<1>2. AckedBelow(i) = SubSeq(acked, 1, k)
  BY DEF AckedBelow
<1> HIDE DEF k
<1>3. /\ SubSeq(acked, 1, k) \in Seq(Entry) /\ Len(SubSeq(acked, 1, k)) = k
      /\ \A j \in 1 .. k : SubSeq(acked, 1, k)[j] = acked[j]
  BY <1>1, SubSeqProperties, Z3
<1>4. acked = <<>> => AckedBelow(i) = <<>>
  BY <1>1, <1>2, <1>3
<1>5. QED  BY <1>1, <1>2, <1>3, <1>4 DEF Begins, AckedInLog

\* With its dummy entry in place, the last index of a log is its length less one.
LEMMA LastInPlace ==
    ASSUME TypeOK, InPlace, pc = "up"
    PROVE  LastIndex = Len(entries) - 1 /\ Len(entries) \in Nat \ {0}
<1>1. entries \in Seq(Entry) /\ entries # <<>> /\ Len(entries) \in DOMAIN entries
  BY DEF TypeOK, InPlace
<1>2. QED  BY <1>1 DEF InPlace, LastIndex, Last

-----------------------------------------------------------------------------
(* The requests *)

LEMMA PlanKeeps ==
    ASSUME EntriesInv, Idle, NEW calls, NEW c, NEW a, Plan(calls, c, a), TypeOK',
           \/ acked' = acked
           \/ \E i \in Nat : acked' = AckedBelow(i),
           Safe => StepsFit'
    PROVE  EntriesInv'
<1>1. UNCHANGED <<entries, file, pc, lost>>
  BY DEF Plan
<1>2. AckedInLog'
  <2>1. CASE acked' = acked
    BY <1>1, <2>1 DEF EntriesInv, AckedInLog, Begins, Safe
  <2>2. ASSUME NEW i \in Nat, acked' = AckedBelow(i) PROVE AckedInLog'
    <3>1. Begins(AckedBelow(i), entries) /\ (~Safe => AckedBelow(i) = <<>>)
      BY AckedBelowBegins DEF EntriesInv
    <3>2. QED  BY <1>1, <2>2, <3>1 DEF AckedInLog, Begins, Safe
  <2>3. QED  BY <2>1, <2>2
<1>3. QED
  BY <1>1, <1>2 DEF Idle, EntriesInv, InPlace, FileHoldsEntries, Safe

\* Plans that leave the entries alone.
LEMMA OtherPlansFit ==
    ASSUME \A i \in DOMAIN todo' : todo'[i].op \notin {"append", "truncate_from"}
    PROVE  StepsFit'
BY DEF StepsFit, OneKind, CutFits, AppendFits

\* A plan to store entries from the index first on, which is not beyond the end.
LEMMA StorePlanFits ==
    ASSUME TypeOK, NEW first \in Nat \ {0}, NEW es \in Seq(Entry),
           \A i \in 1 .. Len(es) : es[i].index = first + i - 1,
           first <= Len(entries), LastIndex = Len(entries) - 1,
           entries' = entries, acked' \in Seq(Entry), Len(acked') <= first,
           todo' = StorePlan(first, es)
    PROVE  StepsFit'
<1> DEFINE
  cut == <<CallOf("truncate_from", first)>>
  appends == [i \in DOMAIN es |-> AppendOf(es[i])]
<1>0. Len(entries) \in Nat /\ Len(es) \in Nat /\ DOMAIN es = 1 .. Len(es)
  BY DEF TypeOK
<1>1. /\ appends \in Seq(Call) /\ Len(appends) = Len(es)
      /\ \A i \in 1 .. Len(es) :
            appends[i].op = "append" /\ appends[i].e.index = first + i - 1
  <2>1. \A i \in 1 .. Len(es) : AppendOf(es[i]) \in Call
    BY CallTypes
  <2>2. appends = [i \in 1 .. Len(es) |-> AppendOf(es[i])]
    BY <1>0
  <2>3. appends \in Seq(Call)
    BY <1>0, <2>1, <2>2
  <2>4. QED  BY <1>0, <2>2, <2>3 DEF AppendOf
<1>2. cut \in Seq(Call) /\ Len(cut) = 1
      /\ cut[1].op = "truncate_from" /\ cut[1].n = first
  BY CallTypes DEF CallOf
<1> HIDE DEF cut, appends
<1>3. CASE es = <<>>
  <2>1. todo' = <<>>
    BY <1>3 DEF StorePlan
  <2>2. QED  BY <2>1, OtherPlansFit
<1>4. CASE es # <<>> /\ first <= LastIndex
  <2>1. todo' = cut \o appends
    BY <1>4 DEF StorePlan, cut, appends
  <2>2. /\ cut \o appends \in Seq(Call) /\ Len(cut \o appends) = Len(cut) + Len(appends)
        /\ \A i \in 1 .. Len(cut) + Len(appends) :
              (cut \o appends)[i] = IF i <= Len(cut) THEN cut[i] ELSE appends[i - Len(cut)]
    <3>1. cut \in Seq(Call) /\ appends \in Seq(Call)
      BY <1>1, <1>2
    <3>2. QED  BY ONLY <3>1, ConcatProperties
  <2>3. DOMAIN todo' = 1 .. Len(es) + 1
    BY <1>0, <1>1, <1>2, <2>1, <2>2
  <2>4. todo'[1] = cut[1] /\ \A i \in 2 .. Len(es) + 1 : todo'[i] = appends[i - 1]
    BY <1>0, <1>1, <1>2, <2>1, <2>2
  <2>5. /\ todo'[1].op = "truncate_from" /\ todo'[1].n = first
        /\ \A i \in 2 .. Len(es) + 1 :
              todo'[i].op = "append" /\ todo'[i].e.index = first + i - 2
    <3>1. todo'[1].op = "truncate_from" /\ todo'[1].n = first
      BY <1>2, <2>4
    <3>2. ASSUME NEW i \in 2 .. Len(es) + 1
          PROVE  todo'[i].op = "append" /\ todo'[i].e.index = first + i - 2
      <4>1. i - 1 \in 1 .. Len(es) /\ first + (i - 1) - 1 = first + i - 2
        BY <1>0
      <4>2. appends[i - 1].op = "append"
            /\ appends[i - 1].e.index = first + (i - 1) - 1
        BY <1>1, <4>1
      <4>3. QED  BY <2>4, <4>1, <4>2
    <3>3. QED  BY <3>1, <3>2
  <2>6. OneKind'
    BY <2>3, <2>5 DEF OneKind
  <2>7. \A i \in DOMAIN todo' : CutFits(i)'
    BY <1>0, <2>3, <2>5 DEF CutFits
  <2>8. \A i \in DOMAIN todo' : AppendFits(i)'
    BY <1>0, <2>3, <2>5 DEF AppendFits
  <2>9. QED  BY <2>6, <2>7, <2>8 DEF StepsFit
<1>5. CASE es # <<>> /\ ~(first <= LastIndex)
  <2>1. first = Len(entries)
    BY <1>0, <1>5
  <2>2. todo' = appends
    BY <1>1, <1>5 DEF StorePlan, cut, appends
  <2>3. DOMAIN todo' = 1 .. Len(es)
    BY <1>1, <2>2
  <2>4. \A i \in DOMAIN todo' :
           todo'[i].op = "append" /\ todo'[i].e.index = first + i - 1
    BY <1>1, <2>2, <2>3
  <2>5. todo'[1].op # "truncate_from"
    BY <1>0, <1>5, <2>3, <2>4
  <2>6. QED
    BY <2>1, <2>4, <2>5 DEF StepsFit, OneKind, CutFits, AppendFits
<1>6. QED  BY <1>3, <1>4, <1>5

LEMMA StoreKeeps ==
    ASSUME EntriesInv, TypeOK',
           NEW prev \in 0 .. MaxEntries, NEW len \in 0 .. MaxEntries - prev,
           NEW es \in [1 .. len -> 1 .. term], Store(prev, es)
    PROVE  EntriesInv'
<1>0. /\ prev \in Nat /\ len \in Nat /\ DOMAIN es = 1 .. len /\ Len(es) = len
      /\ Idle /\ pc = "up" /\ prev <= LastIndex
  BY Constants DEF Store, Idle
<1>1. CASE Plan(<<>>, None, TRUE) /\ acked' = acked
  <2>1. StepsFit'
    BY <1>1, OtherPlansFit DEF Plan
  <2>2. QED  BY <1>0, <1>1, <2>1, PlanKeeps
<1>2. ASSUME NEW f \in DOMAIN es,
             \A j \in 1 .. f - 1 : prev + j <= LastIndex,
             Plan(StorePlan(prev + f, [i \in 1 .. Len(es) - f + 1 |->
                      [term |-> es[f + i - 1], index |-> prev + (f + i - 1)]]),
                  None, TRUE),
             acked' = AckedBelow(prev + f)
      PROVE EntriesInv'
  <2> DEFINE
    rest == [i \in 1 .. Len(es) - f + 1 |->
                [term |-> es[f + i - 1], index |-> prev + (f + i - 1)]]
  <2>1. prev + f \in Nat \ {0} /\ rest \in Seq(Entry)
    <3>1. TypeOK
      BY DEF EntriesInv
    <3>2. rest \in Seq(Entry)
      BY <3>1, StoreRest
    <3>3. prev + f \in Nat \ {0}
      BY <1>0
    <3> HIDE DEF rest
    <3>4. QED  BY <3>2, <3>3
  <2>2. \A i \in 1 .. Len(rest) : rest[i].index = prev + f + i - 1
    <3>1. Len(rest) = Len(es) - f + 1
      BY <1>0, <2>1
    <3>2. QED  BY <1>0, <3>1
  <2>3. Plan(StorePlan(prev + f, rest), None, TRUE)
    BY <1>2
  <2> HIDE DEF rest
  <2>4. Safe => StepsFit'
    <3> SUFFICES ASSUME Safe PROVE StepsFit'
      OBVIOUS
    <3>1. LastIndex = Len(entries) - 1 /\ Len(entries) \in Nat
      BY <1>0, LastInPlace DEF EntriesInv
    <3>2. prev + f <= Len(entries)
      <4>1. CASE f = 1
        BY <1>0, <3>1, <4>1
      <4>2. CASE f # 1
        <5>1. f - 1 \in 1 .. f - 1
          BY <1>0, <4>2
        <5>2. prev + (f - 1) <= LastIndex
          BY <1>2, <5>1
        <5>3. QED  BY <1>0, <3>1, <5>2
      <4>3. QED  BY <4>1, <4>2
    <3>3. acked' \in Seq(Entry) /\ Len(acked') <= prev + f
      BY <1>2, <2>1, AckedBelowBegins, AckedBelowType DEF EntriesInv
    <3>4. todo' = StorePlan(prev + f, rest) /\ entries' = entries
      BY <2>3 DEF Plan
    <3>5. QED  BY <2>1, <2>2, <3>1, <3>2, <3>3, <3>4, StorePlanFits DEF EntriesInv
  <2>5. QED  BY <1>0, <1>2, <2>1, <2>3, <2>4, PlanKeeps
<1>3. QED
  <2> DEFINE new(i) == prev + i > LastIndex \/ entries[prev + i + 1].term # es[i]
  <2>1. CASE ~(Plan(<<>>, None, TRUE) /\ acked' = acked)
    <3>1. PICK f \in {i \in DOMAIN es : new(i) /\ \A j \in 1 .. i - 1 : ~new(j)} :
             /\ Plan(StorePlan(prev + f, [i \in 1 .. Len(es) - f + 1 |->
                         [term |-> es[f + i - 1], index |-> prev + (f + i - 1)]]),
                     None, TRUE)
             /\ acked' = AckedBelow(prev + f)
      BY <2>1 DEF Store
    <3>2. \A j \in 1 .. f - 1 : prev + j <= LastIndex
      <4>1. \A j \in 1 .. f - 1 : ~new(j)
        BY <3>1
      <4>2. \A j \in 1 .. f - 1 : ~(prev + j > LastIndex)
        BY <4>1
      <4>3. LastIndex \in Nat /\ f \in Nat
        BY <1>0, <3>1, LastIndexType DEF EntriesInv
      <4>4. QED  BY <1>0, <4>2, <4>3
    <3>3. QED  BY <1>2, <3>1, <3>2
  <2>2. QED  BY <1>1, <2>1

LEMMA RequestKeeps ==
    ASSUME EntriesInv, TypeOK', Request
    PROVE  EntriesInv'
<1>1. ASSUME NEW t \in 1 .. MaxTerm, Follow(t) PROVE EntriesInv'
  <2>1. StepsFit'
    BY <1>1, OtherPlansFit DEF Follow, BecomeFollower, Plan, CallOf
  <2>2. QED  BY <1>1, <2>1, PlanKeeps DEF Follow, BecomeFollower
<1>7. CASE Concede
  <2>1. StepsFit'
    BY <1>7, OtherPlansFit DEF Concede, BecomeFollower, Plan, CallOf
  <2>2. QED  BY <1>7, <2>1, PlanKeeps DEF Concede, BecomeFollower
<1>2. CASE Stand
  <2>1. StepsFit'
    BY <1>2, OtherPlansFit DEF Stand, Plan, CallOf
  <2>2. QED  BY <1>2, <2>1, PlanKeeps DEF Stand
<1>3. ASSUME NEW c \in Peers, Vote(c) PROVE EntriesInv'
  <2>1. StepsFit'
    BY <1>3, OtherPlansFit DEF Vote, Plan, CallOf
  <2>2. QED  BY <1>3, <2>1, PlanKeeps DEF Vote
<1>4. CASE Lead
  <2>1. Safe => StepsFit'
    <3> SUFFICES ASSUME Safe PROVE StepsFit'
      OBVIOUS
    <3>1. LastIndex = Len(entries) - 1 /\ Len(entries) \in Nat \ {0}
      BY <1>4, LastInPlace DEF EntriesInv, Lead, Idle
    <3>2. /\ todo' = <<AppendOf([term |-> term, index |-> LastIndex + 1])>>
          /\ entries' = entries
      BY <1>4 DEF Lead, Plan
    <3>3. DOMAIN todo' = {1} /\ todo'[1].op = "append" /\ todo'[1].e.index = Len(entries)
      BY <3>1, <3>2 DEF AppendOf
    <3>4. QED  BY <3>1, <3>2, <3>3 DEF StepsFit, OneKind, CutFits, AppendFits
  <2>2. QED  BY <1>4, <2>1, PlanKeeps DEF Lead
<1>5. ASSUME NEW prev \in 1 .. MaxEntries, NEW t \in 1 .. MaxTerm, Refuse(prev, t)
      PROVE EntriesInv'
  <2>1. prev \in Nat \ {0} /\ acked' = AckedBelow(prev)
    BY <1>5, Constants DEF Refuse
  <2>2. prev < Len(entries) /\ Len(entries) \in Nat
    BY <1>5 DEF Refuse, InVector, EntriesInv, TypeOK
  <2>3. todo' = <<CallOf("truncate_from", prev)>> /\ entries' = entries
    BY <1>5 DEF Refuse, Plan
  <2>4. DOMAIN todo' = {1} /\ todo'[1].op = "truncate_from" /\ todo'[1].n = prev
    BY <2>3 DEF CallOf
  <2>5. Len(acked') <= prev
    BY <2>1, AckedBelowBegins DEF EntriesInv
  <2>6. StepsFit'
    BY <2>1, <2>2, <2>3, <2>4, <2>5 DEF StepsFit, OneKind, CutFits, AppendFits
  <2>7. QED  BY <1>5, <2>1, <2>6, PlanKeeps DEF Refuse
<1>6. QED
  BY <1>1, <1>2, <1>3, <1>4, <1>5, <1>7, StoreKeeps DEF Request

-----------------------------------------------------------------------------
(* The calls *)

\* A call takes the entries where its plan says.
LEMMA OpenKeeps ==
    ASSUME EntriesInv, TypeOK', Open
    PROVE  EntriesInv'
<1>0. /\ todo # <<>> /\ Changed(Head(todo)) /\ todo' = Tail(todo) /\ pc = "up"
      /\ pc' = "writing" /\ file'.exists /\ acked' = acked /\ lost' = lost
  BY DEF Open, EmptyFile, answers, standing
<1>1. /\ entries \in Seq(Entry) /\ entries' \in Seq(Entry) /\ acked \in Seq(Entry)
      /\ todo \in Seq(Call) /\ Len(todo) \in Nat \ {0} /\ Len(entries) \in Nat
  BY <1>0 DEF EntriesInv, TypeOK
<1>2. CASE ~Safe
  BY <1>0, <1>1, <1>2 DEF EntriesInv, AckedInLog, Begins, Safe
<1>3. CASE Safe
  <2> DEFINE c == todo[1]
  <2>1. /\ Head(todo) = c /\ c \in Call
        /\ DOMAIN todo = 1 .. Len(todo) /\ DOMAIN todo' = 1 .. Len(todo) - 1
        /\ \A i \in DOMAIN todo' : i + 1 \in DOMAIN todo /\ todo'[i] = todo[i + 1]
    BY <1>0, <1>1
  <2>2. /\ InPlace /\ FileHoldsEntries /\ OneKind /\ Begins(acked, entries)
        /\ \A i \in DOMAIN todo : CutFits(i) /\ AppendFits(i)
    BY <1>3 DEF EntriesInv, StepsFit, AckedInLog
  <2>3. 1 \in DOMAIN todo /\ CutFits(1) /\ AppendFits(1)
    <3>1. 1 \in DOMAIN todo
      BY <1>1, <2>1
    <3>2. QED  BY <2>2, <3>1
  <2>4. OneKind'
    BY <2>1, <2>2 DEF OneKind
  <2>5. \A i \in DOMAIN todo' : todo'[i].op # "truncate_from"
    <3> SUFFICES ASSUME NEW i \in DOMAIN todo', todo[i + 1].op = "truncate_from"
                 PROVE  FALSE
      BY <2>1
    <3>1. i + 1 = 1
      BY <2>1, <2>2 DEF CutFits
    <3>2. QED  BY <2>1, <3>1
  <2>6. /\ Begins(acked, entries') /\ entries' # <<>>
        /\ \A i \in DOMAIN entries' : entries'[i].index = i - 1
        /\ \A i \in DOMAIN todo' :
              todo'[i].op = "append" => todo'[i].e.index = Len(entries') + i - 1
    <3>1. CASE c.op = "append"
      <4>1. entries' = Append(entries, c.e) /\ c.e \in Entry
        BY <1>0, <2>1, <3>1 DEF Changed, Call
      <4>2. /\ Len(entries') = Len(entries) + 1 /\ DOMAIN entries' = 1 .. Len(entries) + 1
            /\ \A i \in 1 .. Len(entries) : entries'[i] = entries[i]
            /\ entries'[Len(entries) + 1] = c.e
        BY <1>1, <4>1
      <4>3. c.e.index = Len(entries)
        BY <1>1, <2>3, <3>1 DEF AppendFits
      <4>4. Begins(acked, entries')
        BY <1>1, <2>2, <4>2 DEF Begins
      <4>5. \A i \in DOMAIN entries' : entries'[i].index = i - 1
        <5>1. \A i \in 1 .. Len(entries) : entries[i].index = i - 1
          BY <1>1, <2>2 DEF InPlace
        <5>2. ASSUME NEW i \in 1 .. Len(entries) + 1 PROVE entries'[i].index = i - 1
          <6>1. CASE i \in 1 .. Len(entries)
            BY <4>2, <5>1, <6>1
          <6>2. CASE i = Len(entries) + 1
            BY <1>1, <4>2, <4>3, <6>2
          <6>3. QED  BY <1>1, <6>1, <6>2
        <5>3. QED  BY <4>2, <5>2
      <4>6. ASSUME NEW i \in DOMAIN todo', todo'[i].op = "append"
            PROVE  todo'[i].e.index = Len(entries') + i - 1
        <5>1. AppendFits(i + 1) /\ i \in Nat /\ todo'[i] = todo[i + 1]
          BY <2>1, <2>2
        <5>2. QED  BY <1>1, <3>1, <4>2, <4>6, <5>1 DEF AppendFits
      <4>7. QED  BY <1>1, <4>2, <4>4, <4>5, <4>6
    <3>2. CASE c.op = "truncate_from"
      <4>1. c.n \in 1 .. Len(entries) /\ Len(acked) <= c.n
        BY <2>3, <3>2 DEF CutFits
      <4>2. /\ Len(entries') = c.n
            /\ \A i \in 1 .. c.n : entries'[i] = entries[i]
        <5>1. CASE c.n < Len(entries)
          <6>1. entries' = SubSeq(entries, 1, c.n)
            BY <1>0, <2>1, <3>2, <5>1 DEF Changed
          <6>2. \A i \in 1 .. c.n : entries[i] \in Entry
            BY <1>1, <4>1
          <6>3. c.n \in Int
            BY <4>1
          <6> HIDE DEF c
          <6>4. QED  BY <4>1, <6>1, <6>2, <6>3, SubSeqProperties, Z3
        <5>2. CASE ~(c.n < Len(entries))
          <6>1. c.n = Len(entries)
            BY <1>1, <4>1, <5>2
          <6>2. entries' = entries
            BY <1>0, <2>1, <3>2, <5>2 DEF Changed
          <6>3. QED  BY <6>1, <6>2
        <5>3. QED  BY <5>1, <5>2
      <4>3. Begins(acked, entries')
        BY <1>1, <2>2, <4>1, <4>2 DEF Begins
      <4>4. \A i \in DOMAIN entries' : entries'[i].index = i - 1
        <5>1. \A i \in 1 .. Len(entries) : entries[i].index = i - 1
          BY <1>1, <2>2 DEF InPlace
        <5>2. DOMAIN entries' = 1 .. c.n /\ \A i \in 1 .. c.n : i \in 1 .. Len(entries)
          BY <1>1, <4>1, <4>2
        <5>3. QED  BY <4>2, <5>1, <5>2
      <4>5. ASSUME NEW i \in DOMAIN todo', todo'[i].op = "append"
            PROVE  todo'[i].e.index = Len(entries') + i - 1
        <5>1. AppendFits(i + 1) /\ i \in Nat /\ todo'[i] = todo[i + 1]
          BY <2>1, <2>2
        <5>2. QED  BY <1>1, <3>2, <4>1, <4>2, <4>5, <5>1 DEF AppendFits
      <4>6. QED  BY <1>1, <4>1, <4>2, <4>3, <4>4, <4>5
    <3>3. CASE c.op \notin {"append", "truncate_from"}
      <4>1. entries' = entries
        BY <1>0, <2>1, <3>3 DEF Changed
      <4>2. \A i \in DOMAIN todo' : todo'[i].op # "append"
        BY <2>1, <2>2, <2>3, <3>3 DEF OneKind
      <4>3. QED  BY <1>0, <2>2, <4>1, <4>2 DEF InPlace
    <3>4. QED  BY <3>1, <3>2, <3>3
  <2>7. StepsFit'
    <3>1. \A i \in DOMAIN todo' : CutFits(i)'
      BY <2>5 DEF CutFits
    <3>2. ASSUME NEW i \in DOMAIN todo' PROVE AppendFits(i)'
      <4>1. 1 \in DOMAIN todo'
        BY <2>1
      <4>2. todo'[1].op # "truncate_from"
        BY <2>5, <4>1
      <4>3. QED  BY <2>6, <4>2 DEF AppendFits
    <3>3. QED  BY <2>4, <3>1, <3>2 DEF StepsFit
  <2>8. AckedInLog'
    BY <1>0, <1>3, <2>6 DEF AckedInLog, Begins, Safe
  <2>9. InPlace' /\ FileHoldsEntries'
    BY <1>0, <2>6 DEF InPlace, FileHoldsEntries
  <2>10. QED  BY <2>7, <2>8, <2>9 DEF EntriesInv
<1>4. QED  BY <1>2, <1>3

LEMMA AnswerKeeps ==
    ASSUME EntriesInv, TypeOK', Answer
    PROVE  EntriesInv'
<1>1. UNCHANGED <<entries, file, pc, todo, lost>> /\ todo = <<>>
  BY DEF Answer
<1>2. StepsFit'
  BY <1>1, OtherPlansFit
<1>3. AckedInLog'
  <2>1. acked' = acked \/ (acked' = entries /\ Safe)
    BY DEF Answer, Safe
  <2>2. QED  BY <1>1, <2>1 DEF EntriesInv, TypeOK, AckedInLog, Begins, Safe
<1>4. QED
  BY <1>1, <1>2, <1>3 DEF EntriesInv, InPlace, FileHoldsEntries, Safe

LEMMA CrashKeeps ==
    ASSUME EntriesInv, TypeOK', Crash
    PROVE  EntriesInv'
<1>1. UNCHANGED <<entries, file>> /\ todo' = <<>> /\ pc' = "down"
  BY DEF Crash
<1>2. StepsFit'
  BY <1>1, OtherPlansFit
<1>3. CASE pc = "up"
  <2>1. lost' = lost /\ acked' = acked
    BY <1>3 DEF Crash
  <2>2. QED
    BY <1>1, <1>2, <1>3, <2>1 DEF EntriesInv, AckedInLog, Begins, InPlace,
                                  FileHoldsEntries, Safe
<1>4. CASE pc # "up"
  <2>1. "entries" \in lost' /\ acked' = <<>>
    BY <1>4 DEF Crash
  <2>2. QED
    BY <2>1, <1>1 DEF EntriesInv, TypeOK, AckedInLog, Begins, Safe
<1>5. QED  BY <1>3, <1>4

\* A file that was written whole is read as it is; before the first one there
\* is nothing but the dummy entry.
LEMMA RestartKeeps ==
    ASSUME EntriesInv, TypeOK', Restart
    PROVE  EntriesInv'
<1>1. /\ UNCHANGED <<file, todo, acked, lost>> /\ pc = "down" /\ pc' = "up"
      /\ entries \in Seq(Entry) /\ entries' \in Seq(Entry)
  BY DEF Restart, answers, standing, EntriesInv, TypeOK
<1>2. CASE ~Safe
  BY <1>1, <1>2 DEF EntriesInv, AckedInLog, Begins, Safe
<1>3. ASSUME Safe PROVE StepsFit'
  BY <1>1, <1>3, OtherPlansFit DEF EntriesInv, InPlace
<1>4. CASE Safe /\ file.exists
  <2>1. file.header /\ file.entries = entries /\ file.count = Len(entries)
    BY <1>1, <1>4 DEF EntriesInv, FileHoldsEntries
  <2>2. PICK blanks \in 0 .. file.count - Len(file.entries) :
           entries' = file.entries \o [i \in 1 .. blanks |-> Blank]
    BY <1>4, <2>1 DEF Restart
  <2>3. Len(entries) \in Nat
    BY <1>1
  <2>4. blanks = 0
    BY <2>1, <2>2, <2>3
  <2>5. [i \in 1 .. blanks |-> Blank] = <<>>
    BY <2>4
  <2>6. entries' = entries
    BY <1>1, <2>1, <2>2, <2>5
  <2>7. entries # <<>>
    BY <1>4 DEF EntriesInv, FileHoldsEntries
  <2>8. QED
    BY <1>1, <1>3, <1>4, <2>6, <2>7 DEF EntriesInv, AckedInLog, Begins, InPlace,
                                        FileHoldsEntries, Safe
<1>5. CASE Safe /\ ~file.exists
  <2>1. entries' = <<Blank>> /\ Len(<<Blank>>) = 1 /\ Blank.index = 0
    BY <1>5 DEF Restart, Blank
  <2>2. entries \in {<<>>, <<Blank>>}
    BY <1>5 DEF EntriesInv, FileHoldsEntries
  <2>3. Begins(acked, entries)'
    <3>1. Begins(acked, entries) /\ acked \in Seq(Entry)
      BY DEF EntriesInv, TypeOK, AckedInLog
    <3>2. QED  BY <1>1, <2>1, <2>2, <3>1 DEF Begins
  <2>4. InPlace' /\ FileHoldsEntries'
    BY <1>1, <1>5, <2>1 DEF InPlace, FileHoldsEntries
  <2>5. QED  BY <1>1, <1>3, <1>5, <2>3, <2>4 DEF EntriesInv, AckedInLog, Safe
<1>6. QED  BY <1>2, <1>4, <1>5

-----------------------------------------------------------------------------
(* The theorems *)

LEMMA InitEntries == Init => EntriesInv
<1> SUFFICES ASSUME Init PROVE EntriesInv
  OBVIOUS
<1>1. acked = <<>> /\ entries = <<>> /\ todo = <<>> /\ pc = "down" /\ ~file.exists
  BY DEF Init, EmptyFile
<1>2. AckedInLog /\ InPlace /\ FileHoldsEntries
  BY <1>1 DEF AckedInLog, Begins, InPlace, FileHoldsEntries
<1>3. StepsFit
  BY <1>1 DEF StepsFit, OneKind
<1>4. QED  BY <1>2, <1>3, InitType DEF EntriesInv

LEMMA NextEntries == EntriesInv /\ [Next]_vars => EntriesInv'
<1> SUFFICES ASSUME EntriesInv, [Next]_vars
             PROVE  EntriesInv'
  OBVIOUS
<1>0. TypeOK'
  BY NextType DEF EntriesInv
<1>1. CASE Request
  BY <1>0, <1>1, RequestKeeps
<1>2. CASE Answer
  BY <1>0, <1>2, AnswerKeeps
<1>3. CASE Open
  BY <1>0, <1>3, OpenKeeps
<1>4. CASE OpenFails
  <2>1. "entries" \in lost' /\ acked' = <<>>
    BY <1>4 DEF OpenFails
  <2>2. QED  BY <1>0, <2>1 DEF EntriesInv, TypeOK, AckedInLog, Begins, Safe
<1>5. CASE Flush \/ Close
  <2>1. /\ UNCHANGED <<entries, todo, acked, lost>> /\ pc = "writing" /\ file'.exists
        /\ \/ pc' = "writing"
           \/ pc' = "up" /\ file' = FileOf(term, vote, entries, entries)
    <3>1. CASE Flush
      <4>1. file'.exists
        BY <3>1 DEF Flush, FileOf
      <4>2. QED  BY <3>1, <4>1 DEF Flush, answers, standing
    <3>2. CASE Close
      BY <3>2 DEF Close, FileOf, answers, standing
    <3>3. QED  BY <1>5, <3>1, <3>2
  <2>2. InPlace => FileHoldsEntries'
    BY <2>1 DEF InPlace, FileHoldsEntries, FileOf
  <2>3. InPlace => InPlace'
    BY <2>1 DEF InPlace
  <2>4. StepsFit => StepsFit'
    BY <2>1 DEF StepsFit, OneKind, CutFits, AppendFits
  <2>5. AckedInLog'
    BY <2>1 DEF EntriesInv, AckedInLog, Begins, Safe
  <2>6. QED  BY <1>0, <2>1, <2>2, <2>3, <2>4, <2>5 DEF EntriesInv, Safe
<1>6. CASE Crash
  BY <1>0, <1>6, CrashKeeps
<1>7. CASE Restart
  BY <1>0, <1>7, RestartKeeps
<1>8. CASE UNCHANGED vars
  BY <1>0, <1>8 DEF vars, answers, standing, EntriesInv, AckedInLog, Begins, InPlace, FileHoldsEntries,
                    StepsFit, OneKind, CutFits, AppendFits, Safe
<1>9. QED  BY <1>1, <1>2, <1>3, <1>4, <1>5, <1>6, <1>7, <1>8 DEF Next

LEMMA EntriesHold == Spec => []EntriesInv
BY InitEntries, NextEntries, PTL DEF Spec

\* What a node has acknowledged is in its log until a leader replaces it, through
\* any number of crashes, unless one came while a file was written.
THEOREM AcknowledgedKept == Spec => []AckedIsKept
<1>1. EntriesInv => AckedIsKept
  BY BeginsIsPrefix DEF EntriesInv, TypeOK, AckedInLog, AckedIsKept
<1>2. QED  BY <1>1, EntriesHold, PTL

\* Every entry is at the position of its index, where the code looks for it,
\* unless a file was cut short.
THEOREM EntriesStayInPlace == Spec => []EntriesInPlace
<1>1. EntriesInv => EntriesInPlace
  BY DEF EntriesInv, InPlace, EntriesInPlace, Safe
<1>2. QED  BY <1>1, EntriesHold, PTL

-----------------------------------------------------------------------------
(* What a restart reads, wherever the crash was *)

\* The file holds the term and the vote that are in memory or neither, and a
\* beginning of the entries, the last of them perhaps in part: as long as every
\* file was opened.
FileInMemory ==
    AllWritten =>
        /\ <<file.term, file.vote>> = IF file.header THEN <<term, vote>> ELSE <<0, None>>
        /\ Len(file.entries) <= Len(entries)
        /\ \A i \in DOMAIN file.entries : file.entries[i] \in Pieces(entries[i])
        /\ ~file.exists => file.entries = <<>>

LEMMA EmptyFileInMemory ==
    ASSUME entries' \in Seq(Entry), file' = EmptyFile
    PROVE  FileInMemory'
BY DEF EmptyFile, FileInMemory, AllWritten

\* A file that was written up to an entry or a part of one.
LEMMA FileOfInMemory ==
    ASSUME TypeOK, NEW k \in 0 .. Len(entries), NEW cut \in Seq(Entry),
           cut = <<>> \/ (k < Len(entries) /\ \E e \in Pieces(entries[k + 1]) : cut = <<e>>),
           UNCHANGED <<term, vote, entries>>,
           file' = FileOf(term, vote, entries, SubSeq(entries, 1, k) \o cut)
    PROVE  FileInMemory'
<1> DEFINE written == SubSeq(entries, 1, k) \o cut
<1>0. entries \in Seq(Entry)
  BY DEF TypeOK
<1>1. file'.header /\ file'.exists /\ file'.term = term /\ file'.vote = vote
      /\ file'.entries = written
  BY DEF FileOf
<1>2. /\ SubSeq(entries, 1, k) \in Seq(Entry) /\ Len(SubSeq(entries, 1, k)) = k
      /\ \A i \in 1 .. k : SubSeq(entries, 1, k)[i] = entries[i]
  BY <1>0
<1>3. /\ written \in Seq(Entry) /\ Len(written) = k + Len(cut)
      /\ \A i \in 1 .. k : written[i] = entries[i]
      /\ \A i \in 1 .. Len(cut) : written[k + i] = cut[i]
  BY <1>2
<1>4. ASSUME NEW i \in DOMAIN written
      PROVE  i <= Len(entries) /\ written[i] \in Pieces(entries[i])
  <2>1. CASE i <= k
    BY <1>3, <2>1 DEF Pieces
  <2>2. CASE i > k
    <3>1. cut # <<>>
      BY <1>3, <2>2
    <3>2. PICK e \in Pieces(entries[k + 1]) : cut = <<e>>
      BY <3>1
    <3>3. Len(cut) = 1 /\ cut[1] = e /\ i = k + 1
      BY <1>3, <2>2, <3>2
    <3>4. k < Len(entries)
      BY <3>1
    <3>5. written[i] = e
      BY <1>3, <3>3
    <3>6. QED  BY <3>2, <3>3, <3>4, <3>5, <1>0
  <2>3. QED  BY <1>3, <2>1, <2>2
<1>5. Len(written) <= Len(entries)
  <2>1. CASE cut = <<>>
    BY <1>0, <1>3, <2>1
  <2>2. CASE cut # <<>>
    <3>1. k + 1 <= Len(entries) /\ Len(cut) = 1
      BY <1>0, <2>2
    <3>2. QED  BY <1>3, <3>1
  <2>3. QED  BY <2>1, <2>2
<1>6. QED  BY <1>1, <1>4, <1>5 DEF FileInMemory, AllWritten

LEMMA FlushInMemory ==
    ASSUME TypeOK, Flush
    PROVE  FileInMemory'
<1>1. PICK k \in Block .. Len(entries) - 1 :
         \E cut \in {<<>>} \cup {<<e>> : e \in Pieces(entries[k + 1])} :
            file' = FileOf(term, vote, entries, SubSeq(entries, 1, k) \o cut)
  BY DEF Flush
<1>2. PICK cut \in {<<>>} \cup {<<e>> : e \in Pieces(entries[k + 1])} :
         file' = FileOf(term, vote, entries, SubSeq(entries, 1, k) \o cut)
  BY <1>1
<1>3. entries \in Seq(Entry) /\ k \in 0 .. Len(entries) /\ k < Len(entries)
      /\ k + 1 \in DOMAIN entries
  BY Constants DEF TypeOK
<1>4. Pieces(entries[k + 1]) \subseteq Entry
  <2>1. entries[k + 1] \in Entry
    BY <1>3
  <2>2. QED  BY <2>1 DEF Pieces, Entry
<1>5. cut \in Seq(Entry)
  <2>1. CASE cut = <<>>
    BY <2>1
  <2>2. ASSUME NEW e \in Pieces(entries[k + 1]), cut = <<e>>
        PROVE  cut \in Seq(Entry)
    BY <1>4, <2>2
  <2>3. QED  BY <2>1, <2>2
<1>6. UNCHANGED <<term, vote, entries>>
  BY DEF Flush
<1>7. QED  BY <1>2, <1>3, <1>5, <1>6, FileOfInMemory

LEMMA CloseInMemory ==
    ASSUME TypeOK, Close
    PROVE  FileInMemory'
<1>1. entries \in Seq(Entry) /\ Len(entries) \in 0 .. Len(entries)
  BY DEF TypeOK
<1>2. entries = SubSeq(entries, 1, Len(entries)) \o <<>>
  <2>1. SubSeq(entries, 1, Len(entries)) = entries
    BY <1>1
  <2>2. QED  BY <1>1, <2>1
<1>3. /\ UNCHANGED <<term, vote, entries>>
      /\ file' = FileOf(term, vote, entries, SubSeq(entries, 1, Len(entries)) \o <<>>)
  BY <1>2 DEF Close
<1>4. <<>> \in Seq(Entry) /\ <<>> = <<>>
  OBVIOUS
<1>5. QED  BY <1>1, <1>3, <1>4, FileOfInMemory

\* What Restart takes from the file.
LEMMA RestartEntries ==
    ASSUME TypeOK, Restart
    PROVE  \/ ~file.exists /\ entries' = <<Blank>>
           \/ /\ Len(file.entries) <= Len(entries')
              /\ \A i \in DOMAIN file.entries : entries'[i] = file.entries[i]
              /\ \A i \in DOMAIN entries' :
                    i \in DOMAIN file.entries \/ entries'[i] = Blank
<1>1. CASE ~file.exists
  BY <1>1 DEF Restart
<1>2. CASE file.exists
  <2> DEFINE most == IF file.header THEN file.count - Len(file.entries) ELSE MaxGarbage
             blank(n) == [i \in 1 .. n |-> Blank]
  <2>1. PICK n \in 0 .. most : entries' = file.entries \o blank(n)
    BY <1>2 DEF Restart
  <2>2. file.entries \in Seq(Entry) /\ file.count \in Nat
    BY DEF TypeOK, File
  <2>3. n \in Nat
    BY <2>2, Constants
  <2>4. blank(n) \in Seq(Entry) /\ Len(blank(n)) = n /\ \A i \in 1 .. n : blank(n)[i] = Blank
    BY <2>3, EntryTypes
  <2>5. QED  BY <2>1, <2>2, <2>4
<1>3. QED  BY <1>1, <1>2

LEMMA RestartInMemory ==
    ASSUME TypeOK, FileInMemory, Restart
    PROVE  FileInMemory'
<1> SUFFICES ASSUME AllWritten'
             PROVE  FileInMemory'
  BY DEF FileInMemory, AllWritten
<1>1. UNCHANGED <<file, bounds>> /\ term' = file.term /\ vote' = file.vote
  BY DEF Restart
<1>2. /\ <<file.term, file.vote>> = IF file.header THEN <<term', vote'>> ELSE <<0, None>>
      /\ ~file.exists => file.entries = <<>>
  BY <1>1 DEF FileInMemory, AllWritten
<1>3. file.entries \in Seq(Entry) /\ entries' \in Seq(Entry)
  BY RestartType DEF TypeOK, File
<1>4. /\ Len(file.entries) <= Len(entries')
      /\ \A i \in DOMAIN file.entries : file.entries[i] \in Pieces(entries'[i])
  <2>1. CASE ~file.exists
    BY <1>2, <1>3, <2>1
  <2>2. CASE file.exists
    BY <2>2, RestartEntries DEF Pieces
  <2>3. QED  BY <2>1, <2>2
<1>5. QED  BY <1>1, <1>2, <1>4 DEF FileInMemory, AllWritten

LEMMA InitInMemory == Init => FileInMemory
BY DEF Init, FileInMemory, AllWritten, EmptyFile

LEMMA NextInMemory == TypeOK /\ FileInMemory /\ [Next]_vars => FileInMemory'
<1> SUFFICES ASSUME TypeOK, FileInMemory, [Next]_vars
             PROVE  FileInMemory'
  OBVIOUS
<1>1. CASE Request
  <2>1. UNCHANGED <<term, vote, entries, file, bounds>>
    BY <1>1, RequestPlans
  <2>2. QED  BY <2>1 DEF FileInMemory, AllWritten
<1>2. CASE Answer
  BY <1>2 DEF Answer, FileInMemory, AllWritten
<1>3. CASE Open
  <2>1. entries' \in Seq(Entry)
    BY <1>3, OpenType DEF TypeOK
  <2>2. QED  BY <1>3, <2>1, EmptyFileInMemory DEF Open
<1>4. CASE OpenFails
  <2>1. bounds'.faults = bounds.faults + 1 /\ bounds.faults \in Nat
    BY <1>4 DEF OpenFails, Spend, TypeOK
  <2>2. QED  BY <2>1 DEF FileInMemory, AllWritten
<1>5. CASE Flush
  BY <1>5, FlushInMemory
<1>6. CASE Close
  BY <1>6, CloseInMemory
<1>7. CASE Crash
  <2>1. bounds'.faults = bounds.faults
    BY <1>7 DEF Crash, Spend, TypeOK
  <2>2. QED  BY <1>7, <2>1 DEF Crash, FileInMemory, AllWritten
<1>8. CASE Restart
  BY <1>8, RestartInMemory
<1>9. CASE UNCHANGED vars
  BY <1>9 DEF vars, FileInMemory, AllWritten
<1>10. QED  BY <1>1, <1>2, <1>3, <1>4, <1>5, <1>6, <1>7, <1>8, <1>9 DEF Next

\* A restart takes the term, the vote and the entries from the file alone.
LEMMA RestartLoses ==
    ASSUME TypeOK, FileInMemory, Restart, AllWritten
    PROVE  /\ <<term', vote'>> \in {<<term, vote>>, <<0, None>>}
           /\ \A i \in DOMAIN entries' :
                 \/ entries'[i] = Blank
                 \/ i \in DOMAIN entries /\ entries'[i] \in Pieces(entries[i])
<1>1. <<term', vote'>> \in {<<term, vote>>, <<0, None>>}
  BY DEF Restart, FileInMemory, AllWritten
<1>2. ASSUME NEW i \in DOMAIN entries', entries'[i] # Blank
      PROVE  i \in DOMAIN entries /\ entries'[i] \in Pieces(entries[i])
  <2>1. /\ i \in DOMAIN file.entries /\ entries'[i] = file.entries[i]
    <3>1. CASE entries' = <<Blank>>
      BY <3>1, <1>2
    <3>2. CASE entries' # <<Blank>>
      BY <3>2, <1>2, RestartEntries
    <3>3. QED  BY <3>1, <3>2
  <2>2. file.entries \in Seq(Entry) /\ entries \in Seq(Entry)
    BY DEF TypeOK, File
  <2>3. QED  BY <2>1, <2>2 DEF FileInMemory, AllWritten
<1>3. QED  BY <1>1, <1>2

\* Whatever a crash leaves, a restart makes up no term, no vote and no entry,
\* for every size of the buffer and any number of crashes.
THEOREM RestartMakesNothingUp == Spec => DamageIsLoss
<1> DEFINE Loss ==
      pc = "down" /\ pc' # "down" /\ AllWritten =>
          /\ <<term', vote'>> \in {<<term, vote>>, <<0, None>>}
          /\ \A i \in DOMAIN entries' :
                \/ entries'[i] = Blank
                \/ i \in DOMAIN entries /\ entries'[i] \in Pieces(entries[i])
<1>1. TypeOK /\ FileInMemory /\ [Next]_vars => [Loss]_vars
  <2> SUFFICES ASSUME TypeOK, FileInMemory, Next, pc = "down", pc' # "down",
                      AllWritten
               PROVE  Loss
    OBVIOUS
  <2>1. Restart
    BY DEF Next, Request, BecomeFollower, Follow, Concede, Stand, Vote, Lead, Refuse, Store, Idle, Answer, Open,
           OpenFails, Flush, Close, Crash
  <2>2. QED  BY <2>1, RestartLoses
<1>2. QED  BY <1>1, InitType, NextType, InitInMemory, NextInMemory, PTL
           DEF Spec, DamageIsLoss
=============================================================================
