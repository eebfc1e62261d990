------------------------------- MODULE RaftLog -------------------------------
(***************************************************************************)
(* The persistent part of one Raft controller: the term, the vote and the   *)
(* entries of RaftLog (raft/raft_log.cpp), the file every change of them is *)
(* rewritten to, and the crashes and restarts of the controller.            *)
(*                                                                         *)
(* The file is truncated when it is opened. What is written stays in the    *)
(* buffer of the ofstream, which goes out when it is full and on close().   *)
(*                                                                         *)
(* The callers in RaftNode make several calls for one request and answer    *)
(* afterwards: todo are the calls left, promise and ack the answer to come. *)
(* Requests come one at a time here and never lower the term (RaftNode has  *)
(* their interleavings); those that change and promise nothing are left out. *)
(* The code that follows a higher term or gives way in its own goes on with  *)
(* the request it got: here that is a request of its own.                    *)
(***************************************************************************)
EXTENDS Naturals, Sequences, SequencesExt

CONSTANTS
    Self,           \* id of this node
    Peers,          \* ids of the others
    MaxTerm,        \* bound: terms seen
    MaxEntries,     \* bound: entries kept, the dummy entry not counted
    MaxGarbage,     \* bound: entries an uninitialised count makes
    Block,          \* entries that fit in the buffer of the stream
    MaxCrashes,     \* bound
    MaxFaults       \* bound: files that could not be opened for writing

None == 0
Candidates == Peers \cup {Self}

ASSUME LogAssumption ==
    /\ Candidates \subseteq Nat \ {None}
    /\ {MaxTerm, MaxEntries, MaxGarbage, Block, MaxCrashes, MaxFaults} \subseteq Nat

VARIABLES
    term, vote,     \* current_term_, voted_for_
    entries,        \* entries_; entries[i + 1] is at position i of the vector
    file,           \* the log file
    pc,             \* "up", "writing" with the file open, or "down"
    todo,           \* log calls left of the request in hand
    promise, ack,   \* whom a vote is given to after them, whether to answer yes
    role,           \* state_
    granted,        \* history: the votes given, as pairs of a term and a candidate,
    conceded,       \* and the terms whose election it gave up; none are counted
                    \* once a file was not written
    acked,          \* history: the entries last acknowledged, less those that
                    \* a leader has replaced since; none after a loss
    lost,           \* history: what was not safe in the file at a crash
    bounds          \* crashes and faults so far

answers == <<granted, acked>>
standing == <<role, conceded>>
vars == <<term, vote, entries, file, pc, todo, promise, ack, standing, answers,
          lost, bounds>>

Entry == [term : Nat, index : Nat]

\* What the constructor of LogEntry makes; also the entry at position 0.
Blank == [term |-> 0, index |-> 0]

\* header: the term, the vote and the number of entries are in the file.
File == [exists : BOOLEAN, header : BOOLEAN, term : Nat,
         vote : Candidates \cup {None}, count : Nat, entries : Seq(Entry)]

EmptyFile == [exists |-> TRUE, header |-> FALSE, term |-> 0, vote |-> None,
              count |-> 0, entries |-> <<>>]

\* The file with all of t, v and es, of which written went out.
FileOf(t, v, es, written) ==
    [exists |-> TRUE, header |-> TRUE, term |-> t, vote |-> v, count |-> Len(es),
     entries |-> written]

Ops == {"set_current_term", "increment_term", "set_voted_for", "clear_vote",
        "append", "truncate_from"}

Call == {c \in [op : Ops, n : Nat, e : Entry] :
            c.op = "set_voted_for" => c.n \in Candidates}
CallOf(op, n) == [op |-> op, n |-> n, e |-> Blank]
AppendOf(e) == [op |-> "append", n |-> 0, e |-> e]

LastIndex == IF entries = <<>> THEN 0 ELSE Last(entries).index

TypeOK ==
    /\ term \in Nat
    /\ vote \in Candidates \cup {None}
    /\ entries \in Seq(Entry)
    /\ file \in File
    /\ pc \in {"up", "writing", "down"}
    /\ todo \in Seq(Call)
    /\ promise \in Candidates \cup {None}
    /\ ack \in BOOLEAN
    /\ role \in {"follower", "candidate", "leader"}
    /\ granted \in SUBSET (Nat \X Candidates)
    /\ conceded \in SUBSET Nat
    /\ acked \in Seq(Entry)
    /\ lost \in SUBSET {"vote", "entries"}
    /\ bounds \in [crashes : Nat, faults : Nat]

Init ==
    /\ term = 0 /\ vote = None /\ entries = <<>>
    /\ file = [EmptyFile EXCEPT !.exists = FALSE]
    /\ pc = "down"
    /\ todo = <<>> /\ promise = None /\ ack = FALSE
    /\ role = "follower"
    /\ granted = {} /\ conceded = {}
    /\ acked = <<>>
    /\ lost = {}
    /\ bounds = [crashes |-> 0, faults |-> 0]

AllWritten == bounds.faults = 0

Spend(kind, max) ==
    /\ bounds[kind] < max
    /\ bounds' = [bounds EXCEPT ![kind] = @ + 1]

-----------------------------------------------------------------------------
(* The requests a caller makes of the log *)

Idle == pc = "up" /\ todo = <<>> /\ promise = None /\ ~ack

Plan(calls, candidate, answer) ==
    /\ todo' = calls
    /\ promise' = candidate
    /\ ack' = answer
    /\ UNCHANGED <<term, vote, entries, file, pc, granted, lost>>

\* become_follower: two calls, each with its own file.
BecomeFollower(t) ==
    /\ role' = "follower"
    /\ Plan(<<CallOf("set_current_term", t), CallOf("clear_vote", 0)>>, None, FALSE)

\* A request or an answer of a higher term.
Follow(t) ==
    /\ Idle
    /\ t > term
    /\ BecomeFollower(t)
    /\ UNCHANGED <<conceded, acked, bounds>>

\* handle_append_entries of another leader of the term, before the log is looked
\* at: a candidate gives up, and the vote it gave itself is cleared.
Concede ==
    /\ Idle
    /\ role = "candidate"
    /\ BecomeFollower(term)
    /\ conceded' = IF AllWritten THEN conceded \cup {term} ELSE conceded
    /\ UNCHANGED <<acked, bounds>>

\* start_election: the new term, then the vote for itself.
Stand ==
    /\ Idle
    /\ term < MaxTerm
    /\ role' = "candidate"
    /\ Plan(<<CallOf("increment_term", 0), CallOf("set_voted_for", Self)>>, Self, FALSE)
    /\ UNCHANGED <<conceded, acked, bounds>>

\* handle_request_vote in the current term, the candidate's log being as good.
Vote(c) ==
    /\ Idle
    /\ term > 0
    /\ vote \in {None, c}
    /\ Plan(<<CallOf("set_voted_for", c)>>, c, FALSE)
    /\ UNCHANGED <<standing, acked, bounds>>

\* append_log_entry of a candidate that has won, a leader since.
Lead ==
    /\ Idle
    /\ role # "follower"
    /\ role' = "leader"
    /\ LastIndex < MaxEntries
    /\ Plan(<<AppendOf([term |-> term, index |-> LastIndex + 1])>>, None, FALSE)
    /\ UNCHANGED <<conceded, acked, bounds>>

\* What was acknowledged, less what a leader replaces from index i on.
AckedBelow(i) == SubSeq(acked, 1, IF i < Len(acked) THEN i ELSE Len(acked))

\* at(i) does not throw.
InVector(i) == i < Len(entries)

\* handle_append_entries with another term before the entries: cut, refused.
Refuse(prev, prevTerm) ==
    /\ Idle
    /\ term > 0
    /\ role # "candidate"
    /\ prev \in 1 .. LastIndex
    /\ InVector(prev)
    /\ entries[prev + 1].term # prevTerm
    /\ Plan(<<CallOf("truncate_from", prev)>>, None, FALSE)
    /\ acked' = AckedBelow(prev)
    /\ UNCHANGED <<standing, bounds>>

\* Mutant: a conflicting entry is not cut.
StorePlanUncut(first, es) == [i \in DOMAIN es |-> AppendOf(es[i])]

\* The calls that store es from the first one that is not there: what
\* conflicts is cut, then they are appended one by one.
StorePlan(first, es) ==
    IF es = <<>> THEN <<>>
    ELSE (IF first <= LastIndex THEN <<CallOf("truncate_from", first)>> ELSE <<>>)
         \o [i \in DOMAIN es |-> AppendOf(es[i])]

\* handle_append_entries: the entries es follow the one at prev, which agrees.
\* Those that are there already are skipped. A position past the end throws,
\* and the connection is closed with nothing changed.
Store(prev, es) ==
    LET index(i) == prev + i
        new(i) == index(i) > LastIndex \/ entries[index(i) + 1].term # es[i]
        firstNew == {i \in DOMAIN es : new(i) /\ \A j \in 1 .. i - 1 : ~new(j)}
    IN  /\ Idle
        /\ term > 0
        /\ role # "candidate"
        /\ prev <= LastIndex
        /\ prev > 0 => InVector(prev)
        /\ \A i \in DOMAIN es : index(i) <= LastIndex => InVector(index(i))
        /\ IF firstNew = {}
           THEN Plan(<<>>, None, TRUE) /\ acked' = acked
           ELSE \E f \in firstNew :
                   /\ Plan(StorePlan(index(f),
                               [i \in 1 .. Len(es) - f + 1 |->
                                   [term |-> es[f + i - 1], index |-> index(f + i - 1)]]),
                           None, TRUE)
                   /\ acked' = AckedBelow(index(f))
        /\ UNCHANGED <<standing, bounds>>

\* The answer, once its calls have returned.
Answer ==
    /\ pc = "up"
    /\ todo = <<>>
    /\ promise # None \/ ack
    /\ granted' = IF promise # None /\ AllWritten THEN granted \cup {<<term, promise>>}
                  ELSE granted
    /\ acked' = IF ack /\ "entries" \notin lost THEN entries ELSE acked
    /\ promise' = None
    /\ ack' = FALSE
    /\ UNCHANGED <<term, vote, entries, file, pc, todo, standing, lost, bounds>>

-----------------------------------------------------------------------------
(* The calls, under the mutex of the log *)

\* What a call does to the members before it persists them.
Changed(c) ==
    /\ term' = CASE c.op = "set_current_term" -> c.n
                 [] c.op = "increment_term" -> term + 1
                 [] OTHER -> term
    /\ vote' = CASE c.op = "set_voted_for" -> c.n
                 [] c.op \in {"clear_vote", "increment_term"} -> None
                 [] OTHER -> vote
    /\ entries' = CASE c.op = "append" -> Append(entries, c.e)
                    [] c.op = "truncate_from" /\ c.n < Len(entries) ->
                          SubSeq(entries, 1, c.n)
                    [] OTHER -> entries

\* Mutant: the vote is changed in memory only.
OpenSkipsVote ==
    /\ pc = "up"
    /\ todo # <<>>
    /\ Changed(Head(todo))
    /\ LET memoryOnly == Head(todo).op = "set_voted_for"
       IN  /\ file' = IF memoryOnly THEN file ELSE EmptyFile
           /\ pc' = IF memoryOnly THEN pc ELSE "writing"
    /\ todo' = Tail(todo)
    /\ UNCHANGED <<promise, ack, standing, answers, lost, bounds>>

\* Mutant: entries are appended in memory only.
OpenSkipsAppend ==
    /\ pc = "up"
    /\ todo # <<>>
    /\ Changed(Head(todo))
    /\ LET memoryOnly == Head(todo).op = "append"
       IN  /\ file' = IF memoryOnly THEN file ELSE EmptyFile
           /\ pc' = IF memoryOnly THEN pc ELSE "writing"
    /\ todo' = Tail(todo)
    /\ UNCHANGED <<promise, ack, standing, answers, lost, bounds>>

\* persist_to_disk opens the file, which empties it.
Open ==
    /\ pc = "up"
    /\ todo # <<>>
    /\ Changed(Head(todo))
    /\ file' = EmptyFile
    /\ pc' = "writing"
    /\ todo' = Tail(todo)
    /\ UNCHANGED <<promise, ack, standing, answers, lost, bounds>>

\* The file cannot be opened: an error is logged, and no caller looks.
OpenFails ==
    /\ pc = "up"
    /\ todo # <<>>
    /\ Changed(Head(todo))
    /\ todo' = Tail(todo)
    /\ lost' = {"vote", "entries"}
    /\ acked' = <<>> /\ granted' = {} /\ conceded' = {}
    /\ Spend("faults", MaxFaults)
    /\ UNCHANGED <<file, pc, promise, ack, role>>

\* An entry of which a part is in the file, as it will be read.
Pieces(e) == {[e EXCEPT !.index = 0], e}

\* The buffer is full and goes out; it may end within an entry.
Flush ==
    /\ pc = "writing"
    /\ \E k \in Block .. Len(entries) - 1 :
          \E cut \in {<<>>} \cup {<<e>> : e \in Pieces(entries[k + 1])} :
             /\ k + Len(cut) > Len(file.entries)
             /\ file' = FileOf(term, vote, entries, SubSeq(entries, 1, k) \o cut)
    /\ UNCHANGED <<term, vote, entries, pc, todo, promise, ack, standing, answers, lost, bounds>>

Close ==
    /\ pc = "writing"
    /\ file' = FileOf(term, vote, entries, entries)
    /\ pc' = "up"
    /\ UNCHANGED <<term, vote, entries, todo, promise, ack, standing, answers, lost, bounds>>

-----------------------------------------------------------------------------
(* Crash and restart. The members keep their last values while it is down *)

Crash ==
    /\ pc # "down"
    /\ pc' = "down"
    /\ todo' = <<>> /\ promise' = None /\ ack' = FALSE
    /\ role' = "follower"
    /\ lost' = IF pc = "up" THEN lost
               ELSE lost \cup {"entries"} \cup (IF file.header THEN {} ELSE {"vote"})
    /\ acked' = IF pc = "up" THEN acked ELSE <<>>
    /\ Spend("crashes", MaxCrashes)
    /\ UNCHANGED <<term, vote, entries, file, granted, conceded>>

\* Mutant: the constructor does not set the vote.
RestartUninitialised ==
    /\ pc = "down"
    /\ pc' = "up"
    /\ term' = file.term
    /\ vote' = IF file.header THEN file.vote ELSE Self + MaxTerm + 1
    /\ entries' = IF file.exists THEN file.entries ELSE <<Blank>>
    /\ UNCHANGED <<file, todo, promise, ack, standing, answers, lost, bounds>>

\* Mutant: the constructor's entry is not cleared before the file is read.
RestartKeepsDummy ==
    /\ pc = "down"
    /\ pc' = "up"
    /\ term' = file.term
    /\ vote' = file.vote
    /\ entries' = <<Blank>> \o file.entries
    /\ UNCHANGED <<file, todo, promise, ack, standing, answers, lost, bounds>>

\* The constructor and load_from_disk. A read past the end of the file leaves
\* its variable as it was: the term and the vote 0, an entry blank, the number
\* of entries and the size of an entry's data uninitialised. A huge size
\* throws, and the entries read so far are kept.
Restart ==
    /\ pc = "down"
    /\ pc' = "up"
    /\ term' = file.term
    /\ vote' = file.vote
    /\ IF ~file.exists
       THEN entries' = <<Blank>>
       ELSE \E blanks \in 0 .. (IF file.header THEN file.count - Len(file.entries)
                                ELSE MaxGarbage) :
               entries' = file.entries \o [i \in 1 .. blanks |-> Blank]
    /\ UNCHANGED <<file, todo, promise, ack, standing, answers, lost, bounds>>

Request ==
    \/ \E t \in 1 .. MaxTerm : Follow(t)
    \/ Concede
    \/ Stand
    \/ \E c \in Peers : Vote(c)
    \/ Lead
    \/ \E prev \in 1 .. MaxEntries, t \in 1 .. MaxTerm : Refuse(prev, t)
    \/ \E prev \in 0 .. MaxEntries :
          \E len \in 0 .. MaxEntries - prev :
             \E es \in [1 .. len -> 1 .. term] : Store(prev, es)

Next ==
    \/ Request
    \/ Answer
    \/ Open \/ OpenFails \/ Flush \/ Close
    \/ Crash
    \/ Restart

Spec == Init /\ [][Next]_vars

-----------------------------------------------------------------------------

\* raft_log.h: "Persistence: Term, vote, and log survive crashes": a node never
\* votes against an earlier vote of its in the same term. (Not counted is the
\* term whose election it gave up: become_follower clears the vote for itself
\* there, and it may vote for one other, crash or not.)
VoteSurvives ==
    \A x, y \in granted :
       x[1] = y[1] =>
          \/ x = y
          \/ x[1] \in conceded /\ Self \in {x[2], y[2]}

\* The vote survives crashes between any two calls, unless one came before the
\* first block of the file was out, or a file was not written at all. Two votes
\* of one term are then one for itself and one after it gave up that election.
VoteIsKept == "vote" \notin lost => VoteSurvives

\* What a node has acknowledged is in its log until a leader replaces it,
\* through crashes, unless one came while a file was written.
AckedIsKept == pc # "down" => IsPrefix(acked, entries)

\* The entry of index i is at position i, where at(), truncate_from() and
\* get_entries_from() look for it, unless a file was cut short.
EntriesInPlace ==
    "entries" \notin lost => \A i \in DOMAIN entries : entries[i].index = i - 1

\* Whatever a crash leaves, a restart makes up no term, no vote and no entry:
\* it loses some, keeps a vote only with its term, and adds blank entries.
DamageIsLoss ==
    [][ pc = "down" /\ pc' # "down" /\ AllWritten =>
          /\ <<term', vote'>> \in {<<term, vote>>, <<0, None>>}
          /\ \A i \in DOMAIN entries' :
                \/ entries'[i] = Blank
                \/ i \in DOMAIN entries /\ entries'[i] \in Pieces(entries[i]) ]_vars
=============================================================================
