------------------------------- MODULE Channel -------------------------------
(***************************************************************************)
(* What the two programs take a connection for, in one direction: whole      *)
(* messages, none made up, none twice, those of one thread in the order it    *)
(* sent them, until the reader gives the connection up.                     *)
(***************************************************************************)
EXTENDS Sequences

CONSTANTS Senders, Messages, None

VARIABLES
    queue,  \* of each sending thread, the messages on their way
    got,    \* the message read last, and whose it was
    open

Init ==
    /\ queue = [t \in Senders |-> <<>>]
    /\ got = None
    /\ open = TRUE

Send(t, m) ==
    /\ open
    /\ queue' = [queue EXCEPT ![t] = Append(@, m)]
    /\ UNCHANGED <<got, open>>

Deliver(t) ==
    /\ open
    /\ queue[t] # <<>>
    /\ queue' = [queue EXCEPT ![t] = Tail(@)]
    /\ got' = [from |-> t, msg |-> Head(queue[t])]
    /\ open' = open

\* The reader gives the connection up, at a message that it did not expect or
\* without one.
Refuse(t) ==
    /\ open
    /\ queue[t] # <<>>
    /\ got' = [from |-> t, msg |-> Head(queue[t])]
    /\ open' = FALSE
    /\ queue' = [s \in Senders |-> <<>>]

Close ==
    /\ open
    /\ open' = FALSE
    /\ queue' = [t \in Senders |-> <<>>]
    /\ got' = got

Next ==
    \/ \E t \in Senders : Deliver(t) \/ Refuse(t) \/ \E m \in Messages : Send(t, m)
    \/ Close

Spec == Init /\ [][Next]_<<queue, got, open>>
=============================================================================
