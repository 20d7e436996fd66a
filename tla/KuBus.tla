------------------------------- MODULE KuBus -------------------------------
(***************************************************************************)
(* What the binder of Embedded System Softwares/assignment1 promises,      *)
(* without slots, locks, sleeps or scans: a directory of names, numbered   *)
(* in the order of registration, and one queue for each number.            *)
(***************************************************************************)
EXTENDS Integers, Sequences, SequencesExt

CONSTANTS Servers, Clients, Names, NameOf, Capacity, None

VARIABLES
    directory,   \* the registered names; a name's place is its number
    number,      \* per server, the number it holds, -1 for none
    entering,    \* the servers whose registration is under way
    restarts,    \* how often a server was started again
    asks,        \* per client, the name it is asking for
    known,       \* per client, the name it knows each number to have
    sent,        \* per client, how many requests it has sent
    queue,       \* per number, the requests that wait
    served       \* per server, the requests it was handed

dirVars == <<directory, number, entering, restarts>>
busVars == <<dirVars, asks, known, sent, queue, served>>

Numbers == 0..Capacity-1

BInit ==
    /\ directory = <<>>
    /\ number = [s \in Servers |-> -1]
    /\ entering = {} /\ restarts = 0
    /\ asks = [c \in Clients |-> None]
    /\ known = [c \in Clients |-> [k \in Numbers |-> None]]
    /\ sent = [c \in Clients |-> 0]
    /\ queue = [k \in Numbers |-> <<>>]
    /\ served = [s \in Servers |-> <<>>]

Enter(s) ==
    /\ entering' = entering \cup {s}
    /\ UNCHANGED <<directory, number, restarts, asks, known, sent, queue, served>>

\* A new name gets the next number; one that is there gets none, and a full
\* directory turns a server away at once.
Accept(s) ==
    /\ s \in entering /\ entering' = entering \ {s}
    /\ ~Contains(directory, NameOf[s]) /\ Len(directory) < Capacity
    /\ directory' = Append(directory, NameOf[s])
    /\ number' = [number EXCEPT ![s] = Len(directory)]
    /\ UNCHANGED <<restarts, asks, known, sent, queue, served>>

Refuse(s) ==
    /\ \/ s \in entering /\ Contains(directory, NameOf[s])
       \/ Len(directory) = Capacity
    /\ entering' = entering \ {s}
    /\ number' = [number EXCEPT ![s] = -1]
    /\ UNCHANGED <<directory, restarts, asks, known, sent, queue, served>>

\* A server that starts again has forgotten its number; the directory has not.
Forget(s) ==
    /\ number' = [number EXCEPT ![s] = -1] /\ restarts' = restarts + 1
    /\ UNCHANGED <<directory, entering, asks, known, sent, queue, served>>

Ask(c, n) ==
    /\ asks[c] = None
    /\ asks' = [asks EXCEPT ![c] = n]
    /\ UNCHANGED <<dirVars, known, sent, queue, served>>

\* The answer is right when it is given: a client learns the number if the name
\* has one by then, and only then.
Answer(c) ==
    /\ asks[c] # None
    /\ asks' = [asks EXCEPT ![c] = None]
    /\ known' = [known EXCEPT ![c] =
                    [k \in Numbers |-> IF k + 1 \in DOMAIN directory /\ directory[k + 1] = asks[c]
                                       THEN asks[c] ELSE @[k]]]
    /\ UNCHANGED <<dirVars, sent, queue, served>>

Send(c, k) ==
    /\ asks[c] = None /\ known[c][k] # None
    /\ sent' = [sent EXCEPT ![c] = @ + 1]
    /\ queue' = [queue EXCEPT ![k] =
                    Append(@, [from |-> c, n |-> sent'[c], for |-> known[c][k]])]
    /\ UNCHANGED <<dirVars, asks, known, served>>

\* A server is handed the oldest request for its number, and never another name's.
Serve(s) ==
    LET k == number[s]
    IN  /\ k # -1 /\ queue[k] # <<>> /\ Head(queue[k]).for = NameOf[s]
        /\ served' = [served EXCEPT ![s] = Append(@, Head(queue[k]))]
        /\ queue' = [queue EXCEPT ![k] = Tail(@)]
        /\ UNCHANGED <<dirVars, asks, known, sent>>

BNext ==
    \/ \E s \in Servers : Enter(s) \/ Accept(s) \/ Refuse(s) \/ Forget(s) \/ Serve(s)
    \/ \E c \in Clients : \/ \E n \in Names : Ask(c, n)
                          \/ Answer(c) \/ \E k \in Numbers : Send(c, k)

BSpec == BInit /\ [][BNext]_busVars
=============================================================================
