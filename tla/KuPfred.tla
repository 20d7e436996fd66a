------------------------------ MODULE KuPfred ------------------------------
(***************************************************************************)
(* The frequency counter of System Programming/Assignment #2/ku_pfred.c:   *)
(* main forks one sender per share of the file; sender i puts its numbers  *)
(* in a POSIX message queue of capacity 1 named after i, and main receives *)
(* the queues one after the other, unlinking each, then prints.            *)
(*                                                                         *)
(* Queue names outlive the processes that opened them; the system has a    *)
(* limit on how many exist (queues_max).  A byte offset of the file is the *)
(* record number; Top stands for 10000.                                    *)
(***************************************************************************)
EXTENDS Integers, Sequences, FiniteSets

CONSTANTS
    Top,          \* every number of the file is below it
    MaxProcs,     \* bound on argv[1]
    Settings,     \* the inputs: [nump : argv[1], interval : argv[2], data : the file]
    QueuesMax,    \* how many message queues the system allows
    Leftovers,    \* what queue 0 may hold at the start: a run that was killed
                  \* leaves its queues behind
    Garbage       \* what malloc may leave in a cell of the array

\* The inputs the program is meant for, and queues of a killed run.
InputsOK ==
    /\ Top \in Nat \ {0} /\ MaxProcs \in Nat /\ Garbage \subseteq Int
    /\ Settings \subseteq [nump : 1..MaxProcs, interval : 1..Top, data : Seq(0..Top-1)]
    /\ QueuesMax \in Nat /\ Leftovers \subseteq Seq(0..Top-1)

VARIABLES
    data, interval, numP, remainder,    \* set by main before the fork
    intArr,       \* the frequency distribution, in main only
    queues,       \* the queues that exist: name -> messages
    child,        \* per sender: pc, counter i, record it is at, last number read
    mpc, i, left, \* main: where it is, the queue it is at, messages still to come
    received,     \* history: per queue, the messages main received
    overrun,      \* a cell past the end of the array was incremented
    printed       \* what printFD printed

vars == <<data, interval, numP, remainder, intArr, queues, child, mpc, i, left,
          received, overrun, printed>>
input == <<data, interval, numP, remainder>>

Procs == 0..MaxProcs-1
size == Len(data)
Cells(n) == 0..(Top \div n)-1
Opened == DOMAIN queues

(***************************************************************************)
(* What main computes                                                      *)
(***************************************************************************)
\* nameInc counts in four decimal digits from 0000, so the names of at most
\* 10000 senders are distinct: a name is the number of its sender.  (main copies each
\* name into an allocation of one byte; it is taken to be stored whole.)
QueueNameStuck(p) == 0                      \* mutant: nameInc does not count
QueueName(p) == p

\* memset clears sizeof(int star) bytes, the first two cells.
MayHold(n, b) == IF b \in {0, 1} THEN {0} ELSE Garbage
Remainder(sz, n) == sz % n
Clamp(sz, n) == IF n > sz THEN sz ELSE n

Share == size \div numP
FirstRecord(p) == p * Share
\* Sender and receiver of a queue compute the number of its messages apart.
HasExtra(p) == remainder # 0 /\ p = numP - 1
ToSendEven(p) == Share                      \* mutant: sender for the last share too
ToSend(p) == IF HasExtra(p) THEN Share + remainder ELSE Share
ToReceive(p) == IF HasExtra(p) THEN Share + remainder ELSE Share

\* value / interval: the sender's atoi has the same unterminated buffer as ku_tfred.c.
Bucket(v) == v \div interval

Init ==
    /\ \E s \in Settings :
         /\ data = s.data /\ interval = s.interval
         /\ remainder = Remainder(Len(s.data), s.nump)
         /\ numP = Clamp(Len(s.data), s.nump)
         /\ intArr \in [Cells(s.interval) -> Garbage \cup {0}]
         /\ \A b \in Cells(s.interval) : intArr[b] \in MayHold(s.interval, b)
    /\ \/ queues = [n \in {} |-> <<>>]
       \/ \E q \in Leftovers : queues = [n \in {QueueName(0)} |-> q]
    /\ child = [p \in Procs |-> [pc |-> "none", i |-> 0, at |-> 0, value |-> 0]]
    /\ mpc = "fork" /\ i = 0 /\ left = 0
    /\ received = [p \in Procs |-> <<>>]
    /\ overrun = FALSE /\ printed = <<>>

(***************************************************************************)
(* Message queues                                                          *)
(***************************************************************************)
CanOpen(n) == n \in Opened \/ Cardinality(Opened) < QueuesMax
\* mq_open with O_CREAT and not O_EXCL: a queue that exists is opened as it is.
Open(n) == [m \in Opened \cup {n} |-> IF m \in Opened THEN queues[m] ELSE <<>>]
UnlinkNot(n) == queues                      \* mutant: mq_unlink dropped
Unlink(n) == [m \in Opened \ {n} |-> queues[m]]

(***************************************************************************)
(* The child processes: sender and senderX                                 *)
(***************************************************************************)
MoveTo(p, pc) == child' = [child EXCEPT ![p].pc = pc]

\* A child that gets no queue exits, main is not told.
OpenToSend(p) ==
    /\ child[p].pc = "open"
    /\ IF CanOpen(QueueName(p))
       THEN queues' = Open(QueueName(p)) /\ MoveTo(p, "read")
       ELSE MoveTo(p, "exited") /\ UNCHANGED queues
    /\ UNCHANGED <<input, intArr, mpc, i, left, received, overrun, printed>>

\* pread past the end of the file leaves the buffer as it was.
ReadRecord(p) ==
    /\ child[p].pc = "read" /\ child[p].i < ToSend(p)
    /\ LET r == FirstRecord(p) + child[p].at
       IN  child' = [child EXCEPT ![p].pc = "send",
                                  ![p].value = IF r < size THEN data[r+1] ELSE @]
    /\ UNCHANGED <<input, intArr, queues, mpc, i, left, received, overrun, printed>>

\* mq_send waits while the queue holds a message (mq_maxmsg is 1).  The queue
\* exists: main unlinks it only after the last message of this sender.
HasSpaceAny(q) == TRUE                      \* mutant: mq_maxmsg too large
HasSpace(q) == Len(q) < 1
Send(p) ==
    LET n == QueueName(p)
    IN  /\ child[p].pc = "send" /\ n \in Opened /\ HasSpace(queues[n])
        /\ queues' = [queues EXCEPT ![n] = Append(@, child[p].value)]
        /\ child' = [child EXCEPT ![p].pc = "read", ![p].i = @ + 1, ![p].at = @ + 1]
        /\ UNCHANGED <<input, intArr, mpc, i, left, received, overrun, printed>>

ExitChild(p) ==
    /\ child[p].pc = "read" /\ child[p].i >= ToSend(p)
    /\ MoveTo(p, "exited")
    /\ UNCHANGED <<input, intArr, queues, mpc, i, left, received, overrun, printed>>

ChildStep(p) == OpenToSend(p) \/ ReadRecord(p) \/ Send(p) \/ ExitChild(p)

(***************************************************************************)
(* main: fork, receiver and receiverX, printFD                             *)
(***************************************************************************)
Fork ==
    /\ mpc = "fork" /\ i < numP
    /\ MoveTo(i, "open")
    /\ i' = i + 1
    /\ UNCHANGED <<input, intArr, queues, mpc, left, received, overrun, printed>>

AllForked ==
    /\ mpc = "fork" /\ i = numP
    /\ mpc' = "open" /\ i' = 0
    /\ UNCHANGED <<input, intArr, queues, child, left, received, overrun, printed>>

\* The receiver of queue i; a failing mq_open ends main without a result.
OpenToReceive ==
    /\ mpc = "open" /\ i < numP
    /\ left' = ToReceive(i)
    /\ IF CanOpen(QueueName(i))
       THEN queues' = Open(QueueName(i)) /\ mpc' = "receive"
       ELSE mpc' = "failed" /\ UNCHANGED queues
    /\ UNCHANGED <<input, intArr, child, i, received, overrun, printed>>

\* mq_receive waits for a message; after the last one the queue is unlinked.
Counts(v) == IF Bucket(v) \in DOMAIN intArr
             THEN [intArr EXCEPT ![Bucket(v)] = @ + 1] ELSE intArr
Receive ==
    LET n == QueueName(i)
        v == Head(queues[n])
    IN  /\ mpc = "receive" /\ queues[n] # <<>>
        /\ intArr' = Counts(v)
        /\ overrun' = (overrun \/ Bucket(v) \notin DOMAIN intArr)
        /\ received' = [received EXCEPT ![i] = Append(@, v)]
        /\ left' = left - 1
        /\ IF left - 1 = 0
           THEN queues' = Unlink(n) /\ i' = i + 1 /\ mpc' = "open"
           ELSE queues' = [queues EXCEPT ![n] = Tail(@)] /\ UNCHANGED <<i, mpc>>
        /\ UNCHANGED <<input, child, printed>>

PrintFD ==
    /\ mpc = "open" /\ i = numP
    /\ printed' = intArr
    /\ mpc' = "done"
    /\ UNCHANGED <<input, intArr, queues, child, i, left, received, overrun>>

MainStep == Fork \/ AllForked \/ OpenToReceive \/ Receive \/ PrintFD
Finished == mpc \in {"done", "failed"} /\ UNCHANGED vars

Next == MainStep \/ (\E p \in Procs : ChildStep(p)) \/ Finished

\* The system runs every process that can run.
Spec == Init /\ [][Next]_vars /\ WF_vars(MainStep) /\ \A p \in Procs : WF_vars(ChildStep(p))

(***************************************************************************)
(* Properties                                                              *)
(***************************************************************************)
\* Types; no queue holds more than the one message it has room for.
TypeOK ==
    /\ intArr \in [Cells(interval) -> Int]
    /\ \A n \in Opened : n \in Procs /\ queues[n] \in Seq(0..Top-1) /\ Len(queues[n]) <= 1
    /\ \A p \in Procs : child[p].pc \in {"none", "open", "read", "send", "exited"}
    /\ mpc \in {"fork", "open", "receive", "done", "failed"} /\ i \in 0..numP

\* What main received from queue p is a prefix of the share of sender p, and
\* whatever the sender sent beyond it is in the queue: the processes agree on
\* who counts what, at every moment.
ShareInOrder ==
    \A p \in 0..numP-1 :
        LET inQueue == IF QueueName(p) \in Opened THEN queues[QueueName(p)] ELSE <<>>
        IN  received[p] \o inQueue =
              SubSeq(data, FirstRecord(p) + 1, FirstRecord(p) + child[p].i)

\* "Prints the frequency distribution after the tasks are all done"
\* (ku_pfred.c:223): the printed array counts every number of the file, once.
FDCorrect ==
    mpc = "done" => \A b \in Cells(interval) :
        printed[b] = Cardinality({r \in 1..size : data[r] \div interval = b})

\* When main is done no queue it used is left behind for the next run.
NoQueueLeft == mpc = "done" => \A p \in 0..numP-1 : QueueName(p) \notin Opened

\* main gets all the messages it waits for and prints ("Receives the messages
\* from the message queue", ku_pfred.c:326).
Finishes == <>(mpc = "done")
=============================================================================
