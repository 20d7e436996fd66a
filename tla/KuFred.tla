------------------------------- MODULE KuFred -------------------------------
(***************************************************************************)
(* The two frequency counters on the same files: a run is of ku_tfred.c or *)
(* of ku_pfred.c.                                                          *)
(***************************************************************************)
EXTENDS Integers, Sequences, FiniteSets

CONSTANTS
    Programs,    \* which of "threads" and "processes" are run
    Top,         \* every number of a file is below it: 10000
    Settings, Garbage, Leftovers, MaxWorkers, QueuesMax

VARIABLES
    program,
    data, interval, workers, remainder, intArr, overrun, printed,  \* of both
    mutex, th, tmain, tk,                                          \* of ku_tfred.c
    queues, child, pmain, i, left, received                        \* of ku_pfred.c

shared == <<data, interval, workers, remainder, intArr, overrun, printed>>
threadVars == <<mutex, th, tmain, tk>>
processVars == <<queues, child, pmain, i, left, received>>
allVars == <<program, shared, threadVars, processVars>>

T == INSTANCE KuTfred WITH
    MaxThreads <- MaxWorkers, INTERVAL <- interval, NUMT <- workers,
    REMAINDER <- remainder, mpc <- tmain, k <- tk,
    Settings <- {[numt |-> s.n, interval |-> s.interval, data |-> s.data] : s \in Settings}
P == INSTANCE KuPfred WITH
    MaxProcs <- MaxWorkers, numP <- workers, mpc <- pmain,
    Settings <- {[nump |-> s.n, interval |-> s.interval, data |-> s.data] : s \in Settings}

ASSUME FredAssumption == T!InputsOK /\ P!InputsOK

Init ==
    /\ program \in Programs
    /\ \/ /\ program = "threads"
          /\ T!Init
          /\ queues = <<>> /\ child = <<>> /\ pmain = "off"
          /\ i = 0 /\ left = 0 /\ received = <<>>
       \/ /\ program = "processes"
          /\ P!Init
          /\ mutex = T!NoThread /\ th = <<>> /\ tmain = "off" /\ tk = 0

Next ==
    /\ UNCHANGED program
    /\ \/ program = "threads" /\ T!Next /\ UNCHANGED processVars
       \/ program = "processes" /\ P!Next /\ UNCHANGED threadVars

ThreadsRun(A) == program = "threads" /\ A /\ UNCHANGED <<program, processVars>>
ProcessesRun(A) == program = "processes" /\ A /\ UNCHANGED <<program, threadVars>>

\* The fairness of KuTfred!Spec and of KuPfred!Spec.
Spec ==
    /\ Init /\ [][Next]_allVars
    /\ WF_allVars(ThreadsRun(T!MainStep)) /\ WF_allVars(ProcessesRun(P!MainStep))
    /\ \A w \in 0..MaxWorkers-1 :
         WF_allVars(ThreadsRun(T!ThreadStep(w))) /\ WF_allVars(ProcessesRun(P!ChildStep(w)))

(***************************************************************************)
(* Properties                                                              *)
(***************************************************************************)
\* The types of both programs, the mutex and the capacity of the queues.
TypeOK == IF program = "threads" THEN T!TypeOK ELSE P!TypeOK

\* ku_tfred.c: the array holds exactly the increments the threads finished.
NoLostUpdate == program = "threads" => T!NoLostUpdate

\* ku_pfred.c: what a child sent is what main received from it, in order, and
\* what is still in its queue.
ShareInOrder == program = "processes" => P!ShareInOrder

\* ku_pfred.c: no queue outlives a run that ends.
NoQueueLeft == program = "processes" => P!NoQueueLeft

\* "Prints the frequency distribution after the tasks are all done"
\* (ku_tfred.c:87, ku_pfred.c:223): every number is counted, once.
FDCorrect == IF program = "threads" THEN T!FDCorrect ELSE P!FDCorrect

\* Both programs print in the end.
Finishes == <>(tmain = "done" \/ pmain = "done")
=============================================================================
