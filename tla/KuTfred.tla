------------------------------ MODULE KuTfred ------------------------------
(***************************************************************************)
(* The frequency counter of System Programming/Assignment #2/ku_tfred.c:   *)
(* main splits a file of numbers among threads, each reads its share and   *)
(* counts every number in a shared array under one mutex, main joins them  *)
(* in order and prints the array.                                          *)
(*                                                                         *)
(* The file is a sequence of numbers: a byte offset of the code, first     *)
(* line + 5n, is the record number n here.  Top stands for 10000.          *)
(***************************************************************************)
EXTENDS Integers, Sequences, FiniteSets

CONSTANTS
    Top,        \* every number of the file is below it
    MaxThreads, \* bound on argv[1]
    Settings,   \* the inputs: [numt : argv[1], interval : argv[2], data : the file]
    Garbage     \* what malloc may leave in a cell of the array: {0} on a fresh heap

\* The inputs the program is meant for: at least one thread, an interval, and a
\* file as make_dataset.c writes it.
InputsOK ==
    /\ Top \in Nat \ {0} /\ MaxThreads \in Nat /\ Garbage \subseteq Int
    /\ Settings \subseteq [numt : 1..MaxThreads, interval : 1..Top, data : Seq(0..Top-1)]

VARIABLES
    data, INTERVAL, NUMT, REMAINDER,    \* set by main before the threads start
    intArr,     \* the frequency distribution
    mutex,      \* the thread that holds it, NoThread when free
    th,         \* per thread: pc, loop counter i, the last number read, intArr[b] loaded
    mpc, k,     \* main: where it is and its loop counter
    overrun,    \* a cell past the end of the array was incremented
    printed     \* what printFD printed

vars == <<data, INTERVAL, NUMT, REMAINDER, intArr, mutex, th, mpc, k, overrun, printed>>
input == <<data, INTERVAL, NUMT, REMAINDER>>

NoThread == -1
Threads == 0..MaxThreads-1
SIZE == Len(data)
Cells(interval) == 0..(Top \div interval)-1

(***************************************************************************)
(* What main computes                                                      *)
(***************************************************************************)
\* memset clears sizeof(int star) bytes, the first two cells.
Cleared(interval) == {0, 1} \cap Cells(interval)
MayHold(interval, b) == IF b \in Cleared(interval) THEN {0} ELSE Garbage

\* The remainder is taken by the requested number of threads, not by the
\* number of threads that are created.
Remainder(size, numt) == size % numt
Clamp(size, numt) == IF numt > size THEN size ELSE numt

Share == SIZE \div NUMT
FirstRecord(t) == t * Share
Length(t) == IF REMAINDER # 0 /\ t = NUMT - 1 THEN Share + REMAINDER ELSE Share

\* atoi(buffer) / INTERVAL.  The record fills buffer[4] and leaves no terminator: what
\* follows the buffer is taken not to be a digit, so that atoi gives the number.
Bucket(v) == v \div INTERVAL

Init ==
    /\ \E s \in Settings :
         /\ data = s.data /\ INTERVAL = s.interval
         /\ REMAINDER = Remainder(Len(s.data), s.numt)
         /\ NUMT = Clamp(Len(s.data), s.numt)
         /\ intArr \in [Cells(s.interval) -> Garbage \cup {0}]
         /\ \A b \in Cells(s.interval) : intArr[b] \in MayHold(s.interval, b)
    /\ mutex = NoThread
    /\ th = [t \in Threads |-> [pc |-> "none", i |-> 0, buffer |-> 0, count |-> 0]]
    /\ mpc = "create" /\ k = 0
    /\ overrun = FALSE /\ printed = <<>>

(***************************************************************************)
(* The threads: readT and readTX                                           *)
(***************************************************************************)
MoveTo(t, pc) == th' = [th EXCEPT ![t].pc = pc]

\* pread past the end of the file leaves the buffer as it was.
ReadRecord(t) ==
    /\ th[t].pc = "read" /\ th[t].i < Length(t)
    /\ LET p == FirstRecord(t) + th[t].i
       IN  th' = [th EXCEPT ![t].pc = "lock",
                            ![t].buffer = IF p < SIZE THEN data[p+1] ELSE @]
    /\ UNCHANGED <<input, intArr, mutex, mpc, k, overrun, printed>>

Return(t) ==
    /\ th[t].pc = "read" /\ th[t].i >= Length(t)
    /\ MoveTo(t, "returned")
    /\ UNCHANGED <<input, intArr, mutex, mpc, k, overrun, printed>>

MutexFreeAny == TRUE                        \* mutant: the mutex is not taken
MutexFree == mutex = NoThread
Lock(t) ==
    /\ th[t].pc = "lock" /\ MutexFree
    /\ mutex' = t
    /\ MoveTo(t, "load")
    /\ UNCHANGED <<input, intArr, mpc, k, overrun, printed>>

\* intArr[b]++ is a load and a store; past the end it hits another object.
Load(t) ==
    LET b == Bucket(th[t].buffer)
    IN  /\ th[t].pc = "load"
        /\ IF b \in DOMAIN intArr
           THEN th' = [th EXCEPT ![t].pc = "store", ![t].count = intArr[b]] /\ UNCHANGED overrun
           ELSE MoveTo(t, "unlock") /\ overrun' = TRUE
        /\ UNCHANGED <<input, intArr, mutex, mpc, k, printed>>

Store(t) ==
    /\ th[t].pc = "store"
    /\ intArr' = [intArr EXCEPT ![Bucket(th[t].buffer)] = th[t].count + 1]
    /\ MoveTo(t, "unlock")
    /\ UNCHANGED <<input, mutex, mpc, k, overrun, printed>>

Released == NoThread
Unlock(t) ==
    /\ th[t].pc = "unlock"
    /\ mutex' = Released
    /\ th' = [th EXCEPT ![t].pc = "read", ![t].i = @ + 1]
    /\ UNCHANGED <<input, intArr, mpc, k, overrun, printed>>

ThreadStep(t) ==
    ReadRecord(t) \/ Return(t) \/ Lock(t) \/ Load(t) \/ Store(t) \/ Unlock(t)

(***************************************************************************)
(* main                                                                    *)
(***************************************************************************)
Create ==
    /\ mpc = "create" /\ k < NUMT
    /\ MoveTo(k, "read")
    /\ k' = k + 1
    /\ UNCHANGED <<input, intArr, mutex, mpc, overrun, printed>>

AllCreated ==
    /\ mpc = "create" /\ k = NUMT
    /\ mpc' = "join" /\ k' = 0
    /\ UNCHANGED <<input, intArr, mutex, th, overrun, printed>>

JoinableAny(t) == TRUE                      \* mutant: pthread_join dropped
Joinable(t) == th[t].pc = "returned"
Join ==
    /\ mpc = "join" /\ k < NUMT /\ Joinable(k)
    /\ k' = k + 1
    /\ UNCHANGED <<input, intArr, mutex, th, mpc, overrun, printed>>

PrintFD ==
    /\ mpc = "join" /\ k = NUMT
    /\ mpc' = "done"
    /\ printed' = intArr
    /\ UNCHANGED <<input, intArr, mutex, th, k, overrun>>

MainStep == Create \/ AllCreated \/ Join \/ PrintFD
Finished == mpc = "done" /\ UNCHANGED vars

Next == MainStep \/ (\E t \in Threads : ThreadStep(t)) \/ Finished

\* The scheduler runs every runnable thread.  A thread takes the mutex as often
\* as it has records, so weak fairness is enough to get it in the end.
Spec == Init /\ [][Next]_vars /\ WF_vars(MainStep) /\ \A t \in Threads : WF_vars(ThreadStep(t))

(***************************************************************************)
(* Properties                                                              *)
(***************************************************************************)
\* Types, and the mutex is held by exactly the thread inside the section it guards.
TypeOK ==
    /\ intArr \in [Cells(INTERVAL) -> Int]
    /\ \A t \in Threads :
         /\ th[t].i \in 0..2*SIZE /\ th[t].buffer \in 0..Top-1 /\ th[t].count \in Int
         /\ th[t].pc \in {"none", "read", "lock", "returned", "load", "store", "unlock"}
         /\ th[t].pc \in {"load", "store", "unlock"} <=> mutex = t
    /\ mpc \in {"create", "join", "done"} /\ k \in 0..NUMT

\* At every moment the array holds exactly the increments that the threads have
\* finished: no update of one thread is lost to another's.
Counted(t) ==
    0..th[t].i - (IF th[t].pc = "unlock" THEN 0 ELSE 1)
NoLostUpdate ==
    ~overrun => \A b \in DOMAIN intArr :
        intArr[b] = Cardinality({x \in Threads \X (0..2*SIZE) :
            x[2] \in Counted(x[1]) /\ Bucket(data[FirstRecord(x[1]) + x[2] + 1]) = b})

\* "Prints the frequency distribution after the tasks are all done"
\* (ku_tfred.c:87): what is printed counts every number of the file, once.
FDCorrect ==
    mpc = "done" => \A b \in Cells(INTERVAL) :
        printed[b] = Cardinality({p \in 1..SIZE : data[p] \div INTERVAL = b})

\* main gets through its joins and prints.
Finishes == <>(mpc = "done")
=============================================================================
