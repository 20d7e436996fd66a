---------------------------- MODULE SimpleBlock ----------------------------
(***************************************************************************)
(* The blocking drivers of lab4, ex1/simple_block_1.c and                  *)
(* ex2/simple_block_2.c: consumers sleep until my_data is positive and     *)
(* then decrement it, producers add to it and wake the sleepers.  The two  *)
(* drivers differ in their commands only:                                  *)
(*   simple_block_1  WQ (not interruptible), WQ_INTERRUPTIBLE,             *)
(*                   WQ_INTERRUPTIBLE_TIMEOUT, WQ_WAKE_UP                  *)
(*   simple_block_2  WQ (here WQ_INTERRUPTIBLE: its wait is the same),     *)
(*                   WQ_EX, WQ_WAKE_UP, WQ_WAKE_UP_ALL                     *)
(* The sleep is outside my_lock; my_data is only changed under it.         *)
(***************************************************************************)
EXTENDS Integers, Sequences, FiniteSets, SequencesExt

CONSTANTS
    Procs,       \* processes with the device open
    Amounts,     \* what producers pass
    MaxCalls,    \* bound on the number of calls
    MaxSignals   \* bound on signals to sleepers

VARIABLES
    my_data,
    my_lock,     \* the process that holds it
    my_wq,       \* the wait queue, front first
    proc,        \* per process: pc, command, amount, my_data as it loaded it
    calls, signals,
    produced, consumed   \* history: sums over the calls that returned

blockVars == <<my_data, my_lock, my_wq, proc, calls, signals, produced, consumed>>

NoProc == "nobody"
Producing == {"WQ_WAKE_UP", "WQ_WAKE_UP_ALL"}
Timed == {"WQ_INTERRUPTIBLE_TIMEOUT"}
Interruptible == {"WQ_INTERRUPTIBLE", "WQ_INTERRUPTIBLE_TIMEOUT", "WQ_EX"}
Exclusive(p) == proc[p].cmd = "WQ_EX"

BlockInit ==
    /\ my_data = 0 /\ my_lock = NoProc /\ my_wq = <<>>
    /\ proc = [p \in Procs |-> [pc |-> "out", cmd |-> "none", arg |-> 0, val |-> 0]]
    /\ calls = 0 /\ signals = 0
    /\ produced = 0 /\ consumed = 0

MoveTo(p, pc) == proc' = [proc EXCEPT ![p].pc = pc]
LeaveQueue(p) == my_wq' = RemoveFirst(my_wq, p)

(***************************************************************************)
(* The wait: wait_event and its variants                                   *)
(***************************************************************************)
\* The call, with the test that wait_event makes before it queues anyone.
Call(p, cmd, arg) ==
    /\ proc[p].pc = "out" /\ calls < MaxCalls
    /\ calls' = calls + 1
    /\ proc' = [proc EXCEPT ![p] = [
         pc  |-> IF cmd \in Producing \/ my_data > 0 THEN "lock" ELSE "prepare",
         cmd |-> cmd, arg |-> arg, val |-> 0]]
    /\ UNCHANGED <<my_data, my_lock, my_wq, signals, produced, consumed>>

\* Exclusive sleepers queue at the end, the others at the front.
Queued(p) == IF Exclusive(p) THEN Append(my_wq, p) ELSE <<p>> \o my_wq
Prepare(p) ==
    /\ proc[p].pc = "prepare"
    /\ my_wq' = Queued(p)
    /\ MoveTo(p, "recheck")
    /\ UNCHANGED <<my_data, my_lock, calls, signals, produced, consumed>>

Recheck(p) ==
    /\ proc[p].pc = "recheck"
    /\ MoveTo(p, IF my_data > 0 THEN "lock" ELSE "schedule")
    /\ IF my_data > 0 THEN LeaveQueue(p) ELSE UNCHANGED my_wq
    /\ UNCHANGED <<my_data, my_lock, calls, signals, produced, consumed>>

\* schedule(): one that was woken since it queued does not sleep.
Sleep(p) == IF Contains(my_wq, p) THEN "asleep" ELSE "prepare"
Schedule(p) ==
    /\ proc[p].pc = "schedule"
    /\ MoveTo(p, Sleep(p))
    /\ UNCHANGED <<my_data, my_lock, my_wq, calls, signals, produced, consumed>>

\* A signal ends an interruptible sleep; the call returns if there is no data.
Interrupt(p) ==
    /\ proc[p].pc = "asleep" /\ proc[p].cmd \in Interruptible /\ signals < MaxSignals
    /\ signals' = signals + 1
    /\ LeaveQueue(p)
    /\ MoveTo(p, IF my_data > 0 THEN "lock" ELSE "out")
    /\ UNCHANGED <<my_data, my_lock, calls, produced, consumed>>

\* The time is up: the result 0 is not an error, and the call goes on.
TimeOut(p) ==
    /\ proc[p].pc = "asleep" /\ proc[p].cmd \in Timed
    /\ LeaveQueue(p)
    /\ MoveTo(p, "lock")
    /\ UNCHANGED <<my_data, my_lock, calls, signals, produced, consumed>>

(***************************************************************************)
(* The locked update and the wake-up                                       *)
(***************************************************************************)
LockFreeAny == TRUE                         \* mutant: spin_lock dropped
LockFree == my_lock = NoProc
Lock(p) ==
    /\ proc[p].pc = "lock" /\ LockFree
    /\ my_lock' = p
    /\ proc' = [proc EXCEPT ![p].pc = "store", ![p].val = my_data]
    /\ UNCHANGED <<my_data, my_wq, calls, signals, produced, consumed>>

SilentAfter(p) == "out"                     \* mutant: wake_up dropped
AfterProducing(p) == "wake"
Store(p) ==
    /\ proc[p].pc = "store"
    /\ my_lock' = NoProc
    /\ IF proc[p].cmd \in Producing
       THEN /\ my_data' = proc[p].val + proc[p].arg
            /\ produced' = produced + proc[p].arg
            /\ MoveTo(p, AfterProducing(p))
            /\ UNCHANGED consumed
       ELSE /\ my_data' = proc[p].val - 1
            /\ consumed' = consumed + 1
            /\ MoveTo(p, "out")
            /\ UNCHANGED produced
    /\ UNCHANGED <<my_wq, calls, signals>>

\* wake_up wakes from the front up to the first exclusive sleeper, wake_up_all all.
FirstExclusive == SelectInSeq(my_wq, Exclusive)
WokenCount(p) ==
    IF proc[p].cmd = "WQ_WAKE_UP_ALL" \/ FirstExclusive = 0 THEN Len(my_wq) ELSE FirstExclusive
Woken(p) == {my_wq[j] : j \in 1..WokenCount(p)}
Wake(p) ==
    /\ proc[p].pc = "wake"
    /\ my_wq' = SubSeq(my_wq, WokenCount(p) + 1, Len(my_wq))
    /\ proc' = [x \in Procs |->
         IF x = p THEN [proc[x] EXCEPT !.pc = "out"]
         ELSE IF x \in Woken(p) /\ proc[x].pc = "asleep" THEN [proc[x] EXCEPT !.pc = "prepare"]
         ELSE proc[x]]
    /\ UNCHANGED <<my_data, my_lock, calls, signals, produced, consumed>>

BlockStep(p) == Prepare(p) \/ Recheck(p) \/ Schedule(p) \/ Lock(p) \/ Store(p) \/ Wake(p)

\* commands are those of the driver.
BlockNext(commands) ==
    \E p \in Procs :
        \/ \E cmd \in commands : \E arg \in IF cmd \in Producing THEN Amounts ELSE {0} :
             Call(p, cmd, arg)
        \/ BlockStep(p) \/ Interrupt(p) \/ TimeOut(p)

BlockSpec(commands) == BlockInit /\ [][BlockNext(commands)]_blockVars

(***************************************************************************)
(* Properties                                                              *)
(***************************************************************************)
\* The wait queue holds exactly the sleepers and those about to sleep, the
\* exclusive ones behind all others.
WaitQueueOK ==
    /\ IsInjective(my_wq)
    /\ \A p \in Procs : proc[p].pc = "asleep" => Contains(my_wq, p)
    /\ \A p \in ToSet(my_wq) : proc[p].pc \in {"recheck", "schedule", "asleep"}
    /\ \A j, l \in DOMAIN my_wq : j < l /\ Exclusive(my_wq[j]) => Exclusive(my_wq[l])

\* No update of my_data is lost: it is what was produced less what was consumed.
Balance == my_data = produced - consumed

\* A sleeper that is not exclusive sleeps over data only while the producer that
\* made it has yet to wake it.
BlockNoLostWakeup ==
    my_data > 0 => \A p \in Procs :
        proc[p].pc = "asleep" /\ ~Exclusive(p) =>
            \E x \in Procs : proc[x].pc = "wake"
\* A sleeper for whom there is data.
OwedData(p) == proc[p].pc = "asleep" /\ ~Exclusive(p) /\ my_data > 0
=============================================================================
