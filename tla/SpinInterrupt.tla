--------------------------- MODULE SpinInterrupt ---------------------------
(***************************************************************************)
(* lab7/spinlock_interrupt/spin_interrupt.c: a sensor's interrupt appends  *)
(* the time to a list while the device is open; closing it prints the list *)
(* and disables the interrupt, unloading frees the list.                   *)
(*                                                                         *)
(* The handler runs on a processor of its own or on that of a process,     *)
(* which then stands still; a processor with interrupts off takes none.    *)
(* A node of the list is the number of its interrupt.                      *)
(***************************************************************************)
EXTENDS Integers, Sequences, SequencesExt

CONSTANTS
    Procs,      \* processes that open and close the device
    MaxOpens,   \* bound on the number of opens
    MaxEdges    \* bound on the number of interrupts

VARIABLES
    times,      \* the list behind time_list_head
    lock,       \* who holds spinlock
    live,       \* nodes allocated and not freed
    loaded, calls,
    depth,      \* of disable_irq; 0 is enabled
    isr,        \* the handler: pc, its node, and where it runs
    edges,
    proc,       \* per process: pc and pos, its place in the list
    shared      \* history: two processes had the device open at once

intVars == <<times, lock, live, loaded, calls, depth, isr, edges, proc, shared>>

NoProc == "nobody"
Elsewhere == "elsewhere"

\* request_irq, then disable_irq.
IntInit ==
    /\ times = <<>> /\ lock = NoProc /\ live = {}
    /\ loaded = TRUE /\ calls = 0 /\ depth = 1
    /\ isr = [pc |-> "idle", node |-> 0, on |-> Elsewhere] /\ edges = 0
    /\ proc = [p \in Procs |-> [pc |-> "out", pos |-> 0]]
    /\ shared = FALSE

MoveTo(p, pc) == proc' = [proc EXCEPT ![p].pc = pc]
Interrupted(p) == isr.pc # "idle" /\ isr.on = p
At(p, pc) == proc[p].pc = pc /\ ~Interrupted(p)
AllClosed == \A p \in Procs : proc[p].pc = "out"

\* spin_lock_irqsave turns interrupts off before it spins.
InterruptsStayOn(p) == FALSE                    \* mutant: spin_lock for spin_lock_irqsave
InterruptsOff(p) == proc[p].pc \in {"lock", "walk"}
LockFree == lock = NoProc

\* spin_interrupt_open; an enable that nothing disabled only warns.
Open(p) ==
    /\ loaded /\ At(p, "out") /\ calls < MaxOpens
    /\ calls' = calls + 1
    /\ depth' = IF depth = 0 THEN 0 ELSE depth - 1
    /\ shared' = (shared \/ ~AllClosed)
    /\ MoveTo(p, "open")
    /\ UNCHANGED <<times, lock, live, loaded, isr, edges>>

(***************************************************************************)
(* spin_interrupt_release                                                  *)
(***************************************************************************)
\* The test for an empty list is outside the lock.
Release(p) ==
    /\ At(p, "open")
    /\ proc' = [proc EXCEPT ![p] = [pc |-> IF times = <<>> THEN "disable" ELSE "lock", pos |-> 0]]
    /\ UNCHANGED <<times, lock, live, loaded, calls, depth, isr, edges, shared>>

ReleaseLock(p) ==
    /\ At(p, "lock") /\ LockFree
    /\ lock' = p
    /\ MoveTo(p, "walk")
    /\ UNCHANGED <<times, live, loaded, calls, depth, isr, edges, shared>>

ShowOne(p) ==
    /\ At(p, "walk") /\ proc[p].pos < Len(times)
    /\ proc' = [proc EXCEPT ![p].pos = @ + 1]
    /\ UNCHANGED <<times, lock, live, loaded, calls, depth, isr, edges, shared>>

EndOfList(p) ==
    /\ At(p, "walk") /\ proc[p].pos = Len(times)
    /\ lock' = NoProc
    /\ MoveTo(p, "disable")
    /\ UNCHANGED <<times, live, loaded, calls, depth, isr, edges, shared>>

Disable(p) ==
    /\ At(p, "disable")
    /\ depth' = depth + 1
    /\ MoveTo(p, "wait")
    /\ UNCHANGED <<times, lock, live, loaded, calls, isr, edges, shared>>

\* disable_irq waits for a handler that is running.
HandlerIsRunning == isr.pc # "idle"
HandlerLeftRunning == TRUE                     \* mutant: disable_irq_nosync for disable_irq
HandlerEnded == ~HandlerIsRunning
Wait(p) ==
    /\ At(p, "wait") /\ HandlerEnded
    /\ MoveTo(p, "out")
    /\ UNCHANGED <<times, lock, live, loaded, calls, depth, isr, edges, shared>>

(***************************************************************************)
(* spin_interrupt_isr                                                      *)
(***************************************************************************)
Edge(c) ==
    /\ loaded /\ depth = 0 /\ ~HandlerIsRunning /\ edges < MaxEdges
    /\ c \in Procs => ~InterruptsOff(c)
    /\ edges' = edges + 1
    /\ live' = live \cup {edges + 1}
    /\ isr' = [pc |-> "lock", node |-> edges + 1, on |-> c]
    /\ UNCHANGED <<times, lock, loaded, calls, depth, proc, shared>>

IsrLock ==
    /\ isr.pc = "lock" /\ LockFree
    /\ lock' = "isr"
    /\ isr' = [isr EXCEPT !.pc = "add"]
    /\ UNCHANGED <<times, live, loaded, calls, depth, edges, proc, shared>>

IsrAdd ==
    /\ isr.pc = "add"
    /\ times' = Append(times, isr.node)
    /\ lock' = NoProc
    /\ isr' = [isr EXCEPT !.pc = "idle"]
    /\ UNCHANGED <<live, loaded, calls, depth, edges, proc, shared>>

\* spin_interrupt_exit, with the device closed: free_irq waits for the handler.
Unload ==
    /\ loaded /\ AllClosed /\ ~HandlerIsRunning
    /\ loaded' = FALSE
    /\ live' = live \ ToSet(times)
    /\ times' = <<>>
    /\ UNCHANGED <<lock, calls, depth, isr, edges, proc, shared>>

IsrStep == IsrLock \/ IsrAdd
IntStep(p) == ReleaseLock(p) \/ ShowOne(p) \/ EndOfList(p) \/ Disable(p) \/ Wait(p)
IntNext ==
    \/ Unload \/ IsrStep
    \/ \E c \in Procs \cup {Elsewhere} : Edge(c)
    \/ \E p \in Procs : Open(p) \/ Release(p) \/ IntStep(p)

IntSpec == IntInit /\ [][IntNext]_intVars

(***************************************************************************)
(* Properties                                                              *)
(***************************************************************************)
\* When everybody has closed the device the interrupt is disabled and no handler
\* runs, however many had it open; and it is enabled for one that has it open
\* until the close disables it, as long as two never had it open at once.
SensorFollowsOpen ==
    /\ AllClosed => depth > 0 /\ isr.pc = "idle"
    /\ ~shared => \A p \in Procs :
         proc[p].pc \in {"open", "lock", "walk", "disable"} => depth = 0

\* What is allocated is in the list or in the handler's hands; unloading frees it.
IntNoLeak == live = ToSet(times) \cup (IF isr.pc = "idle" THEN {} ELSE {isr.node})
=============================================================================
