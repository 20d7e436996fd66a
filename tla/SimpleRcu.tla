----------------------------- MODULE SimpleRcu -----------------------------
(***************************************************************************)
(* lab8/rcu/simple_rcu.c: one cell behind an RCU-protected pointer.  A     *)
(* reader uses the cell twice, half a second apart, inside one read-side   *)
(* section; a writer replaces the cell under a spinlock taken with         *)
(* interrupts off, waits for a grace period and frees the old cell before  *)
(* it gives the lock back.                                                 *)
(*                                                                         *)
(* Every process runs on a processor of its own.  A grace period waits     *)
(* until each processor has been seen outside a read-side section; one     *)
(* that spins with interrupts off is not seen.                             *)
(***************************************************************************)
EXTENDS Integers

CONSTANTS
    Readers, Writers,   \* processes that issue IOCTL_READ, IOCTL_WRITE
    MaxWrites           \* bound on the number of writes

VARIABLES
    my_data,     \* the protected pointer, NULL after unload
    live,        \* cells allocated and not freed
    fresh,       \* the next cell: a cell is never reused, so a stale pointer shows
    lock,        \* the writer that holds my_lock
    proc,        \* per process: pc and the pointer it loaded (old)
    holdouts,    \* processors the grace period in progress waits for
    loaded       \* the module is loaded

rcuVars == <<my_data, live, fresh, lock, proc, holdouts, loaded>>

NULL == 0
NoProc == "nobody"
Procs == Readers \cup Writers

RcuInit ==
    /\ my_data = 1 /\ live = {1} /\ fresh = 2
    /\ lock = NoProc
    /\ proc = [p \in Procs |-> [pc |-> "out", old |-> NULL]]
    /\ holdouts = {}
    /\ loaded = TRUE

MoveTo(p, pc) == proc' = [proc EXCEPT ![p].pc = pc]

(***************************************************************************)
(* IOCTL_READ                                                              *)
(***************************************************************************)
InReadSection(p) == proc[p].pc \in {"deref", "use", "use_again"}
ReadLock(r) ==
    /\ loaded /\ proc[r].pc = "out"
    /\ MoveTo(r, "deref")
    /\ UNCHANGED <<my_data, live, fresh, lock, holdouts, loaded>>

Dereference(r) ==
    /\ proc[r].pc = "deref"
    /\ proc' = [proc EXCEPT ![r] = [pc |-> "use", old |-> my_data]]
    /\ UNCHANGED <<my_data, live, fresh, lock, holdouts, loaded>>

\* The second use comes after mdelay(500), then the section ends.
UseAgain(r) ==
    /\ proc[r].pc = "use"
    /\ MoveTo(r, "use_again")
    /\ UNCHANGED <<my_data, live, fresh, lock, holdouts, loaded>>

ReadUnlock(r) ==
    /\ proc[r].pc = "use_again"
    /\ MoveTo(r, "out")
    /\ UNCHANGED <<my_data, live, fresh, lock, holdouts, loaded>>

(***************************************************************************)
(* IOCTL_WRITE                                                             *)
(***************************************************************************)
Spinning(p) == proc[p].pc = "spin"
WriteCall(w) ==
    /\ loaded /\ proc[w].pc = "out" /\ fresh <= MaxWrites + 1
    /\ MoveTo(w, "spin")
    /\ UNCHANGED <<my_data, live, fresh, lock, holdouts, loaded>>

LockFreeAny == TRUE                         \* mutant: spin_lock_irqsave dropped
LockFree == lock = NoProc
WriteLock(w) ==
    /\ Spinning(w) /\ LockFree
    /\ lock' = w
    /\ MoveTo(w, "replace")
    /\ UNCHANGED <<my_data, live, fresh, holdouts, loaded>>

\* kmalloc, rcu_dereference of the old cell, rcu_assign_pointer.
Replace(w) ==
    /\ proc[w].pc = "replace"
    /\ my_data' = fresh /\ live' = live \cup {fresh} /\ fresh' = fresh + 1
    /\ proc' = [proc EXCEPT ![w] = [pc |-> "sync", old |-> my_data]]
    /\ UNCHANGED <<lock, holdouts, loaded>>

\* synchronize_rcu: the writer itself sleeps, which is a quiescent state.
WaitedFor(w) == Procs \ {w}
Synchronize(w) ==
    /\ proc[w].pc = "sync"
    /\ holdouts' = WaitedFor(w)
    /\ MoveTo(w, "grace")
    /\ UNCHANGED <<my_data, live, fresh, lock, loaded>>

\* A processor is seen by the tick or by a context switch.
Quiescent(p) ==
    /\ p \in holdouts /\ ~InReadSection(p) /\ ~Spinning(p)
    /\ holdouts' = holdouts \ {p}
    /\ UNCHANGED <<my_data, live, fresh, lock, proc, loaded>>

FreedNone(w) == {}                          \* mutant: kfree(old) dropped
Freed(w) == {proc[w].old}
Free(w) ==
    /\ proc[w].pc = "grace" /\ holdouts = {}
    /\ live' = live \ Freed(w)
    /\ lock' = NoProc
    /\ proc' = [proc EXCEPT ![w] = [pc |-> "out", old |-> NULL]]
    /\ UNCHANGED <<my_data, fresh, holdouts, loaded>>

\* simple_rcu_exit.  The file operations have no owner, so nothing but the user
\* keeps the module from being unloaded during a call; that case has no outcome
\* to model, since the code of the call is gone.
Unload ==
    /\ loaded /\ \A p \in Procs : proc[p].pc = "out"
    /\ loaded' = FALSE
    /\ live' = live \ {my_data} /\ my_data' = NULL
    /\ UNCHANGED <<fresh, lock, proc, holdouts>>

ReaderStep(r) == Dereference(r) \/ UseAgain(r) \/ ReadUnlock(r)
WriterStep(w) == WriteLock(w) \/ Replace(w) \/ Synchronize(w) \/ Free(w)

RcuNext ==
    \/ \E r \in Readers : ReadLock(r) \/ ReaderStep(r)
    \/ \E w \in Writers : WriteCall(w) \/ WriterStep(w)
    \/ \E p \in Procs : Quiescent(p)
    \/ Unload

\* Every processor runs.  RCU looks at every processor again and again, and sees
\* one that reads in a loop between its calls: strong fairness.  A processor that
\* was seen is not waited for again, so a grace period ends unless one is never seen.
RcuSpec ==
    /\ RcuInit /\ [][RcuNext]_rcuVars
    /\ \A r \in Readers : WF_rcuVars(ReaderStep(r))
    /\ \A w \in Writers : WF_rcuVars(WriterStep(w))
    /\ SF_rcuVars(\E p \in Procs : Quiescent(p))

(***************************************************************************)
(* Properties                                                              *)
(***************************************************************************)
\* Types; a writer past the lock holds it, so the pointer has one writer.
RcuTypeOK ==
    /\ live \subseteq 1..fresh-1 /\ holdouts \subseteq Procs
    /\ \A p \in Procs : proc[p].pc \in {"out", "deref", "use", "use_again", "spin",
                                        "replace", "sync", "grace"}
    /\ \A w \in Writers : proc[w].pc \in {"replace", "sync", "grace"} <=> lock = w

\* The cell a reader uses, after any delay, is not freed under it, and the cell
\* that the pointer leads to is never a freed one.
RcuNoUseAfterFree ==
    /\ \A r \in Readers : proc[r].pc \in {"use", "use_again"} => proc[r].old \in live
    /\ loaded => my_data \in live

\* A writer waits for a grace period, or frees what it replaced; another spins for
\* the lock with interrupts off.
Replacing(w) == proc[w].pc \in {"sync", "grace"}
LockedOut == \E w \in Writers : Spinning(w)

\* No cell leaks: besides the current one only the cell a writer is replacing is
\* allocated, and none after the module is unloaded.
RcuNoLeak ==
    /\ loaded => live = {my_data} \cup {proc[w].old : w \in {v \in Writers :
                                                      proc[v].pc \in {"sync", "grace"}}}
    /\ ~loaded => live = {}
=============================================================================
