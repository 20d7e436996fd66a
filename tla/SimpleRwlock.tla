---------------------------- MODULE SimpleRwlock ----------------------------
(***************************************************************************)
(* lab8/rwlock/simple_rwlock.c: one cell behind a reader-writer spinlock.  *)
(* A reader uses the cell twice, half a second apart, under the read lock; *)
(* a writer replaces the cell and frees the old one under the write lock.  *)
(***************************************************************************)
EXTENDS Integers, FiniteSets

CONSTANTS
    Readers, Writers,   \* processes that issue IOCTL_READ, IOCTL_WRITE
    MaxWrites           \* bound on the number of writes

VARIABLES
    my_data,     \* the pointer; unload frees the cell and leaves it dangling
    live,        \* cells allocated and not freed
    fresh,       \* the next cell: a cell is never reused, so a stale pointer shows
    holders,     \* processes that hold my_lock
    proc,        \* per process: pc and the pointer it loaded (old)
    loaded       \* the module is loaded

rwVars == <<my_data, live, fresh, holders, proc, loaded>>

NULL == 0
Procs == Readers \cup Writers

RwInit ==
    /\ my_data = 1 /\ live = {1} /\ fresh = 2
    /\ holders = {}
    /\ proc = [p \in Procs |-> [pc |-> "out", old |-> NULL]]
    /\ loaded = TRUE

MoveTo(p, pc) == proc' = [proc EXCEPT ![p].pc = pc]

(***************************************************************************)
(* IOCTL_READ                                                              *)
(***************************************************************************)
Call(p) ==
    /\ loaded /\ proc[p].pc = "out"
    /\ p \in Writers => fresh <= MaxWrites + 1
    /\ MoveTo(p, "lock")
    /\ UNCHANGED <<my_data, live, fresh, holders, loaded>>

ReadLock(r) ==
    /\ proc[r].pc = "lock" /\ holders \cap Writers = {}
    /\ holders' = holders \cup {r}
    /\ MoveTo(r, "load")
    /\ UNCHANGED <<my_data, live, fresh, loaded>>

Load(r) ==
    /\ proc[r].pc = "load"
    /\ proc' = [proc EXCEPT ![r] = [pc |-> "use", old |-> my_data]]
    /\ UNCHANGED <<my_data, live, fresh, holders, loaded>>

UseAgain(r) ==
    /\ proc[r].pc = "use"
    /\ MoveTo(r, "use_again")
    /\ UNCHANGED <<my_data, live, fresh, holders, loaded>>

ReadUnlock(r) ==
    /\ proc[r].pc = "use_again"
    /\ holders' = holders \ {r}
    /\ MoveTo(r, "out")
    /\ UNCHANGED <<my_data, live, fresh, loaded>>

(***************************************************************************)
(* IOCTL_WRITE                                                             *)
(***************************************************************************)
WriteMayEnterAny == TRUE                    \* mutant: write_lock dropped
WriteMayEnter == holders = {}
WriteLock(w) ==
    /\ proc[w].pc = "lock" /\ WriteMayEnter
    /\ holders' = holders \cup {w}
    /\ MoveTo(w, "replace")
    /\ UNCHANGED <<my_data, live, fresh, loaded>>

Replace(w) ==
    /\ proc[w].pc = "replace"
    /\ my_data' = fresh /\ live' = live \cup {fresh} /\ fresh' = fresh + 1
    /\ proc' = [proc EXCEPT ![w] = [pc |-> "free", old |-> my_data]]
    /\ UNCHANGED <<holders, loaded>>

Unlocked(w) == holders \ {w}
Free(w) ==
    /\ proc[w].pc = "free"
    /\ live' = live \ {proc[w].old}
    /\ holders' = Unlocked(w)
    /\ MoveTo(w, "out")
    /\ UNCHANGED <<my_data, fresh, loaded>>

\* simple_rcu_exit (the name it has here too), with no call in progress.
Unload ==
    /\ loaded /\ \A p \in Procs : proc[p].pc = "out"
    /\ loaded' = FALSE
    /\ live' = live \ {my_data}
    /\ UNCHANGED <<my_data, fresh, holders, proc>>

ReaderStep(r) == ReadLock(r) \/ Load(r) \/ UseAgain(r) \/ ReadUnlock(r)
WriterStep(w) == WriteLock(w) \/ Replace(w) \/ Free(w)

RwNext ==
    \/ \E p \in Procs : Call(p)
    \/ \E r \in Readers : ReaderStep(r)
    \/ \E w \in Writers : WriterStep(w)
    \/ Unload

RwSpec == RwInit /\ [][RwNext]_rwVars

(***************************************************************************)
(* Properties                                                              *)
(***************************************************************************)
\* The cell a reader uses, after any delay, is not freed under it, and the cell
\* that the pointer leads to is never a freed one.
RwNoUseAfterFree ==
    /\ \A r \in Readers : proc[r].pc \in {"use", "use_again"} => proc[r].old \in live
    /\ loaded => my_data \in live

\* A process is counted in the lock exactly while it is in its section, and a
\* reader still reads the current cell when it leaves: unlike under RCU no value
\* is replaced during a read.
RwCurrent ==
    /\ holders = {p \in Procs : proc[p].pc \in {"load", "use", "use_again", "replace", "free"}}
    /\ \A r \in Readers : proc[r].pc \in {"use", "use_again"} => proc[r].old = my_data
=============================================================================
