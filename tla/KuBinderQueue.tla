--------------------------- MODULE KuBinderQueue ---------------------------
(***************************************************************************)
(* The request queues of the ku_binder driver: ku_binder_rpc appends to    *)
(* the list of a service under its spinlock and wakes one reader,          *)
(* ku_binder_read sleeps while the list is empty and then takes the first  *)
(* entry under the same lock.  The sleep is                                *)
(* wait_event_interruptible_exclusive: it is outside the lock and its      *)
(* return value is ignored, so a signal sends the reader on to the list.   *)
(***************************************************************************)
EXTENDS Integers, Sequences, FiniteSets, SequencesExt

CONSTANTS
    Readers,     \* processes inside BINDER_READ
    Senders,     \* processes inside BINDER_RPC
    Snums,       \* service numbers in use
    ServedBy,    \* per reader, the service numbers it reads
    MaxSends,    \* how many requests one sender makes
    MaxSignals   \* how many signals reach sleeping readers

NoProc == "nobody"   \* no process: the lock is free

ASSUME QueueAssumption ==
    /\ IsFiniteSet(Readers) /\ IsFiniteSet(Senders) /\ NoProc \notin Senders
    /\ MaxSends \in Nat /\ MaxSignals \in Nat
    /\ ServedBy \in [Readers -> SUBSET Snums]

VARIABLES
    rpc_list,    \* per service, the queued requests
    wqueue,      \* per service, the exclusive sleepers in order
    lock,        \* per service, the process that holds list_lock
    rd,          \* per reader, the call in progress and its result
    snd,         \* per sender, the call in progress and how many it made
    signals,     \* signals delivered so far
    oops,        \* the driver deleted the list head of an empty list
    accepted,    \* history: requests ever appended, per service
    taken        \* history: requests ever taken, per service

queueVars == <<rpc_list, wqueue, lock, rd, snd, signals, oops, accepted, taken>>

NoMsg == [from |-> NoProc, n |-> 0]
Msg == [from : Senders, n : 1..MaxSends]

QueueInit ==
    /\ rpc_list = [k \in Snums |-> <<>>]
    /\ wqueue = [k \in Snums |-> <<>>]
    /\ lock = [k \in Snums |-> NoProc]
    /\ rd = [r \in Readers |-> [pc |-> "out", snum |-> -1, got |-> NoMsg]]
    /\ snd = [c \in Senders |-> [pc |-> "out", snum |-> -1, n |-> 0]]
    /\ signals = 0 /\ oops = FALSE
    /\ accepted = [k \in Snums |-> <<>>]
    /\ taken = [k \in Snums |-> <<>>]

(***************************************************************************)
(* ku_binder_rpc                                                           *)
(***************************************************************************)
RpcCall(c, k) ==
    /\ ~oops
    /\ snd[c].pc = "out" /\ snd[c].n < MaxSends
    /\ snd' = [snd EXCEPT ![c] = [pc |-> "add", snum |-> k, n |-> snd[c].n + 1]]
    /\ UNCHANGED <<rpc_list, wqueue, lock, rd, signals, oops, accepted, taken>>

Request(c) == [from |-> c, n |-> snd[c].n]
AddFront(q, m) == <<m>> \o q                     \* mutant: list_add
AddTail(q, m) == Append(q, m)
RpcAdd(c) ==
    LET k == snd[c].snum
    IN  /\ ~oops
        /\ snd[c].pc = "add" /\ lock[k] = NoProc
        /\ lock' = [lock EXCEPT ![k] = c]
        /\ rpc_list' = [rpc_list EXCEPT ![k] = AddTail(@, Request(c))]
        /\ accepted' = [accepted EXCEPT ![k] = Append(@, Request(c))]
        /\ snd' = [snd EXCEPT ![c].pc = "wake"]
        /\ UNCHANGED <<wqueue, rd, signals, oops, taken>>

\* wake_up_interruptible: the first exclusive sleeper leaves the wait queue and
\* runs its loop again.  One that has not slept yet only loses its place.
Woken(k) == IF wqueue[k] = <<>> THEN {} ELSE {Head(wqueue[k])}
StillWaiting(q) == IF q = <<>> THEN q ELSE Tail(q)
Restart(r) == [rd[r] EXCEPT !.pc = IF @ = "asleep" THEN "prepare" ELSE @]
RpcWake(c) ==
    LET k == snd[c].snum
    IN  /\ ~oops
        /\ snd[c].pc = "wake"
        /\ rd' = [r \in Readers |-> IF r \in Woken(k) THEN Restart(r) ELSE rd[r]]
        /\ wqueue' = [wqueue EXCEPT ![k] = StillWaiting(@)]
        /\ lock' = [lock EXCEPT ![k] = NoProc]
        /\ snd' = [snd EXCEPT ![c].pc = "out"]
        /\ UNCHANGED <<rpc_list, signals, oops, accepted, taken>>

(***************************************************************************)
(* ku_binder_read                                                          *)
(***************************************************************************)
ReadCall(r, k) ==
    /\ ~oops
    /\ rd[r].pc = "out"
    /\ rd' = [rd EXCEPT ![r].pc = "check", ![r].snum = k]
    /\ UNCHANGED <<rpc_list, wqueue, lock, snd, signals, oops, accepted, taken>>

ListEmpty(r) == rd[r].snum \in Snums => rpc_list[rd[r].snum] = <<>>
MoveReader(r, pc) == rd' = [rd EXCEPT ![r].pc = pc]

\* The test before the sleep loop, without the lock.
ReadCheck(r) ==
    /\ ~oops
    /\ rd[r].pc = "check"
    /\ MoveReader(r, IF ListEmpty(r) THEN "prepare" ELSE "take")
    /\ UNCHANGED <<rpc_list, wqueue, lock, snd, signals, oops, accepted, taken>>

\* prepare_to_wait: join the wait queue at its end, then test again.
ReadPrepare(r) ==
    /\ ~oops
    /\ rd[r].pc = "prepare"
    /\ wqueue' = [wqueue EXCEPT ![rd[r].snum] = Append(@, r)]
    /\ MoveReader(r, "recheck")
    /\ UNCHANGED <<rpc_list, lock, snd, signals, oops, accepted, taken>>

Waiting(r) == \E i \in DOMAIN wqueue[rd[r].snum] : wqueue[rd[r].snum][i] = r
LeaveWait(r) == wqueue' = [wqueue EXCEPT ![rd[r].snum] = RemoveFirst(@, r)]

\* The second test, now that the reader is queued.
RecheckInverted(r) ==                            \* mutant: list_empty for !list_empty
    IF ListEmpty(r) THEN "take" ELSE "schedule"
RecheckBlind(r) == "schedule"                    \* mutant: sleep without the second test
RecheckTo(r) == IF ListEmpty(r) THEN "schedule" ELSE "take"
ReadRecheck(r) ==
    /\ ~oops
    /\ rd[r].pc = "recheck"
    /\ MoveReader(r, RecheckTo(r))
    /\ IF RecheckTo(r) = "take" THEN LeaveWait(r) ELSE UNCHANGED wqueue
    /\ UNCHANGED <<rpc_list, lock, snd, signals, oops, accepted, taken>>

\* schedule(): a reader woken since it queued does not sleep.
ReadSchedule(r) ==
    /\ ~oops
    /\ rd[r].pc = "schedule"
    /\ MoveReader(r, IF Waiting(r) THEN "asleep" ELSE "prepare")
    /\ UNCHANGED <<rpc_list, wqueue, lock, snd, signals, oops, accepted, taken>>

\* A signal ends the wait, before or during the sleep; its code is dropped.
Signal(r) ==
    /\ ~oops
    /\ rd[r].pc \in {"prepare", "recheck", "schedule", "asleep"} /\ signals < MaxSignals
    /\ signals' = signals + 1
    /\ MoveReader(r, "take")
    /\ LeaveWait(r)
    /\ UNCHANGED <<rpc_list, lock, snd, oops, accepted, taken>>

\* The locked section: list_first_entry, copy_to_user, list_del, kfree.  On an
\* empty list the entry is the static list head.
RestKeeps(q) == q                                \* mutant: list_del dropped
Rest(q) == Tail(q)
ReadTake(r) ==
    LET k == rd[r].snum
    IN  /\ ~oops
        /\ rd[r].pc = "take" /\ lock[k] = NoProc
        /\ IF ListEmpty(r)
           THEN /\ oops' = TRUE
                /\ UNCHANGED <<rpc_list, taken, rd>>
           ELSE /\ rpc_list' = [rpc_list EXCEPT ![k] = Rest(@)]
                /\ taken' = [taken EXCEPT ![k] = Append(@, Head(rpc_list[k]))]
                /\ rd' = [rd EXCEPT ![r].pc = "out", ![r].got = Head(rpc_list[k])]
                /\ UNCHANGED oops
        /\ UNCHANGED <<wqueue, lock, snd, signals, accepted>>

RpcStep(c) == RpcAdd(c) \/ RpcWake(c)
ReadStep(r) ==
    ReadCheck(r) \/ ReadPrepare(r) \/ ReadRecheck(r) \/ ReadSchedule(r) \/ ReadTake(r)

QueueNext ==
    \/ \E c \in Senders : (\E k \in Snums : RpcCall(c, k)) \/ RpcStep(c)
    \/ \E r \in Readers : (\E k \in ServedBy[r] : ReadCall(r, k)) \/ ReadStep(r) \/ Signal(r)

\* The kernel runs every runnable process.  The lock is held for one step and
\* the requests are finite, so weak fairness is enough to get it.
QueueSpec == QueueInit /\ [][QueueNext]_queueVars
               /\ \A c \in Senders : WF_queueVars(RpcStep(c))
               /\ \A r \in Readers : WF_queueVars(ReadStep(r))

(***************************************************************************)
(* Properties                                                              *)
(***************************************************************************)
\* The wait queue of a service holds each process that is about to sleep or
\* sleeps on it, once, and no process that left the wait.
QueueTypeOK ==
    /\ rpc_list \in [Snums -> Seq(Msg)] /\ taken \in [Snums -> Seq(Msg)]
    /\ lock \in [Snums -> Senders \cup {NoProc}]
    /\ \A k \in Snums : IsInjective(wqueue[k])
    /\ \A k \in Snums : ToSet(wqueue[k]) \subseteq
         {r \in Readers : rd[r].snum = k /\ rd[r].pc \in {"recheck", "schedule", "asleep"}}

\* Every request is taken once, in the order in which it was accepted, or is
\* still queued: nothing is lost, repeated or overtaken.
Fifo == \A k \in Snums : accepted[k] = taken[k] \o rpc_list[k]

\* "sleep the process if the list is empty" (ku_binder.c:135): a reader that
\* reaches the locked section finds a request there.
NoEmptyTake == ~oops

\* No request waits behind sleeping readers only: when a reader sleeps and the
\* queue is not empty, a wake-up or an awake reader of that queue is under way.
NoLostWakeup ==
    \A k \in Snums, r \in Readers :
        rd[r].pc = "asleep" /\ rd[r].snum = k /\ rpc_list[k] # <<>> =>
            \/ \E c \in Senders : snd[c].pc = "wake" /\ snd[c].snum = k
            \/ \E x \in Readers : rd[x].pc \notin {"out", "asleep"} /\ rd[x].snum = k
=============================================================================
