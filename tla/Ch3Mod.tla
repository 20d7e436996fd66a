------------------------------- MODULE Ch3Mod -------------------------------
(***************************************************************************)
(* The message list of lab3/test/ch3_mod_201811244.c: writers append a     *)
(* message, readers take the first one or get an empty message, both under *)
(* msg_list_lock.  A message is the number of the call that wrote it.      *)
(***************************************************************************)
EXTENDS Integers, Sequences, SequencesExt

CONSTANTS
    Procs,      \* processes with the device open
    MaxCalls    \* bound on the number of calls

VARIABLES
    msgs,       \* the list behind msg_list_head
    lock,       \* who holds msg_list_lock
    live,       \* messages allocated and not freed
    loaded, calls,
    proc,       \* per process: pc and tmp, the message it allocated or found
    sent, got   \* history: messages in the order of list_add_tail, of copy_to_user

ch3Vars == <<msgs, lock, live, loaded, calls, proc, sent, got>>

NoProc == "nobody"
MoveTo(p, pc) == proc' = [proc EXCEPT ![p].pc = pc]

Ch3Init ==
    /\ msgs = <<>> /\ lock = NoProc /\ live = {}
    /\ loaded = TRUE /\ calls = 0
    /\ proc = [p \in Procs |-> [pc |-> "out", tmp |-> 0]]
    /\ sent = <<>> /\ got = <<>>

LockFreeAny == TRUE                             \* mutant: spin_lock dropped
LockFree == lock = NoProc

\* ch3_msg_write: kmalloc is outside the lock.
WriteCall(p) ==
    /\ loaded /\ proc[p].pc = "out" /\ calls < MaxCalls
    /\ calls' = calls + 1
    /\ live' = live \cup {calls + 1}
    /\ proc' = [proc EXCEPT ![p] = [pc |-> "write_lock", tmp |-> calls + 1]]
    /\ UNCHANGED <<msgs, lock, loaded, sent, got>>

WriteLock(p) ==
    /\ proc[p].pc = "write_lock" /\ LockFree
    /\ lock' = p
    /\ MoveTo(p, "add")
    /\ UNCHANGED <<msgs, live, loaded, calls, sent, got>>

Add(p) ==
    /\ proc[p].pc = "add"
    /\ msgs' = Append(msgs, proc[p].tmp)
    /\ sent' = Append(sent, proc[p].tmp)
    /\ lock' = NoProc
    /\ MoveTo(p, "out")
    /\ UNCHANGED <<live, loaded, calls, got>>

\* ch3_msg_read: the delay comes before the lock.
ReadCall(p) ==
    /\ loaded /\ proc[p].pc = "out" /\ calls < MaxCalls
    /\ calls' = calls + 1
    /\ MoveTo(p, "read_lock")
    /\ UNCHANGED <<msgs, lock, live, loaded, sent, got>>

ReadLock(p) ==
    /\ proc[p].pc = "read_lock" /\ LockFree
    /\ lock' = p
    /\ MoveTo(p, "first")
    /\ UNCHANGED <<msgs, live, loaded, calls, sent, got>>

ReadEmpty(p) ==
    /\ proc[p].pc = "first" /\ msgs = <<>>
    /\ lock' = NoProc
    /\ MoveTo(p, "out")
    /\ UNCHANGED <<msgs, live, loaded, calls, sent, got>>

CopyFirst(p) ==
    /\ proc[p].pc = "first" /\ msgs # <<>>
    /\ proc' = [proc EXCEPT ![p] = [pc |-> "delete", tmp |-> Head(msgs)]]
    /\ got' = Append(got, Head(msgs))
    /\ UNCHANGED <<msgs, lock, live, loaded, calls, sent>>

Delete(p) ==
    /\ proc[p].pc = "delete"
    /\ msgs' = RemoveFirst(msgs, proc[p].tmp)
    /\ live' = live \ {proc[p].tmp}
    /\ lock' = NoProc
    /\ MoveTo(p, "out")
    /\ UNCHANGED <<loaded, calls, sent, got>>

\* ch3_exit, with no call in progress, frees what nobody read.
Unload ==
    /\ loaded /\ \A p \in Procs : proc[p].pc = "out"
    /\ loaded' = FALSE
    /\ live' = live \ ToSet(msgs)
    /\ msgs' = <<>>
    /\ UNCHANGED <<lock, calls, proc, sent, got>>

Ch3Step(p) ==
    WriteLock(p) \/ Add(p) \/ ReadLock(p) \/ ReadEmpty(p) \/ CopyFirst(p) \/ Delete(p)
Ch3Next == Unload \/ \E p \in Procs : WriteCall(p) \/ ReadCall(p) \/ Ch3Step(p)

Ch3Spec == Ch3Init /\ [][Ch3Next]_ch3Vars

(***************************************************************************)
(* Properties                                                              *)
(***************************************************************************)
Holding(pcs) == {proc[p].tmp : p \in {q \in Procs : proc[q].pc \in pcs}}

\* Every message is read once, in the order in which it was written, or is
\* still in the list, behind what a reader has copied and not yet deleted,
\* whatever readers and writers run at once.
MessagesOnce ==
    loaded => \E n \in 0..Len(msgs) :
        /\ ToSet(SubSeq(msgs, 1, n)) = Holding({"delete"})
        /\ sent = got \o SubSeq(msgs, n + 1, Len(msgs))

\* What is allocated is in the list or about to be; unloading frees the rest.
Ch3NoLeak == live = ToSet(msgs) \cup Holding({"write_lock", "add"})
=============================================================================
