---------------------------- MODULE SimpleSpin -----------------------------
(***************************************************************************)
(* The mailbox of lab3/ex2/simple_spin.c: one buffer, kern_buf, that       *)
(* writers overwrite and readers copy and clear, under my_lock.  The       *)
(* buffer is a structure, so a copy is made of two halves, len and str.    *)
(***************************************************************************)
EXTENDS Integers, Sequences

CONSTANTS
    Procs,      \* processes with the device open
    MaxCalls    \* bound on the number of calls

VARIABLES
    kern_buf,   \* the number of the write that each half is from, 0 when cleared
    lock, calls,
    proc,       \* per process: pc and user_buf
    got         \* history: what each read returned

spinVars == <<kern_buf, lock, calls, proc, got>>

NoProc == "nobody"
Cleared == [len |-> 0, str |-> 0]
MoveTo(p, pc) == proc' = [proc EXCEPT ![p].pc = pc]

SpinInit ==
    /\ kern_buf = Cleared /\ lock = NoProc /\ calls = 0
    /\ proc = [p \in Procs |-> [pc |-> "out", buf |-> Cleared]]
    /\ got = <<>>

WriteCall(p) ==
    /\ proc[p].pc = "out" /\ calls < MaxCalls
    /\ calls' = calls + 1
    /\ proc' = [proc EXCEPT ![p] =
         [pc |-> "write_lock", buf |-> [len |-> calls + 1, str |-> calls + 1]]]
    /\ UNCHANGED <<kern_buf, lock, got>>

\* simple_spin_read waits first, then asks for the lock.
ReadCall(p) ==
    /\ proc[p].pc = "out" /\ calls < MaxCalls
    /\ calls' = calls + 1
    /\ proc' = [proc EXCEPT ![p] = [pc |-> "read_lock", buf |-> Cleared]]
    /\ UNCHANGED <<kern_buf, lock, got>>

LockFree == lock = NoProc
Lock(p) ==
    /\ proc[p].pc \in {"write_lock", "read_lock"} /\ LockFree
    /\ lock' = p
    /\ MoveTo(p, IF proc[p].pc = "write_lock" THEN "write_len" ELSE "read_len")
    /\ UNCHANGED <<kern_buf, calls, got>>

WriteLen(p) ==
    /\ proc[p].pc = "write_len"
    /\ kern_buf' = [kern_buf EXCEPT !.len = proc[p].buf.len]
    /\ MoveTo(p, "write_str")
    /\ UNCHANGED <<lock, calls, got>>

WriteStr(p) ==
    /\ proc[p].pc = "write_str"
    /\ kern_buf' = [kern_buf EXCEPT !.str = proc[p].buf.str]
    /\ lock' = NoProc
    /\ MoveTo(p, "out")
    /\ UNCHANGED <<calls, got>>

ReadLen(p) ==
    /\ proc[p].pc = "read_len"
    /\ proc' = [proc EXCEPT ![p] = [pc |-> "read_str", buf |-> [@.buf EXCEPT !.len = kern_buf.len]]]
    /\ UNCHANGED <<kern_buf, lock, calls, got>>

ReadStr(p) ==
    /\ proc[p].pc = "read_str"
    /\ proc' = [proc EXCEPT ![p] = [pc |-> "clear", buf |-> [@.buf EXCEPT !.str = kern_buf.str]]]
    /\ UNCHANGED <<kern_buf, lock, calls, got>>

\* memset, then the unlock.
Clear(p) ==
    /\ proc[p].pc = "clear"
    /\ kern_buf' = Cleared
    /\ got' = Append(got, proc[p].buf)
    /\ lock' = NoProc
    /\ MoveTo(p, "out")
    /\ UNCHANGED calls

SpinStep(p) ==
    Lock(p) \/ WriteLen(p) \/ WriteStr(p) \/ ReadLen(p) \/ ReadStr(p) \/ Clear(p)
SpinNext == \E p \in Procs : WriteCall(p) \/ ReadCall(p) \/ SpinStep(p)

SpinSpec == SpinInit /\ [][SpinNext]_spinVars

(***************************************************************************)
(* Properties                                                              *)
(***************************************************************************)
\* A read returns one whole message or none, never halves of two, and no message
\* is read twice or still in the buffer once it was read.
MailWhole ==
    /\ \A i \in DOMAIN got : got[i].len = got[i].str
    /\ \A i, j \in DOMAIN got : got[i] = got[j] /\ got[i] # Cleared => i = j
    /\ \A i \in DOMAIN got : got[i] # Cleared => kern_buf # got[i]
=============================================================================
