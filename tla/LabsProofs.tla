----------------------------- MODULE LabsProofs -----------------------------
(***************************************************************************)
(* Proofs about the lab drivers of Labs, each from an inductive invariant  *)
(* of its own: two drivers are never loaded together, so a step of one is  *)
(* no concern of the others.                                               *)
(***************************************************************************)
EXTENDS Labs, TLAPS, FiniteSetTheorems, SequenceTheorems, WellFoundedInduction

(***************************************************************************)
(* lab8/rwlock                                                             *)
(***************************************************************************)
RwReading == {"load", "use", "use_again"}
RwTypes ==
    /\ proc \in [Rw!Procs -> [pc : {"out", "lock", "replace", "free"} \cup RwReading, old : Nat]]
    /\ my_data \in Nat /\ fresh \in Nat /\ my_data < fresh
    /\ live \subseteq 1..fresh-1 /\ loaded \in BOOLEAN
    /\ \A r \in Readers : proc[r].pc \in {"out", "lock"} \cup RwReading
    /\ \A w \in Writers : proc[w].pc \in {"out", "lock", "replace", "free"}
\* A writer in its section is alone; the cell it is about to free is not the
\* current one, and nobody is in a section once the module is unloaded.
RwInv ==
    /\ RwTypes
    /\ Rw!RwCurrent
    /\ \A w \in Writers : w \in holders => holders = {w}
    /\ \A w \in Writers : proc[w].pc = "free" => proc[w].old # my_data
    /\ loaded => my_data \in live
    /\ ~loaded => \A p \in Rw!Procs : proc[p].pc = "out"

LEMMA RwInitInv == Rw!RwInit => RwInv
BY LabsAssumption DEF RwInv, RwTypes, RwReading, Rw!RwInit, Rw!RwCurrent, Rw!Procs, Rw!NULL

LEMMA RwReaderInv ==
    ASSUME RwInv, NEW r \in Readers, Rw!ReaderStep(r)
    PROVE  RwInv'
<1> USE LabsAssumption DEF RwInv, RwTypes, RwReading, Rw!RwCurrent, Rw!Procs, Rw!MoveTo
<1>1. CASE Rw!ReadLock(r)
  BY <1>1 DEF Rw!ReadLock
<1>2. CASE Rw!Load(r)
  BY <1>2 DEF Rw!Load
<1>3. CASE Rw!UseAgain(r)
  BY <1>3 DEF Rw!UseAgain
<1>4. CASE Rw!ReadUnlock(r)
  BY <1>4 DEF Rw!ReadUnlock
<1> QED BY <1>1, <1>2, <1>3, <1>4 DEF Rw!ReaderStep

LEMMA RwWriterInv ==
    ASSUME RwInv, NEW w \in Writers, Rw!WriterStep(w)
    PROVE  RwInv'
<1> USE LabsAssumption DEF RwInv, RwTypes, RwReading, Rw!RwCurrent, Rw!Procs, Rw!MoveTo
<1>1. CASE Rw!WriteLock(w)
  BY <1>1 DEF Rw!WriteLock, Rw!WriteMayEnter
<1>2. CASE Rw!Replace(w)
  BY <1>2 DEF Rw!Replace
<1>3. CASE Rw!Free(w)
  BY <1>3 DEF Rw!Free, Rw!Unlocked
<1> QED BY <1>1, <1>2, <1>3 DEF Rw!WriterStep

LEMMA RwNextInv ==
    ASSUME RwInv, Rw!RwNext
    PROVE  RwInv'
<1> USE LabsAssumption DEF RwInv, RwTypes, RwReading, Rw!RwCurrent, Rw!Procs
<1>1. CASE \E p \in Rw!Procs : Rw!Call(p)
  BY <1>1 DEF Rw!Call, Rw!MoveTo
<1>2. CASE Rw!Unload
  BY <1>2 DEF Rw!Unload
<1> QED BY <1>1, <1>2, RwReaderInv, RwWriterInv DEF Rw!RwNext


LEMMA RwSafe == RwInv => Rw!RwNoUseAfterFree /\ Rw!RwCurrent
BY DEF RwInv, RwTypes, RwReading, Rw!RwNoUseAfterFree, Rw!RwCurrent, Rw!Procs

(***************************************************************************)
(* lab8/rcu                                                                *)
(***************************************************************************)
RcuUsing == {"use", "use_again"}
RcuReplacing == {"replace", "sync", "grace"}
RcuTypes ==
    /\ proc \in [Rcu!Procs -> [pc : {"out", "deref", "spin"} \cup RcuUsing \cup RcuReplacing,
                               old : Nat]]
    /\ my_data \in Nat /\ fresh \in Nat /\ my_data < fresh
    /\ live \subseteq 1..fresh-1 /\ loaded \in BOOLEAN /\ holdouts \subseteq Rcu!Procs
    /\ \A r \in Readers : proc[r].pc \in {"out", "deref"} \cup RcuUsing
    /\ \A w \in Writers : proc[w].pc \in {"out", "spin"} \cup RcuReplacing

\* While a writer waits, every reader that is at the cell it replaced is waited
\* for: it loaded the pointer before the grace period began.
RcuWaitedFor ==
    \A w \in Writers, r \in Readers :
        /\ proc[w].pc = "grace" /\ proc[r].pc \in RcuUsing
        /\ proc[r].old = proc[w].old
        => r \in holdouts
RcuInv ==
    /\ RcuTypes
    /\ \A w \in Writers : proc[w].pc \in RcuReplacing <=> lock = w
    /\ \A w \in Writers : proc[w].pc \in {"sync", "grace"} => proc[w].old # my_data
    /\ \A r \in Readers : proc[r].pc \in RcuUsing => proc[r].old \in live
    /\ RcuWaitedFor
    /\ Rcu!RcuNoLeak
    /\ ~loaded => \A p \in Rcu!Procs : proc[p].pc = "out"

LEMMA RcuInitInv == Rcu!RcuInit => RcuInv
BY LabsAssumption DEF RcuInv, RcuTypes, RcuUsing, RcuReplacing, RcuWaitedFor, Rcu!RcuInit,
   Rcu!RcuNoLeak, Rcu!Procs, Rcu!NULL, Rcu!NoProc

LEMMA RcuReaderInv ==
    ASSUME RcuInv, NEW r \in Readers, Rcu!ReadLock(r) \/ Rcu!ReaderStep(r)
    PROVE  RcuInv'
<1> USE LabsAssumption DEF RcuInv, RcuTypes, RcuUsing, RcuReplacing, RcuWaitedFor,
        Rcu!RcuNoLeak, Rcu!Procs, Rcu!MoveTo
<1>1. CASE Rcu!ReadLock(r)
  BY <1>1 DEF Rcu!ReadLock
<1>2. CASE Rcu!Dereference(r)
  BY <1>2 DEF Rcu!Dereference
<1>3. CASE Rcu!UseAgain(r)
  BY <1>3 DEF Rcu!UseAgain
<1>4. CASE Rcu!ReadUnlock(r)
  BY <1>4 DEF Rcu!ReadUnlock
<1> QED BY <1>1, <1>2, <1>3, <1>4 DEF Rcu!ReaderStep

LEMMA RcuWriterInv ==
    ASSUME RcuInv, NEW w \in Writers, Rcu!WriteCall(w) \/ Rcu!WriterStep(w)
    PROVE  RcuInv'
<1> USE LabsAssumption DEF RcuInv, RcuTypes, RcuUsing, RcuReplacing, RcuWaitedFor,
        Rcu!RcuNoLeak, Rcu!Procs, Rcu!MoveTo, Rcu!NoProc
<1>1. CASE Rcu!WriteCall(w)
  BY <1>1 DEF Rcu!WriteCall
<1>2. CASE Rcu!WriteLock(w)
  BY <1>2 DEF Rcu!WriteLock, Rcu!LockFree, Rcu!Spinning
<1>3. CASE Rcu!Replace(w)
  BY <1>3 DEF Rcu!Replace
<1>4. CASE Rcu!Synchronize(w)
  BY <1>4 DEF Rcu!Synchronize, Rcu!WaitedFor
<1>5. CASE Rcu!Free(w)
  BY <1>5 DEF Rcu!Free, Rcu!Freed, Rcu!NULL
<1> QED BY <1>1, <1>2, <1>3, <1>4, <1>5 DEF Rcu!WriterStep

LEMMA RcuNextInv ==
    ASSUME RcuInv, Rcu!RcuNext
    PROVE  RcuInv'
<1> USE LabsAssumption DEF RcuInv, RcuTypes, RcuUsing, RcuReplacing, RcuWaitedFor,
        Rcu!RcuNoLeak, Rcu!Procs
<1>1. CASE \E p \in Rcu!Procs : Rcu!Quiescent(p)
  BY <1>1 DEF Rcu!Quiescent, Rcu!InReadSection
<1>2. CASE Rcu!Unload
  <2>1. \A p \in Rcu!Procs : proc[p].pc = "out" /\ proc' = proc
    BY <1>2 DEF Rcu!Unload
  <2>2. live' = {}
    <3>1. {v \in Writers : proc[v].pc \in {"sync", "grace"}} = {}
      BY <2>1
    <3>2. live = {my_data}
      BY <1>2, <3>1 DEF Rcu!Unload
    <3> QED BY <1>2, <3>2 DEF Rcu!Unload
  <2>3. Rcu!RcuNoLeak'
    BY <1>2, <2>2 DEF Rcu!Unload
  <2>4. UNCHANGED <<fresh, lock, proc, holdouts>> /\ my_data' = 0 /\ ~loaded' /\ loaded' \in BOOLEAN
    BY <1>2 DEF Rcu!Unload, Rcu!NULL
  <2> HIDE DEF Rcu!RcuNoLeak
  <2>5. RcuTypes'
    BY <2>2, <2>4
  <2> QED BY <2>1, <2>2, <2>3, <2>4, <2>5
<1> QED BY <1>1, <1>2, RcuReaderInv, RcuWriterInv DEF Rcu!RcuNext

LEMMA RcuSafe == RcuInv => Rcu!RcuTypeOK /\ Rcu!RcuNoUseAfterFree /\ Rcu!RcuNoLeak
BY LabsAssumption DEF RcuInv, RcuTypes, RcuUsing, RcuReplacing, Rcu!RcuTypeOK,
   Rcu!RcuNoUseAfterFree, Rcu!RcuNoLeak, Rcu!Procs


(***************************************************************************)
(* lab3/ex2, the mailbox                                                   *)
(***************************************************************************)
Mail == [len : Nat, str : Nat]
SpinWriting == {"write_lock", "write_len", "write_str"}
SpinLocked == {"write_len", "write_str", "read_len", "read_str", "clear"}
SpinTypes ==
    /\ kern_buf \in Mail /\ got \in Seq(Mail) /\ calls \in Nat
    /\ proc \in [BlockProcs -> [pc : {"out", "write_lock", "read_lock"} \cup SpinLocked, buf : Mail]]
SpinMutex == \A p \in BlockProcs : proc[p].pc \in SpinLocked <=> lock = p

\* What is still to be written: the number of a call, that of no other writer, in
\* the buffer only as the half just written, and never read before.
SpinToWrite ==
    \A p \in BlockProcs : proc[p].pc \in SpinWriting =>
        /\ proc[p].buf.len \in 1..calls /\ proc[p].buf.str = proc[p].buf.len
        /\ \A q \in BlockProcs : proc[q].pc \in SpinWriting /\ q # p =>
             proc[q].buf.len # proc[p].buf.len
        /\ IF proc[p].pc = "write_str" THEN kern_buf.len = proc[p].buf.len
           ELSE kern_buf.len # proc[p].buf.len
        /\ \A i \in DOMAIN got : got[i].len # proc[p].buf.len
\* The buffer is whole but for a writer between its halves.
SpinBuffer ==
    /\ kern_buf.len <= calls
    /\ (\A p \in BlockProcs : proc[p].pc # "write_str") => kern_buf.len = kern_buf.str
    /\ kern_buf.len # 0 => \A i \in DOMAIN got : got[i].len # kern_buf.len
SpinReader ==
    \A p \in BlockProcs :
        /\ proc[p].pc \in {"read_str", "clear"} => proc[p].buf.len = kern_buf.len
        /\ proc[p].pc = "clear" => proc[p].buf.str = kern_buf.str
SpinGot ==
    /\ \A i \in DOMAIN got : got[i].len = got[i].str /\ got[i].len <= calls
    /\ \A i, j \in DOMAIN got : got[i].len = got[j].len /\ got[i].len # 0 => i = j
SpinInv == SpinTypes /\ SpinMutex /\ SpinToWrite /\ SpinBuffer /\ SpinReader /\ SpinGot

LEMMA SpinInitInv == Spin!SpinInit => SpinInv
BY LabsAssumption DEF SpinInv, SpinTypes, SpinMutex, SpinToWrite, SpinBuffer, SpinReader, SpinGot,
   SpinWriting, SpinLocked, Mail, Spin!SpinInit, Spin!Cleared, Spin!NoProc

SpinNumeric ==
    /\ calls \in Nat /\ kern_buf.len \in Nat /\ kern_buf.str \in Nat
    /\ \A p \in BlockProcs : proc[p].buf.len \in Nat /\ proc[p].buf.str \in Nat
    /\ DOMAIN got = 1..Len(got) /\ Len(got) \in Nat
    /\ \A i \in 1..Len(got) : got[i].len \in Nat /\ got[i].str \in Nat
LEMMA SpinNumbers == SpinTypes => SpinNumeric
<1> SUFFICES ASSUME SpinTypes PROVE SpinNumeric
  OBVIOUS
<1>1. \A m \in Mail : m.len \in Nat /\ m.str \in Nat
  BY DEF Mail
<1>2. \A i \in 1..Len(got) : got[i] \in Mail
  BY DEF SpinTypes
<1>3. \A p \in BlockProcs : proc[p].buf \in Mail
  BY DEF SpinTypes
<1> QED BY <1>1, <1>2, <1>3 DEF SpinTypes, SpinNumeric

\* What a step keeps that writes neither the buffer nor a result.
LEMMA SpinFrame ==
    ASSUME SpinInv, UNCHANGED <<kern_buf, got>>, calls' \in {calls, calls + 1},
           \A q \in BlockProcs : proc'[q].pc = "write_str" <=> proc[q].pc = "write_str"
    PROVE  SpinBuffer' /\ SpinGot'
<1>1. SpinNumeric
  BY SpinNumbers DEF SpinInv
<1>2. \A n \in Nat : n <= calls => n <= calls'
  BY <1>1 DEF SpinNumeric
<1>3. SpinBuffer'
  <2>1. kern_buf'.len <= calls'
    BY <1>1, <1>2 DEF SpinInv, SpinBuffer, SpinNumeric
  <2>2. UNCHANGED <<kern_buf, got>>
    OBVIOUS
  <2>3. (\A q \in BlockProcs : proc'[q].pc # "write_str") => \A q \in BlockProcs : proc[q].pc # "write_str"
    OBVIOUS
  <2> QED BY <2>1, <2>2, <2>3 DEF SpinInv, SpinBuffer
<1>4. SpinGot'
  <2>1. UNCHANGED got
    OBVIOUS
  <2>2. \A i \in DOMAIN got : got[i].len <= calls'
    BY <1>1, <1>2 DEF SpinInv, SpinGot, SpinNumeric
  <2> QED BY <2>1, <2>2 DEF SpinInv, SpinGot
<1> QED BY <1>3, <1>4

\* Nor does it change what is to be written, if it leaves the writers where they are.
LEMMA SpinKept ==
    ASSUME SpinInv, UNCHANGED <<kern_buf, got>>, calls' \in {calls, calls + 1},
           \A q \in BlockProcs : proc'[q].pc \in SpinWriting =>
              /\ proc[q].pc \in SpinWriting /\ proc'[q].buf = proc[q].buf
              /\ proc'[q].pc = "write_str" <=> proc[q].pc = "write_str"
    PROVE  SpinToWrite'
<1> SUFFICES ASSUME NEW q \in BlockProcs, proc'[q].pc \in SpinWriting
             PROVE  /\ proc[q].buf.len \in 1..calls' /\ proc[q].buf.str = proc[q].buf.len
                    /\ \A x \in BlockProcs : proc'[x].pc \in SpinWriting /\ x # q =>
                         proc'[x].buf.len # proc[q].buf.len
                    /\ IF proc[q].pc = "write_str" THEN kern_buf.len = proc[q].buf.len
                       ELSE kern_buf.len # proc[q].buf.len
                    /\ \A i \in DOMAIN got : got[i].len # proc[q].buf.len
  BY DEF SpinToWrite
<1>1. proc[q].pc \in SpinWriting
  OBVIOUS
<1>2. proc[q].buf.len \in 1..calls
  BY <1>1 DEF SpinInv, SpinToWrite
<1>3. proc[q].buf.len \in 1..calls'
  BY <1>2, SpinNumbers DEF SpinInv, SpinNumeric
<1>4. proc[q].buf.str = proc[q].buf.len /\ \A i \in DOMAIN got : got[i].len # proc[q].buf.len
  BY <1>1 DEF SpinInv, SpinToWrite
<1>5. IF proc[q].pc = "write_str" THEN kern_buf.len = proc[q].buf.len
                                 ELSE kern_buf.len # proc[q].buf.len
  BY <1>1 DEF SpinInv, SpinToWrite
<1>6. ASSUME NEW x \in BlockProcs, proc'[x].pc \in SpinWriting, x # q
      PROVE  proc'[x].buf.len # proc[q].buf.len
  <2>1. proc[x].pc \in SpinWriting /\ proc'[x].buf = proc[x].buf
    BY <1>6
  <2> QED BY <1>1, <1>6, <2>1 DEF SpinInv, SpinToWrite
<1> QED BY <1>3, <1>4, <1>5, <1>6

LEMMA SpinLockInv ==
    ASSUME SpinInv, NEW p \in BlockProcs, Spin!Lock(p)
    PROVE  SpinInv'
<1>0. SpinTypes'
  BY DEF SpinInv, SpinTypes, SpinLocked, Spin!MoveTo, Spin!Lock
<1>1. proc[p].pc \in {"write_lock", "read_lock"} /\ lock = "nobody" /\ lock' = p
  BY DEF Spin!Lock, Spin!LockFree, Spin!NoProc
<1>2. proc'[p].pc = (IF proc[p].pc = "write_lock" THEN "write_len" ELSE "read_len") /\ proc'[p].buf = proc[p].buf
  BY DEF SpinInv, SpinTypes, Mail, Spin!MoveTo, Spin!Lock, Spin!LockFree
<1>3. \A q \in BlockProcs : q # p => proc'[q] = proc[q]
  BY DEF SpinInv, SpinTypes, Spin!MoveTo, Spin!Lock, Spin!LockFree
<1>4. UNCHANGED <<kern_buf, calls, got>>
  BY DEF SpinInv, SpinTypes, Mail, Spin!Lock, Spin!LockFree, Spin!NoProc
<1>7. SpinNumeric
  BY SpinNumbers DEF SpinInv
<1>8. /\ UNCHANGED <<kern_buf, got>> /\ calls' \in {calls, calls + 1}
      /\ \A q \in BlockProcs : proc'[q].pc = "write_str" <=> proc[q].pc = "write_str"
  BY <1>1, <1>2, <1>3, <1>4
<1> USE <1>7 DEF SpinInv, SpinNumeric, SpinMutex, SpinWriting, SpinLocked
<1>11. SpinMutex'
  BY <1>1, <1>2, <1>3, <1>4, LabsAssumption
<1>12. SpinToWrite'
  <2>1. \A q \in BlockProcs : proc'[q].pc \in SpinWriting =>
          /\ proc[q].pc \in SpinWriting /\ proc'[q].buf = proc[q].buf
          /\ proc'[q].pc = "write_str" <=> proc[q].pc = "write_str"
    BY <1>1, <1>2, <1>3
  <2> QED BY <1>8, <2>1, SpinKept
<1>13. SpinBuffer' /\ SpinGot'
  BY <1>8, SpinFrame
<1>14. SpinReader'
  BY <1>0, <1>1, <1>2, <1>3, <1>4 DEF SpinReader
<1> QED BY <1>0, <1>11, <1>12, <1>13, <1>14

LEMMA SpinWriteLenInv ==
    ASSUME SpinInv, NEW p \in BlockProcs, Spin!WriteLen(p)
    PROVE  SpinInv'
<1>0. SpinTypes'
  BY DEF SpinInv, SpinTypes, SpinLocked, Mail, Spin!MoveTo, Spin!WriteLen
<1>1. proc[p].pc = "write_len"
  BY DEF Spin!WriteLen, Spin!NoProc
<1>2. proc'[p].pc = "write_str" /\ proc'[p].buf = proc[p].buf
  BY DEF SpinInv, SpinTypes, Mail, Spin!MoveTo, Spin!WriteLen
<1>3. \A q \in BlockProcs : q # p => proc'[q] = proc[q]
  BY DEF SpinInv, SpinTypes, Spin!MoveTo, Spin!WriteLen
<1>4. kern_buf'.len = proc[p].buf.len /\ kern_buf'.str = kern_buf.str /\ UNCHANGED <<lock, calls, got>>
  BY DEF SpinInv, SpinTypes, Mail, Spin!WriteLen, Spin!NoProc
<1>7. SpinNumeric
  BY SpinNumbers DEF SpinInv
<1> USE <1>7 DEF SpinInv, SpinNumeric, SpinMutex, SpinWriting, SpinLocked
<1>11. SpinMutex'
  BY <1>1, <1>2, <1>3, <1>4, LabsAssumption
<1>12. SpinToWrite'
  <2>1. \A q \in BlockProcs : proc'[q].pc \in SpinWriting =>
          proc[q].pc \in SpinWriting /\ proc'[q].buf = proc[q].buf
    BY <1>1, <1>2, <1>3
  <2>2. \A q \in BlockProcs : proc'[q].pc \in SpinWriting =>
          (IF proc'[q].pc = "write_str" THEN kern_buf'.len = proc'[q].buf.len
                                        ELSE kern_buf'.len # proc'[q].buf.len)
    <3> SUFFICES ASSUME NEW q \in BlockProcs, proc'[q].pc \in SpinWriting, q # p
                 PROVE  proc'[q].pc # "write_str" /\ kern_buf'.len # proc'[q].buf.len
      BY <1>2, <1>4
    <3>1. proc'[q].pc # "write_str"
      BY <1>1, <1>3
    <3>2. proc[p].buf.len # proc[q].buf.len
      BY <1>1, <2>1 DEF SpinToWrite
    <3> QED BY <1>4, <2>1, <3>1, <3>2
  <2>3. got' = got /\ calls' = calls
    BY <1>4
  <2> SUFFICES ASSUME NEW q \in BlockProcs, proc'[q].pc \in SpinWriting
               PROVE  /\ proc'[q].buf.len \in 1..calls /\ proc'[q].buf.str = proc'[q].buf.len
                      /\ \A x \in BlockProcs : proc'[x].pc \in SpinWriting /\ x # q =>
                           proc'[x].buf.len # proc'[q].buf.len
                      /\ \A i \in DOMAIN got : got[i].len # proc'[q].buf.len
    BY <2>2, <2>3, Zenon DEF SpinToWrite
  <2>4. proc[q].pc \in SpinWriting /\ proc'[q].buf = proc[q].buf
    BY <2>1
  <2>5. ASSUME NEW x \in BlockProcs, proc'[x].pc \in SpinWriting, x # q
        PROVE  proc'[x].buf.len # proc'[q].buf.len
    <3>1. proc[x].pc \in SpinWriting /\ proc'[x].buf = proc[x].buf
      BY <2>1, <2>5
    <3> QED BY <2>4, <2>5, <3>1 DEF SpinToWrite
  <2> QED BY <2>4, <2>5 DEF SpinToWrite
<1>13. SpinBuffer'
  BY <1>0, <1>1, <1>2, <1>3, <1>4 DEF SpinToWrite, SpinBuffer, SpinGot, SpinReader
<1>14. SpinReader'
  BY <1>0, <1>1, <1>2, <1>3, <1>4 DEF SpinReader
<1>15. SpinGot'
  BY <1>0, <1>1, <1>2, <1>3, <1>4 DEF SpinGot, SpinBuffer, SpinReader
<1> QED BY <1>0, <1>11, <1>12, <1>13, <1>14, <1>15

LEMMA SpinWriteStrInv ==
    ASSUME SpinInv, NEW p \in BlockProcs, Spin!WriteStr(p)
    PROVE  SpinInv'
<1>0. SpinTypes'
  BY DEF SpinInv, SpinTypes, SpinLocked, Mail, Spin!MoveTo, Spin!WriteStr
<1>1. proc[p].pc = "write_str"
  BY DEF Spin!WriteStr, Spin!NoProc
<1>2. proc'[p].pc = "out" /\ proc'[p].buf = proc[p].buf
  BY DEF SpinInv, SpinTypes, Mail, Spin!MoveTo, Spin!WriteStr
<1>3. \A q \in BlockProcs : q # p => proc'[q] = proc[q]
  BY DEF SpinInv, SpinTypes, Spin!MoveTo, Spin!WriteStr
<1>4. kern_buf'.len = kern_buf.len /\ kern_buf'.str = proc[p].buf.str /\ lock' = "nobody" /\ UNCHANGED <<calls, got>>
  BY DEF SpinInv, SpinTypes, Mail, Spin!WriteStr, Spin!NoProc
<1>7. SpinNumeric
  BY SpinNumbers DEF SpinInv
<1> USE <1>7 DEF SpinInv, SpinNumeric, SpinMutex, SpinWriting, SpinLocked
<1>11. SpinMutex'
  BY <1>1, <1>2, <1>3, <1>4, LabsAssumption
<1>12. SpinToWrite'
  BY <1>0, <1>1, <1>2, <1>3, <1>4 DEF SpinToWrite, SpinBuffer, SpinGot, SpinReader
<1>13. SpinBuffer'
  BY <1>0, <1>1, <1>2, <1>3, <1>4 DEF SpinToWrite, SpinBuffer, SpinGot, SpinReader
<1>14. SpinReader'
  BY <1>0, <1>1, <1>2, <1>3, <1>4 DEF SpinReader
<1>15. SpinGot'
  BY <1>0, <1>1, <1>2, <1>3, <1>4 DEF SpinGot, SpinBuffer, SpinReader
<1> QED BY <1>0, <1>11, <1>12, <1>13, <1>14, <1>15

LEMMA SpinReadLenInv ==
    ASSUME SpinInv, NEW p \in BlockProcs, Spin!ReadLen(p)
    PROVE  SpinInv'
<1>0. SpinTypes'
  BY DEF SpinInv, SpinTypes, SpinLocked, Mail, Spin!MoveTo, Spin!ReadLen
<1>1. proc[p].pc = "read_len"
  BY DEF Spin!ReadLen, Spin!NoProc
<1>2. proc'[p].pc = "read_str" /\ proc'[p].buf.len = kern_buf.len
  BY DEF SpinInv, SpinTypes, Mail, Spin!MoveTo, Spin!ReadLen
<1>3. \A q \in BlockProcs : q # p => proc'[q] = proc[q]
  BY DEF SpinInv, SpinTypes, Spin!MoveTo, Spin!ReadLen
<1>4. UNCHANGED <<kern_buf, lock, calls, got>>
  BY DEF SpinInv, SpinTypes, Mail, Spin!ReadLen, Spin!NoProc
<1>7. SpinNumeric
  BY SpinNumbers DEF SpinInv
<1> USE <1>7 DEF SpinInv, SpinNumeric, SpinMutex, SpinWriting, SpinLocked
<1>11. SpinMutex'
  BY <1>1, <1>2, <1>3, <1>4, LabsAssumption
<1>12. SpinToWrite'
  BY <1>0, <1>1, <1>2, <1>3, <1>4 DEF SpinToWrite, SpinBuffer, SpinGot, SpinReader
<1>13. SpinBuffer'
  BY <1>0, <1>1, <1>2, <1>3, <1>4 DEF SpinToWrite, SpinBuffer, SpinGot, SpinReader
<1>14. SpinReader'
  BY <1>0, <1>1, <1>2, <1>3, <1>4 DEF SpinReader
<1>15. SpinGot'
  BY <1>0, <1>1, <1>2, <1>3, <1>4 DEF SpinGot, SpinBuffer, SpinReader
<1> QED BY <1>0, <1>11, <1>12, <1>13, <1>14, <1>15

LEMMA SpinReadStrInv ==
    ASSUME SpinInv, NEW p \in BlockProcs, Spin!ReadStr(p)
    PROVE  SpinInv'
<1>0. SpinTypes'
  BY DEF SpinInv, SpinTypes, SpinLocked, Mail, Spin!MoveTo, Spin!ReadStr
<1>1. proc[p].pc = "read_str"
  BY DEF Spin!ReadStr, Spin!NoProc
<1>2. proc'[p].pc = "clear" /\ proc'[p].buf.len = proc[p].buf.len /\ proc'[p].buf.str = kern_buf.str
  BY DEF SpinInv, SpinTypes, Mail, Spin!MoveTo, Spin!ReadStr
<1>3. \A q \in BlockProcs : q # p => proc'[q] = proc[q]
  BY DEF SpinInv, SpinTypes, Spin!MoveTo, Spin!ReadStr
<1>4. UNCHANGED <<kern_buf, lock, calls, got>>
  BY DEF SpinInv, SpinTypes, Mail, Spin!ReadStr, Spin!NoProc
<1>7. SpinNumeric
  BY SpinNumbers DEF SpinInv
<1> USE <1>7 DEF SpinInv, SpinNumeric, SpinMutex, SpinWriting, SpinLocked
<1>11. SpinMutex'
  BY <1>1, <1>2, <1>3, <1>4, LabsAssumption
<1>12. SpinToWrite'
  BY <1>0, <1>1, <1>2, <1>3, <1>4 DEF SpinToWrite, SpinBuffer, SpinGot, SpinReader
<1>13. SpinBuffer'
  BY <1>0, <1>1, <1>2, <1>3, <1>4 DEF SpinToWrite, SpinBuffer, SpinGot, SpinReader
<1>14. SpinReader'
  BY <1>0, <1>1, <1>2, <1>3, <1>4 DEF SpinReader
<1>15. SpinGot'
  BY <1>0, <1>1, <1>2, <1>3, <1>4 DEF SpinGot, SpinBuffer, SpinReader
<1> QED BY <1>0, <1>11, <1>12, <1>13, <1>14, <1>15

LEMMA SpinClearInv ==
    ASSUME SpinInv, NEW p \in BlockProcs, Spin!Clear(p)
    PROVE  SpinInv'
<1>0. SpinTypes'
  <2>1. proc[p].buf \in Mail
    BY DEF SpinInv, SpinTypes
  <2>2. got' \in Seq(Mail)
    BY <2>1 DEF SpinInv, SpinTypes, Spin!Clear
  <2>3. UNCHANGED calls /\ kern_buf' \in Mail
    BY DEF Mail, Spin!Clear, Spin!Cleared
  <2>4. proc' = [proc EXCEPT ![p].pc = "out"]
    BY DEF Spin!Clear, Spin!MoveTo
  <2> QED BY <2>2, <2>3, <2>4 DEF SpinInv, SpinTypes
<1>1. proc[p].pc = "clear"
  BY DEF Spin!Clear, Spin!Cleared, Spin!NoProc
<1>2. proc'[p].pc = "out" /\ proc'[p].buf = proc[p].buf
  BY DEF SpinInv, SpinTypes, Mail, Spin!MoveTo, Spin!Clear, Spin!Cleared
<1>3. \A q \in BlockProcs : q # p => proc'[q] = proc[q]
  BY DEF SpinInv, SpinTypes, Spin!MoveTo, Spin!Clear, Spin!Cleared
<1>4. kern_buf'.len = 0 /\ kern_buf'.str = 0 /\ lock' = "nobody" /\ calls' = calls
  BY DEF SpinInv, SpinTypes, Mail, Spin!Clear, Spin!Cleared, Spin!NoProc
<1>5. /\ Len(got') = Len(got) + 1
      /\ got'[Len(got) + 1] = proc[p].buf
      /\ \A i \in 1..Len(got) : got'[i] = got[i]
  BY DEF Spin!Clear, SpinInv, SpinTypes
<1>6. DOMAIN got' = 1..Len(got)+1
  BY <1>0, <1>5 DEF SpinInv, SpinTypes
<1>7. SpinNumeric
  BY SpinNumbers DEF SpinInv
<1>8. got'[Len(got) + 1].len = kern_buf.len /\ got'[Len(got) + 1].str = kern_buf.str
  BY <1>1, <1>5 DEF SpinInv, SpinReader
<1>9. kern_buf.str = kern_buf.len /\ kern_buf.len <= calls
  <2>1. \A q \in BlockProcs : proc[q].pc # "write_str"
    BY <1>1 DEF SpinInv, SpinMutex, SpinLocked
  <2> QED BY <2>1 DEF SpinInv, SpinBuffer
<1>10. SpinGot'
  <2>0. Len(got) \in Nat /\ \A i \in 1..Len(got)+1 : i \in 1..Len(got) \/ i = Len(got) + 1
    BY <1>7 DEF SpinNumeric
  <2>1. /\ got'[Len(got) + 1].len = kern_buf.len /\ got'[Len(got) + 1].str = kern_buf.len
        /\ kern_buf.len <= calls
    BY <1>8, <1>9
  <2>2. kern_buf.len # 0 => \A i \in 1..Len(got) : got'[i].len # kern_buf.len
    BY <1>5, <1>7 DEF SpinInv, SpinBuffer, SpinNumeric
  <2>3. \A i \in 1..Len(got) : got'[i].len = got'[i].str /\ got'[i].len <= calls
    BY <1>5, <1>7 DEF SpinInv, SpinGot, SpinNumeric
  <2>4. \A i, j \in 1..Len(got) : got'[i].len = got'[j].len /\ got'[i].len # 0 => i = j
    BY <1>5, <1>7 DEF SpinInv, SpinGot, SpinNumeric
  <2>5. \A i \in 1..Len(got)+1 : got'[i].len = got'[i].str /\ got'[i].len <= calls
    BY <2>0, <2>1, <2>3
  <2>6. \A i, j \in 1..Len(got)+1 : got'[i].len = got'[j].len /\ got'[i].len # 0 => i = j
    BY <2>0, <2>1, <2>2, <2>4
  <2> QED BY <1>4, <1>6, <2>5, <2>6 DEF SpinGot
<1> USE <1>7 DEF SpinInv, SpinNumeric, SpinMutex, SpinWriting, SpinLocked
<1>11. SpinMutex'
  BY <1>1, <1>2, <1>3, <1>4, LabsAssumption
<1>12. SpinToWrite'
  <2> SUFFICES ASSUME NEW q \in BlockProcs, q # p, proc'[q].pc \in SpinWriting
               PROVE  /\ proc'[q].buf.len \in 1..calls /\ proc'[q].buf.str = proc'[q].buf.len
                      /\ \A x \in BlockProcs : proc'[x].pc \in SpinWriting /\ x # q =>
                           proc'[x].buf.len # proc'[q].buf.len
                      /\ proc'[q].pc # "write_str" /\ kern_buf'.len # proc'[q].buf.len
                      /\ \A i \in DOMAIN got' : got'[i].len # proc'[q].buf.len
    BY <1>2, <1>4 DEF SpinToWrite
  <2>1. proc'[q] = proc[q] /\ proc[q].pc # "write_str"
    BY <1>1, <1>3
  <2>2. \A x \in BlockProcs : proc'[x].pc \in SpinWriting => x # p /\ proc'[x] = proc[x]
    BY <1>2, <1>3
  <2>3. kern_buf.len # proc[q].buf.len /\ proc[q].buf.len \in 1..calls
    BY <2>1 DEF SpinToWrite
  <2>4. \A i \in 1..Len(got)+1 : got'[i].len # proc[q].buf.len
    <3> TAKE i \in 1..Len(got)+1
    <3>1. CASE i \in 1..Len(got)
      <4>1. got[i].len # proc[q].buf.len
        BY <2>1, <3>1 DEF SpinToWrite
      <4> QED BY <1>5, <3>1, <4>1
    <3>2. CASE i = Len(got) + 1
      BY <1>8, <2>3, <3>2
    <3> QED BY <3>1, <3>2
  <2>5. \A x \in BlockProcs : proc'[x].pc \in SpinWriting /\ x # q =>
          proc'[x].buf.len # proc'[q].buf.len
    BY <2>1, <2>2 DEF SpinToWrite
  <2>6. proc[q].buf.str = proc[q].buf.len
    BY <2>1 DEF SpinToWrite
  <2> QED BY <1>4, <1>6, <2>1, <2>3, <2>4, <2>5, <2>6
<1>13. SpinBuffer'
  BY <1>0, <1>1, <1>2, <1>3, <1>4, <1>5, <1>6 DEF SpinToWrite, SpinBuffer, SpinGot, SpinReader
<1>14. SpinReader'
  BY <1>0, <1>1, <1>2, <1>3, <1>4 DEF SpinReader
<1> QED BY <1>0, <1>11, <1>12, <1>13, <1>14, <1>10

LEMMA SpinWriteCallInv ==
    ASSUME SpinInv, NEW p \in BlockProcs, Spin!WriteCall(p)
    PROVE  SpinInv'
<1>0. SpinTypes'
  BY DEF SpinInv, SpinTypes, SpinLocked, Mail, Spin!MoveTo, Spin!WriteCall
<1>1. proc[p].pc = "out"
  BY DEF Spin!WriteCall, Spin!NoProc
<1>2. proc'[p].pc = "write_lock" /\ proc'[p].buf.len = calls + 1 /\ proc'[p].buf.str = calls + 1
  BY DEF SpinInv, SpinTypes, Mail, Spin!MoveTo, Spin!WriteCall
<1>3. \A q \in BlockProcs : q # p => proc'[q] = proc[q]
  BY DEF SpinInv, SpinTypes, Spin!MoveTo, Spin!WriteCall
<1>4. calls' = calls + 1 /\ UNCHANGED <<kern_buf, lock, got>>
  BY DEF SpinInv, SpinTypes, Mail, Spin!WriteCall, Spin!NoProc
<1>7. SpinNumeric
  BY SpinNumbers DEF SpinInv
<1>8. /\ UNCHANGED <<kern_buf, got>> /\ calls' \in {calls, calls + 1}
      /\ \A q \in BlockProcs : proc'[q].pc = "write_str" <=> proc[q].pc = "write_str"
  BY <1>1, <1>2, <1>3, <1>4
<1> USE <1>7 DEF SpinInv, SpinNumeric, SpinMutex, SpinWriting, SpinLocked
<1>11. SpinMutex'
  BY <1>1, <1>2, <1>3, <1>4, LabsAssumption
<1>12. SpinToWrite'
  <2>1. \A x \in BlockProcs : proc'[x].pc \in SpinWriting /\ x # p =>
          proc'[x] = proc[x] /\ proc'[x].buf.len \in 1..calls
    BY <1>3 DEF SpinToWrite
  <2>2. kern_buf' = kern_buf /\ got' = got /\ 1..calls \subseteq 1..calls' /\ calls' = calls + 1
    BY <1>4
  <2>3. \A i \in DOMAIN got : got[i].len <= calls
    BY DEF SpinGot
  <2>4. kern_buf.len <= calls
    BY DEF SpinBuffer
  <2> SUFFICES ASSUME NEW q \in BlockProcs, proc'[q].pc \in SpinWriting
               PROVE  /\ proc'[q].buf.len \in 1..calls' /\ proc'[q].buf.str = proc'[q].buf.len
                      /\ \A x \in BlockProcs : proc'[x].pc \in SpinWriting /\ x # q =>
                           proc'[x].buf.len # proc'[q].buf.len
                      /\ IF proc'[q].pc = "write_str" THEN kern_buf.len = proc'[q].buf.len
                         ELSE kern_buf.len # proc'[q].buf.len
                      /\ \A i \in DOMAIN got : got[i].len # proc'[q].buf.len
    BY <2>2 DEF SpinToWrite
  <2>5. CASE q = p
    <3>1. proc'[q].buf.len = calls + 1 /\ proc'[q].buf.str = calls + 1 /\ proc'[q].pc = "write_lock"
      BY <1>2, <2>5
    <3>2. calls + 1 \in 1..calls' /\ kern_buf.len # calls + 1
      BY <2>2, <2>4
    <3>3. \A i \in DOMAIN got : got[i].len # calls + 1
      BY <2>3
    <3>4. \A x \in BlockProcs : proc'[x].pc \in SpinWriting /\ x # q => proc'[x].buf.len # calls + 1
      BY <2>1, <2>5
    <3> QED BY <3>1, <3>2, <3>3, <3>4
  <2>6. CASE q # p
    <3>1. proc'[q] = proc[q] /\ proc[q].pc \in SpinWriting /\ proc[q].buf.len \in 1..calls
      BY <2>1, <2>6
    <3>2. \A x \in BlockProcs : proc'[x].pc \in SpinWriting /\ x # q =>
            proc'[x].buf.len # proc[q].buf.len
      <4> TAKE x \in BlockProcs
      <4>1. CASE x = p
        BY <1>2, <3>1, <4>1
      <4>2. CASE x # p
        BY <2>1, <3>1, <4>2 DEF SpinToWrite
      <4> QED BY <4>1, <4>2
    <3>3. /\ proc[q].buf.str = proc[q].buf.len /\ \A i \in DOMAIN got : got[i].len # proc[q].buf.len
          /\ IF proc[q].pc = "write_str" THEN kern_buf.len = proc[q].buf.len
             ELSE kern_buf.len # proc[q].buf.len
      BY <3>1 DEF SpinToWrite
    <3>4. proc[q].buf.len \in 1..calls'
      BY <2>2, <3>1
    <3> QED BY <3>1, <3>2, <3>3, <3>4
  <2> QED BY <2>5, <2>6
<1>13. SpinBuffer' /\ SpinGot'
  BY <1>8, SpinFrame
<1>14. SpinReader'
  BY <1>0, <1>1, <1>2, <1>3, <1>4 DEF SpinReader
<1> QED BY <1>0, <1>11, <1>12, <1>13, <1>14

LEMMA SpinReadCallInv ==
    ASSUME SpinInv, NEW p \in BlockProcs, Spin!ReadCall(p)
    PROVE  SpinInv'
<1>0. SpinTypes'
  BY DEF SpinInv, SpinTypes, SpinLocked, Mail, Spin!MoveTo, Spin!ReadCall, Spin!Cleared
<1>1. proc[p].pc = "out"
  BY DEF Spin!ReadCall, Spin!Cleared, Spin!NoProc
<1>2. proc'[p].pc = "read_lock"
  BY DEF SpinInv, SpinTypes, Mail, Spin!MoveTo, Spin!ReadCall, Spin!Cleared
<1>3. \A q \in BlockProcs : q # p => proc'[q] = proc[q]
  BY DEF SpinInv, SpinTypes, Spin!MoveTo, Spin!ReadCall, Spin!Cleared
<1>4. calls' = calls + 1 /\ UNCHANGED <<kern_buf, lock, got>>
  BY DEF SpinInv, SpinTypes, Mail, Spin!ReadCall, Spin!Cleared, Spin!NoProc
<1>7. SpinNumeric
  BY SpinNumbers DEF SpinInv
<1>8. /\ UNCHANGED <<kern_buf, got>> /\ calls' \in {calls, calls + 1}
      /\ \A q \in BlockProcs : proc'[q].pc = "write_str" <=> proc[q].pc = "write_str"
  BY <1>1, <1>2, <1>3, <1>4
<1> USE <1>7 DEF SpinInv, SpinNumeric, SpinMutex, SpinWriting, SpinLocked
<1>11. SpinMutex'
  BY <1>1, <1>2, <1>3, <1>4, LabsAssumption
<1>12. SpinToWrite'
  <2>1. \A q \in BlockProcs : proc'[q].pc \in SpinWriting =>
          /\ proc[q].pc \in SpinWriting /\ proc'[q].buf = proc[q].buf
          /\ proc'[q].pc = "write_str" <=> proc[q].pc = "write_str"
    BY <1>2, <1>3
  <2> QED BY <1>8, <2>1, SpinKept
<1>13. SpinBuffer' /\ SpinGot'
  BY <1>8, SpinFrame
<1>14. SpinReader'
  BY <1>0, <1>1, <1>2, <1>3, <1>4 DEF SpinReader
<1> QED BY <1>0, <1>11, <1>12, <1>13, <1>14

LEMMA SpinNextInv ==
    ASSUME SpinInv, Spin!SpinNext
    PROVE  SpinInv'
<1>1. PICK p \in BlockProcs : Spin!WriteCall(p) \/ Spin!ReadCall(p) \/ Spin!SpinStep(p)
  BY DEF Spin!SpinNext
<1> QED BY <1>1, SpinLockInv, SpinWriteLenInv, SpinWriteStrInv, SpinReadLenInv, SpinReadStrInv,
           SpinClearInv, SpinWriteCallInv, SpinReadCallInv DEF Spin!SpinStep

LEMMA SpinSafe == SpinInv => Spin!MailWhole
<1> SUFFICES ASSUME SpinInv PROVE Spin!MailWhole
  OBVIOUS
<1>1. \A i \in DOMAIN got : got[i] \in Mail
  BY DEF SpinInv, SpinTypes
<1>2. \A i \in DOMAIN got : got[i] # Spin!Cleared => got[i].len # 0
  BY <1>1 DEF SpinInv, SpinGot, Mail, Spin!Cleared
<1> QED BY <1>1, <1>2 DEF SpinInv, SpinGot, SpinBuffer, Spin!MailWhole


(***************************************************************************)
(* lab3/test, the message list                                             *)
(***************************************************************************)
\* Taking out an element closes the gap at its first place.
LEMMA OneOut ==
    ASSUME NEW S, NEW s \in Seq(S), NEW k \in 1..Len(s),
           \A i \in 1..Len(s) : s[i] = s[k] => k <= i
    PROVE  Ch3!RemoveFirst(s, s[k]) = SubSeq(s, 1, k - 1) \o SubSeq(s, k + 1, Len(s))
<1> DEFINE I == {i \in 1..Len(s) : s[i] = s[k]}
           m == CHOOSE x \in I : \A y \in I : x <= y
<1>1. k \in I /\ I \subseteq Nat /\ \A i \in I : k <= i
  OBVIOUS
<1>2. m \in I /\ \A i \in I : m <= i
  BY <1>1
<1>3. m = k
  <2>1. m <= k /\ k <= m
    BY <1>1, <1>2
  <2> QED BY <1>1, <1>2, <2>1
<1>4. Ch3!RemoveFirst(s, s[k]) = SubSeq(s, 1, m - 1) \o SubSeq(s, m + 1, Len(s))
  <2>1. I # {}
    BY <1>1
  <2>2. \E i \in 1..Len(s) : s[i] = s[k]
    OBVIOUS
  <2> QED BY <2>1, <2>2, ZenonT(30) DEF Ch3!RemoveFirst, Ch3!RemoveAt, Ch3!SelectInSeq, Ch3!Min
<1> QED BY <1>3, <1>4

LEMMA HeadOut ==
    ASSUME NEW S, NEW s \in Seq(S), s # <<>>
    PROVE  /\ Ch3!RemoveFirst(s, Head(s)) = Tail(s)
           /\ Tail(s) \in Seq(S) /\ Len(Tail(s)) = Len(s) - 1
           /\ Len(s) \in Nat \ {0} /\ Head(s) = s[1]
           /\ \A i \in 1..Len(s)-1 : Tail(s)[i] = s[i + 1]
<1>1. Len(s) \in Nat \ {0} /\ Head(s) = s[1]
  OBVIOUS
<1>2. SubSeq(s, 1, 1 - 1) \o SubSeq(s, 1 + 1, Len(s)) = Tail(s)
  BY <1>1
<1>3. Ch3!RemoveFirst(s, s[1]) = SubSeq(s, 1, 1 - 1) \o SubSeq(s, 1 + 1, Len(s))
  <2>1. 1 \in 1..Len(s) /\ \A i \in 1..Len(s) : s[i] = s[1] => 1 <= i
    BY <1>1
  <2> QED BY <2>1, OneOut
<1> QED BY <1>1, <1>2, <1>3

LEMMA SameSequence ==
    ASSUME NEW S, NEW s \in Seq(S), NEW t \in Seq(S), Len(s) = Len(t),
           \A i \in 1..Len(s) : s[i] = t[i]
    PROVE  s = t
OBVIOUS

LEMMA TwoEnds ==
    ASSUME NEW s \in Seq(Nat), s # <<>>
    PROVE  SubSeq(s, 1, 1) = <<Head(s)>> /\ SubSeq(s, 1 + 1, Len(s)) = Tail(s)
<1> DEFINE f == SubSeq(s, 1, 1)
<1>1. Len(s) \in Nat \ {0} /\ Head(s) = s[1] /\ s[1] \in Nat
  OBVIOUS
<1>2. f \in Seq(Nat) /\ Len(f) = 1 /\ f[1] = s[1]
  BY <1>1
<1>3. Tail(s) = SubSeq(s, 2, Len(s))
  BY TailIsSubSeq
<1>5. SubSeq(s, 1 + 1, Len(s)) = SubSeq(s, 2, Len(s))
  <2>1. 1 + 1 = 2
    OBVIOUS
  <2> QED BY <2>1, Zenon
<1> HIDE DEF f
<1>4. f = <<s[1]>>
  BY <1>1, <1>2
<1> QED BY <1>1, <1>3, <1>4, <1>5, Zenon DEF f

LEMMA AppendAfter ==
    ASSUME NEW s \in Seq(Nat), NEW t \in Seq(Nat), NEW e \in Nat
    PROVE  Append(s \o t, e) = s \o Append(t, e)
<1> DEFINE l == Append(s \o t, e)
           r == s \o Append(t, e)
<1>1. Len(s) \in Nat /\ Len(t) \in Nat /\ Append(t, e) \in Seq(Nat) /\ s \o t \in Seq(Nat)
  OBVIOUS
<1>2. l \in Seq(Nat) /\ r \in Seq(Nat)
  BY <1>1
<1>3. Len(l) = Len(s) + Len(t) + 1 /\ Len(r) = Len(s) + Len(t) + 1
  BY <1>1
<1>4. \A i \in 1..Len(l) : l[i] = r[i]
  BY <1>1, <1>3
<1> HIDE DEF l, r
<1>5. l = r
  BY <1>2, <1>3, <1>4, SameSequence
<1> QED BY <1>5 DEF l, r

\* What moves from the front of one sequence to the end of another.
LEMMA HeadMoves ==
    ASSUME NEW S, NEW s \in Seq(S), NEW t \in Seq(S), t # <<>>
    PROVE  s \o t = Append(s, Head(t)) \o Tail(t)
<1> DEFINE l == s \o t
           r == Append(s, Head(t)) \o Tail(t)
<1>1. /\ Len(t) \in Nat \ {0} /\ Len(s) \in Nat /\ Head(t) = t[1] /\ Head(t) \in S
      /\ Tail(t) \in Seq(S) /\ Len(Tail(t)) = Len(t) - 1
      /\ \A i \in 1..Len(t)-1 : Tail(t)[i] = t[i + 1]
  OBVIOUS
<1>2. Append(s, Head(t)) \in Seq(S) /\ Len(Append(s, Head(t))) = Len(s) + 1
  BY <1>1
<1>3. l \in Seq(S) /\ r \in Seq(S) /\ Len(l) = Len(s) + Len(t) /\ Len(r) = Len(s) + Len(t)
  BY <1>1, <1>2
<1>4. ASSUME NEW i \in 1..Len(l) PROVE l[i] = r[i]
  <2>1. CASE i <= Len(s)
    BY <1>1, <1>2, <1>3, <2>1
  <2>2. CASE i = Len(s) + 1
    BY <1>1, <1>2, <1>3, <2>2
  <2>3. CASE i > Len(s) + 1
    <3>1. l[i] = t[i - Len(s)] /\ i - Len(s) \in 2..Len(t)
      BY <1>1, <1>3, <2>3
    <3>2. r[i] = Tail(t)[i - (Len(s) + 1)]
      BY <1>1, <1>2, <1>3, <2>3
    <3> QED BY <1>1, <1>3, <2>3, <3>1, <3>2
  <2> QED BY <1>1, <1>3, <2>1, <2>2, <2>3
<1> QED BY <1>3, <1>4

Ch3Locked == {"add", "first", "delete"}
Ch3Writing == {"write_lock", "add"}
Ch3Types ==
    /\ msgs \in Seq(Nat) /\ sent \in Seq(Nat) /\ got \in Seq(Nat)
    /\ calls \in Nat /\ loaded \in BOOLEAN
    /\ proc \in [BlockProcs -> [pc : {"out", "write_lock", "read_lock"} \cup Ch3Locked, tmp : Nat]]
Ch3Mutex == \A p \in BlockProcs : proc[p].pc \in Ch3Locked <=> lock = p

\* Numbers of messages: a new one is larger than all others; those being written
\* are different from each other and not in the list, which has none twice.
Ch3Numbers ==
    /\ \A i \in 1..Len(msgs) : msgs[i] <= calls
    /\ \A i, j \in 1..Len(msgs) : msgs[i] = msgs[j] => i = j
    /\ \A p \in BlockProcs : proc[p].pc \in Ch3Writing =>
         /\ proc[p].tmp <= calls
         /\ \A i \in 1..Len(msgs) : msgs[i] # proc[p].tmp
         /\ \A q \in BlockProcs : proc[q].pc \in Ch3Writing /\ proc[q].tmp = proc[p].tmp => q = p

\* The reader that has copied the first message has it in its hands.
Ch3Order ==
    /\ (\A p \in BlockProcs : proc[p].pc # "delete") => sent = got \o msgs
    /\ \A p \in BlockProcs : proc[p].pc = "delete" =>
         msgs # <<>> /\ proc[p].tmp = Head(msgs) /\ sent = got \o Tail(msgs)
\* Stated by membership: m is allocated when it is in the list or being written.
Ch3Live ==
    \A m : m \in live <=> \/ \E i \in 1..Len(msgs) : msgs[i] = m
                          \/ \E p \in BlockProcs : proc[p].pc \in Ch3Writing /\ proc[p].tmp = m
Ch3Inv ==
    /\ Ch3Types /\ Ch3Mutex /\ Ch3Numbers /\ Ch3Live
    /\ loaded => Ch3Order
    /\ ~loaded => \A p \in BlockProcs : proc[p].pc = "out"

LEMMA Ch3InitInv == Ch3!Ch3Init => Ch3Inv
BY LabsAssumption DEF Ch3Inv, Ch3Types, Ch3Mutex, Ch3Numbers, Ch3Live, Ch3Order,
   Ch3Writing, Ch3Locked, Ch3!Ch3Init, Ch3!NoProc

LEMMA Ch3WriteLockInv ==
    ASSUME Ch3Inv, NEW p \in BlockProcs, Ch3!WriteLock(p)
    PROVE  Ch3Inv'
<1>1. proc[p].pc = "write_lock" /\ lock = "nobody" /\ lock' = p
  BY DEF Ch3!WriteLock, Ch3!LockFree, Ch3!NoProc
<1>2. proc'[p].pc = "add" /\ proc'[p].tmp = proc[p].tmp /\ \A q \in BlockProcs : q # p => proc'[q] = proc[q]
  BY DEF Ch3Inv, Ch3Types, Ch3!MoveTo, Ch3!WriteLock, Ch3!LockFree
<1>3. UNCHANGED <<msgs, live, loaded, calls, sent, got>>
  BY DEF Ch3!WriteLock, Ch3!LockFree
<1>11. Ch3Types'
  BY DEF Ch3Inv, Ch3Types, Ch3Locked, Ch3!MoveTo, Ch3!WriteLock, Ch3!LockFree
<1>12. loaded
  BY <1>1 DEF Ch3Inv
<1>13. Len(msgs) \in Nat /\ calls \in Nat /\ \A q \in BlockProcs : proc[q].tmp \in Nat
  BY DEF Ch3Inv, Ch3Types
<1> USE <1>13 DEF Ch3Inv, Ch3Mutex, Ch3Writing, Ch3Locked
<1>14. Ch3Mutex'
  BY <1>1, <1>2, <1>3, LabsAssumption
<1>15. Ch3Numbers'
  BY <1>1, <1>2, <1>3 DEF Ch3Numbers
<1>16. Ch3Live'
  BY <1>1, <1>2, <1>3 DEF Ch3Live, Ch3Numbers
<1>17. Ch3Order'
  <2>1. \A q \in BlockProcs : proc[q].pc # "delete" /\ proc'[q].pc # "delete"
    BY <1>1, <1>2, LabsAssumption
  <2> QED BY <1>3, <1>12, <2>1 DEF Ch3Order
<1> QED BY <1>3, <1>11, <1>12, <1>14, <1>15, <1>16, <1>17

LEMMA Ch3AddInv ==
    ASSUME Ch3Inv, NEW p \in BlockProcs, Ch3!Add(p)
    PROVE  Ch3Inv'
<1>1. proc[p].pc = "add" /\ lock' = "nobody"
  BY DEF Ch3!Add, Ch3!NoProc
<1>2. proc'[p].pc = "out" /\ \A q \in BlockProcs : q # p => proc'[q] = proc[q]
  BY DEF Ch3Inv, Ch3Types, Ch3!MoveTo, Ch3!Add
<1>3. UNCHANGED <<live, loaded, calls, got>>
  BY DEF Ch3!Add
<1>4. /\ msgs' = Append(msgs, proc[p].tmp) /\ Len(msgs') = Len(msgs) + 1
      /\ msgs'[Len(msgs) + 1] = proc[p].tmp
      /\ \A i \in 1..Len(msgs) : msgs'[i] = msgs[i]
      /\ sent' = Append(sent, proc[p].tmp)
  BY DEF Ch3!Add, Ch3Inv, Ch3Types
<1>11. Ch3Types'
  BY SMTT(30) DEF Ch3Inv, Ch3Types, Ch3Locked, Ch3!MoveTo, Ch3!Add
<1>12. loaded
  BY <1>1 DEF Ch3Inv
<1>13. Len(msgs) \in Nat /\ calls \in Nat /\ \A q \in BlockProcs : proc[q].tmp \in Nat
  BY DEF Ch3Inv, Ch3Types
<1> USE <1>13 DEF Ch3Inv, Ch3Mutex, Ch3Writing, Ch3Locked
<1>14. Ch3Mutex'
  BY <1>1, <1>2, <1>3, LabsAssumption
<1>5. /\ 1..Len(msgs) \subseteq 1..Len(msgs')
      /\ \A i \in 1..Len(msgs') : i \in 1..Len(msgs) \/ i = Len(msgs) + 1
  BY <1>4, <1>13
<1>6. \A q \in BlockProcs : proc'[q].pc \in Ch3Writing =>
        q # p /\ proc[q].pc \in Ch3Writing /\ proc'[q].tmp = proc[q].tmp
  BY <1>2
<1>7. Ch3Numbers /\ proc[p].pc \in Ch3Writing
  BY <1>1
<1>15. Ch3Numbers'
  <2>1. \A i \in 1..Len(msgs') : msgs'[i] <= calls'
    BY <1>3, <1>4, <1>5, <1>7 DEF Ch3Numbers
  <2>2. \A i, k \in 1..Len(msgs') : msgs'[i] = msgs'[k] => i = k
    BY <1>4, <1>5, <1>7 DEF Ch3Numbers
  <2>3. ASSUME NEW q \in BlockProcs, proc'[q].pc \in Ch3Writing
        PROVE  /\ proc'[q].tmp <= calls' /\ \A i \in 1..Len(msgs') : msgs'[i] # proc'[q].tmp
               /\ \A x \in BlockProcs :
                    proc'[x].pc \in Ch3Writing /\ proc'[x].tmp = proc'[q].tmp => x = q
    <3>1. q # p /\ proc[q].pc \in Ch3Writing /\ proc'[q].tmp = proc[q].tmp
      BY <1>6, <2>3
    <3>2. proc[q].tmp <= calls /\ proc[q].tmp # proc[p].tmp
          /\ \A i \in 1..Len(msgs) : msgs[i] # proc[q].tmp
      BY <1>7, <3>1 DEF Ch3Numbers
    <3>3. \A i \in 1..Len(msgs') : msgs'[i] # proc[q].tmp
      BY <1>4, <1>5, <3>2
    <3>4. ASSUME NEW x \in BlockProcs, proc'[x].pc \in Ch3Writing, proc'[x].tmp = proc[q].tmp
          PROVE  x = q
      <4>1. proc[x].pc \in Ch3Writing /\ proc[x].tmp = proc[q].tmp
        BY <1>6, <3>4
      <4> QED BY <1>7, <3>1, <4>1 DEF Ch3Numbers
    <3> QED BY <1>3, <3>1, <3>2, <3>3, <3>4
  <2> QED BY <2>1, <2>2, <2>3 DEF Ch3Numbers
<1>16. Ch3Live'
  <2>1. \A m : (\E i \in 1..Len(msgs') : msgs'[i] = m)
             <=> (\E i \in 1..Len(msgs) : msgs[i] = m) \/ m = proc[p].tmp
    <3>1. Len(msgs) + 1 \in 1..Len(msgs')
      BY <1>4, <1>13
    <3> QED BY <1>4, <1>5, <3>1
  <2>2. \A m : (\E q \in BlockProcs : proc[q].pc \in Ch3Writing /\ proc[q].tmp = m)
             <=> (\E q \in BlockProcs : proc'[q].pc \in Ch3Writing /\ proc'[q].tmp = m)
                 \/ m = proc[p].tmp
    BY <1>2, <1>6, <1>7
  <2> HIDE DEF Ch3Writing
  <2> QED BY <1>3, <2>1, <2>2 DEF Ch3Live
<1>17. Ch3Order'
  <2>1. \A q \in BlockProcs : proc[q].pc # "delete" /\ proc'[q].pc # "delete"
    BY <1>1, <1>2
  <2>2. Append(got \o msgs, proc[p].tmp) = got \o Append(msgs, proc[p].tmp)
    <3>1. got \in Seq(Nat) /\ msgs \in Seq(Nat) /\ proc[p].tmp \in Nat
      BY DEF Ch3Types
    <3>2. \A a, b \in Seq(Nat) : \A e \in Nat : Append(a \o b, e) = a \o Append(b, e)
      BY AppendAfter
    <3> QED BY <3>1, <3>2, Zenon
  <2> QED BY <1>3, <1>4, <1>12, <2>1, <2>2 DEF Ch3Order
<1> QED BY <1>3, <1>11, <1>12, <1>14, <1>15, <1>16, <1>17

LEMMA Ch3ReadLockInv ==
    ASSUME Ch3Inv, NEW p \in BlockProcs, Ch3!ReadLock(p)
    PROVE  Ch3Inv'
<1>1. proc[p].pc = "read_lock" /\ lock = "nobody" /\ lock' = p
  BY DEF Ch3!ReadLock, Ch3!LockFree, Ch3!NoProc
<1>2. proc'[p].pc = "first" /\ \A q \in BlockProcs : q # p => proc'[q] = proc[q]
  BY DEF Ch3Inv, Ch3Types, Ch3!MoveTo, Ch3!ReadLock, Ch3!LockFree
<1>3. UNCHANGED <<msgs, live, loaded, calls, sent, got>>
  BY DEF Ch3!ReadLock, Ch3!LockFree
<1>11. Ch3Types'
  BY DEF Ch3Inv, Ch3Types, Ch3Locked, Ch3!MoveTo, Ch3!ReadLock, Ch3!LockFree
<1>12. loaded
  BY <1>1 DEF Ch3Inv
<1>13. Len(msgs) \in Nat /\ calls \in Nat /\ \A q \in BlockProcs : proc[q].tmp \in Nat
  BY DEF Ch3Inv, Ch3Types
<1> USE <1>13 DEF Ch3Inv, Ch3Mutex, Ch3Writing, Ch3Locked
<1>14. Ch3Mutex'
  BY <1>1, <1>2, <1>3, LabsAssumption
<1>15. Ch3Numbers'
  BY <1>1, <1>2, <1>3 DEF Ch3Numbers
<1>16. Ch3Live'
  BY <1>1, <1>2, <1>3 DEF Ch3Live, Ch3Numbers
<1>17. Ch3Order'
  <2>1. \A q \in BlockProcs : proc[q].pc # "delete" /\ proc'[q].pc # "delete"
    BY <1>1, <1>2, LabsAssumption
  <2> QED BY <1>3, <1>12, <2>1 DEF Ch3Order
<1> QED BY <1>3, <1>11, <1>12, <1>14, <1>15, <1>16, <1>17

LEMMA Ch3ReadEmptyInv ==
    ASSUME Ch3Inv, NEW p \in BlockProcs, Ch3!ReadEmpty(p)
    PROVE  Ch3Inv'
<1>1. proc[p].pc = "first" /\ lock' = "nobody"
  BY DEF Ch3!ReadEmpty, Ch3!NoProc
<1>2. proc'[p].pc = "out" /\ \A q \in BlockProcs : q # p => proc'[q] = proc[q]
  BY DEF Ch3Inv, Ch3Types, Ch3!MoveTo, Ch3!ReadEmpty
<1>3. UNCHANGED <<msgs, live, loaded, calls, sent, got>>
  BY DEF Ch3!ReadEmpty
<1>11. Ch3Types'
  BY DEF Ch3Inv, Ch3Types, Ch3Locked, Ch3!MoveTo, Ch3!ReadEmpty
<1>12. loaded
  BY <1>1 DEF Ch3Inv
<1>13. Len(msgs) \in Nat /\ calls \in Nat /\ \A q \in BlockProcs : proc[q].tmp \in Nat
  BY DEF Ch3Inv, Ch3Types
<1> USE <1>13 DEF Ch3Inv, Ch3Mutex, Ch3Writing, Ch3Locked
<1>14. Ch3Mutex'
  BY <1>1, <1>2, <1>3, LabsAssumption
<1>15. Ch3Numbers'
  BY <1>1, <1>2, <1>3 DEF Ch3Numbers
<1>16. Ch3Live'
  BY <1>1, <1>2, <1>3 DEF Ch3Live, Ch3Numbers
<1>17. Ch3Order'
  BY <1>1, <1>2, <1>3, <1>12 DEF Ch3Order
<1> QED BY <1>3, <1>11, <1>12, <1>14, <1>15, <1>16, <1>17

LEMMA Ch3CopyFirstInv ==
    ASSUME Ch3Inv, NEW p \in BlockProcs, Ch3!CopyFirst(p)
    PROVE  Ch3Inv'
<1>1. proc[p].pc = "first" /\ msgs # <<>>
  BY DEF Ch3!CopyFirst, Ch3!NoProc
<1>2. proc'[p].pc = "delete" /\ proc'[p].tmp = Head(msgs) /\ \A q \in BlockProcs : q # p => proc'[q] = proc[q]
  BY DEF Ch3Inv, Ch3Types, Ch3!MoveTo, Ch3!CopyFirst
<1>3. UNCHANGED <<msgs, lock, live, loaded, calls, sent>> /\ got' = Append(got, Head(msgs))
  BY DEF Ch3!CopyFirst
<1>4. proc[p].tmp \in Nat /\ Head(msgs) \in Nat
  BY HeadOut DEF Ch3Inv, Ch3Types, Ch3!CopyFirst
<1>11. Ch3Types'
  BY DEF Ch3Inv, Ch3Types, Ch3Locked, Ch3!MoveTo, Ch3!CopyFirst
<1>12. loaded
  BY <1>1 DEF Ch3Inv
<1>13. Len(msgs) \in Nat /\ calls \in Nat /\ \A q \in BlockProcs : proc[q].tmp \in Nat
  BY DEF Ch3Inv, Ch3Types
<1> USE <1>13 DEF Ch3Inv, Ch3Mutex, Ch3Writing, Ch3Locked
<1>14. Ch3Mutex'
  BY <1>1, <1>2, <1>3, LabsAssumption
<1>15. Ch3Numbers'
  BY <1>1, <1>2, <1>3 DEF Ch3Numbers
<1>16. Ch3Live'
  BY <1>1, <1>2, <1>3 DEF Ch3Live, Ch3Numbers
<1>17. Ch3Order'
  <2>1. \A q \in BlockProcs : proc[q].pc # "delete" /\ (q # p => proc'[q].pc # "delete")
    BY <1>1, <1>2
  <2>2. got \o msgs = Append(got, Head(msgs)) \o Tail(msgs)
    BY <1>1, HeadMoves, ZenonT(60) DEF Ch3Types
  <2> QED BY <1>1, <1>2, <1>3, <1>12, <2>1, <2>2 DEF Ch3Order
<1> QED BY <1>3, <1>11, <1>12, <1>14, <1>15, <1>16, <1>17

LEMMA Ch3DeleteInv ==
    ASSUME Ch3Inv, NEW p \in BlockProcs, Ch3!Delete(p)
    PROVE  Ch3Inv'
<1>1. proc[p].pc = "delete" /\ lock' = "nobody"
  BY DEF Ch3!Delete, Ch3!NoProc
<1>2. proc'[p].pc = "out" /\ \A q \in BlockProcs : q # p => proc'[q] = proc[q]
  BY DEF Ch3Inv, Ch3Types, Ch3!MoveTo, Ch3!Delete
<1>3. UNCHANGED <<loaded, calls, sent, got>>
  BY DEF Ch3!Delete
<1>4. loaded /\ msgs # <<>> /\ proc[p].tmp = Head(msgs) /\ sent = got \o Tail(msgs)
  BY <1>1 DEF Ch3Inv, Ch3Order
<1>5. /\ msgs' = Tail(msgs) /\ Tail(msgs) \in Seq(Nat) /\ Len(Tail(msgs)) = Len(msgs) - 1
      /\ Len(msgs) \in Nat \ {0} /\ Head(msgs) = msgs[1]
      /\ \A i \in 1..Len(msgs)-1 : Tail(msgs)[i] = msgs[i + 1]
  <2>1. msgs' = Ch3!RemoveFirst(msgs, Head(msgs)) /\ msgs \in Seq(Nat)
    BY <1>4 DEF Ch3!Delete, Ch3Inv, Ch3Types
  <2> QED BY <1>4, <2>1, HeadOut
<1>6. live' = live \ {msgs[1]}
  BY <1>4, <1>5 DEF Ch3!Delete
<1>11. Ch3Types'
  <2>1. proc' = [proc EXCEPT ![p].pc = "out"]
    BY DEF Ch3!Delete, Ch3!MoveTo
  <2> QED BY <1>3, <1>5, <2>1 DEF Ch3Inv, Ch3Types
<1>12. loaded
  BY <1>1 DEF Ch3Inv
<1>13. Len(msgs) \in Nat /\ calls \in Nat /\ \A q \in BlockProcs : proc[q].tmp \in Nat
  BY DEF Ch3Inv, Ch3Types
<1> USE <1>13 DEF Ch3Inv, Ch3Mutex, Ch3Writing, Ch3Locked
<1>14. Ch3Mutex'
  BY <1>1, <1>2, <1>3, LabsAssumption
<1>7. /\ Len(msgs') = Len(msgs) - 1 /\ \A i \in 1..Len(msgs') : msgs'[i] = msgs[i + 1]
      /\ \A i \in 1..Len(msgs') : i + 1 \in 2..Len(msgs)
      /\ \A i \in 2..Len(msgs) : i - 1 \in 1..Len(msgs') /\ msgs[i] = msgs'[i - 1]
  BY <1>5
<1>8. \A q \in BlockProcs : proc'[q].pc \in Ch3Writing => proc'[q] = proc[q]
  BY <1>2
<1>9. \A q \in BlockProcs : proc[q].pc \in Ch3Writing => proc'[q] = proc[q]
  BY <1>1, <1>2
<1>15. Ch3Numbers'
  <2>1. 2..Len(msgs) \subseteq 1..Len(msgs)
    OBVIOUS
  <2>2. \A i \in 1..Len(msgs') : msgs'[i] <= calls
    BY <1>7, <2>1 DEF Ch3Numbers
  <2>3. \A i, j \in 1..Len(msgs') : msgs'[i] = msgs'[j] => i = j
    <3> TAKE i, j \in 1..Len(msgs')
    <3>1. i + 1 \in 1..Len(msgs) /\ j + 1 \in 1..Len(msgs)
      BY <1>7, <2>1
    <3> QED BY <1>7, <3>1 DEF Ch3Numbers
  <2>4. \A q \in BlockProcs : proc[q].pc \in Ch3Writing =>
          \A i \in 1..Len(msgs') : msgs'[i] # proc[q].tmp
    BY <1>7, <2>1 DEF Ch3Numbers
  <2> QED BY <1>3, <1>8, <2>2, <2>3, <2>4 DEF Ch3Numbers
<1>16. Ch3Live'
  <2>1. \A m : (\E i \in 1..Len(msgs') : msgs'[i] = m) <=>
                  (\E i \in 1..Len(msgs) : msgs[i] = m) /\ m # msgs[1]
    <3> TAKE m
    <3>1. ASSUME NEW i \in 1..Len(msgs'), msgs'[i] = m
          PROVE  (\E k \in 1..Len(msgs) : msgs[k] = m) /\ m # msgs[1]
      <4>1. i + 1 \in 1..Len(msgs) /\ 1 \in 1..Len(msgs) /\ i + 1 # 1
        BY <1>7
      <4> QED BY <1>7, <3>1, <4>1 DEF Ch3Numbers
    <3>2. ASSUME NEW i \in 1..Len(msgs), msgs[i] = m, m # msgs[1]
          PROVE  \E k \in 1..Len(msgs') : msgs'[k] = m
      <4>1. i \in 2..Len(msgs)
        BY <3>2
      <4> QED BY <1>7, <3>2, <4>1
    <3> QED BY <3>1, <3>2
  <2>2. \A q \in BlockProcs : proc[q].pc \in Ch3Writing => proc[q].tmp # msgs[1]
    BY <1>5 DEF Ch3Numbers
  <2>3. \A m : (\E q \in BlockProcs : proc'[q].pc \in Ch3Writing /\ proc'[q].tmp = m) <=>
                  \E q \in BlockProcs : proc[q].pc \in Ch3Writing /\ proc[q].tmp = m
    BY <1>8, <1>9
  <2>4. \A m : m \in live' <=> m \in live /\ m # msgs[1]
    BY <1>6
  <2> HIDE DEF Ch3Writing
  <2> SUFFICES ASSUME NEW m
               PROVE  m \in live' <=>
                        \/ \E i \in 1..Len(msgs') : msgs'[i] = m
                        \/ \E q \in BlockProcs : proc'[q].pc \in Ch3Writing /\ proc'[q].tmp = m
    BY DEF Ch3Live
  <2>5. m \in live <=> \/ \E i \in 1..Len(msgs) : msgs[i] = m
                      \/ \E q \in BlockProcs : proc[q].pc \in Ch3Writing /\ proc[q].tmp = m
    BY DEF Ch3Live
  <2> QED BY <2>1, <2>2, <2>3, <2>4, <2>5, ZenonT(30)
<1>17. Ch3Order'
  BY <1>1, <1>2, <1>3, <1>12, <1>4, <1>5, <1>6 DEF Ch3Order
<1> QED BY <1>3, <1>11, <1>12, <1>14, <1>15, <1>16, <1>17

LEMMA Ch3WriteCallInv ==
    ASSUME Ch3Inv, NEW p \in BlockProcs, Ch3!WriteCall(p)
    PROVE  Ch3Inv'
<1>1. loaded /\ proc[p].pc = "out"
  BY DEF Ch3!WriteCall, Ch3!NoProc
<1>2. proc'[p].pc = "write_lock" /\ proc'[p].tmp = calls + 1 /\ \A q \in BlockProcs : q # p => proc'[q] = proc[q]
  BY DEF Ch3Inv, Ch3Types, Ch3!MoveTo, Ch3!WriteCall
<1>3. live' = live \cup {calls + 1} /\ calls' = calls + 1 /\ UNCHANGED <<msgs, lock, loaded, sent, got>>
  BY DEF Ch3!WriteCall
<1>11. Ch3Types'
  BY DEF Ch3Inv, Ch3Types, Ch3Locked, Ch3!MoveTo, Ch3!WriteCall
<1>12. loaded
  BY <1>1 DEF Ch3Inv
<1>13. Len(msgs) \in Nat /\ calls \in Nat /\ \A q \in BlockProcs : proc[q].tmp \in Nat
  BY DEF Ch3Inv, Ch3Types
<1> USE <1>13 DEF Ch3Inv, Ch3Mutex, Ch3Writing, Ch3Locked
<1>14. Ch3Mutex'
  BY <1>1, <1>2, <1>3, LabsAssumption
<1>15. Ch3Numbers'
  <2>1. \A q \in BlockProcs : proc'[q].pc \in Ch3Writing /\ q # p =>
          proc'[q] = proc[q] /\ proc[q].tmp <= calls
    BY <1>2 DEF Ch3Numbers
  <2>2. \A i \in 1..Len(msgs) : msgs[i] <= calls /\ msgs[i] \in Nat
    BY DEF Ch3Numbers, Ch3Types
  <2>3. \A i \in 1..Len(msgs) : msgs[i] <= calls + 1 /\ msgs[i] # calls + 1
    BY <2>2
  <2>4. \A i, j \in 1..Len(msgs) : msgs[i] = msgs[j] => i = j
    BY DEF Ch3Numbers
  <2>5. \A q \in BlockProcs : proc'[q].pc \in Ch3Writing /\ q # p =>
          proc'[q].tmp # calls + 1 /\ proc'[q].tmp <= calls + 1
    BY <2>1
  <2> QED BY <1>2, <1>3, <2>1, <2>3, <2>4, <2>5 DEF Ch3Numbers
<1>16. Ch3Live'
  BY <1>1, <1>2, <1>3 DEF Ch3Live, Ch3Numbers
<1>17. Ch3Order'
  BY <1>1, <1>2, <1>3, <1>12 DEF Ch3Order
<1> QED BY <1>3, <1>11, <1>12, <1>14, <1>15, <1>16, <1>17

LEMMA Ch3ReadCallInv ==
    ASSUME Ch3Inv, NEW p \in BlockProcs, Ch3!ReadCall(p)
    PROVE  Ch3Inv'
<1>1. loaded /\ proc[p].pc = "out"
  BY DEF Ch3!ReadCall, Ch3!NoProc
<1>2. proc'[p].pc = "read_lock" /\ \A q \in BlockProcs : q # p => proc'[q] = proc[q]
  BY DEF Ch3Inv, Ch3Types, Ch3!MoveTo, Ch3!ReadCall
<1>3. calls' = calls + 1 /\ UNCHANGED <<msgs, lock, live, loaded, sent, got>>
  BY DEF Ch3!ReadCall
<1>11. Ch3Types'
  <2>1. proc' = [proc EXCEPT ![p].pc = "read_lock"]
    BY DEF Ch3!ReadCall, Ch3!MoveTo
  <2>2. proc' \in [BlockProcs -> [pc : {"out", "write_lock", "read_lock"} \cup Ch3Locked, tmp : Nat]]
    BY <2>1 DEF Ch3Inv, Ch3Types
  <2>3. calls' \in Nat
    BY <1>3 DEF Ch3Inv, Ch3Types
  <2> QED BY <1>3, <2>2, <2>3 DEF Ch3Inv, Ch3Types
<1>12. loaded
  BY <1>1 DEF Ch3Inv
<1>13. Len(msgs) \in Nat /\ calls \in Nat /\ \A q \in BlockProcs : proc[q].tmp \in Nat
  BY DEF Ch3Inv, Ch3Types
<1> USE <1>13 DEF Ch3Inv, Ch3Mutex, Ch3Writing, Ch3Locked
<1>14. Ch3Mutex'
  BY <1>1, <1>2, <1>3, LabsAssumption
<1>15. Ch3Numbers'
  <2>1. \A q \in BlockProcs : proc'[q].pc \in Ch3Writing => proc'[q] = proc[q]
    BY <1>2
  <2>2. \A i \in 1..Len(msgs) : msgs[i] <= calls /\ msgs[i] \in Nat
    BY DEF Ch3Numbers, Ch3Types
  <2>3. \A i \in 1..Len(msgs) : msgs[i] <= calls + 1
    BY <2>2
  <2>4. \A q \in BlockProcs : proc[q].pc \in Ch3Writing => proc[q].tmp <= calls + 1
    BY DEF Ch3Numbers
  <2> QED BY <1>3, <2>1, <2>3, <2>4 DEF Ch3Numbers
<1>16. Ch3Live'
  BY <1>1, <1>2, <1>3 DEF Ch3Live, Ch3Numbers
<1>17. Ch3Order'
  BY <1>1, <1>2, <1>3, <1>12 DEF Ch3Order
<1> QED BY <1>3, <1>11, <1>12, <1>14, <1>15, <1>16, <1>17

LEMMA Ch3UnloadInv ==
    ASSUME Ch3Inv, Ch3!Unload
    PROVE  Ch3Inv'
<1>1. /\ loaded /\ \A p \in BlockProcs : proc[p].pc = "out"
      /\ ~loaded' /\ loaded' \in BOOLEAN /\ msgs' = <<>> /\ Len(msgs') = 0
      /\ UNCHANGED <<lock, calls, proc, sent, got>>
  BY DEF Ch3!Unload
<1>2. \A m : m \in live <=> \E i \in 1..Len(msgs) : msgs[i] = m
  BY <1>1 DEF Ch3Inv, Ch3Live, Ch3Writing
<1>3. live' = {}
  BY <1>2, SMTT(30) DEF Ch3!Unload, Ch3!ToSet, Ch3Inv, Ch3Types
<1> QED BY <1>1, <1>3 DEF Ch3Inv, Ch3Types, Ch3Mutex, Ch3Numbers, Ch3Live, Ch3Writing

LEMMA Ch3NextInv ==
    ASSUME Ch3Inv, Ch3!Ch3Next
    PROVE  Ch3Inv'
BY Ch3WriteLockInv, Ch3AddInv, Ch3ReadLockInv, Ch3ReadEmptyInv, Ch3CopyFirstInv, Ch3DeleteInv,
   Ch3WriteCallInv, Ch3ReadCallInv, Ch3UnloadInv DEF Ch3!Ch3Next, Ch3!Ch3Step


LEMMA Ch3Once == Ch3Inv => Ch3!MessagesOnce
<1> SUFFICES ASSUME Ch3Inv, loaded
             PROVE  \E n \in 0..Len(msgs) :
                      /\ Ch3!ToSet(SubSeq(msgs, 1, n)) = Ch3!Holding({"delete"})
                      /\ sent = got \o SubSeq(msgs, n + 1, Len(msgs))
  BY DEF Ch3!MessagesOnce
<1>0. msgs \in Seq(Nat) /\ Len(msgs) \in Nat /\ Ch3Order /\ Ch3Mutex
  BY DEF Ch3Inv, Ch3Types
<1>1. CASE \A p \in BlockProcs : proc[p].pc # "delete"
  <2>1. SubSeq(msgs, 1, 0) = <<>> /\ SubSeq(msgs, 0 + 1, Len(msgs)) = msgs
    BY <1>0
  <2>2. Ch3!Holding({"delete"}) = {}
    BY <1>1 DEF Ch3!Holding
  <2>3. Ch3!ToSet(<<>>) = {}
    BY DEF Ch3!ToSet
  <2>4. sent = got \o msgs
    BY <1>0, <1>1 DEF Ch3Order
  <2> WITNESS 0 \in 0..Len(msgs)
  <2> QED BY <2>1, <2>2, <2>3, <2>4
<1>2. ASSUME NEW p \in BlockProcs, proc[p].pc = "delete"
      PROVE  \E n \in 0..Len(msgs) :
               /\ Ch3!ToSet(SubSeq(msgs, 1, n)) = Ch3!Holding({"delete"})
               /\ sent = got \o SubSeq(msgs, n + 1, Len(msgs))
  <2>1. msgs # <<>> /\ proc[p].tmp = Head(msgs) /\ sent = got \o Tail(msgs)
    BY <1>0, <1>2 DEF Ch3Order
  <2>2. SubSeq(msgs, 1, 1) = <<Head(msgs)>> /\ SubSeq(msgs, 1 + 1, Len(msgs)) = Tail(msgs)
    BY <1>0, <2>1, TwoEnds
  <2>3. \A q \in BlockProcs : proc[q].pc = "delete" <=> q = p
    BY <1>0, <1>2 DEF Ch3Mutex, Ch3Locked
  <2>4. Ch3!Holding({"delete"}) = {Head(msgs)}
    BY <2>1, <2>3 DEF Ch3!Holding
  <2>5. Ch3!ToSet(<<Head(msgs)>>) = {Head(msgs)}
    BY DEF Ch3!ToSet
  <2>6. 1 \in 0..Len(msgs)
    BY <1>0, <2>1
  <2> WITNESS 1 \in 0..Len(msgs)
  <2> QED BY <2>1, <2>2, <2>4, <2>5
<1> QED BY <1>1, <1>2

LEMMA Ch3Kept == Ch3Inv => Ch3!Ch3NoLeak
<1> SUFFICES ASSUME Ch3Inv, NEW m
             PROVE  m \in live <=> m \in Ch3!ToSet(msgs) \cup Ch3!Holding({"write_lock", "add"})
  BY DEF Ch3!Ch3NoLeak
<1>1. DOMAIN msgs = 1..Len(msgs)
  BY DEF Ch3Inv, Ch3Types
<1>2. m \in live <=> \/ \E i \in 1..Len(msgs) : msgs[i] = m
                     \/ \E p \in BlockProcs : proc[p].pc \in Ch3Writing /\ proc[p].tmp = m
  BY DEF Ch3Inv, Ch3Live
<1>3. m \in Ch3!ToSet(msgs) <=> \E i \in 1..Len(msgs) : msgs[i] = m
  BY <1>1 DEF Ch3!ToSet
<1>4. m \in Ch3!Holding({"write_lock", "add"}) <=>
        \E p \in BlockProcs : proc[p].pc \in Ch3Writing /\ proc[p].tmp = m
  BY DEF Ch3!Holding, Ch3Writing
<1> QED BY <1>2, <1>3, <1>4

(***************************************************************************)
(* lab7, the sensor's list                                                 *)
(***************************************************************************)
IntOpened == {"open", "lock", "walk", "disable"}
IntTypes ==
    /\ times \in Seq(Nat) /\ depth \in Nat /\ edges \in Nat
    /\ loaded \in BOOLEAN /\ shared \in BOOLEAN
    /\ isr \in [pc : {"idle", "lock", "add"}, node : Nat, on : Readers \cup {"elsewhere"}]
    /\ proc \in [Readers -> [pc : {"out", "wait"} \cup IntOpened, pos : Nat]]

\* The depth is above 0 when nobody has the device open, and the handler runs only
\* while somebody is between open and the end of release.
IntDepth ==
    /\ (\A p \in Readers : proc[p].pc \notin IntOpened) => depth > 0
    /\ isr.pc # "idle" => \E p \in Readers : proc[p].pc # "out"
\* As long as the device was open once at a time, it is enabled exactly for that.
IntAlone ==
    ~shared =>
        /\ \A p, q \in Readers : proc[p].pc # "out" /\ proc[q].pc # "out" => p = q
        /\ depth = IF \E p \in Readers : proc[p].pc \in IntOpened THEN 0 ELSE 1
IntLive ==
    \A n : n \in live <=> \/ \E i \in 1..Len(times) : times[i] = n
                          \/ isr.pc # "idle" /\ n = isr.node
IntInv == IntTypes /\ IntDepth /\ IntAlone /\ IntLive

LEMMA IntInitInv == Sensor!IntInit => IntInv
<1> SUFFICES ASSUME Sensor!IntInit PROVE IntInv
  OBVIOUS
<1> USE DEF Sensor!IntInit, Sensor!Elsewhere
<1>1. IntTypes
  <2>1. isr \in [pc : {"idle", "lock", "add"}, node : Nat, on : Readers \cup {"elsewhere"}]
    OBVIOUS
  <2>2. times \in Seq(Nat) /\ depth \in Nat /\ edges \in Nat
    OBVIOUS
  <2>4. loaded \in BOOLEAN /\ shared \in BOOLEAN
    BY ZenonT(30)
  <2>3. proc \in [Readers -> [pc : {"out", "wait"} \cup IntOpened, pos : Nat]]
    OBVIOUS
  <2> QED BY <2>1, <2>2, <2>3, <2>4 DEF IntTypes
<1>2. \A p \in Readers : proc[p].pc = "out"
  OBVIOUS
<1>3. IntDepth /\ IntAlone
  BY <1>2 DEF IntDepth, IntAlone, IntOpened
<1>4. IntLive
  BY DEF IntLive
<1> QED BY <1>1, <1>3, <1>4 DEF IntInv

\* What most steps of release share: the process has the device open before and after.
LEMMA IntInsideInv ==
    ASSUME IntInv, NEW p \in Readers, proc[p].pc \in IntOpened, proc'[p].pc \in IntOpened,
           proc' \in [Readers -> [pc : {"out", "wait"} \cup IntOpened, pos : Nat]],
           \A q \in Readers : q # p => proc'[q] = proc[q],
           UNCHANGED <<times, live, loaded, depth, isr, edges, shared>>
    PROVE  IntInv'
<1>1. \A q \in Readers : /\ proc'[q].pc \in IntOpened <=> proc[q].pc \in IntOpened
                         /\ proc'[q].pc = "out" <=> proc[q].pc = "out"
  BY DEF IntOpened
<1>2. IntTypes'
  BY DEF IntInv, IntTypes, IntOpened
<1> QED BY <1>1, <1>2 DEF IntInv, IntDepth, IntAlone, IntLive

LEMMA IntReleaseLockInv ==
    ASSUME IntInv, NEW p \in Readers, Sensor!ReleaseLock(p)
    PROVE  IntInv'
<1>1. proc[p].pc = "lock" /\ UNCHANGED <<times, live, loaded, depth, isr, edges, shared>>
  BY DEF Sensor!ReleaseLock, Sensor!At
<1>2. proc' = [proc EXCEPT ![p].pc = "walk"]
  BY DEF Sensor!ReleaseLock, Sensor!MoveTo
<1>3. proc'[p].pc \in IntOpened /\ proc[p].pc \in IntOpened
  BY <1>1, <1>2 DEF IntInv, IntTypes, IntOpened
<1>4. proc' \in [Readers -> [pc : {"out", "wait"} \cup IntOpened, pos : Nat]]
  BY <1>2 DEF IntInv, IntTypes, IntOpened
<1>5. \A q \in Readers : q # p => proc'[q] = proc[q]
  BY <1>2 DEF IntInv, IntTypes
<1> QED BY <1>1, <1>3, <1>4, <1>5, IntInsideInv

LEMMA IntReleaseInv ==
    ASSUME IntInv, NEW p \in Readers, Sensor!Release(p)
    PROVE  IntInv'
<1>1. proc[p].pc = "open" /\ UNCHANGED <<times, live, loaded, depth, isr, edges, shared>>
  BY DEF Sensor!Release, Sensor!At
<1>2. PICK pc \in {"disable", "lock"} : proc' = [proc EXCEPT ![p] = [pc |-> pc, pos |-> 0]]
  BY DEF Sensor!Release
<1>3. proc'[p].pc \in IntOpened /\ proc[p].pc \in IntOpened
  BY <1>1, <1>2 DEF IntInv, IntTypes, IntOpened
<1>4. proc' \in [Readers -> [pc : {"out", "wait"} \cup IntOpened, pos : Nat]]
  BY <1>2 DEF IntInv, IntTypes, IntOpened
<1>5. \A q \in Readers : q # p => proc'[q] = proc[q]
  BY <1>2 DEF IntInv, IntTypes
<1> QED BY <1>1, <1>3, <1>4, <1>5, IntInsideInv

LEMMA IntShowOneInv ==
    ASSUME IntInv, NEW p \in Readers, Sensor!ShowOne(p)
    PROVE  IntInv'
<1>1. proc[p].pc = "walk" /\ UNCHANGED <<times, live, loaded, depth, isr, edges, shared>>
  BY DEF Sensor!ShowOne, Sensor!At
<1>2. proc' = [proc EXCEPT ![p].pos = proc[p].pos + 1]
  BY DEF Sensor!ShowOne
<1>3. proc'[p].pc \in IntOpened /\ proc[p].pc \in IntOpened
  BY <1>1, <1>2 DEF IntInv, IntTypes, IntOpened
<1>4. proc' \in [Readers -> [pc : {"out", "wait"} \cup IntOpened, pos : Nat]]
  <2>1. proc[p].pos + 1 \in Nat
    BY DEF IntInv, IntTypes
  <2> QED BY <1>2, <2>1 DEF IntInv, IntTypes
<1>5. \A q \in Readers : q # p => proc'[q] = proc[q]
  BY <1>2 DEF IntInv, IntTypes
<1> QED BY <1>1, <1>3, <1>4, <1>5, IntInsideInv

LEMMA IntEndOfListInv ==
    ASSUME IntInv, NEW p \in Readers, Sensor!EndOfList(p)
    PROVE  IntInv'
<1>1. proc[p].pc = "walk" /\ UNCHANGED <<times, live, loaded, depth, isr, edges, shared>>
  BY DEF Sensor!EndOfList, Sensor!At
<1>2. proc' = [proc EXCEPT ![p].pc = "disable"]
  BY DEF Sensor!EndOfList, Sensor!MoveTo
<1>3. proc'[p].pc \in IntOpened /\ proc[p].pc \in IntOpened
  BY <1>1, <1>2 DEF IntInv, IntTypes, IntOpened
<1>4. proc' \in [Readers -> [pc : {"out", "wait"} \cup IntOpened, pos : Nat]]
  BY <1>2 DEF IntInv, IntTypes, IntOpened
<1>5. \A q \in Readers : q # p => proc'[q] = proc[q]
  BY <1>2 DEF IntInv, IntTypes
<1> QED BY <1>1, <1>3, <1>4, <1>5, IntInsideInv

LEMMA IntDisableInv ==
    ASSUME IntInv, NEW p \in Readers, Sensor!Disable(p)
    PROVE  IntInv'
<1>1. proc[p].pc = "disable" /\ depth' = depth + 1
      /\ UNCHANGED <<times, live, loaded, isr, edges, shared>>
  BY DEF Sensor!Disable, Sensor!At
<1>2. proc' = [proc EXCEPT ![p].pc = "wait"]
  BY DEF Sensor!Disable, Sensor!MoveTo
<1>3. proc'[p].pc = "wait" /\ \A q \in Readers : q # p => proc'[q] = proc[q]
  BY <1>2 DEF IntInv, IntTypes
<1>4. IntTypes'
  BY <1>1, <1>2 DEF IntInv, IntTypes
<1>5. depth \in Nat /\ \A q \in Readers : proc'[q].pc = "out" <=> proc[q].pc = "out"
  BY <1>1, <1>3 DEF IntInv, IntTypes
<1>6. IntDepth'
  BY <1>1, <1>5 DEF IntInv, IntDepth
<1>7. ASSUME ~shared PROVE depth = 0 /\ \A q \in Readers : proc'[q].pc \notin IntOpened
  <2>1. \A q \in Readers : q # p => proc[q].pc = "out"
    BY <1>1, <1>7 DEF IntInv, IntAlone
  <2> QED BY <1>1, <1>3, <1>7, <2>1 DEF IntInv, IntAlone, IntOpened
<1>8. IntAlone'
  <2> SUFFICES ASSUME ~shared
               PROVE  /\ \A q, r \in Readers : proc'[q].pc # "out" /\ proc'[r].pc # "out" => q = r
                      /\ depth' = 1 /\ ~ \E q \in Readers : proc'[q].pc \in IntOpened
    BY <1>1 DEF IntAlone
  <2> QED BY <1>1, <1>5, <1>7 DEF IntInv, IntAlone
<1> QED BY <1>1, <1>4, <1>6, <1>8 DEF IntInv, IntLive

LEMMA IntWaitInv ==
    ASSUME IntInv, NEW p \in Readers, Sensor!Wait(p)
    PROVE  IntInv'
<1>1. proc[p].pc = "wait" /\ isr.pc = "idle"
      /\ UNCHANGED <<times, live, loaded, depth, isr, edges, shared>>
  BY DEF Sensor!Wait, Sensor!At, Sensor!HandlerEnded, Sensor!HandlerIsRunning
<1>2. proc' = [proc EXCEPT ![p].pc = "out"]
  BY DEF Sensor!Wait, Sensor!MoveTo
<1>3. proc'[p].pc = "out" /\ \A q \in Readers : q # p => proc'[q] = proc[q]
  BY <1>2 DEF IntInv, IntTypes
<1>4. IntTypes'
  BY <1>1, <1>2 DEF IntInv, IntTypes
<1>5. \A q \in Readers : /\ proc'[q].pc \in IntOpened <=> proc[q].pc \in IntOpened
                         /\ proc'[q].pc # "out" => proc[q].pc # "out"
  BY <1>1, <1>3 DEF IntOpened
<1>6. IntDepth'
  BY <1>1, <1>5 DEF IntInv, IntDepth
<1>7. IntAlone'
  BY <1>1, <1>5 DEF IntInv, IntAlone
<1> QED BY <1>1, <1>4, <1>6, <1>7 DEF IntInv, IntLive

LEMMA IntOpenInv ==
    ASSUME IntInv, NEW p \in Readers, Sensor!Open(p)
    PROVE  IntInv'
<1>1. proc[p].pc = "out" /\ depth' = (IF depth = 0 THEN 0 ELSE depth - 1)
      /\ UNCHANGED <<times, live, loaded, isr, edges>>
  BY DEF Sensor!Open, Sensor!At
<1>2. proc' = [proc EXCEPT ![p].pc = "open"]
  BY DEF Sensor!Open, Sensor!MoveTo
<1>3. proc'[p].pc = "open" /\ \A q \in Readers : q # p => proc'[q] = proc[q]
  BY <1>2 DEF IntInv, IntTypes
<1>9. shared' = (shared \/ ~Sensor!AllClosed)
  BY DEF Sensor!Open
<1>4. IntTypes'
  <2>1. depth' \in Nat
    BY <1>1 DEF IntInv, IntTypes
  <2>2. shared' \in BOOLEAN
    BY <1>9
  <2>3. proc' \in [Readers -> [pc : {"out", "wait"} \cup IntOpened, pos : Nat]]
    BY <1>2 DEF IntInv, IntTypes, IntOpened
  <2> QED BY <1>1, <2>1, <2>2, <2>3 DEF IntInv, IntTypes
<1>5. ~shared' => ~shared /\ \A q \in Readers : proc[q].pc = "out"
  BY <1>9 DEF Sensor!AllClosed
<1>6. IntDepth'
  BY <1>1, <1>3 DEF IntInv, IntDepth, IntOpened
<1>7. IntAlone'
  <2> SUFFICES ASSUME ~shared'
               PROVE  /\ \A q, r \in Readers : proc'[q].pc # "out" /\ proc'[r].pc # "out" => q = r
                      /\ depth' = 0 /\ \E q \in Readers : proc'[q].pc \in IntOpened
    BY DEF IntAlone
  <2>1. depth = 1
    BY <1>5 DEF IntInv, IntAlone, IntOpened
  <2> QED BY <1>1, <1>3, <1>5, <2>1 DEF IntOpened
<1> QED BY <1>1, <1>4, <1>6, <1>7 DEF IntInv, IntLive

LEMMA IntEdgeInv ==
    ASSUME IntInv, NEW c \in Readers \cup {"elsewhere"}, Sensor!Edge(c)
    PROVE  IntInv'
<1>1. depth = 0 /\ isr.pc = "idle" /\ UNCHANGED <<times, loaded, depth, proc, shared>>
  BY DEF Sensor!Edge, Sensor!HandlerIsRunning
<1>2. /\ edges' = edges + 1 /\ live' = live \cup {edges + 1}
      /\ isr' = [pc |-> "lock", node |-> edges + 1, on |-> c]
  BY DEF Sensor!Edge
<1>3. IntTypes'
  BY <1>1, <1>2 DEF IntInv, IntTypes
<1>4. IntDepth'
  <2>1. \E p \in Readers : proc[p].pc \in IntOpened
    BY <1>1 DEF IntInv, IntDepth
  <2> QED BY <1>1, <2>1 DEF IntInv, IntDepth, IntOpened
<1>5. IntAlone'
  BY <1>1 DEF IntInv, IntAlone
<1>6. IntLive'
  BY <1>1, <1>2 DEF IntInv, IntLive
<1> QED BY <1>3, <1>4, <1>5, <1>6 DEF IntInv

LEMMA IntIsrLockInv ==
    ASSUME IntInv, Sensor!IsrLock
    PROVE  IntInv'
<1>1. isr.pc = "lock" /\ isr' = [isr EXCEPT !.pc = "add"]
      /\ UNCHANGED <<times, live, loaded, depth, edges, proc, shared>>
  BY DEF Sensor!IsrLock
<1>2. IntTypes' /\ isr'.pc = "add" /\ isr'.node = isr.node
  BY <1>1 DEF IntInv, IntTypes
<1> QED BY <1>1, <1>2 DEF IntInv, IntDepth, IntAlone, IntLive

LEMMA IntIsrAddInv ==
    ASSUME IntInv, Sensor!IsrAdd
    PROVE  IntInv'
<1>1. isr.pc = "add" /\ isr' = [isr EXCEPT !.pc = "idle"] /\ times' = Append(times, isr.node)
      /\ UNCHANGED <<live, loaded, depth, edges, proc, shared>>
  BY DEF Sensor!IsrAdd
<1>2. IntTypes' /\ isr'.pc = "idle"
  <2>1. isr' \in [pc : {"idle", "lock", "add"}, node : Nat, on : Readers \cup {"elsewhere"}]
        /\ isr'.pc = "idle"
    BY <1>1 DEF IntInv, IntTypes
  <2>2. times' \in Seq(Nat)
    BY <1>1 DEF IntInv, IntTypes
  <2> QED BY <1>1, <2>1, <2>2 DEF IntInv, IntTypes
<1>3. /\ Len(times) \in Nat /\ Len(times') = Len(times) + 1
      /\ times'[Len(times) + 1] = isr.node
      /\ \A i \in 1..Len(times) : times'[i] = times[i]
  BY <1>1 DEF IntInv, IntTypes
<1>4. \A n : (\E i \in 1..Len(times') : times'[i] = n) <=>
                (\E i \in 1..Len(times) : times[i] = n) \/ n = isr.node
  BY <1>3
<1>5. IntLive'
  BY <1>1, <1>2, <1>4 DEF IntInv, IntLive
<1> QED BY <1>1, <1>2, <1>5 DEF IntInv, IntDepth, IntAlone

LEMMA IntUnloadInv ==
    ASSUME IntInv, Sensor!Unload
    PROVE  IntInv'
<1>1. isr.pc = "idle" /\ times' = <<>> /\ live' = live \ Sensor!ToSet(times)
      /\ UNCHANGED <<depth, isr, edges, proc, shared>>
  BY DEF Sensor!Unload, Sensor!HandlerIsRunning
<1>2. loaded' \in BOOLEAN
  BY ZenonT(30) DEF Sensor!Unload
<1>3. live' = {}
  BY <1>1 DEF IntInv, IntTypes, IntLive, Sensor!ToSet
<1>4. IntTypes'
  BY <1>1, <1>2 DEF IntInv, IntTypes
<1>5. IntLive'
  BY <1>1, <1>3 DEF IntLive
<1> QED BY <1>1, <1>4, <1>5 DEF IntInv, IntDepth, IntAlone

LEMMA IntNextInv ==
    ASSUME IntInv, Sensor!IntNext
    PROVE  IntInv'
BY IntUnloadInv, IntIsrLockInv, IntIsrAddInv, IntEdgeInv, IntOpenInv, IntReleaseInv,
   IntReleaseLockInv, IntShowOneInv, IntEndOfListInv, IntDisableInv, IntWaitInv
   DEF Sensor!IntNext, Sensor!IntStep, Sensor!IsrStep, Sensor!Elsewhere

LEMMA IntFollows == IntInv => Sensor!SensorFollowsOpen
BY DEF IntInv, IntTypes, IntDepth, IntAlone, IntOpened, Sensor!SensorFollowsOpen, Sensor!AllClosed

LEMMA IntKept == IntInv => Sensor!IntNoLeak
<1> SUFFICES ASSUME IntInv, NEW n
             PROVE  n \in live <=>
                      n \in Sensor!ToSet(times) \cup (IF isr.pc = "idle" THEN {} ELSE {isr.node})
  BY DEF Sensor!IntNoLeak
<1>1. DOMAIN times = 1..Len(times)
  BY DEF IntInv, IntTypes
<1> QED BY <1>1 DEF IntInv, IntLive, Sensor!ToSet

(***************************************************************************)
(* lab4, the blocking drivers                                              *)
(***************************************************************************)
BlockPc == {"out", "prepare", "recheck", "schedule", "asleep", "lock", "store", "wake"}
BlockCommand == Commands1 \cup Commands2 \cup {"none"}
BlockTypes ==
    /\ my_data \in Int /\ produced \in Int /\ consumed \in Int
    /\ my_wq \in Seq(BlockProcs)
    /\ proc \in [BlockProcs -> [pc : BlockPc, cmd : BlockCommand, arg : Nat, val : Int]]

In(p, s) == \E i \in 1..Len(s) : s[i] = p

\* my_data is loaded and stored by the holder of the lock.
BlockLock ==
    /\ \A p \in BlockProcs : proc[p].pc = "store" <=> lock = p
    /\ \A p \in BlockProcs : proc[p].pc = "store" => proc[p].val = my_data
BlockBalance == my_data = produced - consumed

\* The queue has nobody twice, the exclusive sleepers behind the others.
BlockQueue ==
    /\ \A i, j \in 1..Len(my_wq) : my_wq[i] = my_wq[j] => i = j
    /\ \A i, j \in 1..Len(my_wq) :
         i < j /\ proc[my_wq[i]].cmd = "WQ_EX" => proc[my_wq[j]].cmd = "WQ_EX"
BlockMembers ==
    /\ \A p \in BlockProcs : In(p, my_wq) => proc[p].pc \in {"recheck", "schedule", "asleep"}
    /\ \A p \in BlockProcs : proc[p].pc = "asleep" => In(p, my_wq)

\* Who has found no data, or sleeps, in the queue and without WQ_EX, is about to be
\* woken when there is data: it was made after the look.
BlockOwed ==
    my_data > 0 =>
        \A p \in BlockProcs :
            In(p, my_wq) /\ proc[p].pc \in {"schedule", "asleep"} /\ proc[p].cmd # "WQ_EX" =>
                \E x \in BlockProcs : proc[x].pc = "wake"
BlockInv ==
    BlockTypes /\ BlockLock /\ BlockBalance /\ BlockQueue /\ BlockMembers /\ BlockOwed

\* A sequence with some elements left out, in the order they had.
Thinned(r, s) ==
    /\ r \in Seq(BlockProcs)
    /\ \E f \in [1..Len(r) -> 1..Len(s)] :
         /\ \A i \in 1..Len(r) : r[i] = s[f[i]]
         /\ \A i, j \in 1..Len(r) : i < j => f[i] < f[j]

LEMMA BlockOneOut ==
    ASSUME NEW s \in Seq(BlockProcs), NEW k \in 1..Len(s),
           \A i, j \in 1..Len(s) : s[i] = s[j] => i = j
    PROVE  Block!RemoveFirst(s, s[k]) = SubSeq(s, 1, k - 1) \o SubSeq(s, k + 1, Len(s))
<1> DEFINE I == {i \in 1..Len(s) : s[i] = s[k]}
           m == CHOOSE x \in I : \A y \in I : x <= y
<1>1. I = {k}
  OBVIOUS
<1>2. m \in I
  BY <1>1
<1>3. m = k
  BY <1>1, <1>2
<1>4. Block!RemoveFirst(s, s[k]) = SubSeq(s, 1, m - 1) \o SubSeq(s, m + 1, Len(s))
  <2>1. I # {}
    BY <1>1
  <2>2. \E i \in 1..Len(s) : s[i] = s[k]
    OBVIOUS
  <2> QED BY <2>1, <2>2, ZenonT(30)
        DEF Block!RemoveFirst, Block!RemoveAt, Block!SelectInSeq, Block!Min
<1> QED BY <1>3, <1>4

\* What leaving the queue does.
LEMMA BlockLeave ==
    ASSUME NEW s \in Seq(BlockProcs), NEW p \in BlockProcs,
           \A i, j \in 1..Len(s) : s[i] = s[j] => i = j
    PROVE  /\ Thinned(Block!RemoveFirst(s, p), s)
           /\ \A q : In(q, Block!RemoveFirst(s, p)) <=> In(q, s) /\ q # p
<1>0. Len(s) \in Nat
  OBVIOUS
<1>1. CASE ~ In(p, s)
  <2>1. Block!RemoveFirst(s, p) = s
    BY <1>1, ZenonT(30) DEF Block!RemoveFirst, In
  <2>2. Thinned(s, s)
    <3> DEFINE f == [i \in 1..Len(s) |-> i]
    <3>1. f \in [1..Len(s) -> 1..Len(s)] /\ \A i \in 1..Len(s) : s[i] = s[f[i]]
      OBVIOUS
    <3>2. \A i, j \in 1..Len(s) : i < j => f[i] < f[j]
      OBVIOUS
    <3> QED BY <3>1, <3>2 DEF Thinned
  <2> QED BY <1>1, <2>1, <2>2 DEF In
<1>2. ASSUME NEW k \in 1..Len(s), s[k] = p
      PROVE  /\ Thinned(Block!RemoveFirst(s, p), s)
             /\ \A q : In(q, Block!RemoveFirst(s, p)) <=> In(q, s) /\ q # p
  <2> DEFINE a == SubSeq(s, 1, k - 1)
             b == SubSeq(s, k + 1, Len(s))
             r == a \o b
  <2>1. Block!RemoveFirst(s, p) = r
    BY <1>2, BlockOneOut
  <2>2. a \in Seq(BlockProcs) /\ Len(a) = k - 1 /\ \A i \in 1..k-1 : a[i] = s[i]
    BY <1>0
  <2>3. b \in Seq(BlockProcs) /\ Len(b) = Len(s) - k /\ \A i \in 1..Len(s)-k : b[i] = s[k + i]
    BY <1>0
  <2> HIDE DEF a, b
  <2>4. r \in Seq(BlockProcs) /\ Len(r) = Len(s) - 1
    BY <1>0, <2>2, <2>3, ConcatProperties
  <2>5. \A i \in 1..Len(s)-1 : r[i] = IF i < k THEN s[i] ELSE s[i + 1]
    BY <1>0, <2>2, <2>3, <2>4
  <2> HIDE DEF r
  <2> DEFINE f == [i \in 1..Len(r) |-> IF i < k THEN i ELSE i + 1]
  <2>6. f \in [1..Len(r) -> 1..Len(s)] /\ \A i \in 1..Len(r) : r[i] = s[f[i]]
    BY <1>0, <2>4, <2>5
  <2>7. \A i, j \in 1..Len(r) : i < j => f[i] < f[j]
    BY <1>0, <2>4
  <2>8. Thinned(r, s)
    BY <2>4, <2>6, <2>7 DEF Thinned
  <2>9. ASSUME NEW q PROVE In(q, r) <=> In(q, s) /\ q # p
    <3>1. ASSUME NEW i \in 1..Len(r), r[i] = q PROVE In(q, s) /\ q # p
      <4>1. f[i] \in 1..Len(s) /\ s[f[i]] = q /\ f[i] # k
        BY <1>0, <2>4, <2>6, <3>1
      <4> QED BY <1>2, <4>1 DEF In
    <3>2. ASSUME NEW i \in 1..Len(s), s[i] = q, q # p PROVE In(q, r)
      <4>1. i # k
        BY <1>2, <3>2
      <4>2. CASE i < k
        <5>1. i \in 1..Len(r) /\ r[i] = q
          BY <1>0, <2>4, <2>5, <3>2, <4>2
        <5> QED BY <5>1 DEF In
      <4>3. CASE i > k
        <5>1. i - 1 \in 1..Len(r) /\ r[i - 1] = q
          BY <1>0, <2>4, <2>5, <3>2, <4>3
        <5> QED BY <5>1 DEF In
      <4> QED BY <1>0, <4>1, <4>2, <4>3
    <3> QED BY <3>1, <3>2 DEF In
  <2> QED BY <2>1, <2>8, <2>9
<1> QED BY <1>1, <1>2 DEF In

LEMMA BlockThinned ==
    ASSUME BlockInv, Thinned(my_wq', my_wq),
           \A q \in BlockProcs : In(q, my_wq) => proc'[q].cmd = proc[q].cmd
    PROVE  BlockQueue'
<1>1. PICK f \in [1..Len(my_wq') -> 1..Len(my_wq)] :
        /\ \A i \in 1..Len(my_wq') : my_wq'[i] = my_wq[f[i]]
        /\ \A i, j \in 1..Len(my_wq') : i < j => f[i] < f[j]
  BY DEF Thinned
<1>2. Len(my_wq) \in Nat /\ Len(my_wq') \in Nat /\ \A i \in 1..Len(my_wq) : my_wq[i] \in BlockProcs
  BY DEF BlockInv, BlockTypes, Thinned
<1>3. \A i, j \in 1..Len(my_wq') : my_wq'[i] = my_wq'[j] => i = j
  <2> SUFFICES ASSUME NEW i \in 1..Len(my_wq'), NEW j \in 1..Len(my_wq'), i < j
               PROVE  my_wq'[i] # my_wq'[j]
    BY <1>2
  <2>1. f[i] < f[j] /\ f[i] \in 1..Len(my_wq) /\ f[j] \in 1..Len(my_wq)
    BY <1>1
  <2>2. f[i] # f[j]
    BY <1>2, <2>1
  <2> QED BY <1>1, <2>1, <2>2 DEF BlockInv, BlockQueue
<1>4. ASSUME NEW i \in 1..Len(my_wq'), NEW j \in 1..Len(my_wq'), i < j,
             proc'[my_wq'[i]].cmd = "WQ_EX"
      PROVE  proc'[my_wq'[j]].cmd = "WQ_EX"
  <2>1. f[i] < f[j] /\ f[i] \in 1..Len(my_wq) /\ f[j] \in 1..Len(my_wq)
    BY <1>1, <1>4
  <2>2. proc'[my_wq'[i]].cmd = proc[my_wq[f[i]]].cmd /\ proc'[my_wq'[j]].cmd = proc[my_wq[f[j]]].cmd
    BY <1>1, <1>2, <2>1 DEF In
  <2> QED BY <1>4, <2>1, <2>2 DEF BlockInv, BlockQueue
<1> QED BY <1>3, <1>4 DEF BlockQueue

LEMMA BlockInitInv == Block!BlockInit => BlockInv
<1> SUFFICES ASSUME Block!BlockInit PROVE BlockInv
  OBVIOUS
<1> USE DEF Block!BlockInit, Block!NoProc
<1>1. \A p \in BlockProcs : proc[p].pc = "out"
  OBVIOUS
<1>2. BlockTypes
  BY DEF BlockTypes, BlockPc, BlockCommand
<1>3. BlockLock /\ BlockBalance
  BY <1>1, LabsAssumption DEF BlockLock, BlockBalance
<1>4. Len(my_wq) = 0
  OBVIOUS
<1>5. BlockQueue /\ BlockMembers /\ BlockOwed
  BY <1>1, <1>4 DEF BlockQueue, BlockMembers, BlockOwed, In
<1> QED BY <1>2, <1>3, <1>5 DEF BlockInv

LEMMA BlockCallInv ==
    ASSUME BlockInv, NEW p \in BlockProcs, NEW cmd \in Commands1 \cup Commands2,
           NEW arg \in Amounts \cup {0}, Block!Call(p, cmd, arg)
    PROVE  BlockInv'
<1>1. proc[p].pc = "out" /\ UNCHANGED <<my_data, lock, my_wq, produced, consumed>>
  BY DEF Block!Call
<1>2. PICK pc \in {"lock", "prepare"} :
        proc' = [proc EXCEPT ![p] = [pc |-> pc, cmd |-> cmd, arg |-> arg, val |-> 0]]
  BY DEF Block!Call
<1>3. proc'[p].pc \in {"lock", "prepare"} /\ \A q \in BlockProcs : q # p => proc'[q] = proc[q]
  BY <1>2 DEF BlockInv, BlockTypes
<1>4. BlockTypes'
  <2>1. arg \in Nat
    BY LabsAssumption
  <2> QED BY <1>1, <1>2, <2>1 DEF BlockInv, BlockTypes, BlockPc, BlockCommand
<1>5. ~ In(p, my_wq)
  BY <1>1 DEF BlockInv, BlockMembers
<1>6. BlockLock' /\ BlockBalance'
  BY <1>1, <1>3 DEF BlockInv, BlockLock, BlockBalance
<1>7. BlockQueue'
  <2>1. \A i \in 1..Len(my_wq) : proc'[my_wq[i]] = proc[my_wq[i]]
    BY <1>3, <1>5 DEF In, BlockInv, BlockTypes
  <2> QED BY <1>1, <2>1 DEF BlockInv, BlockQueue
<1>8. BlockMembers'
  BY <1>1, <1>3, <1>5 DEF BlockInv, BlockMembers
<1>9. BlockOwed'
  BY <1>1, <1>3, <1>5 DEF BlockInv, BlockOwed
<1> QED BY <1>4, <1>6, <1>7, <1>8, <1>9 DEF BlockInv

LEMMA BlockPrepareInv ==
    ASSUME BlockInv, NEW p \in BlockProcs, Block!Prepare(p)
    PROVE  BlockInv'
<1>1. proc[p].pc = "prepare" /\ UNCHANGED <<my_data, lock, produced, consumed>>
  BY DEF Block!Prepare
<1>2. proc' = [proc EXCEPT ![p].pc = "recheck"]
  BY DEF Block!Prepare, Block!MoveTo
<1>3. /\ proc'[p].pc = "recheck" /\ proc'[p].cmd = proc[p].cmd
      /\ \A q \in BlockProcs : q # p => proc'[q] = proc[q]
  BY <1>2 DEF BlockInv, BlockTypes
<1>4. ~ In(p, my_wq)
  BY <1>1 DEF BlockInv, BlockMembers
<1>5. /\ my_wq \in Seq(BlockProcs) /\ Len(my_wq) \in Nat
      /\ \A i \in 1..Len(my_wq) : my_wq[i] \in BlockProcs /\ my_wq[i] # p
  BY <1>4 DEF BlockInv, BlockTypes, In
<1>6. \A i \in 1..Len(my_wq) : proc'[my_wq[i]] = proc[my_wq[i]]
  BY <1>3, <1>5
<1>7. /\ my_wq' \in Seq(BlockProcs) /\ Len(my_wq') = Len(my_wq) + 1
      /\ \A q \in BlockProcs : In(q, my_wq') <=> In(q, my_wq) \/ q = p
      /\ BlockQueue'
  <2>1. CASE proc[p].cmd = "WQ_EX"
    <3>1. my_wq' = Append(my_wq, p)
      BY <2>1 DEF Block!Prepare, Block!Queued, Block!Exclusive
    <3>2. /\ my_wq' \in Seq(BlockProcs) /\ Len(my_wq') = Len(my_wq) + 1
          /\ my_wq'[Len(my_wq) + 1] = p /\ \A i \in 1..Len(my_wq) : my_wq'[i] = my_wq[i]
      BY <1>5, <3>1
    <3>3. \A q \in BlockProcs : In(q, my_wq') <=> In(q, my_wq) \/ q = p
      BY <1>5, <3>2 DEF In
    <3>4. \A i, j \in 1..Len(my_wq') : my_wq'[i] = my_wq'[j] => i = j
      BY <1>5, <3>2 DEF BlockInv, BlockQueue
    <3>5. ASSUME NEW i \in 1..Len(my_wq'), NEW j \in 1..Len(my_wq'), i < j,
                 proc'[my_wq'[i]].cmd = "WQ_EX"
          PROVE  proc'[my_wq'[j]].cmd = "WQ_EX"
      <4>1. i \in 1..Len(my_wq) /\ my_wq'[i] = my_wq[i] /\ proc[my_wq[i]].cmd = "WQ_EX"
        BY <1>5, <1>6, <3>2, <3>5
      <4>2. CASE j = Len(my_wq) + 1
        BY <1>3, <2>1, <3>2, <4>2
      <4>3. CASE j \in 1..Len(my_wq)
        BY <1>6, <3>2, <3>5, <4>1, <4>3 DEF BlockInv, BlockQueue
      <4> QED BY <1>5, <3>2, <4>2, <4>3
    <3> QED BY <3>2, <3>3, <3>4, <3>5 DEF BlockQueue
  <2>2. CASE proc[p].cmd # "WQ_EX"
    <3>1. my_wq' = <<p>> \o my_wq
      BY <2>2 DEF Block!Prepare, Block!Queued, Block!Exclusive
    <3>2. /\ my_wq' \in Seq(BlockProcs) /\ Len(my_wq') = Len(my_wq) + 1 /\ my_wq'[1] = p
          /\ \A i \in 1..Len(my_wq)+1 : i # 1 => i - 1 \in 1..Len(my_wq) /\ my_wq'[i] = my_wq[i - 1]
      <4> DEFINE one == <<p>>
      <4>1. one \in Seq(BlockProcs) /\ Len(one) = 1 /\ one[1] = p
        OBVIOUS
      <4> HIDE DEF one
      <4>2. my_wq' = one \o my_wq
        BY <3>1 DEF one
      <4>3. /\ one \o my_wq \in Seq(BlockProcs) /\ Len(one \o my_wq) = Len(one) + Len(my_wq)
            /\ \A i \in 1..Len(one)+Len(my_wq) :
                 (one \o my_wq)[i] = IF i <= Len(one) THEN one[i] ELSE my_wq[i - Len(one)]
        BY <1>5, <4>1, ConcatProperties
      <4>4. Len(my_wq') = Len(my_wq) + 1 /\ my_wq'[1] = p /\ my_wq' \in Seq(BlockProcs)
        BY <1>5, <4>1, <4>2, <4>3
      <4>5. ASSUME NEW i \in 1..Len(my_wq)+1, i # 1
            PROVE  i - 1 \in 1..Len(my_wq) /\ my_wq'[i] = my_wq[i - 1]
        BY <1>5, <4>1, <4>2, <4>3, <4>5
      <4> QED BY <4>4, <4>5
    <3>3. \A q \in BlockProcs : In(q, my_wq') <=> In(q, my_wq) \/ q = p
      <4> TAKE q \in BlockProcs
      <4>1. ASSUME NEW i \in 1..Len(my_wq), my_wq[i] = q PROVE In(q, my_wq')
        <5>1. i + 1 \in 1..Len(my_wq)+1 /\ i + 1 # 1 /\ (i + 1) - 1 = i
          BY <1>5
        <5>2. my_wq'[i + 1] = q
          BY <3>2, <4>1, <5>1
        <5> QED BY <3>2, <5>1, <5>2 DEF In
      <4>2. ASSUME NEW i \in 1..Len(my_wq'), my_wq'[i] = q PROVE In(q, my_wq) \/ q = p
        BY <3>2, <4>2 DEF In
      <4>3. 1 \in 1..Len(my_wq')
        BY <1>5, <3>2
      <4> QED BY <3>2, <4>1, <4>2, <4>3 DEF In
    <3>4. ASSUME NEW i \in 1..Len(my_wq'), NEW j \in 1..Len(my_wq'), my_wq'[i] = my_wq'[j]
          PROVE  i = j
      <4>1. i = 1 <=> j = 1
        BY <1>5, <3>2, <3>4
      <4>2. CASE i # 1 /\ j # 1
        <5>1. i - 1 = j - 1
          BY <3>2, <3>4, <4>2 DEF BlockInv, BlockQueue
        <5> QED BY <1>5, <3>2, <5>1
      <4> QED BY <4>1, <4>2
    <3>5. ASSUME NEW i \in 1..Len(my_wq'), NEW j \in 1..Len(my_wq'), i < j,
                 proc'[my_wq'[i]].cmd = "WQ_EX"
          PROVE  proc'[my_wq'[j]].cmd = "WQ_EX"
      <4>1. i # 1
        BY <1>3, <2>2, <3>2, <3>5
      <4>2. j # 1
        BY <3>2, <3>5, <1>5
      <4>3. /\ i - 1 \in 1..Len(my_wq) /\ my_wq'[i] = my_wq[i - 1]
            /\ j - 1 \in 1..Len(my_wq) /\ my_wq'[j] = my_wq[j - 1]
        BY <3>2, <4>1, <4>2
      <4>4. i - 1 < j - 1
        BY <1>5, <3>2, <3>5
      <4>5. proc[my_wq[i - 1]].cmd = "WQ_EX"
        BY <1>6, <3>5, <4>3
      <4>6. proc[my_wq[j - 1]].cmd = "WQ_EX"
        BY <4>3, <4>4, <4>5 DEF BlockInv, BlockQueue
      <4> QED BY <1>6, <4>3, <4>6
    <3> QED BY <3>2, <3>3, <3>4, <3>5 DEF BlockQueue
  <2> QED BY <2>1, <2>2
<1>8. BlockTypes'
  BY <1>1, <1>2, <1>7 DEF BlockInv, BlockTypes, BlockPc
<1>9. BlockLock' /\ BlockBalance'
  BY <1>1, <1>2, <1>3 DEF BlockInv, BlockTypes, BlockLock, BlockBalance
<1>10. BlockMembers'
  BY <1>3, <1>7 DEF BlockInv, BlockMembers
<1>11. BlockOwed'
  BY <1>1, <1>3, <1>7 DEF BlockInv, BlockOwed
<1> QED BY <1>7, <1>8, <1>9, <1>10, <1>11 DEF BlockInv

\* What leaving the queue does to it, in the steps that do.
LEMMA BlockGone ==
    ASSUME BlockInv, NEW p \in BlockProcs, Block!LeaveQueue(p),
           \A q \in BlockProcs : proc'[q].cmd = proc[q].cmd
    PROVE  /\ my_wq' \in Seq(BlockProcs) /\ BlockQueue'
           /\ \A q : In(q, my_wq') <=> In(q, my_wq) /\ q # p
<1>1. my_wq \in Seq(BlockProcs) /\ \A i, j \in 1..Len(my_wq) : my_wq[i] = my_wq[j] => i = j
  BY DEF BlockInv, BlockTypes, BlockQueue
<1>2. my_wq' = Block!RemoveFirst(my_wq, p)
  BY DEF Block!LeaveQueue
<1>3. Thinned(my_wq', my_wq) /\ \A q : In(q, my_wq') <=> In(q, my_wq) /\ q # p
  BY <1>1, <1>2, BlockLeave
<1>4. BlockQueue'
  BY <1>3, BlockThinned
<1> QED BY <1>3, <1>4 DEF Thinned

LEMMA BlockRecheckInv ==
    ASSUME BlockInv, NEW p \in BlockProcs, Block!Recheck(p)
    PROVE  BlockInv'
<1>1. proc[p].pc = "recheck" /\ UNCHANGED <<my_data, lock, produced, consumed>>
  BY DEF Block!Recheck
<1>2. my_data \in Int
  BY DEF BlockInv, BlockTypes
<1>3. CASE my_data > 0
  <2>1. proc' = [proc EXCEPT ![p].pc = "lock"] /\ Block!LeaveQueue(p)
    BY <1>3 DEF Block!Recheck, Block!MoveTo
  <2>2. /\ proc'[p].pc = "lock" /\ \A q \in BlockProcs : q # p => proc'[q] = proc[q]
        /\ \A q \in BlockProcs : proc'[q].cmd = proc[q].cmd
    BY <2>1 DEF BlockInv, BlockTypes
  <2>3. /\ my_wq' \in Seq(BlockProcs) /\ BlockQueue'
        /\ \A q : In(q, my_wq') <=> In(q, my_wq) /\ q # p
    BY <2>1, <2>2, BlockGone
  <2>4. BlockTypes'
    BY <1>1, <2>1, <2>3 DEF BlockInv, BlockTypes, BlockPc
  <2>5. BlockLock' /\ BlockBalance'
    BY <1>1, <2>2 DEF BlockInv, BlockLock, BlockBalance
  <2>6. BlockMembers'
    BY <2>2, <2>3 DEF BlockInv, BlockMembers
  <2>7. BlockOwed'
    BY <1>1, <2>2, <2>3 DEF BlockInv, BlockOwed
  <2> QED BY <2>3, <2>4, <2>5, <2>6, <2>7 DEF BlockInv
<1>4. CASE ~(my_data > 0)
  <2>1. proc' = [proc EXCEPT ![p].pc = "schedule"] /\ my_wq' = my_wq
    BY <1>4 DEF Block!Recheck, Block!MoveTo
  <2>2. /\ proc'[p].pc = "schedule" /\ \A q \in BlockProcs : q # p => proc'[q] = proc[q]
        /\ \A q \in BlockProcs : proc'[q].cmd = proc[q].cmd
    BY <2>1 DEF BlockInv, BlockTypes
  <2>4. BlockTypes'
    BY <1>1, <2>1 DEF BlockInv, BlockTypes, BlockPc
  <2>5. BlockLock' /\ BlockBalance'
    BY <1>1, <2>2 DEF BlockInv, BlockLock, BlockBalance
  <2>6. BlockMembers'
    BY <1>1, <2>1, <2>2 DEF BlockInv, BlockMembers
  <2>7. BlockOwed'
    BY <1>1, <1>4 DEF BlockOwed
  <2>8. BlockQueue'
    <3>1. \A i \in 1..Len(my_wq) : my_wq[i] \in BlockProcs
      BY DEF BlockInv, BlockTypes
    <3> QED BY <2>1, <2>2, <3>1 DEF BlockInv, BlockQueue
  <2> QED BY <2>4, <2>5, <2>6, <2>7, <2>8 DEF BlockInv
<1> QED BY <1>3, <1>4

LEMMA BlockScheduleInv ==
    ASSUME BlockInv, NEW p \in BlockProcs, Block!Schedule(p)
    PROVE  BlockInv'
<1>1. proc[p].pc = "schedule" /\ UNCHANGED <<my_data, lock, my_wq, produced, consumed>>
  BY DEF Block!Schedule
<1>2. my_wq \in Seq(BlockProcs) /\ \A i \in 1..Len(my_wq) : my_wq[i] \in BlockProcs
  BY DEF BlockInv, BlockTypes
<1>3. Block!Contains(my_wq, p) <=> In(p, my_wq)
  BY <1>2 DEF Block!Contains, In
<1>4. PICK pc \in {"asleep", "prepare"} :
        proc' = [proc EXCEPT ![p].pc = pc] /\ (pc = "asleep" <=> In(p, my_wq))
  BY <1>3 DEF Block!Schedule, Block!MoveTo, Block!Sleep
<1>5. /\ proc'[p].pc = pc /\ \A q \in BlockProcs : q # p => proc'[q] = proc[q]
      /\ \A q \in BlockProcs : proc'[q].cmd = proc[q].cmd
  BY <1>4 DEF BlockInv, BlockTypes
<1>6. BlockTypes'
  BY <1>1, <1>4 DEF BlockInv, BlockTypes, BlockPc
<1>7. BlockLock' /\ BlockBalance'
  BY <1>1, <1>4, <1>5 DEF BlockInv, BlockLock, BlockBalance
<1>8. BlockMembers'
  BY <1>1, <1>4, <1>5 DEF BlockInv, BlockMembers
<1>9. BlockOwed'
  <2>1. \A q \in BlockProcs : /\ proc[q].pc = "wake" => proc'[q].pc = "wake"
                              /\ proc'[q].pc \in {"schedule", "asleep"} => proc[q].pc \in {"schedule", "asleep"}
    BY <1>1, <1>5
  <2> QED BY <1>1, <1>5, <2>1 DEF BlockInv, BlockOwed
<1>10. BlockQueue'
  BY <1>1, <1>2, <1>5 DEF BlockInv, BlockQueue
<1> QED BY <1>6, <1>7, <1>8, <1>9, <1>10 DEF BlockInv

\* A sleeper that gets up before it is woken.
LEMMA BlockGetsUpInv ==
    ASSUME BlockInv, NEW p \in BlockProcs, proc[p].pc = "asleep", Block!LeaveQueue(p),
           NEW pc \in {"lock", "out"}, proc' = [proc EXCEPT ![p].pc = pc],
           UNCHANGED <<my_data, lock, produced, consumed>>
    PROVE  BlockInv'
<1>1. /\ proc'[p].pc = pc /\ \A q \in BlockProcs : q # p => proc'[q] = proc[q]
      /\ \A q \in BlockProcs : proc'[q].cmd = proc[q].cmd
  BY DEF BlockInv, BlockTypes
<1>2. /\ my_wq' \in Seq(BlockProcs) /\ BlockQueue'
      /\ \A q : In(q, my_wq') <=> In(q, my_wq) /\ q # p
  BY <1>1, BlockGone
<1>3. BlockTypes'
  BY <1>2 DEF BlockInv, BlockTypes, BlockPc
<1>4. BlockLock' /\ BlockBalance'
  BY <1>1 DEF BlockInv, BlockLock, BlockBalance
<1>5. BlockMembers'
  BY <1>1, <1>2 DEF BlockInv, BlockMembers
<1>6. BlockOwed'
  BY <1>1, <1>2 DEF BlockInv, BlockOwed
<1> QED BY <1>2, <1>3, <1>4, <1>5, <1>6 DEF BlockInv

LEMMA BlockInterruptInv ==
    ASSUME BlockInv, NEW p \in BlockProcs, Block!Interrupt(p)
    PROVE  BlockInv'
<1>1. \E pc \in {"lock", "out"} : proc' = [proc EXCEPT ![p].pc = pc]
  BY DEF Block!Interrupt, Block!MoveTo
<1> QED BY <1>1, BlockGetsUpInv DEF Block!Interrupt

LEMMA BlockTimeOutInv ==
    ASSUME BlockInv, NEW p \in BlockProcs, Block!TimeOut(p)
    PROVE  BlockInv'
<1>1. \E pc \in {"lock", "out"} : proc' = [proc EXCEPT ![p].pc = pc]
  BY DEF Block!TimeOut, Block!MoveTo
<1> QED BY <1>1, BlockGetsUpInv DEF Block!TimeOut

LEMMA BlockLockInv ==
    ASSUME BlockInv, NEW p \in BlockProcs, Block!Lock(p)
    PROVE  BlockInv'
<1>1. proc[p].pc = "lock" /\ lock = "nobody" /\ lock' = p
      /\ UNCHANGED <<my_data, my_wq, produced, consumed>>
  BY DEF Block!Lock, Block!LockFree, Block!NoProc
<1>2. proc' = [proc EXCEPT ![p].pc = "store", ![p].val = my_data]
  BY DEF Block!Lock
<1>3. /\ proc'[p].pc = "store" /\ proc'[p].val = my_data
      /\ \A q \in BlockProcs : q # p => proc'[q] = proc[q]
      /\ \A q \in BlockProcs : proc'[q].cmd = proc[q].cmd
  BY <1>2 DEF BlockInv, BlockTypes
<1>4. BlockTypes'
  BY <1>1, <1>2 DEF BlockInv, BlockTypes, BlockPc
<1>5. BlockLock' /\ BlockBalance'
  BY <1>1, <1>3, LabsAssumption DEF BlockInv, BlockLock, BlockBalance
<1>6. BlockMembers'
  BY <1>1, <1>3 DEF BlockInv, BlockMembers
<1>7. BlockOwed'
  BY <1>1, <1>3 DEF BlockInv, BlockOwed
<1>8. BlockQueue'
  <2>1. \A i \in 1..Len(my_wq) : my_wq[i] \in BlockProcs
    BY DEF BlockInv, BlockTypes
  <2> QED BY <1>1, <1>3, <2>1 DEF BlockInv, BlockQueue
<1> QED BY <1>4, <1>5, <1>6, <1>7, <1>8 DEF BlockInv

LEMMA BlockStoreInv ==
    ASSUME BlockInv, NEW p \in BlockProcs, Block!Store(p)
    PROVE  BlockInv'
<1>1. proc[p].pc = "store" /\ lock' = "nobody" /\ my_wq' = my_wq
  BY DEF Block!Store, Block!NoProc
<1>2. /\ proc[p].val = my_data /\ my_data = produced - consumed
      /\ proc[p].arg \in Nat /\ my_data \in Int /\ produced \in Int /\ consumed \in Int
  BY <1>1 DEF BlockInv, BlockTypes, BlockLock, BlockBalance
<1>3. PICK pc \in {"wake", "out"} :
        /\ proc' = [proc EXCEPT ![p].pc = pc]
        /\ my_data' \in Int /\ produced' \in Int /\ consumed' \in Int
        /\ my_data' = produced' - consumed'
        /\ pc = "wake" \/ my_data' < my_data
  <2>1. CASE proc[p].cmd \in Block!Producing
    <3>1. /\ my_data' = proc[p].val + proc[p].arg /\ produced' = produced + proc[p].arg
          /\ consumed' = consumed /\ proc' = [proc EXCEPT ![p].pc = "wake"]
      BY <2>1 DEF Block!Store, Block!MoveTo, Block!AfterProducing
    <3> QED BY <1>2, <3>1
  <2>2. CASE proc[p].cmd \notin Block!Producing
    <3>1. /\ my_data' = proc[p].val - 1 /\ consumed' = consumed + 1
          /\ produced' = produced /\ proc' = [proc EXCEPT ![p].pc = "out"]
      BY <2>2 DEF Block!Store, Block!MoveTo
    <3> QED BY <1>2, <3>1
  <2> QED BY <2>1, <2>2
<1>4. /\ proc'[p].pc = pc /\ \A q \in BlockProcs : q # p => proc'[q] = proc[q]
      /\ \A q \in BlockProcs : proc'[q].cmd = proc[q].cmd
  BY <1>3 DEF BlockInv, BlockTypes
<1>5. BlockTypes'
  BY <1>1, <1>3 DEF BlockInv, BlockTypes, BlockPc
<1>6. BlockLock'
  <2>1. \A q \in BlockProcs : proc'[q].pc # "store"
    BY <1>1, <1>4 DEF BlockInv, BlockLock
  <2> QED BY <1>1, <2>1, LabsAssumption DEF BlockLock
<1>7. BlockMembers'
  BY <1>1, <1>4 DEF BlockInv, BlockMembers
<1>8. BlockOwed'
  <2>1. CASE pc = "wake"
    BY <1>4, <2>1 DEF BlockOwed
  <2>2. CASE pc = "out" /\ my_data' < my_data
    <3>1. my_data' > 0 => my_data > 0
      BY <1>2, <1>3, <2>2
    <3>2. \A q \in BlockProcs : proc[q].pc = "wake" => proc'[q].pc = "wake"
      BY <1>1, <1>4
    <3> QED BY <1>1, <1>4, <2>2, <3>1, <3>2 DEF BlockInv, BlockOwed
  <2> QED BY <1>3, <2>1, <2>2
<1>9. BlockQueue'
  <2>1. \A i \in 1..Len(my_wq) : my_wq[i] \in BlockProcs
    BY DEF BlockInv, BlockTypes
  <2> QED BY <1>1, <1>4, <2>1 DEF BlockInv, BlockQueue
<1>10. BlockBalance'
  BY <1>3 DEF BlockBalance
<1> QED BY <1>5, <1>6, <1>7, <1>8, <1>9, <1>10 DEF BlockInv

LEMMA LeastExists ==
    ASSUME NEW S \in SUBSET Nat, S # {}
    PROVE  \E x \in S : \A y \in S : x <= y
<1>1. PICK x \in S : \A y \in S : ~(<<y, x>> \in OpToRel(<, Nat))
  BY NatLessThanWellFounded, WFMin, Zenon
<1>2. ASSUME NEW y \in S PROVE x <= y
  <2>1. x \in Nat /\ y \in Nat
    OBVIOUS
  <2>2. y < x => <<y, x>> \in OpToRel(<, Nat)
    BY <2>1, Zenon DEF OpToRel
  <2>3. ~(y < x)
    BY <1>1, <2>2, Zenon
  <2> QED BY <2>1, <2>3, SMT
<1> QED BY <1>2

\* Waking stops at the first exclusive sleeper, so everyone else is woken.
LEMMA BlockWokenAll ==
    ASSUME BlockInv, NEW p \in BlockProcs
    PROVE  /\ Block!WokenCount(p) \in 0..Len(my_wq)
           /\ \A i \in 1..Len(my_wq) : i > Block!WokenCount(p) => proc[my_wq[i]].cmd = "WQ_EX"
<1> DEFINE k == Block!FirstExclusive
           I == {i \in 1..Len(my_wq) : proc[my_wq[i]].cmd = "WQ_EX"}
<1>1. Len(my_wq) \in Nat
  BY DEF BlockInv, BlockTypes
<1>2. k = IF I # {} THEN CHOOSE x \in I : \A y \in I : x <= y ELSE 0
  BY ZenonT(30) DEF Block!FirstExclusive, Block!SelectInSeq, Block!Exclusive, Block!Min
<1>3. CASE k = 0 \/ proc[p].cmd = "WQ_WAKE_UP_ALL"
  <2>1. Block!WokenCount(p) = Len(my_wq)
    BY <1>3 DEF Block!WokenCount
  <2> QED BY <1>1, <2>1
<1>4. CASE k # 0 /\ proc[p].cmd # "WQ_WAKE_UP_ALL"
  <2>1. I # {}
    BY <1>2, <1>4
  <2>2. PICK e \in I : \A y \in I : e <= y
    <3>1. I \subseteq Nat
      OBVIOUS
    <3> QED BY <2>1, <3>1, LeastExists
  <2>3. k \in I
    BY <1>2, <2>1, <2>2
  <2>4. Block!WokenCount(p) = k
    BY <1>4 DEF Block!WokenCount
  <2> QED BY <1>1, <2>3, <2>4 DEF BlockInv, BlockQueue
<1> QED BY <1>3, <1>4

LEMMA BlockWakeInv ==
    ASSUME BlockInv, NEW p \in BlockProcs, Block!Wake(p)
    PROVE  BlockInv'
<1> DEFINE k == Block!WokenCount(p)
<1>1. proc[p].pc = "wake" /\ my_wq' = SubSeq(my_wq, k + 1, Len(my_wq))
      /\ UNCHANGED <<my_data, lock, produced, consumed>>
  BY DEF Block!Wake
<1>2. /\ my_wq \in Seq(BlockProcs) /\ Len(my_wq) \in Nat /\ k \in 0..Len(my_wq)
      /\ \A i \in 1..Len(my_wq) : i > k => proc[my_wq[i]].cmd = "WQ_EX"
  BY BlockWokenAll DEF BlockInv, BlockTypes
<1>3. proc' = [x \in BlockProcs |->
         IF x = p THEN [proc[x] EXCEPT !.pc = "out"]
         ELSE IF x \in Block!Woken(p) /\ proc[x].pc = "asleep" THEN [proc[x] EXCEPT !.pc = "prepare"]
         ELSE proc[x]]
  BY DEF Block!Wake
<1>4. \A x : x \in Block!Woken(p) <=> \E i \in 1..k : my_wq[i] = x
  BY DEF Block!Woken
<1> HIDE DEF k
<1>5. /\ my_wq' \in Seq(BlockProcs) /\ Len(my_wq') = Len(my_wq) - k
      /\ \A i \in 1..Len(my_wq)-k : my_wq'[i] = my_wq[i + k]
  BY <1>1, <1>2
<1>6. Thinned(my_wq', my_wq)
  <2> DEFINE f == [i \in 1..Len(my_wq') |-> i + k]
  <2>1. /\ f \in [1..Len(my_wq') -> 1..Len(my_wq)]
        /\ \A i \in 1..Len(my_wq') : my_wq'[i] = my_wq[f[i]]
    BY <1>2, <1>5
  <2>2. \A i, j \in 1..Len(my_wq') : i < j => f[i] < f[j]
    BY <1>2, <1>5
  <2> QED BY <1>5, <2>1, <2>2 DEF Thinned
<1>7. /\ proc'[p].pc = "out"
      /\ \A q \in BlockProcs : proc'[q].cmd = proc[q].cmd /\ proc'[q].val = proc[q].val
      /\ \A q \in BlockProcs : proc'[q].pc # proc[q].pc =>
           q = p \/ (q \in Block!Woken(p) /\ proc[q].pc = "asleep" /\ proc'[q].pc = "prepare")
      /\ \A q \in BlockProcs :
           q # p /\ q \in Block!Woken(p) /\ proc[q].pc = "asleep" => proc'[q].pc = "prepare"
  <2>1. \A q \in BlockProcs : proc[q] \in [pc : BlockPc, cmd : BlockCommand, arg : Nat, val : Int]
    BY DEF BlockInv, BlockTypes
  <2>2. proc'[p] = [proc[p] EXCEPT !.pc = "out"]
    BY <1>3
  <2> DEFINE W == {q \in BlockProcs : q # p /\ q \in Block!Woken(p) /\ proc[q].pc = "asleep"}
  <2>3. \A q \in W : proc'[q] = [proc[q] EXCEPT !.pc = "prepare"]
    BY <1>3
  <2>4. \A q \in BlockProcs : q # p /\ q \notin W => proc'[q] = proc[q]
    BY <1>3
  <2>5. proc'[p].pc = "out" /\ proc'[p].cmd = proc[p].cmd /\ proc'[p].val = proc[p].val
    BY <2>1, <2>2
  <2>6. \A q \in W : proc'[q].pc = "prepare" /\ proc'[q].cmd = proc[q].cmd /\ proc'[q].val = proc[q].val
    BY <2>1, <2>3
  <2>7. \A q \in BlockProcs : q # p => (q \in W <=> q \in Block!Woken(p) /\ proc[q].pc = "asleep")
    OBVIOUS
  <2>8. \A q \in W : q \in BlockProcs
    OBVIOUS
  <2> HIDE DEF W
  <2>9. \A q \in BlockProcs : proc'[q].cmd = proc[q].cmd /\ proc'[q].val = proc[q].val
    BY <2>4, <2>5, <2>6
  <2>10. \A q \in BlockProcs : proc'[q].pc # proc[q].pc =>
           q = p \/ (q \in Block!Woken(p) /\ proc[q].pc = "asleep" /\ proc'[q].pc = "prepare")
    BY <2>4, <2>6, <2>7
  <2>11. \A q \in BlockProcs :
           q # p /\ q \in Block!Woken(p) /\ proc[q].pc = "asleep" => proc'[q].pc = "prepare"
    BY <2>6, <2>7
  <2> QED BY <2>5, <2>9, <2>10, <2>11
<1>8. BlockQueue'
  BY <1>6, <1>7, BlockThinned
<1>9. \A q \in BlockProcs : In(q, my_wq') <=> In(q, my_wq) /\ q \notin Block!Woken(p)
  <2> TAKE q \in BlockProcs
  <2>1. ASSUME NEW i \in 1..Len(my_wq'), my_wq'[i] = q PROVE In(q, my_wq) /\ q \notin Block!Woken(p)
    <3>1. i + k \in 1..Len(my_wq) /\ my_wq[i + k] = q
      BY <1>2, <1>5, <2>1
    <3>2. ASSUME NEW j \in 1..k, my_wq[j] = q PROVE FALSE
      <4>1. j \in 1..Len(my_wq) /\ j # i + k
        BY <1>2, <1>5
      <4> QED BY <3>1, <3>2, <4>1 DEF BlockInv, BlockQueue
    <3> QED BY <1>4, <3>1, <3>2 DEF In
  <2>2. ASSUME NEW i \in 1..Len(my_wq), my_wq[i] = q, q \notin Block!Woken(p) PROVE In(q, my_wq')
    <3>1. ~(i \in 1..k)
      BY <1>4, <2>2
    <3>2. i - k \in 1..Len(my_wq') /\ my_wq'[i - k] = q
      BY <1>2, <1>5, <2>2, <3>1
    <3> QED BY <3>2 DEF In
  <2> QED BY <2>1, <2>2 DEF In
<1>10. BlockTypes'
  <2>1. proc' \in [BlockProcs -> [pc : BlockPc, cmd : BlockCommand, arg : Nat, val : Int]]
    BY <1>3 DEF BlockInv, BlockTypes, BlockPc
  <2> QED BY <1>1, <1>5, <2>1 DEF BlockInv, BlockTypes
<1>11. BlockLock'
  <2>1. \A q \in BlockProcs : proc'[q].pc = "store" <=> proc[q].pc = "store"
    BY <1>1, <1>7
  <2>2. \A q \in BlockProcs : proc'[q].pc = "store" => proc'[q].val = proc[q].val
    BY <1>7
  <2> QED BY <1>1, <2>1, <2>2 DEF BlockInv, BlockLock
<1>12. BlockMembers'
  BY <1>1, <1>7, <1>9 DEF BlockInv, BlockMembers
<1>13. BlockOwed'
  <2>1. \A q \in BlockProcs : In(q, my_wq') => proc[q].cmd = "WQ_EX"
    BY <1>2, <1>4, <1>9 DEF In
  <2> QED BY <1>7, <2>1 DEF BlockOwed
<1>14. BlockBalance'
  BY <1>1 DEF BlockInv, BlockBalance
<1> QED BY <1>8, <1>10, <1>11, <1>12, <1>13, <1>14 DEF BlockInv

LEMMA BlockNextInv ==
    ASSUME BlockInv, NEW commands \in SUBSET (Commands1 \cup Commands2), Block!BlockNext(commands)
    PROVE  BlockInv'
<1>1. PICK p \in BlockProcs :
        \/ \E cmd \in commands : \E arg \in Amounts \cup {0} : Block!Call(p, cmd, arg)
        \/ Block!BlockStep(p) \/ Block!Interrupt(p) \/ Block!TimeOut(p)
  <2>1. \A c : (IF c \in Block!Producing THEN Amounts ELSE {0}) \subseteq Amounts \cup {0}
    OBVIOUS
  <2> QED BY <2>1 DEF Block!BlockNext
<1>2. commands \subseteq Commands1 \cup Commands2
  OBVIOUS
<1> QED BY <1>1, <1>2, BlockCallInv, BlockPrepareInv, BlockRecheckInv, BlockScheduleInv,
           BlockLockInv, BlockStoreInv, BlockWakeInv, BlockInterruptInv, BlockTimeOutInv
           DEF Block!BlockStep

LEMMA BlockSafe == BlockInv => Block!WaitQueueOK /\ Block!Balance /\ Block!BlockNoLostWakeup
<1> SUFFICES ASSUME BlockInv
             PROVE  Block!WaitQueueOK /\ Block!Balance /\ Block!BlockNoLostWakeup
  OBVIOUS
<1>1. /\ my_wq \in Seq(BlockProcs) /\ DOMAIN my_wq = 1..Len(my_wq)
      /\ \A i \in 1..Len(my_wq) : my_wq[i] \in BlockProcs
  BY DEF BlockInv, BlockTypes
<1>2. \A p : In(p, my_wq) <=> Block!Contains(my_wq, p)
  BY <1>1 DEF In, Block!Contains
<1>3. \A p : In(p, my_wq) <=> p \in Block!ToSet(my_wq)
  BY <1>1 DEF In, Block!ToSet
<1>4. Block!IsInjective(my_wq)
  BY <1>1 DEF Block!IsInjective, BlockInv, BlockQueue
<1>5. \A p \in Block!ToSet(my_wq) : p \in BlockProcs
  BY <1>1, <1>3 DEF In
<1>6. Block!WaitQueueOK
  BY <1>1, <1>2, <1>3, <1>4, <1>5
     DEF Block!WaitQueueOK, Block!Exclusive, BlockInv, BlockQueue, BlockMembers
<1>7. Block!BlockNoLostWakeup
  BY <1>1 DEF Block!BlockNoLostWakeup, Block!Exclusive, BlockInv, BlockMembers, BlockOwed
<1>8. Block!Balance
  BY DEF Block!Balance, BlockInv, BlockBalance
<1> QED BY <1>6, <1>7, <1>8

(***************************************************************************)
(* lab8/rculist                                                            *)
(***************************************************************************)
ListPlaces == List!Nodes \cup {0}
ListElement == [id : Nat, data : Nat]
ListCall == [pc : {"out", "begin", "walk", "spin", "search", "sync", "grace"},
             id : Nat, at : ListPlaces, seen : Seq(ListElement)]
ListTypes ==
    /\ fresh \in NIds+1..NIds+MaxUpdates+1 /\ live \subseteq 1..fresh-1
    /\ next \in [ListPlaces -> ListPlaces] /\ prev \in [ListPlaces -> ListPlaces \cup {-1}]
    /\ node \in [List!Nodes -> ListElement]
    /\ proc \in [List!Procs -> ListCall]
    /\ \A r \in Walkers : proc[r].pc \in {"out", "begin", "walk"}
    /\ \A u \in Writers : proc[u].pc \in {"out", "spin", "search", "sync", "grace"}
    /\ loaded \in BOOLEAN
    /\ ~loaded => \A p \in List!Procs : proc[p].pc = "out"
ListLock == \A u \in Writers : proc[u].pc \in {"search", "sync", "grace"} <=> lock = u

\* The nodes of the list are those allocated and not replaced by an update in progress.
Linked ==
    {n \in live : \A u \in Writers : proc[u].pc \in {"sync", "grace"} => proc[u].at # n}
\* The first id of the list: deleting goes up from 1.
First == IF next[0] = 0 THEN NIds + 1 ELSE node[next[0]].id

\* The nodes of the list have the ids from the first to NIds, once each; an allocated
\* node, also one that is replaced, leads to the one of the next id, and the nodes of
\* the list lead back.
ListLinks ==
    /\ next[0] # 0 => next[0] \in Linked
    /\ First \in 1..NIds+1 /\ (loaded => First = 1)
    /\ \A n \in live : node[n].id \in First..NIds
    /\ \A n \in live : node[n].id = NIds => next[n] = 0
    /\ \A n \in live : node[n].id # NIds =>
         next[n] \in Linked /\ node[next[n]].id = node[n].id + 1
    /\ \A n \in Linked : node[n].id = First => prev[n] = 0
    /\ \A n \in Linked : node[n].id # First =>
         prev[n] \in Linked /\ node[prev[n]].id = node[n].id - 1
    /\ \A m, n \in Linked : node[m].id = node[n].id => m = n
    /\ \A j \in First..NIds : \E n \in Linked : node[n].id = j
ListData == \A n \in Linked : node[n].data = Cardinality(List!Copies(node[n].id))

\* What readers have seen, and where they are.
ListWalks ==
    \A r \in Walkers :
        /\ proc[r].pc = "begin" => proc[r].at = 0 /\ proc[r].seen = <<>>
        /\ proc[r].pc = "walk" => /\ proc[r].at \in live
                                  /\ Len(proc[r].seen) = node[proc[r].at].id
                                  /\ proc[r].id \notin 1..Len(proc[r].seen)
        /\ \A j \in 1..Len(proc[r].seen) : proc[r].seen[j].id = j
        /\ proc[r].pc = "out" /\ proc[r].seen # <<>> =>
             Len(proc[r].seen) = IF proc[r].id \in 1..NIds THEN proc[r].id ELSE NIds
\* Where the updater is; a reader at the node it will free is one it waits for.
ListUpdates ==
    \A u \in Writers :
        /\ proc[u].pc = "spin" => proc[u].at = 0
        /\ proc[u].pc = "search" => proc[u].at \in Linked \cup {0}
        /\ proc[u].pc \in {"sync", "grace"} => proc[u].at \in live
        /\ proc[u].pc = "grace" => \A r \in Walkers :
             proc[r].pc = "walk" /\ proc[r].at = proc[u].at => r \in holdouts
ListInv ==
    ListTypes /\ ListLock /\ ListLinks /\ ListData /\ ListWalks /\ ListUpdates

LEMMA ListInitInv == List!ListInit => ListInv
<1> SUFFICES ASSUME List!ListInit PROVE ListInv
  OBVIOUS
<1>1. /\ next = [n \in ListPlaces |-> IF n < NIds THEN n + 1 ELSE 0]
      /\ prev = [n \in ListPlaces |-> IF n = 0 THEN NIds ELSE n - 1]
      /\ node = [n \in List!Nodes |-> [id |-> IF n <= NIds THEN n ELSE 0, data |-> 0]]
      /\ live = 1..NIds /\ fresh = NIds + 1 /\ lock = "nobody"
      /\ proc = [p \in List!Procs |-> [pc |-> "out", id |-> 0, at |-> 0, seen |-> <<>>]]
  BY DEF List!ListInit, List!Head0, List!NoProc, List!All, ListPlaces
<1>2. loaded \in BOOLEAN /\ loaded
  BY ZenonT(30) DEF List!ListInit
<1>3. NIds \in Nat \ {0} /\ MaxUpdates \in Nat
  BY LabsAssumption
<1>4. List!Nodes = 1..NIds+MaxUpdates
  BY DEF List!Nodes
<1>5. \A p \in List!Procs : proc[p].pc = "out" /\ proc[p].seen = <<>> /\ proc[p].at = 0
  BY <1>1
<1>6. Walkers \subseteq List!Procs /\ Writers \subseteq List!Procs
  BY DEF List!Procs
<1>7. ListTypes
  <2>1. next \in [ListPlaces -> ListPlaces] /\ prev \in [ListPlaces -> ListPlaces \cup {-1}]
    BY <1>1, <1>3, <1>4 DEF ListPlaces
  <2>2. node \in [List!Nodes -> ListElement]
    BY <1>1, <1>3, <1>4 DEF ListElement
  <2>3. fresh \in NIds+1..NIds+MaxUpdates+1 /\ live \subseteq 1..fresh-1
    BY <1>1, <1>3
  <2>4. proc \in [List!Procs -> ListCall]
    BY <1>1 DEF ListPlaces, ListCall
  <2> QED BY <1>2, <1>5, <1>6, <2>1, <2>2, <2>3, <2>4 DEF ListTypes
<1>8. ListLock /\ ListUpdates
  BY <1>1, <1>5, <1>6, LabsAssumption DEF ListLock, ListUpdates
<1>9. ListWalks
  BY <1>5, <1>6 DEF ListWalks
<1>10. \A n \in 1..NIds : node[n].id = n /\ node[n].data = 0
  BY <1>1, <1>3, <1>4
<1>11. Linked = 1..NIds
  BY <1>1, <1>5, <1>6 DEF Linked
<1>12. next[0] = 1 /\ First = 1
  BY <1>1, <1>3, <1>10 DEF First, ListPlaces
<1>13. ListLinks
  <2>1. \A n \in 1..NIds : next[n] = (IF n < NIds THEN n + 1 ELSE 0) /\ prev[n] = n - 1
    BY <1>1, <1>3, <1>4 DEF ListPlaces
  <2>2. next[0] \in 1..NIds /\ First \in 1..NIds+1 /\ First = 1
    BY <1>3, <1>12
  <2>3. \A n \in 1..NIds : n # NIds => n + 1 \in 1..NIds /\ next[n] = n + 1
    BY <1>3, <2>1
  <2>4. \A n \in 1..NIds : n # 1 => n - 1 \in 1..NIds /\ prev[n] = n - 1
    BY <1>3, <2>1
  <2>5. next[NIds] = 0 /\ prev[1] = 0
    BY <1>3, <2>1
  <2>6. \A n \in live : node[n].id \in First..NIds
    BY <1>1, <1>10, <2>2
  <2>7. \A n \in live : node[n].id = NIds => next[n] = 0
    BY <1>1, <1>10, <2>5
  <2>8. \A n \in live : node[n].id # NIds =>
          next[n] \in Linked /\ node[next[n]].id = node[n].id + 1
    <3> SUFFICES ASSUME NEW n \in 1..NIds, n # NIds
                 PROVE  next[n] \in 1..NIds /\ node[next[n]].id = n + 1
      BY <1>1, <1>10, <1>11
    <3> QED BY <1>10, <2>3
  <2>9. \A n \in Linked : node[n].id = First => prev[n] = 0
    BY <1>10, <1>11, <2>2, <2>5
  <2>10. \A n \in Linked : node[n].id # First =>
           prev[n] \in Linked /\ node[prev[n]].id = node[n].id - 1
    BY <1>10, <1>11, <2>2, <2>4
  <2>11. \A m, n \in Linked : node[m].id = node[n].id => m = n
    BY <1>10, <1>11
  <2>12. \A j \in First..NIds : \E n \in Linked : node[n].id = j
    BY <1>10, <1>11, <2>2
  <2> QED BY <1>11, <2>2, <2>6, <2>7, <2>8, <2>9, <2>10, <2>11, <2>12 DEF ListLinks
<1>14. ListData
  <2> SUFFICES ASSUME NEW n \in 1..NIds PROVE node[n].data = Cardinality(List!Copies(node[n].id))
    BY <1>11 DEF ListData
  <2>1. List!Copies(node[n].id) = {}
    BY <1>1, <1>3 DEF List!Copies
  <2> QED BY <1>10, <2>1, FS_EmptySet
<1> QED BY <1>7, <1>8, <1>9, <1>13, <1>14 DEF ListInv

LEMMA ListNodes ==
    ASSUME ListTypes
    PROVE  \A n \in live : n \in List!Nodes /\ n \in ListPlaces /\ n # 0 /\ node[n] \in ListElement
<1>1. \A n \in 1..fresh-1 : n \in 1..NIds+MaxUpdates
  BY LabsAssumption DEF ListTypes
<1> QED BY <1>1 DEF ListTypes, ListPlaces, List!Nodes

LEMMA ListStill ==
    ASSUME ListLinks, ListData, UNCHANGED <<next, prev, node, live, fresh, loaded>>,
           Linked' = Linked
    PROVE  ListLinks' /\ ListData'
<1>1. First' = First
  BY DEF First
<1>2. ListLinks'
  BY <1>1 DEF ListLinks
<1>3. \A j : List!Copies(j)' = List!Copies(j)
  BY DEF List!Copies
<1> QED BY <1>2, <1>3 DEF ListData

\* What the steps of a reader share: it is the only one that moves, to a node of the list.
LEMMA ListReaderInv ==
    ASSUME ListInv, NEW r \in Walkers,
           UNCHANGED <<next, prev, node, live, fresh, lock, holdouts, loaded>>,
           proc' \in [List!Procs -> ListCall],
           \A q \in List!Procs : q # r => proc'[q] = proc[q],
           proc'[r].pc \in {"out", "begin", "walk"}, loaded,
           proc'[r].pc = "begin" => proc'[r].at = 0 /\ proc'[r].seen = <<>>,
           proc'[r].pc = "walk" => /\ proc'[r].at \in Linked
                                   /\ Len(proc'[r].seen) = node[proc'[r].at].id
                                   /\ proc'[r].id \notin 1..Len(proc'[r].seen),
           \A j \in 1..Len(proc'[r].seen) : proc'[r].seen[j].id = j,
           proc'[r].pc = "out" /\ proc'[r].seen # <<>> =>
             Len(proc'[r].seen) = IF proc'[r].id \in 1..NIds THEN proc'[r].id ELSE NIds
    PROVE  ListInv'
<1>1. /\ Walkers \subseteq List!Procs /\ Writers \subseteq List!Procs
      /\ \A u \in Writers : u # r /\ proc'[u] = proc[u]
      /\ \A q \in Walkers : q # r => proc'[q] = proc[q]
  BY LabsAssumption DEF List!Procs
<1>2. Linked' = Linked
  BY <1>1 DEF Linked
<1>3. ListLinks' /\ ListData'
  BY <1>2, ListStill DEF ListInv
<1>4. ListTypes'
  BY <1>1 DEF ListInv, ListTypes
<1>5. ListLock'
  BY <1>1 DEF ListInv, ListLock
<1>6. Linked \subseteq live
  BY DEF Linked
<1>7. ListWalks'
  BY <1>1, <1>6 DEF ListInv, ListWalks
<1>8. ListUpdates'
  <2>1. ASSUME NEW u \in Writers, proc[u].pc = "grace", proc'[r].pc = "walk"
        PROVE  proc'[r].at # proc[u].at
    BY <2>1 DEF Linked
  <2> QED BY <1>1, <1>2, <2>1 DEF ListInv, ListUpdates
<1> QED BY <1>3, <1>4, <1>5, <1>7, <1>8 DEF ListInv

\* The same for an updater that replaces nothing.
LEMMA ListUpdaterInv ==
    ASSUME ListInv, NEW u \in Writers,
           UNCHANGED <<next, prev, node, live, fresh, holdouts, loaded>>,
           proc' \in [List!Procs -> ListCall],
           \A q \in List!Procs : q # u => proc'[q] = proc[q],
           proc[u].pc \in {"out", "spin", "search"}, proc'[u].pc \in {"out", "spin", "search"},
           loaded, ListLock', proc'[u].pc = "spin" => proc'[u].at = 0,
           proc'[u].pc = "search" => proc'[u].at \in Linked \cup {0}
    PROVE  ListInv'
<1>1. /\ Walkers \subseteq List!Procs /\ Writers \subseteq List!Procs
      /\ \A r \in Walkers : r # u /\ proc'[r] = proc[r]
      /\ \A q \in Writers : q # u => proc'[q] = proc[q]
  BY LabsAssumption DEF List!Procs
<1>2. Linked' = Linked
  BY <1>1 DEF Linked
<1>3. ListLinks' /\ ListData'
  BY <1>2, ListStill DEF ListInv
<1>4. ListTypes'
  BY <1>1 DEF ListInv, ListTypes
<1>5. ListWalks'
  BY <1>1 DEF ListInv, ListWalks
<1>6. ListUpdates'
  BY <1>1, <1>2 DEF ListInv, ListUpdates
<1> QED BY <1>3, <1>4, <1>5, <1>6 DEF ListInv

LEMMA ListReadCallInv ==
    ASSUME ListInv, NEW r \in Walkers, NEW id \in Nat, List!ReadCall(r, id)
    PROVE  ListInv'
<1>1. loaded /\ UNCHANGED <<next, prev, node, live, fresh, lock, holdouts, loaded>>
  BY DEF List!ReadCall
<1>2. proc' = [proc EXCEPT ![r] = [pc |-> "begin", id |-> id, at |-> 0, seen |-> <<>>]]
  BY DEF List!ReadCall, List!Head0
<1>3. r \in List!Procs /\ \A q \in List!Procs : q # r => proc'[q] = proc[q]
  BY <1>2 DEF ListInv, ListTypes, List!Procs
<1>4. /\ proc'[r].pc = "begin" /\ proc'[r].at = 0 /\ proc'[r].seen = <<>>
      /\ Len(proc'[r].seen) = 0
  BY <1>2, <1>3 DEF ListInv, ListTypes, ListCall
<1>5. proc' \in [List!Procs -> ListCall]
  <2>1. [pc |-> "begin", id |-> id, at |-> 0, seen |-> <<>>] \in ListCall
    BY DEF ListCall, ListPlaces
  <2> QED BY <1>2, <2>1 DEF ListInv, ListTypes
<1> QED BY <1>1, <1>3, <1>4, <1>5, ListReaderInv

\* Where a reader goes next.
LEMMA ListStep ==
    ASSUME ListInv, NEW r \in Walkers, List!InReadSection(r)
    PROVE  /\ loaded /\ r \in List!Procs /\ proc[r].at \in ListPlaces
           /\ proc[r].pc = "walk" => Len(proc[r].seen) = node[proc[r].at].id
           /\ proc[r].pc = "begin" => Len(proc[r].seen) = 0
           /\ proc[r].seen \in Seq(ListElement) /\ Len(proc[r].seen) \in Nat
           /\ next[proc[r].at] = 0 => Len(proc[r].seen) = NIds
           /\ next[proc[r].at] # 0 =>
                /\ next[proc[r].at] \in Linked
                /\ node[next[proc[r].at]].id = Len(proc[r].seen) + 1
<1>1. r \in List!Procs
  BY DEF List!Procs
<1>2. proc[r].pc \in {"begin", "walk"}
  BY DEF List!InReadSection
<1>3. loaded /\ proc[r].at \in ListPlaces /\ proc[r].seen \in Seq(ListElement)
  BY <1>1, <1>2 DEF ListInv, ListTypes, ListCall
<1>4. NIds \in Nat \ {0}
  BY LabsAssumption
<1>5. CASE proc[r].pc = "begin"
  <2>1. proc[r].at = 0 /\ proc[r].seen = <<>>
    BY <1>5 DEF ListInv, ListWalks
  <2>2. First = 1
    BY <1>3 DEF ListInv, ListLinks
  <2>3. next[0] # 0 /\ next[0] \in Linked /\ node[next[0]].id = 1
    BY <1>4, <2>2 DEF First, ListInv, ListLinks
  <2> QED BY <1>1, <1>3, <1>5, <2>1, <2>3
<1>6. CASE proc[r].pc = "walk"
  <2>1. proc[r].at \in live /\ Len(proc[r].seen) = node[proc[r].at].id
    BY <1>6 DEF ListInv, ListWalks
  <2>2. CASE node[proc[r].at].id = NIds
    BY <1>1, <1>3, <1>6, <2>1, <2>2 DEF ListInv, ListLinks
  <2>3. CASE node[proc[r].at].id # NIds
    <3>1. next[proc[r].at] \in Linked /\ node[next[proc[r].at]].id = node[proc[r].at].id + 1
      BY <2>1, <2>3 DEF ListInv, ListLinks
    <3>2. next[proc[r].at] # 0
      BY <3>1 DEF Linked, ListInv, ListTypes
    <3> QED BY <1>1, <1>3, <1>6, <2>1, <3>1, <3>2
  <2> QED BY <2>2, <2>3
<1> QED BY <1>2, <1>5, <1>6

LEMMA ListEndOfListInv ==
    ASSUME ListInv, NEW r \in Walkers, List!EndOfList(r)
    PROVE  ListInv'
<1>1. /\ List!InReadSection(r) /\ next[proc[r].at] = 0
      /\ UNCHANGED <<next, prev, node, live, fresh, lock, holdouts, loaded>>
  BY DEF List!EndOfList, List!Head0
<1>2. proc' = [proc EXCEPT ![r].pc = "out"]
  BY DEF List!EndOfList, List!MoveTo
<1>3. loaded /\ r \in List!Procs /\ Len(proc[r].seen) = NIds
  BY <1>1, ListStep
<1>4. \A q \in List!Procs : q # r => proc'[q] = proc[q]
  BY <1>2 DEF ListInv, ListTypes
<1>5. /\ proc'[r].pc = "out" /\ proc'[r].seen = proc[r].seen /\ proc'[r].id = proc[r].id
      /\ \A j \in 1..Len(proc[r].seen) : proc[r].seen[j].id = j
  BY <1>2, <1>3 DEF ListInv, ListTypes, ListWalks
<1>6. NIds \in Nat \ {0} /\ (proc[r].id \in 1..NIds => Len(proc[r].seen) = proc[r].id)
  <2>1. proc[r].pc = "begin" => NIds = 0
    BY <1>3 DEF ListInv, ListWalks
  <2>2. proc[r].pc = "walk"
    BY <1>1, <2>1, LabsAssumption DEF List!InReadSection
  <2> QED BY <1>3, <2>2, LabsAssumption DEF ListInv, ListWalks
<1>7. proc' \in [List!Procs -> ListCall]
  BY <1>2 DEF ListInv, ListTypes, ListCall
<1> QED BY <1>1, <1>3, <1>4, <1>5, <1>6, <1>7, ListReaderInv

LEMMA ListVisitInv ==
    ASSUME ListInv, NEW r \in Walkers, List!Visit(r)
    PROVE  ListInv'
<1> DEFINE n == next[proc[r].at]
<1>1. /\ List!InReadSection(r) /\ n # 0
      /\ UNCHANGED <<next, prev, node, live, fresh, lock, holdouts, loaded>>
  BY DEF List!Visit, List!Head0
<1>2. PICK pc \in {"out", "walk"} :
        /\ pc = "out" <=> node[n].id = proc[r].id
        /\ proc' = [proc EXCEPT ![r].pc = pc, ![r].at = n, ![r].seen = Append(proc[r].seen, node[n])]
  BY DEF List!Visit
<1>3. /\ loaded /\ r \in List!Procs /\ n \in Linked
      /\ proc[r].seen \in Seq(ListElement) /\ Len(proc[r].seen) \in Nat
      /\ node[n].id = Len(proc[r].seen) + 1
  BY <1>1, ListStep
<1>4. n \in List!Nodes /\ n \in ListPlaces /\ node[n] \in ListElement
  BY <1>3, ListNodes DEF Linked, ListInv
<1> HIDE DEF n
<1>5. \A q \in List!Procs : q # r => proc'[q] = proc[q]
  BY <1>2 DEF ListInv, ListTypes
<1>6. /\ proc'[r].pc = pc /\ proc'[r].seen = Append(proc[r].seen, node[n])
      /\ proc'[r].id = proc[r].id /\ proc'[r].at = n
  BY <1>2, <1>3 DEF ListInv, ListTypes
<1>7. /\ Len(proc'[r].seen) = Len(proc[r].seen) + 1 /\ proc'[r].seen \in Seq(ListElement)
      /\ proc'[r].seen[Len(proc[r].seen) + 1] = node[n]
      /\ \A j \in 1..Len(proc[r].seen) : proc'[r].seen[j] = proc[r].seen[j]
  BY <1>3, <1>4, <1>6
<1>8. \A j \in 1..Len(proc'[r].seen) : proc'[r].seen[j].id = j
  <2>1. \A j \in 1..Len(proc[r].seen) : proc[r].seen[j].id = j
    BY DEF ListInv, ListWalks
  <2> TAKE j \in 1..Len(proc'[r].seen)
  <2>2. CASE j \in 1..Len(proc[r].seen)
    BY <1>7, <2>1, <2>2
  <2>3. CASE j = Len(proc[r].seen) + 1
    BY <1>3, <1>7, <2>3
  <2>4. j \in 1..Len(proc[r].seen) \/ j = Len(proc[r].seen) + 1
    BY <1>3, <1>7
  <2> QED BY <2>2, <2>3, <2>4
<1>9. proc[r].id \notin 1..Len(proc[r].seen)
  <2>1. CASE proc[r].pc = "begin"
    BY <1>1, <2>1, ListStep
  <2>2. CASE proc[r].pc = "walk"
    BY <2>2 DEF ListInv, ListWalks
  <2> QED BY <1>1, <2>1, <2>2 DEF List!InReadSection
<1>10. pc = "walk" => /\ Len(proc'[r].seen) = node[proc'[r].at].id
                      /\ proc'[r].id \notin 1..Len(proc'[r].seen)
  BY <1>2, <1>3, <1>6, <1>7, <1>9
<1>11. node[n].id \in 1..NIds
  BY <1>3, LabsAssumption DEF Linked, ListInv, ListLinks
<1>12. pc = "out" => Len(proc'[r].seen) = IF proc'[r].id \in 1..NIds THEN proc'[r].id ELSE NIds
  BY <1>2, <1>3, <1>6, <1>7, <1>11
<1>13. proc' \in [List!Procs -> ListCall]
  <2>1. proc[r] \in ListCall
    BY <1>3 DEF ListInv, ListTypes
  <2>2. [proc[r] EXCEPT !.pc = pc, !.at = n, !.seen = Append(proc[r].seen, node[n])] \in ListCall
    BY <1>4, <1>6, <1>7, <2>1 DEF ListCall
  <2>3. proc' = [proc EXCEPT ![r] =
          [proc[r] EXCEPT !.pc = pc, !.at = n, !.seen = Append(proc[r].seen, node[n])]]
    BY <1>2, <1>3 DEF ListInv, ListTypes
  <2> QED BY <2>2, <2>3 DEF ListInv, ListTypes
<1> QED BY <1>1, <1>3, <1>5, <1>6, <1>8, <1>10, <1>12, <1>13, ListReaderInv

LEMMA ListUpdateCallInv ==
    ASSUME ListInv, NEW u \in Writers, NEW id \in Nat, List!UpdateCall(u, id)
    PROVE  ListInv'
<1>1. /\ loaded /\ proc[u].pc = "out"
      /\ UNCHANGED <<next, prev, node, live, fresh, lock, holdouts, loaded>>
  BY DEF List!UpdateCall
<1>2. proc' = [proc EXCEPT ![u] = [pc |-> "spin", id |-> id, at |-> 0, seen |-> <<>>]]
  BY DEF List!UpdateCall, List!Head0
<1>3. /\ u \in List!Procs /\ Writers \subseteq List!Procs
      /\ \A q \in List!Procs : q # u => proc'[q] = proc[q]
  BY <1>2 DEF ListInv, ListTypes, List!Procs
<1>4. proc'[u].pc = "spin" /\ proc'[u].at = 0
  BY <1>2, <1>3 DEF ListInv, ListTypes
<1>5. proc' \in [List!Procs -> ListCall]
  <2>1. [pc |-> "spin", id |-> id, at |-> 0, seen |-> <<>>] \in ListCall
    BY DEF ListCall, ListPlaces
  <2> QED BY <1>2, <2>1 DEF ListInv, ListTypes
<1>6. ListLock'
  BY <1>1, <1>3, <1>4 DEF ListInv, ListLock
<1> QED BY <1>1, <1>3, <1>4, <1>5, <1>6, ListUpdaterInv

LEMMA ListUpdateLockInv ==
    ASSUME ListInv, NEW u \in Writers, List!UpdateLock(u)
    PROVE  ListInv'
<1>1. /\ proc[u].pc = "spin" /\ lock = "nobody" /\ lock' = u
      /\ UNCHANGED <<next, prev, node, live, fresh, holdouts, loaded>>
  BY DEF List!UpdateLock, List!NoProc, List!Spinning
<1>2. proc' = [proc EXCEPT ![u].pc = "search"]
  BY DEF List!UpdateLock, List!MoveTo
<1>3. /\ u \in List!Procs /\ Writers \subseteq List!Procs
      /\ \A q \in List!Procs : q # u => proc'[q] = proc[q]
  BY <1>2 DEF ListInv, ListTypes, List!Procs
<1>4. proc'[u].pc = "search" /\ proc'[u].at = proc[u].at
  BY <1>2, <1>3 DEF ListInv, ListTypes, ListCall
<1>5. proc' \in [List!Procs -> ListCall] /\ loaded
  BY <1>1, <1>2, <1>3, ZenonT(60) DEF ListInv, ListTypes, ListCall
<1>6. ListLock'
  BY <1>1, <1>3, <1>4, LabsAssumption DEF ListInv, ListLock
<1>7. proc[u].at = 0
  BY <1>1 DEF ListInv, ListUpdates
<1> QED BY <1>1, <1>3, <1>4, <1>5, <1>6, <1>7, ListUpdaterInv

\* What the search of an updater finds: only it changes the list, and nothing is
\* replaced while it searches.
LEMMA ListFinds ==
    ASSUME ListInv, NEW u \in Writers, proc[u].pc = "search"
    PROVE  /\ loaded /\ u \in List!Procs /\ lock = u /\ Linked = live
           /\ \A v \in Writers : v # u => proc[v].pc \in {"out", "spin"}
           /\ List!Candidate(u) # 0 => List!Candidate(u) \in Linked
<1>1. u \in List!Procs /\ Writers \subseteq List!Procs
  BY DEF List!Procs
<1>2. loaded /\ lock = u /\ \A v \in Writers : v # u => proc[v].pc \in {"out", "spin"}
  BY <1>1 DEF ListInv, ListTypes, ListLock
<1>3. Linked = live
  BY <1>2 DEF Linked
<1>4. proc[u].at \in Linked \cup {0}
  BY DEF ListInv, ListUpdates
<1>5. List!Candidate(u) # 0 => List!Candidate(u) \in Linked
  BY <1>3, <1>4 DEF List!Candidate, ListInv, ListLinks
<1> QED BY <1>1, <1>2, <1>3, <1>5

LEMMA ListSearchInv ==
    ASSUME ListInv, NEW u \in Writers, List!Search(u)
    PROVE  ListInv'
<1>1. /\ proc[u].pc = "search" /\ List!Candidate(u) # 0
      /\ UNCHANGED <<next, prev, node, live, fresh, lock, holdouts, loaded>>
  BY DEF List!Search, List!Head0
<1>2. proc' = [proc EXCEPT ![u].at = List!Candidate(u)]
  BY DEF List!Search
<1>3. /\ u \in List!Procs /\ Writers \subseteq List!Procs
      /\ \A q \in List!Procs : q # u => proc'[q] = proc[q]
  BY <1>2 DEF ListInv, ListTypes, List!Procs
<1>4. loaded /\ List!Candidate(u) \in Linked /\ List!Candidate(u) \in ListPlaces
  BY <1>1, ListFinds, ListNodes DEF ListInv
<1>5. proc'[u].pc = "search" /\ proc'[u].at = List!Candidate(u)
  BY <1>1, <1>2, <1>3 DEF ListInv, ListTypes, ListCall
<1>6. proc' \in [List!Procs -> ListCall]
  BY <1>2, <1>4, ZenonT(60) DEF ListInv, ListTypes, ListCall
<1>7. ListLock'
  BY <1>1, <1>3, <1>5 DEF ListInv, ListLock
<1> QED BY <1>1, <1>3, <1>4, <1>5, <1>6, <1>7, ListUpdaterInv

LEMMA ListNotFoundInv ==
    ASSUME ListInv, NEW u \in Writers, List!NotFound(u)
    PROVE  ListInv'
<1>1. /\ proc[u].pc = "search" /\ lock' = "nobody"
      /\ UNCHANGED <<next, prev, node, live, fresh, holdouts, loaded>>
  BY DEF List!NotFound, List!NoProc
<1>2. proc' = [proc EXCEPT ![u].pc = "out"]
  BY DEF List!NotFound, List!MoveTo
<1>3. /\ u \in List!Procs /\ Writers \subseteq List!Procs
      /\ \A q \in List!Procs : q # u => proc'[q] = proc[q]
  BY <1>2 DEF ListInv, ListTypes, List!Procs
<1>4. loaded /\ \A v \in Writers : v # u => proc[v].pc \in {"out", "spin"}
  BY <1>1, ListFinds
<1>5. proc'[u].pc = "out" /\ proc' \in [List!Procs -> ListCall]
  BY <1>2, <1>3, SMTT(30) DEF ListInv, ListTypes, ListCall
<1>6. ListLock'
  BY <1>1, <1>3, <1>4, <1>5, LabsAssumption DEF ListLock
<1> QED BY <1>1, <1>3, <1>4, <1>5, <1>6, ListUpdaterInv

LEMMA ListSynchronizeInv ==
    ASSUME ListInv, NEW u \in Writers, List!Synchronize(u)
    PROVE  ListInv'
<1>1. /\ proc[u].pc = "sync" /\ holdouts' = List!Procs \ {u}
      /\ UNCHANGED <<next, prev, node, live, fresh, lock, loaded>>
  BY DEF List!Synchronize, List!WaitedFor
<1>2. proc' = [proc EXCEPT ![u].pc = "grace"]
  BY DEF List!Synchronize, List!MoveTo
<1>3. /\ u \in List!Procs /\ Walkers \subseteq List!Procs /\ Writers \subseteq List!Procs
      /\ \A q \in List!Procs : q # u => proc'[q] = proc[q]
      /\ u \notin Walkers
  BY <1>2, LabsAssumption DEF ListInv, ListTypes, List!Procs
<1>4. proc'[u].pc = "grace" /\ proc'[u].at = proc[u].at
  BY <1>2, <1>3 DEF ListInv, ListTypes, ListCall
<1>5. \A v \in Writers : v # u => proc[v].pc \in {"out", "spin"} /\ proc'[v] = proc[v]
  BY <1>1, <1>3 DEF ListInv, ListLock, ListTypes
<1>6. Linked' = Linked
  BY <1>1, <1>4, <1>5 DEF Linked
<1>7. ListLinks' /\ ListData'
  BY <1>1, <1>6, ListStill DEF ListInv
<1>8. ListTypes'
  <2>1. proc' \in [List!Procs -> ListCall]
    BY <1>2 DEF ListInv, ListTypes, ListCall
  <2>2. loaded
    BY <1>1, <1>3 DEF ListInv, ListTypes
  <2> QED BY <1>1, <1>3, <1>4, <1>5, <2>1, <2>2 DEF ListInv, ListTypes
<1>9. ListLock'
  BY <1>1, <1>4, <1>5 DEF ListInv, ListLock
<1>10. ListWalks'
  BY <1>1, <1>3 DEF ListInv, ListWalks
<1>11. ListUpdates'
  BY <1>1, <1>3, <1>4, <1>5 DEF ListInv, ListUpdates
<1> QED BY <1>7, <1>8, <1>9, <1>10, <1>11 DEF ListInv

LEMMA ListQuiescentInv ==
    ASSUME ListInv, NEW p \in List!Procs, List!Quiescent(p)
    PROVE  ListInv'
<1>1. /\ proc[p].pc \notin {"begin", "walk"} /\ holdouts' = holdouts \ {p}
      /\ UNCHANGED <<next, prev, node, live, fresh, lock, proc, loaded>>
  BY DEF List!Quiescent, List!InReadSection
<1>2. Linked' = Linked
  BY <1>1 DEF Linked
<1>3. ListLinks' /\ ListData'
  BY <1>1, <1>2, ListStill DEF ListInv
<1>4. ListTypes' /\ ListLock' /\ ListWalks'
  BY <1>1 DEF ListInv, ListTypes, ListLock, ListWalks
<1>5. ListUpdates'
  BY <1>1, <1>2 DEF ListInv, ListUpdates
<1> QED BY <1>3, <1>4, <1>5 DEF ListInv

LEMMA ListFreeInv ==
    ASSUME ListInv, NEW u \in Writers, List!Free(u)
    PROVE  ListInv'
<1>1. /\ proc[u].pc = "grace" /\ holdouts = {} /\ live' = live \ {proc[u].at} /\ lock' = "nobody"
      /\ UNCHANGED <<next, prev, node, fresh, holdouts, loaded>>
  BY DEF List!Free, List!NoProc
<1>2. proc' = [proc EXCEPT ![u].pc = "out"]
  BY DEF List!Free, List!MoveTo
<1>3. /\ u \in List!Procs /\ Walkers \subseteq List!Procs /\ Writers \subseteq List!Procs
      /\ \A q \in List!Procs : q # u => proc'[q] = proc[q]
      /\ u \notin Walkers
  BY <1>2, LabsAssumption DEF ListInv, ListTypes, List!Procs
<1>4. proc'[u].pc = "out"
  BY <1>2, <1>3 DEF ListInv, ListTypes, ListCall
<1>5. \A v \in Writers : v # u => proc[v].pc \in {"out", "spin"} /\ proc'[v] = proc[v]
  BY <1>1, <1>3 DEF ListInv, ListLock, ListTypes
<1>6. \A r \in Walkers : proc'[r] = proc[r] /\ (proc[r].pc = "walk" => proc[r].at # proc[u].at)
  BY <1>1, <1>3 DEF ListInv, ListUpdates
<1>7. Linked' = Linked
  BY <1>1, <1>4, <1>5 DEF Linked
<1>8. First' = First
  BY <1>1 DEF First
<1>9. ListLinks'
  BY <1>1, <1>7, <1>8 DEF ListInv, ListLinks
<1>10. ListData'
  <2>1. \A j : List!Copies(j)' = List!Copies(j)
    BY <1>1 DEF List!Copies
  <2> QED BY <1>1, <1>7, <2>1 DEF ListInv, ListData
<1>11. ListTypes'
  <2>1. proc' \in [List!Procs -> ListCall]
    BY <1>2 DEF ListInv, ListTypes, ListCall
  <2>2. loaded
    BY <1>1, <1>3 DEF ListInv, ListTypes
  <2> QED BY <1>1, <1>4, <1>5, <1>6, <2>1, <2>2 DEF ListInv, ListTypes
<1>12. ListLock'
  BY <1>1, <1>4, <1>5, LabsAssumption DEF ListLock
<1>13. ListWalks'
  BY <1>1, <1>6 DEF ListInv, ListWalks
<1>14. ListUpdates'
  BY <1>4, <1>5 DEF ListInv, ListUpdates
<1> QED BY <1>9, <1>10, <1>11, <1>12, <1>13, <1>14 DEF ListInv

LEMMA ListUnloadInv ==
    ASSUME ListInv, List!Unload
    PROVE  ListInv'
<1>1. /\ \A p \in List!Procs : proc[p].pc = "out"
      /\ UNCHANGED <<next, prev, node, live, fresh, lock, proc, holdouts>>
  BY DEF List!Unload
<1>2. loaded' \in BOOLEAN /\ ~loaded'
  BY ZenonT(30) DEF List!Unload
<1>3. Linked' = Linked /\ First' = First
  BY <1>1 DEF Linked, First
<1>4. ListLinks'
  BY <1>1, <1>2, <1>3 DEF ListInv, ListLinks
<1>5. ListData'
  <2>1. \A j : List!Copies(j)' = List!Copies(j)
    BY <1>1 DEF List!Copies
  <2> QED BY <1>1, <1>3, <2>1 DEF ListInv, ListData
<1>6. ListTypes' /\ ListLock' /\ ListWalks'
  BY <1>1, <1>2 DEF ListInv, ListTypes, ListLock, ListWalks
<1>7. ListUpdates'
  BY <1>1, <1>3 DEF ListInv, ListUpdates
<1> QED BY <1>4, <1>5, <1>6, <1>7 DEF ListInv

LEMMA ListDeleteFirstInv ==
    ASSUME ListInv, List!DeleteFirst
    PROVE  ListInv'
<1> DEFINE n == next[0]
<1>1. ~loaded /\ n # 0 /\ UNCHANGED <<node, fresh, lock, proc, holdouts, loaded>>
  BY DEF List!DeleteFirst, List!Head0
<1>2. /\ next' = [next EXCEPT ![prev[n]] = next[n]]
      /\ prev' = [prev EXCEPT ![next[n]] = prev[n], ![n] = -1]
      /\ live' = live \ {n}
  BY DEF List!DeleteFirst, List!Head0, List!Poison
<1>3. \A p \in List!Procs : proc[p].pc = "out"
  BY <1>1 DEF ListInv, ListTypes
<1>4. Linked = live /\ Linked' = live \ {n}
  BY <1>1, <1>2, <1>3 DEF Linked, List!Procs
<1>5. n \in live /\ node[n].id = First /\ prev[n] = 0
  BY <1>1, <1>4 DEF ListInv, ListLinks, First
<1>6. \A m \in live : m \in List!Nodes /\ m \in ListPlaces /\ m # 0 /\ node[m].id \in Nat
  BY ListNodes DEF ListInv, ListElement
<1>7. First \in 1..NIds /\ NIds \in Nat \ {0}
  BY <1>5, LabsAssumption DEF ListInv, ListLinks
<1>8. /\ \A m \in live : node[m].id \in First..NIds
      /\ \A m \in live : node[m].id = NIds => next[m] = 0
      /\ \A m \in live : node[m].id # NIds => next[m] \in live /\ node[next[m]].id = node[m].id + 1
      /\ \A m \in live : node[m].id = First => prev[m] = 0
      /\ \A m \in live : node[m].id # First => prev[m] \in live /\ node[prev[m]].id = node[m].id - 1
      /\ \A m, k \in live : node[m].id = node[k].id => m = k
      /\ \A j \in First..NIds : \E m \in live : node[m].id = j
  BY <1>4 DEF ListInv, ListLinks
<1> HIDE DEF n
<1>9. /\ next \in [ListPlaces -> ListPlaces] /\ prev \in [ListPlaces -> ListPlaces \cup {-1}]
      /\ 0 \in ListPlaces
  BY DEF ListInv, ListTypes, ListPlaces
<1>10. /\ next'[0] = next[n] /\ \A m \in live : next'[m] = next[m]
       /\ next' \in [ListPlaces -> ListPlaces]
  BY <1>2, <1>5, <1>6, <1>9
<1>11. next[n] # n /\ next[n] \in ListPlaces
  BY <1>5, <1>6, <1>7, <1>8, <1>9
<1>12. /\ prev'[next[n]] = 0 /\ \A m \in live : m # n /\ m # next[n] => prev'[m] = prev[m]
       /\ prev' \in [ListPlaces -> ListPlaces \cup {-1}]
  BY <1>2, <1>5, <1>6, <1>9, <1>11
<1>13. First' = First + 1
  <2>1. CASE First = NIds
    BY <1>5, <1>8, <1>10, <2>1 DEF First
  <2>2. CASE First # NIds
    <3>1. next[n] \in live /\ node[next[n]].id = First + 1
      BY <1>5, <1>8, <2>2
    <3> QED BY <1>1, <1>6, <1>10, <3>1 DEF First
  <2> QED BY <2>1, <2>2
<1> DEFINE k == First
<1>14. k = First
  OBVIOUS
<1> HIDE DEF k
<1>15. ListLinks'
  <2>1. next'[0] # 0 => next'[0] \in Linked'
    BY <1>4, <1>5, <1>8, <1>10, <1>11
  <2>2. \A m \in live : m # n => node[m].id \in k+1..NIds
    BY <1>5, <1>6, <1>7, <1>8, <1>14
  <2>3. \A m \in Linked' : node[m].id # NIds =>
           next'[m] \in Linked' /\ node[next'[m]].id = node[m].id + 1
    <3> SUFFICES ASSUME NEW m \in live, m # n, node[m].id # NIds
                 PROVE  next[m] \in live /\ next[m] # n /\ node[next[m]].id = node[m].id + 1
      BY <1>4, <1>10
    <3> QED BY <1>5, <1>6, <1>7, <1>8, <1>14, <2>2
  <2>4. \A m \in Linked' : node[m].id = k + 1 => prev'[m] = 0
    <3> SUFFICES ASSUME NEW m \in live, m # n, node[m].id = k + 1 PROVE prev'[m] = 0
      BY <1>4
    <3>1. node[n].id # NIds
      BY <1>5, <1>6, <1>7, <1>14, <2>2
    <3>2. next[n] = m
      BY <1>5, <1>8, <1>14, <3>1
    <3> QED BY <1>12, <3>2
  <2>5. \A m \in Linked' : node[m].id # k + 1 => prev'[m] \in Linked' /\ node[prev'[m]].id = node[m].id - 1
    <3> SUFFICES ASSUME NEW m \in live, m # n, node[m].id # k + 1
                 PROVE  prev'[m] \in live /\ prev'[m] # n /\ node[prev'[m]].id = node[m].id - 1
      BY <1>4
    <3>1. node[m].id \in k+2..NIds
      BY <1>7, <1>14, <2>2
    <3>2. m # next[n]
      BY <1>5, <1>6, <1>7, <1>8, <1>14
    <3>3. prev'[m] = prev[m] /\ prev[m] \in live /\ node[prev[m]].id = node[m].id - 1
      BY <1>7, <1>8, <1>12, <1>14, <3>1, <3>2
    <3>4. prev[m] # n
      BY <1>5, <1>7, <1>14, <3>1, <3>3
    <3> QED BY <3>3, <3>4
  <2>6. \A j \in k+1..NIds : \E m \in Linked' : node[m].id = j
    <3> TAKE j \in k+1..NIds
    <3>1. j \in k..NIds /\ j # k
      BY <1>7, <1>14
    <3>2. PICK m \in live : node[m].id = j
      BY <1>8, <1>14, <3>1
    <3> QED BY <1>4, <1>5, <1>14, <3>1, <3>2
  <2>7. k + 1 \in 1..NIds+1
    BY <1>7, <1>14
  <2>8. \A m \in Linked' : node[m].id = NIds => next'[m] = 0
    BY <1>4, <1>8, <1>10
  <2>9. \A m, j \in Linked' : node[m].id = node[j].id => m = j
    BY <1>4, <1>8
  <2>10. live' = Linked' /\ node' = node /\ First' = k + 1 /\ ~loaded'
    BY <1>1, <1>2, <1>4, <1>13, <1>14
  <2>11. \A m \in Linked' : node[m].id \in k+1..NIds
    BY <1>4, <2>2
  <2> QED BY <2>1, <2>3, <2>4, <2>5, <2>6, <2>7, <2>8, <2>9, <2>10, <2>11 DEF ListLinks
<1>16. ListData'
  <2>1. \A j : List!Copies(j)' = List!Copies(j)
    BY <1>1 DEF List!Copies
  <2> QED BY <1>1, <1>4, <2>1 DEF ListInv, ListData
<1>17. ListTypes'
  BY <1>1, <1>2, <1>10, <1>12 DEF ListInv, ListTypes
<1>18. Walkers \subseteq List!Procs /\ Writers \subseteq List!Procs
  BY DEF List!Procs
<1>19. ListLock' /\ ListWalks'
  BY <1>1, <1>3, <1>18 DEF ListInv, ListLock, ListWalks
<1>20. ListUpdates'
  BY <1>1, <1>3, <1>18 DEF ListUpdates
<1> QED BY <1>15, <1>16, <1>17, <1>19, <1>20 DEF ListInv

LEMMA ListReplaceInv ==
    ASSUME ListInv, NEW u \in Writers, List!Replace(u)
    PROVE  ListInv'
<1> DEFINE old == List!Candidate(u)
           before == prev[old]
           after == next[old]
           id == node[old].id
<1>1. /\ proc[u].pc = "search" /\ old # 0 /\ fresh \in List!Nodes
      /\ UNCHANGED <<lock, holdouts, loaded>>
  BY DEF List!Replace, List!Head0
<1>2. /\ node' = [node EXCEPT ![fresh] = [node[old] EXCEPT !.data = node[old].data + 1]]
      /\ next' = [next EXCEPT ![fresh] = after, ![before] = fresh]
      /\ prev' = [prev EXCEPT ![fresh] = before, ![after] = fresh, ![old] = -1]
      /\ proc' = [proc EXCEPT ![u].pc = "sync", ![u].at = old]
      /\ live' = live \cup {fresh} /\ fresh' = fresh + 1
  BY DEF List!Replace, List!Copy, List!Poison
<1>3. /\ loaded /\ u \in List!Procs /\ lock = u /\ Linked = live /\ old \in live
      /\ \A v \in Writers : v # u => proc[v].pc \in {"out", "spin"}
  BY <1>1, ListFinds
<1> HIDE DEF old
<1>4. /\ Walkers \subseteq List!Procs /\ Writers \subseteq List!Procs /\ u \notin Walkers
      /\ \A q \in List!Procs : q # u => proc'[q] = proc[q]
      /\ proc'[u].pc = "sync" /\ proc'[u].at = old
  BY <1>2, <1>3, LabsAssumption DEF ListInv, ListTypes, ListCall, List!Procs
<1>5. \A m \in live : /\ m \in List!Nodes /\ m \in ListPlaces /\ m # 0 /\ node[m] \in ListElement
                      /\ node[m].id \in Nat /\ m # fresh
  <2>1. fresh \notin live
    BY LabsAssumption DEF ListInv, ListTypes
  <2> QED BY <2>1, ListNodes DEF ListInv, ListElement
<1>6. NIds \in Nat \ {0} /\ fresh \in ListPlaces /\ fresh # 0 /\ 0 \in ListPlaces
  BY <1>1, LabsAssumption DEF ListPlaces, List!Nodes
<1>7. /\ \A m \in live : node[m].id \in 1..NIds
      /\ \A m \in live : node[m].id = NIds => next[m] = 0
      /\ \A m \in live : node[m].id # NIds => next[m] \in live /\ node[next[m]].id = node[m].id + 1
      /\ \A m \in live : node[m].id = 1 => prev[m] = 0
      /\ \A m \in live : node[m].id # 1 => prev[m] \in live /\ node[prev[m]].id = node[m].id - 1
      /\ \A m, n \in live : node[m].id = node[n].id => m = n
      /\ \A j \in 1..NIds : \E m \in live : node[m].id = j
      /\ next[0] \in live /\ node[next[0]].id = 1
  <2>1. First = 1
    BY <1>3 DEF ListInv, ListLinks
  <2>2. next[0] # 0
    BY <1>6, <2>1 DEF First
  <2> QED BY <1>3, <2>1, <2>2 DEF ListInv, ListLinks, First
<1>8. /\ next \in [ListPlaces -> ListPlaces] /\ prev \in [ListPlaces -> ListPlaces \cup {-1}]
      /\ node \in [List!Nodes -> ListElement]
  BY DEF ListInv, ListTypes
<1>9. /\ before \in live \cup {0} /\ after \in live \cup {0} /\ before # old /\ after # old
      /\ before \in ListPlaces /\ after \in ListPlaces /\ before # fresh /\ after # fresh
      /\ id \in 1..NIds
  BY <1>3, <1>5, <1>6, <1>7
<1>10. /\ id = 1 => before = 0
       /\ id # 1 => before \in live /\ node[before].id = id - 1
       /\ id = NIds => after = 0
       /\ id # NIds => after \in live /\ node[after].id = id + 1
  BY <1>3, <1>7
<1> HIDE DEF before, after
<1>11. /\ next'[fresh] = after /\ next'[before] = fresh
       /\ \A m \in live \cup {0} : m # before => next'[m] = next[m]
       /\ next' \in [ListPlaces -> ListPlaces]
  BY <1>2, <1>5, <1>6, <1>8, <1>9
<1>12. /\ prev'[fresh] = before /\ prev'[after] = fresh
       /\ \A m \in live : m # after /\ m # old => prev'[m] = prev[m]
       /\ prev' \in [ListPlaces -> ListPlaces \cup {-1}]
  <2>1. old # fresh /\ old \in ListPlaces
    BY <1>3, <1>5
  <2> QED BY <1>2, <1>5, <1>6, <1>8, <1>9, <2>1
<1>13. /\ node'[fresh] \in ListElement /\ node'[fresh].id = id
       /\ node'[fresh].data = node[old].data + 1
       /\ \A m \in List!Nodes : m # fresh => node'[m] = node[m]
       /\ node' \in [List!Nodes -> ListElement]
  <2>1. node[old] \in ListElement
    BY <1>3, <1>5
  <2>2. /\ [node[old] EXCEPT !.data = node[old].data + 1] \in ListElement
        /\ [node[old] EXCEPT !.data = node[old].data + 1].id = id
        /\ [node[old] EXCEPT !.data = node[old].data + 1].data = node[old].data + 1
    BY <2>1 DEF ListElement
  <2> QED BY <1>1, <1>2, <1>8, <2>2
<1>14. \A m \in live : node'[m] = node[m]
  BY <1>5, <1>13
<1> HIDE DEF id
<1>15. Linked' = (live \ {old}) \cup {fresh}
  <2>1. \A v \in Writers : v # u => proc'[v].pc \notin {"sync", "grace"}
    BY <1>3, <1>4
  <2>2. \A n : (\A v \in Writers : proc'[v].pc \in {"sync", "grace"} => proc'[v].at # n) <=> n # old
    BY <1>4, <2>1
  <2>3. old # fresh
    BY <1>3, <1>5
  <2>4. \A n : n \in Linked' <=> n \in live' /\ n # old
    BY <2>2 DEF Linked
  <2> QED BY <1>2, <2>3, <2>4
<1>16. next'[0] \in Linked' /\ next'[0] # 0 /\ node'[next'[0]].id = 1
  <2>1. CASE id = 1
    <3>1. next'[0] = fresh
      BY <1>10, <1>11, <2>1
    <3> QED BY <1>6, <1>13, <1>15, <2>1, <3>1
  <2>2. CASE id # 1
    <3>1. before # 0
      BY <1>5, <1>10, <2>2
    <3>2. next'[0] = next[0] /\ next[0] \in live /\ node[next[0]].id = 1
      BY <1>7, <1>11, <3>1
    <3>3. next[0] # old
      BY <2>2, <3>2 DEF id
    <3> QED BY <1>5, <1>14, <1>15, <3>2, <3>3
  <2> QED BY <2>1, <2>2
<1>17. First' = 1
  BY <1>16 DEF First
<1>18. \A m \in live' : node'[m].id \in 1..NIds
  BY <1>2, <1>7, <1>9, <1>13, <1>14
<1>19. \A m \in live' : node'[m].id = NIds => next'[m] = 0
  <2>1. node'[fresh].id = NIds => next'[fresh] = 0
    BY <1>10, <1>11, <1>13
  <2>2. ASSUME NEW m \in live, node'[m].id = NIds PROVE next'[m] = 0
    <3>1. m # before
      BY <1>9, <1>10, <1>14, <1>5, <2>2
    <3> QED BY <1>7, <1>11, <1>14, <2>2, <3>1
  <2> QED BY <1>2, <2>1, <2>2
<1>20. \A m \in live' : node'[m].id # NIds =>
         next'[m] \in Linked' /\ node'[next'[m]].id = node'[m].id + 1
  <2>1. ASSUME id # NIds
        PROVE  next'[fresh] \in Linked' /\ node'[next'[fresh]].id = node'[fresh].id + 1
    BY <1>9, <1>10, <1>11, <1>13, <1>14, <1>15, <2>1
  <2>2. ASSUME NEW m \in live, node[m].id # NIds
        PROVE  next'[m] \in Linked' /\ node'[next'[m]].id = node[m].id + 1
    <3>1. CASE m = before
      <4>1. id # 1 /\ node[m].id = id - 1
        BY <1>5, <1>10, <3>1
      <4> QED BY <1>9, <1>11, <1>13, <1>15, <3>1, <4>1
    <3>2. CASE m # before
      <4>1. next'[m] = next[m] /\ next[m] \in live /\ node[next[m]].id = node[m].id + 1
        BY <1>7, <1>11, <2>2, <3>2
      <4>2. ASSUME next[m] = old PROVE FALSE
        <5>1. id = node[m].id + 1 /\ id # 1
          BY <1>7, <4>1, <4>2 DEF id
        <5>2. before \in live /\ node[before].id = node[m].id
          BY <1>7, <1>10, <5>1
        <5> QED BY <1>7, <3>2, <5>2
      <4> QED BY <1>14, <1>15, <4>1, <4>2
    <3> QED BY <3>1, <3>2
  <2> QED BY <1>2, <1>13, <1>14, <2>1, <2>2
<1>21. \A m \in Linked' : node'[m].id = 1 => prev'[m] = 0
  <2>1. id = 1 => prev'[fresh] = 0
    BY <1>10, <1>12
  <2>2. ASSUME NEW m \in live, m # old, node[m].id = 1 PROVE prev'[m] = 0
    <3>1. m # after
      BY <1>5, <1>9, <1>10, <2>2
    <3> QED BY <1>7, <1>12, <2>2, <3>1
  <2> QED BY <1>13, <1>14, <1>15, <2>1, <2>2
<1>22. \A m \in Linked' : node'[m].id # 1 =>
         prev'[m] \in Linked' /\ node'[prev'[m]].id = node'[m].id - 1
  <2>1. ASSUME id # 1
        PROVE  prev'[fresh] \in Linked' /\ node'[prev'[fresh]].id = node'[fresh].id - 1
    BY <1>9, <1>10, <1>12, <1>13, <1>14, <1>15, <2>1
  <2>2. ASSUME NEW m \in live, m # old, node[m].id # 1
        PROVE  prev'[m] \in Linked' /\ node'[prev'[m]].id = node[m].id - 1
    <3>1. CASE m = after
      <4>1. id # NIds /\ node[m].id = id + 1
        BY <1>5, <1>10, <3>1
      <4> QED BY <1>9, <1>12, <1>13, <1>15, <3>1, <4>1
    <3>2. CASE m # after
      <4>1. prev'[m] = prev[m] /\ prev[m] \in live /\ node[prev[m]].id = node[m].id - 1
        BY <1>7, <1>12, <2>2, <3>2
      <4>2. ASSUME prev[m] = old PROVE FALSE
        <5>1. id = node[m].id - 1 /\ id # NIds
          BY <1>7, <4>1, <4>2 DEF id
        <5>2. after \in live /\ node[after].id = node[m].id
          BY <1>7, <1>10, <5>1
        <5> QED BY <1>7, <3>2, <5>2
      <4> QED BY <1>14, <1>15, <4>1, <4>2
    <3> QED BY <3>1, <3>2
  <2> QED BY <1>13, <1>14, <1>15, <2>1, <2>2
<1>23. \A m, n \in Linked' : node'[m].id = node'[n].id => m = n
  <2>1. \A m \in live : m # old => node[m].id # id
    BY <1>3, <1>7 DEF id
  <2> QED BY <1>7, <1>13, <1>14, <1>15, <2>1
<1>24. \A j \in 1..NIds : \E n \in Linked' : node'[n].id = j
  <2> TAKE j \in 1..NIds
  <2>1. CASE j = id
    BY <1>13, <1>15, <2>1
  <2>2. CASE j # id
    <3>1. PICK m \in live : node[m].id = j
      BY <1>7
    <3>2. m # old
      BY <2>2, <3>1 DEF id
    <3> QED BY <1>14, <1>15, <3>1, <3>2
  <2> QED BY <2>1, <2>2
<1>25. ListLinks'
  <2>1. 1 \in 1..NIds+1
    BY <1>6
  <2> QED BY <1>16, <1>17, <1>18, <1>19, <1>20, <1>21, <1>22, <1>23, <1>24, <2>1 DEF ListLinks
<1>26. ListData'
  <2>1. fresh \in Nat /\ fresh > NIds
    BY LabsAssumption DEF ListInv, ListTypes
  <2> DEFINE Of(j) == {n \in NIds+1..fresh-1 : node[n].id = j}
             New(j) == {n \in NIds+1..fresh'-1 : node'[n].id = j}
  <2>2. \A n : n \in NIds+1..fresh'-1 <=> n \in NIds+1..fresh-1 \/ n = fresh
    BY <1>2, <1>6, <2>1
  <2>3. \A n \in NIds+1..fresh-1 : node'[n] = node[n] /\ n # fresh
    <3>1. \A n \in NIds+1..fresh-1 : n \in 1..NIds+MaxUpdates /\ n # fresh
      BY <1>1, <1>6, <2>1, LabsAssumption DEF List!Nodes
    <3> QED BY <1>13, <3>1 DEF List!Nodes
  <2>4. \A j : j # id => New(j) = Of(j)
    BY <1>13, <2>2, <2>3
  <2>5. New(id) = Of(id) \cup {fresh} /\ fresh \notin Of(id)
    BY <1>13, <2>2, <2>3
  <2>6. IsFiniteSet(Of(id))
    <3>1. IsFiniteSet(NIds+1..fresh-1)
      BY <1>6, <2>1, FS_Interval
    <3>2. Of(id) \subseteq NIds+1..fresh-1
      OBVIOUS
    <3> QED BY <3>1, <3>2, FS_Subset
  <2>7. \A n \in live : node[n].data = Cardinality(Of(node[n].id))
    BY <1>3 DEF ListInv, ListData, List!Copies
  <2> SUFFICES \A n \in Linked' : node'[n].data = Cardinality(New(node'[n].id))
    BY DEF ListData, List!Copies
  <2> HIDE DEF Of, New
  <2>8. Cardinality(New(id)) = Cardinality(Of(id)) + 1
    BY <2>5, <2>6, FS_AddElement
  <2>9. node'[fresh].data = Cardinality(New(node'[fresh].id))
    BY <1>3, <1>13, <2>7, <2>8 DEF id
  <2>10. ASSUME NEW m \in live, m # old
         PROVE  node'[m].data = Cardinality(New(node'[m].id))
    <3>1. node[m].id # id
      BY <1>3, <1>7, <2>10 DEF id
    <3> QED BY <1>14, <2>4, <2>7, <3>1
  <2> QED BY <1>15, <2>9, <2>10
<1>27. ListTypes'
  <2>1. proc' \in [List!Procs -> ListCall]
    <3>1. old \in ListPlaces
      BY <1>3, <1>5
    <3> QED BY <1>2, <3>1, ZenonT(60) DEF ListInv, ListTypes, ListCall
  <2>2. fresh' \in NIds+1..NIds+MaxUpdates+1 /\ live' \subseteq 1..fresh'-1
    BY <1>1, <1>2, LabsAssumption DEF ListInv, ListTypes, List!Nodes
  <2> QED BY <1>1, <1>3, <1>4, <1>11, <1>12, <1>13, <2>1, <2>2 DEF ListInv, ListTypes
<1>28. ListLock'
  BY <1>1, <1>3, <1>4 DEF ListInv, ListLock
<1>29. ListWalks'
  <2>1. \A r \in Walkers : proc'[r] = proc[r]
    BY <1>4
  <2>2. \A m \in live : m \in live' /\ node'[m] = node[m]
    BY <1>2, <1>14
  <2> QED BY <2>1, <2>2 DEF ListInv, ListWalks
<1>30. ListUpdates'
  <2>1. \A v \in Writers : v # u => proc'[v] = proc[v] /\ proc[v].pc \in {"out", "spin"}
    BY <1>3, <1>4
  <2>2. old \in live'
    BY <1>2, <1>3
  <2> QED BY <1>4, <2>1, <2>2 DEF ListInv, ListUpdates
<1> QED BY <1>25, <1>26, <1>27, <1>28, <1>29, <1>30 DEF ListInv

LEMMA ListNextInv ==
    ASSUME ListInv, List!ListNext
    PROVE  ListInv'
<1>1. \A id \in AskedIds \cup {List!All} : id \in Nat
  BY LabsAssumption DEF List!All
<1> QED BY <1>1, ListReadCallInv, ListVisitInv, ListEndOfListInv, ListUpdateCallInv,
           ListUpdateLockInv, ListSearchInv, ListNotFoundInv, ListReplaceInv, ListSynchronizeInv,
           ListQuiescentInv, ListFreeInv, ListUnloadInv, ListDeleteFirstInv
           DEF List!ListNext, List!ReaderStep, List!UpdaterStep

LEMMA ListSafe == ListInv => List!ListNoUseAfterFree
<1> SUFFICES ASSUME ListInv PROVE List!ListNoUseAfterFree
  OBVIOUS
<1>1. Linked \subseteq live
  BY DEF Linked
<1>2. ASSUME NEW p \in List!Procs, List!InReadSection(p) \/ proc[p].pc = "search"
      PROVE  proc[p].at \in live \cup {0}
  <2>1. CASE p \in Walkers
    BY <1>2, <2>1 DEF ListInv, ListWalks, ListTypes, List!InReadSection
  <2>2. CASE p \in Writers
    BY <1>1, <1>2, <2>2 DEF ListInv, ListUpdates, ListTypes, List!InReadSection
  <2> QED BY <2>1, <2>2 DEF List!Procs
<1>3. \A n \in live \cup {0} : next[n] \in live \cup {0}
  BY <1>1 DEF ListInv, ListLinks
<1> QED BY <1>2, <1>3 DEF List!ListNoUseAfterFree, List!Head0

LEMMA ListWalked == ListInv => List!WalkComplete
<1> SUFFICES ASSUME ListInv, NEW r \in Walkers
             PROVE  /\ \A j \in DOMAIN proc[r].seen : proc[r].seen[j].id = j
                    /\ proc[r].pc = "out" /\ proc[r].seen # <<>> =>
                         IF proc[r].id \in 1..NIds THEN Len(proc[r].seen) = proc[r].id
                                                   ELSE Len(proc[r].seen) = NIds
  BY DEF List!WalkComplete
<1>1. DOMAIN proc[r].seen = 1..Len(proc[r].seen)
  BY DEF ListInv, ListTypes, ListCall, List!Procs
<1> QED BY <1>1 DEF ListInv, ListWalks

LEMMA ListCardinality == \A S : List!Cardinality(S) = Cardinality(S)
BY Zenon DEF List!Cardinality, Cardinality, List!IsFiniteSet, IsFiniteSet

LEMMA ListListed ==
    ASSUME ListInv, loaded
    PROVE  \E l \in [1..NIds -> live] :
             /\ List!IsList(l)
             /\ \A j \in 1..NIds : node[l[j]].data = Cardinality(List!Copies(j))
             /\ live = {l[j] : j \in 1..NIds} \cup List!Originals
<1> DEFINE l == [j \in 1..NIds |-> CHOOSE n \in Linked : node[n].id = j]
<1>1. First = 1 /\ NIds \in Nat \ {0}
  BY LabsAssumption DEF ListInv, ListLinks
<1>2. \A j \in 1..NIds : l[j] \in Linked /\ node[l[j]].id = j
  BY <1>1 DEF ListInv, ListLinks
<1>3. Linked \subseteq live
  BY DEF Linked
<1>4. l \in [1..NIds -> live]
  BY <1>2, <1>3
<1> HIDE DEF l
<1>5. \A n \in Linked : node[n].id \in 1..NIds /\ l[node[n].id] = n
  BY <1>1, <1>2, <1>3 DEF ListInv, ListLinks
<1>6. List!IsList(l)
  <2>1. 1 \in 1..NIds /\ NIds \in 1..NIds /\ \A j \in 1..NIds-1 : j \in 1..NIds /\ j + 1 \in 1..NIds
    BY <1>1
  <2>2. next[0] = l[1]
    <3>1. next[0] # 0
      BY <1>1 DEF First
    <3>2. next[0] \in Linked /\ node[next[0]].id = 1
      BY <1>1, <3>1 DEF First, ListInv, ListLinks
    <3> QED BY <1>5, <3>2
  <2>3. prev[l[1]] = 0 /\ next[l[NIds]] = 0
    BY <1>1, <1>2, <1>3, <2>1 DEF ListInv, ListLinks
  <2>4. ASSUME NEW j \in 1..NIds-1 PROVE next[l[j]] = l[j + 1] /\ prev[l[j + 1]] = l[j]
    <3>1. /\ l[j] \in live /\ node[l[j]].id = j /\ j # NIds
          /\ l[j + 1] \in Linked /\ node[l[j + 1]].id = j + 1 /\ j + 1 # 1
      BY <1>1, <1>2, <1>3, <2>1
    <3>2. next[l[j]] \in Linked /\ node[next[l[j]]].id = j + 1
      BY <3>1 DEF ListInv, ListLinks
    <3>3. prev[l[j + 1]] \in Linked /\ node[prev[l[j + 1]]].id = j
      BY <1>1, <3>1 DEF ListInv, ListLinks
    <3> QED BY <1>5, <3>2, <3>3
  <2> QED BY <1>2, <2>2, <2>3, <2>4 DEF List!IsList, List!Head0
<1>7. \A j \in 1..NIds : node[l[j]].data = Cardinality(List!Copies(j))
  BY <1>2 DEF ListInv, ListData
<1>8. live = {l[j] : j \in 1..NIds} \cup List!Originals
  <2>1. ASSUME NEW n \in live PROVE n \in {l[j] : j \in 1..NIds} \cup List!Originals
    <3>1. CASE n \in Linked
      BY <1>5, <3>1
    <3>2. CASE n \notin Linked
      BY <2>1, <3>2 DEF Linked, List!Originals
    <3> QED BY <3>1, <3>2
  <2>2. List!Originals \subseteq live
    BY DEF List!Originals, ListInv, ListUpdates
  <2> QED BY <1>2, <1>3, <2>1, <2>2
<1> QED BY <1>4, <1>6, <1>7, <1>8

LEMMA ListGone == ListInv /\ next[0] = 0 => live = {}
BY LabsAssumption DEF ListInv, ListLinks, First

LEMMA ListWhole == ListInv => List!ListComplete
<1> SUFFICES ASSUME ListInv PROVE List!ListComplete
  OBVIOUS
<1>1. loaded => \E l \in [1..NIds -> live] :
        /\ List!IsList(l)
        /\ \A j \in 1..NIds : node[l[j]].data = List!Cardinality(List!Copies(j))
        /\ live = {l[j] : j \in 1..NIds} \cup List!Originals
  BY ListListed, ListCardinality, Zenon
<1>2. next[0] = 0 => live = {}
  BY ListGone
<1> QED BY <1>1, <1>2, Zenon DEF List!ListComplete, List!Head0

(***************************************************************************)
(* The drivers together                                                    *)
(***************************************************************************)
\* Whatever driver is loaded keeps its invariant.
LabsInv ==
    /\ driver = "rwlock" => RwInv
    /\ driver = "rcu" => RcuInv
    /\ driver = "rculist" => ListInv
    /\ driver = "ch3" => Ch3Inv
    /\ driver = "simple_spin" => SpinInv
    /\ Blocking => BlockInv
    /\ driver = "spin_interrupt" => IntInv

LEMMA LabsInitInv == Init => LabsInv
<1> SUFFICES ASSUME Init PROVE LabsInv
  OBVIOUS
<1>1. /\ driver = "rwlock" => Rw!RwInit
      /\ driver = "rcu" => Rcu!RcuInit
      /\ driver = "rculist" => List!ListInit
      /\ driver = "ch3" => Ch3!Ch3Init
      /\ driver = "simple_spin" => Spin!SpinInit
      /\ Blocking => Block!BlockInit
      /\ driver = "spin_interrupt" => Sensor!IntInit
  BY DEF Init, InitOfLab3, InitOfLab4, InitOfLab7, InitOfLab8, InitOfLife, Described, Blocking
<1> QED BY <1>1, RwInitInv, RcuInitInv, ListInitInv, Ch3InitInv, SpinInitInv, BlockInitInv,
           IntInitInv DEF LabsInv

\* A step is one of the driver that is loaded.
LEMMA LabsStep ==
    ASSUME Next
    PROVE  /\ driver' = driver
           /\ driver = "rwlock" => Rw!RwNext
           /\ driver = "rcu" => Rcu!RcuNext
           /\ driver = "rculist" => List!ListNext
           /\ driver = "ch3" => Ch3!Ch3Next
           /\ driver = "simple_spin" => Spin!SpinNext
           /\ Blocking => \E commands \in SUBSET (Commands1 \cup Commands2) : Block!BlockNext(commands)
           /\ driver = "spin_interrupt" => Sensor!IntNext
<1>1. CASE OfCh3(Ch3!Ch3Next)
  BY <1>1 DEF OfCh3, Blocking
<1>2. CASE OfSpin(Spin!SpinNext)
  BY <1>2 DEF OfSpin, Blocking
<1>3. CASE OfBlock("block_1", Block!BlockNext(Commands1)) \/ OfBlock("block_2", Block!BlockNext(Commands2))
  <2>1. Commands1 \in SUBSET (Commands1 \cup Commands2) /\ Commands2 \in SUBSET (Commands1 \cup Commands2)
    OBVIOUS
  <2>2. /\ driver \in {"block_1", "block_2"} /\ driver' = driver
        /\ Block!BlockNext(Commands1) \/ Block!BlockNext(Commands2)
    BY <1>3 DEF OfBlock
  <2> QED BY <2>1, <2>2 DEF Blocking
<1>4. CASE OfSensor(Sensor!IntNext)
  BY <1>4 DEF OfSensor, Blocking
<1>5. CASE OfRcu(Rcu!RcuNext)
  BY <1>5 DEF OfRcu, Blocking
<1>6. CASE OfRw(Rw!RwNext)
  BY <1>6 DEF OfRw, Blocking
<1>7. CASE OfList(List!ListNext)
  BY <1>7 DEF OfList, Blocking
<1>8. CASE OfLife(Life!LifeNext)
  BY <1>8 DEF OfLife, Blocking, Described
<1> QED BY <1>1, <1>2, <1>3, <1>4, <1>5, <1>6, <1>7, <1>8 DEF Next

LEMMA LabsStutter == LabsInv /\ UNCHANGED allVars => LabsInv'
<1> SUFFICES ASSUME LabsInv, UNCHANGED allVars PROVE LabsInv'
  OBVIOUS
<1> USE DEF allVars, callVars, lab3Vars, lab4Vars, listVars, lab7Vars, lab8Vars
<1>1. RwInv => RwInv'
  BY DEF RwInv, RwTypes, RwReading, Rw!RwCurrent, Rw!Procs
<1>2. RcuInv => RcuInv'
  BY DEF RcuInv, RcuTypes, RcuUsing, RcuReplacing, RcuWaitedFor, Rcu!RcuNoLeak, Rcu!Procs
<1>3. ListInv => ListInv'
  <2>1. Linked' = Linked /\ UNCHANGED <<next, prev, node, live, fresh, loaded>>
    BY DEF Linked
  <2>2. ListLinks /\ ListData => ListLinks' /\ ListData'
    BY <2>1, ListStill
  <2>3. UNCHANGED <<proc, holdouts, lock>>
    OBVIOUS
  <2> QED BY <2>1, <2>2, <2>3 DEF ListInv, ListTypes, ListLock, ListWalks, ListUpdates
<1>4. Ch3Inv => Ch3Inv'
  BY DEF Ch3Inv, Ch3Types, Ch3Mutex, Ch3Numbers, Ch3Live, Ch3Order
<1>5. SpinInv => SpinInv'
  <2>1. UNCHANGED <<proc, lock, calls, got, kern_buf>>
    OBVIOUS
  <2>2. SpinTypes /\ SpinMutex /\ SpinReader => SpinTypes' /\ SpinMutex' /\ SpinReader'
    BY <2>1 DEF SpinTypes, SpinMutex, SpinReader
  <2>3. SpinToWrite => SpinToWrite'
    BY <2>1 DEF SpinToWrite
  <2>4. SpinBuffer /\ SpinGot => SpinBuffer' /\ SpinGot'
    BY <2>1 DEF SpinBuffer, SpinGot
  <2> QED BY <2>2, <2>3, <2>4 DEF SpinInv
<1>6. BlockInv => BlockInv'
  BY DEF BlockInv, BlockTypes, BlockLock, BlockBalance, BlockQueue, BlockMembers, BlockOwed
<1>7. IntInv => IntInv'
  BY DEF IntInv, IntTypes, IntDepth, IntAlone, IntLive
<1>8. driver' = driver
  OBVIOUS
<1> QED BY <1>1, <1>2, <1>3, <1>4, <1>5, <1>6, <1>7, <1>8 DEF LabsInv, Blocking

LEMMA LabsNextInv == LabsInv /\ [Next]_allVars => LabsInv'
<1> SUFFICES ASSUME LabsInv, Next PROVE LabsInv'
  BY LabsStutter
<1> QED BY LabsStep, RwNextInv, RcuNextInv, ListNextInv, Ch3NextInv, SpinNextInv, BlockNextInv,
           IntNextInv DEF LabsInv, Blocking

\* Every driver, from insmod on, keeps its invariant in all that its processes,
\* handlers and callbacks do.
THEOREM LabsConsistency == Spec => []LabsInv
<1> QED BY LabsInitInv, LabsNextInv, PTL DEF Spec

\* The wait queue of lab4 (wait_event, wake_up) holds exactly the sleepers not yet
\* woken, once each, the exclusive ones behind the others; of simple_rcu.c's writers one is past the lock.
THEOREM LabsTypes == Spec => []TypeOK
<1>1. LabsInv => TypeOK
  BY BlockSafe, RcuSafe DEF LabsInv, TypeOK
<1> QED BY <1>1, LabsConsistency, PTL

\* No sleeper of lab4 misses the wake-up of a producer: between the test of my_data
\* and the sleep it is already in the queue (simple_block_1.c, simple_block_2.c).
THEOREM LabsWakeups == Spec => []BlockNoLostWakeup
<1>1. LabsInv => BlockNoLostWakeup
  BY BlockSafe DEF LabsInv, BlockNoLostWakeup
<1> QED BY <1>1, LabsConsistency, PTL

\* No cell or node of lab8 is freed while a reader, or the search of an updater, may
\* still follow a pointer to it: a grace period, or the rwlock, comes before kfree.
THEOREM LabsNoUseAfterFree == Spec => []NoUseAfterFree
<1>1. LabsInv => NoUseAfterFree
  BY RcuSafe, RwSafe, ListSafe DEF LabsInv, NoUseAfterFree
<1> QED BY <1>1, LabsConsistency, PTL

\* What simple_rcu.c, ch3_mod.c and spin_interrupt.c have allocated is in use, and
\* freed once: by a writer, by the read that deletes the message, by the exit functions.
THEOREM LabsNoLeak == Spec => []NoLeak
<1>1. LabsInv => NoLeak
  BY RcuSafe, Ch3Kept, IntKept DEF LabsInv, NoLeak
<1> QED BY <1>1, LabsConsistency, PTL

\* Messages of lab3 are read once and in order, though they are copied before they
\* are deleted; the mailbox of simple_spin.c gives whole messages.
THEOREM LabsMessages == Spec => []MessagesOnce
<1>1. LabsInv => MessagesOnce
  BY Ch3Once, SpinSafe DEF LabsInv, MessagesOnce
<1> QED BY <1>1, LabsConsistency, PTL

\* The depth of disable_irq follows the opens and closes of spin_interrupt.c, as long
\* as no two processes have the device open at once, and a close waits for the handler.
THEOREM LabsInterrupt == Spec => []SensorFollowsOpen
<1>1. LabsInv => SensorFollowsOpen
  BY IntFollows DEF LabsInv, SensorFollowsOpen
<1> QED BY <1>1, LabsConsistency, PTL

\* A reader under the rwlock holds the current cell, and a walk of simple_rculist.c
\* meets every element once, in order, through any replacements.
THEOREM LabsReads == Spec => []ReadsConsistent
<1>1. LabsInv => ReadsConsistent
  BY RwSafe, ListWalked DEF LabsInv, ReadsConsistent
<1> QED BY <1>1, LabsConsistency, PTL

\* No addition or subtraction of lab4's my_data and no copied update of
\* simple_rculist.c is lost, and its list stays whole and linked both ways.
THEOREM LabsNothingLost == Spec => []NothingLost
<1>1. LabsInv => NothingLost
  BY BlockSafe, ListWhole DEF LabsInv, NothingLost
<1> QED BY <1>1, LabsConsistency, PTL
=============================================================================
