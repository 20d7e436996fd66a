------------------------------- MODULE KuMmu -------------------------------
(***************************************************************************)
(* The demand-paging simulator of Operating Systems/Assignment #2: the     *)
(* driver loop of ku_cpu.c, the page-table walk of ku_trav.c and the       *)
(* memory manager of ku_mmu.h.                                             *)
(*                                                                         *)
(* The program is sequential.  What makes it hard is that one page fault   *)
(* updates four structures that must agree: the page tables, the frame     *)
(* free list, the FIFO allocation list and the swap-space map.             *)
(*                                                                         *)
(* Page-table entries keep the width they have in the code (one char): a   *)
(* resident page is PFN<<2|1, a swapped page is slot<<1, 0 is unmapped.    *)
(***************************************************************************)
EXTENDS Integers, Sequences, FiniteSets

CONSTANTS
    Pids,      \* process identifiers that occur in the input file
    Addrs,     \* virtual addresses that occur in the input file (chars)
    NFrames,   \* ku_mmu_mem_size / 4, frame 0 included
    NSlots     \* ku_mmu_swap_size / 4, slot 0 included

\* pid 0 is the initial value of pid in main, so a process of the input file
\* is not numbered 0: otherwise ku_cr3 is read before it is ever set.
ASSUME PidsAssumption == Pids \subseteq 1..127
ASSUME AddrsAssumption == Addrs \subseteq 0..255
ASSUME SizesAssumption == NFrames \in Nat \ {0} /\ NSlots \in Nat \ {0}

VARIABLES
    pc,         \* where main is: read, translate, fault, retry, or an exit
    pid, va,    \* the access being served
    procs,      \* pids in ku_mmu_pcbList
    pte,        \* the page tables: [Pages -> 0..255]
    freeList,   \* ku_mmu_freeList: 1 is a used frame
    sspace,     \* ku_mmu_sspace: 1 is a used slot
    allocList   \* ku_mmu_allocList, oldest first

vars == <<pc, pid, va, procs, pte, freeList, sspace, allocList>>

Exits == {"done", "switch_failed", "fault_failed", "translation_failed"}

(***************************************************************************)
(* Addresses and page-table entries                                        *)
(***************************************************************************)
VPN(a) == a \div 4
Offset(a) == a % 4
Pages == Pids \X {VPN(a) : a \in Addrs}

MapPteAbsent(f) == (f * 4) % 256            \* mutant: present bit not set
MapPte(f) == ((f * 4) % 256) + 1
SwapPte(s) == (s * 2) % 256
Present(e) == e % 4 = 1
FrameOf(e) == e \div 4
SlotOf(e) == e \div 2
IsSwapped(e) == e # 0 /\ ~Present(e)

page == <<pid, VPN(va)>>

\* ku_traverse: the physical address, 0 when there is none.
Traverse ==
    IF va = 0 \/ ~Present(pte[page]) THEN 0
    ELSE FrameOf(pte[page]) * 4 + Offset(va)

(***************************************************************************)
(* Scans of the free list and of the swap map, both from index 1           *)
(***************************************************************************)
Least(S) == CHOOSE x \in S : \A y \in S : x <= y

FreeFrames(fl) == {f \in 1..NFrames-1 : fl[f] = 0}
FreeSlots(ss) == {s \in 1..NSlots-1 : ss[s] = 0}

\* ku_freeList_firstFit: the frame as an unsigned char, and the marked list.
FirstFit(fl) == IF FreeFrames(fl) = {} THEN 0 ELSE Least(FreeFrames(fl)) % 256
MarkFit(fl) ==
    IF FreeFrames(fl) = {} THEN fl ELSE [fl EXCEPT ![Least(FreeFrames(fl))] = 1]

FirstSlotShort(ss) ==                       \* mutant: the scan stops one slot early
    IF FreeSlots(ss) \ {NSlots-1} = {} THEN 0 ELSE Least(FreeSlots(ss) \ {NSlots-1})
FirstSlot(ss) == IF FreeSlots(ss) = {} THEN 0 ELSE Least(FreeSlots(ss))

(***************************************************************************)
(* The allocation list                                                     *)
(***************************************************************************)
\* ku_allocList_dequeue: the oldest entry, all zero when the list is empty.
Victim ==
    IF allocList = <<>> THEN [pid |-> 0, PFN |-> 0, VPN |-> 0] ELSE Head(allocList)
DequeueKeeps(q) == q                        \* mutant: the front is not removed
Dequeue(q) == IF q = <<>> THEN q ELSE Tail(q)
FreeVictimNot(fl) == fl                     \* mutant: freeList[front.PFN] = 0 dropped
FreeVictim(fl) == IF allocList = <<>> THEN fl ELSE [fl EXCEPT ![Victim.PFN] = 0]

EnqueueFront(q, f) ==                       \* mutant: a stack, not a queue
    <<[pid |-> pid, PFN |-> f, VPN |-> VPN(va)]>> \o q
\* ku_allocList_enqueue marks the frame of the new entry.
Enqueue(q, f) == Append(q, [pid |-> pid, PFN |-> f, VPN |-> VPN(va)])
MarkUsedNot(fl, f) == fl                    \* mutant: freeList[PFN] = 1 dropped
MarkUsedCounts(fl, f) == [fl EXCEPT ![f] = @ + 1]  \* mutant: ++ for = 1
MarkUsed(fl, f) == [fl EXCEPT ![f] = 1]

SwapOutNot(tbl, s) == tbl                   \* mutant: victim's entry not rewritten
SwapOutUnmaps(tbl, s) ==                    \* mutant: entry cleared, slot not stored
    IF Victim.pid \in procs THEN [tbl EXCEPT ![<<Victim.pid, Victim.VPN>>] = 0] ELSE tbl
\* The loop over the process list that rewrites the victim's entry.
SwapOut(tbl, s) ==
    IF Victim.pid \in procs
    THEN [tbl EXCEPT ![<<Victim.pid, Victim.VPN>>] = SwapPte(s)]
    ELSE tbl

MapPage(tbl, f) == [tbl EXCEPT ![page] = MapPte(f)]

(***************************************************************************)
(* The driver: main and ku_run_proc                                        *)
(***************************************************************************)
Init ==
    /\ pc = "read"
    /\ pid = 0 /\ va = 0
    /\ procs = {}
    /\ pte = [g \in Pages |-> 0]
    /\ freeList = [f \in 0..NFrames-1 |-> IF f = 0 THEN 1 ELSE 0]
    /\ sspace = [s \in 0..NSlots-1 |-> IF s = 0 THEN 1 ELSE 0]
    /\ allocList = <<>>

\* A line of the input, with the context switch when the process changes.
ReadAccess(p, a) ==
    /\ pc = "read"
    /\ pid' = p /\ va' = a
    /\ procs' = procs \cup {p}
    /\ pc' = "translate"
    /\ UNCHANGED <<pte, freeList, sspace, allocList>>

\* ku_run_proc could not allocate the page table of a new process.
SwitchFails(p, a) ==
    /\ pc = "read"
    /\ p # pid /\ p \notin procs
    /\ va' = a
    /\ pc' = "switch_failed"
    /\ UNCHANGED <<pid, procs, pte, freeList, sspace, allocList>>

EndOfInput ==
    /\ pc = "read"
    /\ pc' = "done"
    /\ UNCHANGED <<pid, va, procs, pte, freeList, sspace, allocList>>

Translate ==
    /\ pc = "translate"
    /\ pc' = IF Traverse = 0 THEN "fault" ELSE "read"
    /\ UNCHANGED <<pid, va, procs, pte, freeList, sspace, allocList>>

Retry ==
    /\ pc = "retry"
    /\ pc' = IF Traverse = 0 THEN "translation_failed" ELSE "read"
    /\ UNCHANGED <<pid, va, procs, pte, freeList, sspace, allocList>>

(***************************************************************************)
(* ku_page_fault, one action per case                                      *)
(***************************************************************************)
\* The null pointer is refused; a page that is present, which main only reports
\* when its physical address is 0, is left as it is.
FaultNoCase ==
    /\ pc = "fault"
    /\ va # 0 => Present(pte[page])
    /\ pc' = IF va = 0 THEN "fault_failed" ELSE "retry"
    /\ UNCHANGED <<pid, va, procs, pte, freeList, sspace, allocList>>

\* Case 1: an unmapped page and a free frame.
MapFree ==
    /\ pc = "fault"
    /\ va # 0 /\ pte[page] = 0
    /\ LET f == FirstFit(freeList)
       IN  /\ f # 0
           /\ pte' = MapPage(pte, f)
           /\ allocList' = Enqueue(allocList, f)
           /\ freeList' = MarkUsed(MarkFit(freeList), f)
    /\ pc' = "retry"
    /\ UNCHANGED <<pid, va, procs, sspace>>

\* Case 1-1 with the swap space full.
MapFull ==
    /\ pc = "fault"
    /\ va # 0 /\ pte[page] = 0
    /\ FirstFit(freeList) = 0
    /\ FirstSlot(sspace) = 0
    /\ freeList' = MarkFit(freeList)
    /\ pc' = "fault_failed"
    /\ UNCHANGED <<pid, va, procs, pte, sspace, allocList>>

\* Case 1-1: the oldest resident page goes to swap, its frame is reused.
MapEvict ==
    /\ pc = "fault"
    /\ va # 0 /\ pte[page] = 0
    /\ FirstFit(freeList) = 0
    /\ FirstSlot(sspace) # 0
    /\ LET s == FirstSlot(sspace)
           f == Victim.PFN
       IN  /\ pte' = MapPage(SwapOut(pte, s), f)
           /\ sspace' = [sspace EXCEPT ![s] = 1]
           /\ allocList' = Enqueue(Dequeue(allocList), f)
           /\ freeList' = MarkUsed(FreeVictim(MarkFit(freeList)), f)
    /\ pc' = "retry"
    /\ UNCHANGED <<pid, va, procs>>

SlotReleasedNot == sspace                   \* mutant: slot not released
\* Case 2: the page is swapped.  Its slot is released first, a frame is made
\* free by evicting the oldest page when there is none, and the page is mapped
\* to what a second first-fit scan returns.
SlotReleased == [sspace EXCEPT ![SlotOf(pte[page])] = 0]
NeedEvict == FirstFit(freeList) = 0
SwapInSlot == FirstSlot(SlotReleased) % 256
FreeListKept == MarkFit(freeList)           \* mutant: victim's frame not released
FreeListAfterEvict ==
    IF NeedEvict THEN FreeVictim(MarkFit(freeList)) ELSE MarkFit(freeList)

SwapIn ==
    /\ pc = "fault"
    /\ va # 0 /\ IsSwapped(pte[page])
    /\ LET f == FirstFit(FreeListAfterEvict)
       IN  /\ pte' = MapPage(IF NeedEvict THEN SwapOut(pte, SwapInSlot) ELSE pte, f)
           /\ sspace' = IF NeedEvict THEN [SlotReleased EXCEPT ![SwapInSlot] = 1]
                                     ELSE SlotReleased
           /\ allocList' = Enqueue(IF NeedEvict THEN Dequeue(allocList) ELSE allocList, f)
           /\ freeList' = MarkUsed(MarkFit(FreeListAfterEvict), f)
    /\ pc' = "retry"
    /\ UNCHANGED <<pid, va, procs>>

PageFault == FaultNoCase \/ MapFree \/ MapFull \/ MapEvict \/ SwapIn

Stopped == pc \in Exits /\ UNCHANGED vars

Next ==
    \/ \E p \in Pids, a \in Addrs : ReadAccess(p, a) \/ SwitchFails(p, a)
    \/ EndOfInput
    \/ Translate
    \/ PageFault
    \/ Retry
    \/ Stopped

Spec == Init /\ [][Next]_vars

(***************************************************************************)
(* Properties                                                              *)
(***************************************************************************)
AllocEntry == [pid : Pids, PFN : 0..NFrames-1, VPN : {VPN(a) : a \in Addrs}]

\* Every variable keeps its C type; free and swap maps only hold 0 and 1.
TypeOK ==
    /\ pc \in {"read", "translate", "fault", "retry"} \cup Exits
    /\ pid \in Pids \cup {0} /\ va \in Addrs \cup {0}
    /\ procs \subseteq Pids
    /\ pc \in {"translate", "fault", "retry"} => page \in Pages /\ pid \in procs
    /\ pte \in [Pages -> 0..255]
    /\ freeList \in [0..NFrames-1 -> {0, 1}]
    /\ sspace \in [0..NSlots-1 -> {0, 1}]
    /\ allocList \in Seq(AllocEntry)

Resident == {g \in Pages : Present(pte[g])}
Swapped == {g \in Pages : IsSwapped(pte[g])}
AllocPage(i) == <<allocList[i].pid, allocList[i].VPN>>

\* No two resident pages, of one process or of two, share a frame: otherwise a
\* process reads another's memory through ku_traverse.
FrameExclusive ==
    \A g, h \in Resident : FrameOf(pte[g]) = FrameOf(pte[h]) => g = h

\* The FIFO list holds each resident page once, with the frame it is mapped to.
AllocListAgrees ==
    /\ \A i, j \in DOMAIN allocList : AllocPage(i) = AllocPage(j) => i = j
    /\ \A i \in DOMAIN allocList : pte[AllocPage(i)] = MapPte(allocList[i].PFN)
    /\ \A g \in Resident : \E i \in DOMAIN allocList : AllocPage(i) = g

\* A frame is marked used exactly when a page is resident in it, so none leaks
\* across the two first-fit scans of a swap-in.
FramesAccounted ==
    \A f \in 1..NFrames-1 :
        freeList[f] = 1 <=> \E g \in Resident : FrameOf(pte[g]) = f

\* A swap slot is marked used exactly when a page is in it, and no two pages
\* are in the same one.
SlotsAccounted ==
    /\ \A s \in 1..NSlots-1 :
         sspace[s] = 1 <=> \E g \in Swapped : SlotOf(pte[g]) = s
    /\ \A g, h \in Swapped : SlotOf(pte[g]) = SlotOf(pte[h]) => g = h

\* While a page is swapped out no frame is free.  The swap-in path scans the
\* free list twice and would lose the first frame if this were false.
SwapOnlyWhenFull == Swapped # {} => FreeFrames(freeList) = {}

\* "PFN 0 is reserved for the OS" (ku_mmu.h:118, 136): no page table maps it.
OsFrameReserved == \A g \in Resident : FrameOf(pte[g]) # 0

\* After a fault that the handler says it resolved, the retry of main finds a
\* translation.
FaultResolved == pc = "retry" => Traverse # 0

\* The fault handler gives up on a valid address only when every frame and
\* every swap slot holds a page.
NoEarlyFailure ==
    pc = "fault_failed" /\ va # 0 =>
        Cardinality(Resident \cup Swapped) = (NFrames - 1) + (NSlots - 1)

\* A page that was ever touched stays in memory or in swap for good: serving
\* one page never drops another one's entry.
NoPageLost == [][\A g \in Pages : pte[g] # 0 => pte'[g] # 0]_vars

\* The sizes a page-table entry can name: 64 frames (6 bits), 128 slots (7 bits).
\* A memory of one frame has only the frame of the OS.
SizesFit == NFrames \in 2..64 /\ NSlots \in 1..128

\* The invariant that is inductive when the sizes fit.
ValidEntries ==
    /\ \A g \in Pages :
         \/ pte[g] = 0
         \/ \E f \in 1..NFrames-1 : pte[g] = MapPte(f)
         \/ \E s \in 1..NSlots-1 : pte[g] = SwapPte(s)
    /\ \A i \in DOMAIN allocList : allocList[i].PFN # 0 /\ allocList[i].pid \in procs

FaultMapped == pc = "retry" => va # 0 /\ Present(pte[page])

IInv ==
    /\ TypeOK
    /\ ValidEntries
    /\ FrameExclusive
    /\ AllocListAgrees
    /\ FramesAccounted
    /\ SlotsAccounted
    /\ SwapOnlyWhenFull
    /\ FaultMapped

\* The manager implements FIFO paging.
Paging == INSTANCE KuPaging WITH
    AllPages <- Pages, MemCap <- NFrames - 1, SwapCap <- NSlots - 1,
    resident <- [i \in DOMAIN allocList |-> AllocPage(i)],
    swapped <- Swapped

\* Evictions happen in the order the pages were brought in, only when memory is
\* full, and a swap-in trades exactly one page.
ImplementsPaging == Paging!PSpec
=============================================================================
