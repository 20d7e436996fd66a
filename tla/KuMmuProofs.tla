---------------------------- MODULE KuMmuProofs ----------------------------
(***************************************************************************)
(* Proofs about KuMmu for every set of processes and addresses and every   *)
(* memory and swap size a page-table entry can name.  First the inductive  *)
(* invariant; then that KuMmu implements FIFO paging (KuPaging) and gives  *)
(* up on a fault only when memory and swap are both full, which rest on it *)
(* and on counting: the allocation list numbers the frames in use, the     *)
(* swapped pages the slots in use.                                         *)
(***************************************************************************)
EXTENDS KuMmu, TLAPS, SequenceTheorems, FiniteSetTheorems, NaturalsInduction,
        WellFoundedInduction

(***************************************************************************)
(* Page-table entries                                                      *)
(***************************************************************************)
\* A resident entry gives back the frame it was made from (MapPte).
LEMMA MapPteFacts ==
    ASSUME NEW f \in 0..63
    PROVE  /\ MapPte(f) \in 0..255 /\ MapPte(f) # 0
           /\ Present(MapPte(f)) /\ ~IsSwapped(MapPte(f))
           /\ FrameOf(MapPte(f)) = f
  BY SMTT(30) DEF MapPte, Present, IsSwapped, FrameOf

\* A swapped entry gives back its slot and is neither present nor unmapped.
LEMMA SwapPteFacts ==
    ASSUME NEW s \in 1..127
    PROVE  /\ SwapPte(s) \in 0..255 /\ SwapPte(s) # 0
           /\ ~Present(SwapPte(s)) /\ IsSwapped(SwapPte(s))
           /\ SlotOf(SwapPte(s)) = s
  BY SMTT(30) DEF SwapPte, Present, IsSwapped, SlotOf

LEMMA ZeroPte == ~Present(0) /\ ~IsSwapped(0)
  BY SMT DEF Present, IsSwapped

\* Indices that fit: frames in an entry, slots in an entry, and both in the maps.
LEMMA Ranges ==
    ASSUME SizesFit
    PROVE  /\ \A f \in 1..NFrames-1 : f \in 0..63 /\ f \in 0..NFrames-1
           /\ \A s \in 1..NSlots-1 : s \in 1..127 /\ s \in 0..NSlots-1
           /\ 1 \in 1..NFrames-1
  BY SMT DEF SizesFit

\* Positions of a list of n entries.
LEMMA Positions ==
    ASSUME NEW n \in Nat
    PROVE  /\ \A i \in 1..(n+1) : i \in 1..n \/ i = n+1
           /\ \A i \in 1..n : i \in 1..(n+1) /\ i # n+1
           /\ n+1 \in 1..(n+1) /\ n \in 0..n
           /\ \A i \in 1..n : i+1 \in 1..(n+1) /\ i+1 # 1
           /\ \A i \in 1..(n+1) : i # 1 => i-1 \in 1..n /\ (i-1)+1 = i
           /\ \A i, j \in 1..n : i+1 = j+1 => i = j
  BY SMT

(***************************************************************************)
(* Scans                                                                   *)
(***************************************************************************)
\* A non-empty set of naturals has a least element, and Least returns it.
LEMMA LeastFacts ==
    ASSUME NEW S \in SUBSET Nat, S # {}
    PROVE  Least(S) \in S /\ \A y \in S : Least(S) <= y
<1>1. \E x \in S : \A y \in S : ~(<<y, x>> \in OpToRel(<, Nat))
  BY NatLessThanWellFounded, WFMin, Zenon
<1>2. PICK x \in S : \A y \in S : ~(<<y, x>> \in OpToRel(<, Nat))
  BY <1>1
<1>3. \A y \in S : x <= y
  <2> SUFFICES ASSUME NEW y \in S PROVE x <= y
    OBVIOUS
  <2>1. x \in Nat /\ y \in Nat
    OBVIOUS
  <2>2. y < x => <<y, x>> \in OpToRel(<, Nat)
    BY <2>1, Zenon DEF OpToRel
  <2>3. ~(y < x)
    BY <1>2, <2>2, Zenon
  <2> QED BY <2>1, <2>3, SMT
<1> QED BY <1>3 DEF Least

\* What a first-fit scan returns and leaves behind.
LEMMA FirstFitFacts ==
    ASSUME SizesFit, NEW fl \in [0..NFrames-1 -> {0, 1}]
    PROVE  /\ FreeFrames(fl) = {} => FirstFit(fl) = 0 /\ MarkFit(fl) = fl
           /\ FreeFrames(fl) # {} =>
                /\ FirstFit(fl) \in FreeFrames(fl) /\ FirstFit(fl) # 0
                /\ MarkFit(fl) = [fl EXCEPT ![FirstFit(fl)] = 1]
<1>1. FreeFrames(fl) \in SUBSET Nat /\ \A x \in FreeFrames(fl) : x \in 1..63
  <2>1. 1..NFrames-1 \subseteq 1..63 /\ 1..63 \subseteq Nat
    BY SMT DEF SizesFit
  <2> QED BY <2>1, Zenon DEF FreeFrames
<1>2. CASE FreeFrames(fl) = {}
  BY <1>2 DEF FirstFit, MarkFit
<1>3. CASE FreeFrames(fl) # {}
  <2>1. Least(FreeFrames(fl)) \in FreeFrames(fl)
    BY <1>1, <1>3, LeastFacts
  <2> DEFINE m == Least(FreeFrames(fl))
  <2>2. m \in 1..63
    BY <2>1, <1>1
  <2> HIDE DEF m
  <2>3. m % 256 = m /\ m # 0
    BY <2>2, SMT
  <2> QED BY <1>3, <2>1, <2>3 DEF FirstFit, MarkFit, m
<1> QED BY <1>2, <1>3

\* The scan of the swap map returns a free slot, 0 when there is none.
LEMMA FirstSlotFacts ==
    ASSUME SizesFit, NEW ss \in [0..NSlots-1 -> {0, 1}]
    PROVE  /\ FreeSlots(ss) = {} <=> FirstSlot(ss) = 0
           /\ FreeSlots(ss) # {} =>
                FirstSlot(ss) \in FreeSlots(ss) /\ FirstSlot(ss) % 256 = FirstSlot(ss)
<1>1. FreeSlots(ss) \in SUBSET Nat /\ \A x \in FreeSlots(ss) : x \in 1..127
  <2>1. 1..NSlots-1 \subseteq 1..127 /\ 1..127 \subseteq Nat
    BY SMT DEF SizesFit
  <2> QED BY <2>1, Zenon DEF FreeSlots
<1>2. CASE FreeSlots(ss) = {}
  BY <1>2 DEF FirstSlot
<1>3. CASE FreeSlots(ss) # {}
  <2>1. Least(FreeSlots(ss)) \in FreeSlots(ss)
    BY <1>1, <1>3, LeastFacts
  <2> DEFINE m == Least(FreeSlots(ss))
  <2>2. m \in 1..127
    BY <2>1, <1>1
  <2> HIDE DEF m
  <2>3. m % 256 = m /\ m # 0
    BY <2>2, SMT
  <2> QED BY <1>3, <2>1, <2>3 DEF FirstSlot, m
<1> QED BY <1>2, <1>3

(***************************************************************************)
(* The allocation list                                                     *)
(***************************************************************************)
\* Dropping the oldest entry and adding one at the end shifts the others.
LEMMA RotateFacts ==
    ASSUME NEW S, NEW q \in Seq(S), q # <<>>, NEW e \in S
    PROVE  \E n \in Nat :
             LET r == Append(Tail(q), e)
             IN  /\ DOMAIN q = 1..(n+1) /\ DOMAIN r = 1..(n+1) /\ r \in Seq(S)
                 /\ \A i \in 1..n : r[i] = q[i+1]
                 /\ r[n+1] = e
<1> DEFINE n == Len(q) - 1
<1>1. n \in Nat /\ Len(q) = n+1 /\ Tail(q) \in Seq(S) /\ Len(Tail(q)) = n
      /\ \A i \in 1..n : Tail(q)[i] = q[i+1]
  BY HeadTailProperties, LenProperties, SMTT(30)
<1> HIDE DEF n
<1>2. /\ Append(Tail(q), e) \in Seq(S) /\ Len(Append(Tail(q), e)) = n+1
      /\ \A i \in 1..n : Append(Tail(q), e)[i] = Tail(q)[i]
      /\ Append(Tail(q), e)[n+1] = e
  BY <1>1, AppendProperties, SMTT(30)
<1>3. DOMAIN q = 1..(n+1) /\ DOMAIN Append(Tail(q), e) = 1..(n+1)
  BY <1>1, <1>2, LenProperties
<1> QED BY <1>1, <1>2, <1>3, ZenonT(60)

LEMMA AppendFacts ==
    ASSUME NEW S, NEW q \in Seq(S), NEW e \in S
    PROVE  LET r == Append(q, e)
           IN  /\ r \in Seq(S) /\ Len(r) = Len(q) + 1 /\ Len(q) \in Nat
               /\ \A i \in 1..Len(q) : r[i] = q[i]
               /\ r[Len(q) + 1] = e
  BY AppendProperties, SMTT(30)
(***************************************************************************)
(* What the inductive invariant says of one entry of the allocation list   *)
(***************************************************************************)
LEMMA EntryFacts ==
    ASSUME SizesFit, IInv, NEW i \in DOMAIN allocList
    PROVE  /\ allocList[i] \in AllocEntry
           /\ AllocPage(i) \in Pages /\ allocList[i].pid \in procs
           /\ allocList[i].PFN \in 1..NFrames-1 /\ allocList[i].PFN \in 0..63
           /\ AllocPage(i) \in Resident
           /\ FrameOf(pte[AllocPage(i)]) = allocList[i].PFN
<1>1. allocList \in Seq(AllocEntry) /\ allocList[i] \in AllocEntry
  BY DEF IInv, TypeOK
<1>2. AllocPage(i) \in Pages
  BY <1>1 DEF AllocPage, AllocEntry, Pages
<1>3. allocList[i].PFN # 0 /\ allocList[i].pid \in procs
  BY DEF IInv, ValidEntries
<1>4. allocList[i].PFN \in 1..NFrames-1 /\ allocList[i].PFN \in 0..63
  <2>1. allocList[i].PFN \in 0..NFrames-1
    BY <1>1 DEF AllocEntry
  <2> QED BY <2>1, <1>3, SMT DEF SizesFit
<1>5. pte[AllocPage(i)] = MapPte(allocList[i].PFN)
  BY DEF IInv, AllocListAgrees
<1> QED BY <1>1, <1>2, <1>3, <1>4, <1>5, MapPteFacts, ZenonT(60) DEF Resident

\* A page is unmapped, resident in a frame or swapped to a slot, and the entry
\* is never the image of another kind.
LEMMA PageFacts ==
    ASSUME SizesFit, IInv, NEW g \in Pages
    PROVE  /\ pte[g] = 0 \/ g \in Resident \/ g \in Swapped
           /\ ~(g \in Resident /\ g \in Swapped)
           /\ g \in Resident => pte[g] # 0 /\ FrameOf(pte[g]) \in 1..NFrames-1
           /\ g \in Swapped => SlotOf(pte[g]) \in 1..NSlots-1
<1>1. ~(g \in Resident /\ g \in Swapped)
  BY DEF Resident, Swapped, IsSwapped
<1>2. CASE pte[g] = 0
  BY <1>2, ZeroPte DEF Resident, Swapped
<1>3. ASSUME NEW f \in 1..NFrames-1, pte[g] = MapPte(f)
      PROVE  g \in Resident /\ FrameOf(pte[g]) = f /\ pte[g] # 0
  <2>1. f \in 0..63
    BY Ranges
  <2> QED BY <1>3, <2>1, MapPteFacts, ZenonT(60) DEF Resident
<1>4. ASSUME NEW s \in 1..NSlots-1, pte[g] = SwapPte(s)
      PROVE  g \in Swapped /\ SlotOf(pte[g]) = s
  <2>1. s \in 1..127
    BY Ranges
  <2> QED BY <1>4, <2>1, SwapPteFacts, ZenonT(60) DEF Swapped
<1>5. pte[g] = 0 \/ (\E f \in 1..NFrames-1 : pte[g] = MapPte(f))
                 \/ (\E s \in 1..NSlots-1 : pte[g] = SwapPte(s))
  BY DEF IInv, ValidEntries
<1> QED BY <1>1, <1>2, <1>3, <1>4, <1>5

(***************************************************************************)
(* The initial states                                                      *)
(***************************************************************************)
LEMMA InitInv == ASSUME SizesFit, Init PROVE IInv
<1>1. TypeOK
  BY SMT DEF SizesFit, Init, TypeOK, Exits
<1>2. Resident = {} /\ Swapped = {}
  BY ZeroPte DEF Init, Resident, Swapped
<1>3. DOMAIN allocList = {}
  BY DEF Init
<1>4. FramesAccounted
  BY <1>2, SMT DEF FramesAccounted, Init, SizesFit
<1>5. SlotsAccounted
  BY <1>2, SMT DEF SlotsAccounted, Init, SizesFit
<1>6. AllocListAgrees /\ ValidEntries
  BY <1>2, <1>3 DEF AllocListAgrees, ValidEntries, Init
<1>7. FrameExclusive /\ SwapOnlyWhenFull /\ FaultMapped
  BY <1>2 DEF FrameExclusive, SwapOnlyWhenFull, FaultMapped, Init
<1> QED BY <1>1, <1>4, <1>5, <1>6, <1>7 DEF IInv

(***************************************************************************)
(* The frame that eviction frees                                           *)
(***************************************************************************)
\* The allocation list is not empty when memory is full.
LEMMA VictimFacts ==
    ASSUME SizesFit, IInv, FreeFrames(freeList) = {}
    PROVE  /\ allocList # <<>> /\ 1 \in DOMAIN allocList /\ Victim = allocList[1]
           /\ Victim.PFN \in 1..NFrames-1 /\ Victim.PFN \in 0..63
           /\ freeList[Victim.PFN] = 1
<1>1. TypeOK
  BY DEF IInv
<1>3. allocList # <<>>
  <2>1. 1 \in 1..NFrames-1 /\ 1 \in 0..NFrames-1
    BY Ranges
  <2>2. freeList[1] = 1
    BY <1>1, <2>1 DEF FreeFrames, TypeOK
  <2>3. PICK g \in Resident : FrameOf(pte[g]) = 1
    BY <2>1, <2>2 DEF IInv, FramesAccounted
  <2>4. PICK i \in DOMAIN allocList : AllocPage(i) = g
    BY DEF IInv, AllocListAgrees
  <2> QED BY <2>4
<1>4. 1 \in DOMAIN allocList /\ Victim = allocList[1]
  BY <1>1, <1>3, HeadTailProperties, LenProperties, SMT DEF TypeOK, Victim
<1>5. AllocPage(1) \in Resident /\ FrameOf(pte[AllocPage(1)]) = Victim.PFN
      /\ Victim.PFN \in 1..NFrames-1 /\ Victim.PFN \in 0..63
  BY <1>4, EntryFacts
<1>6. freeList[Victim.PFN] = 1
  BY <1>5 DEF IInv, FramesAccounted
<1> QED BY <1>3, <1>4, <1>5, <1>6

\* Case 1-1 frees the victim's frame and takes it again.
LEMMA FreeListRestored ==
    ASSUME SizesFit, IInv, FreeFrames(freeList) = {}
    PROVE  MarkUsed(FreeVictim(freeList), Victim.PFN) = freeList
<1>1. freeList \in [0..NFrames-1 -> {0, 1}] /\ Victim.PFN \in 0..NFrames-1
  BY VictimFacts, Ranges DEF IInv, TypeOK
<1> QED BY <1>1, VictimFacts DEF MarkUsed, FreeVictim

\* Case 2 frees the victim's frame, and the second first-fit scan finds that
\* frame and no other.
LEMMA VictimFrameIsTheFit ==
    ASSUME SizesFit, IInv, FreeFrames(freeList) = {}
    PROVE  /\ FirstFit(FreeVictim(freeList)) = Victim.PFN
           /\ MarkUsed(MarkFit(FreeVictim(freeList)), Victim.PFN) = freeList
<1> DEFINE fl == FreeVictim(freeList)
           f == Victim.PFN
<1>1. freeList \in [0..NFrames-1 -> {0, 1}] /\ f \in 0..NFrames-1 /\ f \in 1..NFrames-1
      /\ freeList[f] = 1
  BY VictimFacts, Ranges DEF IInv, TypeOK
<1>2. fl = [freeList EXCEPT ![f] = 0]
  BY VictimFacts DEF FreeVictim
<1>3. fl \in [0..NFrames-1 -> {0, 1}]
  BY <1>1, <1>2
<1>4. FreeFrames(fl) = {f}
  <2>1. \A x \in 1..NFrames-1 : x \in 0..NFrames-1 /\ freeList[x] # 0
    BY Ranges DEF FreeFrames
  <2> QED BY <1>1, <1>2, <2>1 DEF FreeFrames
<1>5. FirstFit(fl) = f /\ MarkFit(fl) = [fl EXCEPT ![f] = 1]
  BY <1>3, <1>4, FirstFitFacts
<1>6. MarkUsed(MarkFit(fl), f) = freeList
  BY <1>1, <1>2, <1>5 DEF MarkUsed
<1> QED BY <1>5, <1>6

(***************************************************************************)
(* Mapping a page into a free frame (case 1 with room)                     *)
(***************************************************************************)
\* The entry of the faulting page in the allocation list.
NewEntry(f) == [pid |-> pid, PFN |-> f, VPN |-> VPN(va)]

LEMMA MapFreeStep ==
    ASSUME SizesFit, IInv, MapFree
    PROVE  /\ IInv'
           /\ FreeFrames(freeList) # {} /\ page \in Pages /\ pte[page] = 0
           /\ allocList' = Append(allocList, NewEntry(FirstFit(freeList)))
           /\ NewEntry(FirstFit(freeList)) \in AllocEntry /\ Swapped' = Swapped
<1> DEFINE f == FirstFit(freeList)
           r == allocList'
           n == Len(allocList)
           P(i) == <<r[i].pid, r[i].VPN>>
<1>1. TypeOK /\ page \in Pages /\ pid \in procs /\ pid \in Pids /\ page' = page
  BY DEF IInv, TypeOK, MapFree, page
<1>2. FreeFrames(freeList) # {} /\ f \in FreeFrames(freeList)
      /\ MarkFit(freeList) = [freeList EXCEPT ![f] = 1]
  BY <1>1, FirstFitFacts DEF MapFree, TypeOK
<1>3. f \in 1..NFrames-1 /\ f \in 0..63 /\ freeList[f] = 0
  BY <1>2, SMT DEF FreeFrames, SizesFit
<1>4. freeList' = [freeList EXCEPT ![f] = 1]
  BY <1>1, <1>2, <1>3 DEF MapFree, MarkUsed, TypeOK
<1>5. Swapped = {}
  BY <1>2 DEF IInv, SwapOnlyWhenFull
<1> DEFINE e == [pid |-> pid, PFN |-> f, VPN |-> VPN(va)]
<1>6. e \in AllocEntry /\ r = Append(allocList, e)
  <2>1. VPN(va) \in {VPN(a) : a \in Addrs}
    BY <1>1 DEF page, Pages
  <2>2. f \in 0..NFrames-1
    BY <1>3, SMT DEF SizesFit
  <2> QED BY <1>1, <2>1, <2>2 DEF MapFree, Enqueue, AllocEntry
<1>7. /\ r \in Seq(AllocEntry) /\ n \in Nat /\ DOMAIN r = 1..(n+1) /\ DOMAIN allocList = 1..n
      /\ \A i \in 1..n : r[i] = allocList[i]
      /\ r[n+1] = e
  BY <1>1, <1>6, AppendFacts, LenProperties DEF TypeOK
<1>70. /\ \A i \in 1..(n+1) : i \in 1..n \/ i = n+1
       /\ \A i \in 1..n : i \in 1..(n+1) /\ i # n+1
       /\ \A i \in 1..n : i+1 \in 1..(n+1) /\ i+1 # 1
       /\ \A i \in 1..(n+1) : i # 1 => i-1 \in 1..n /\ (i-1)+1 = i
       /\ \A i, j \in 1..n : i+1 = j+1 => i = j
       /\ n+1 \in 1..(n+1)
  BY <1>7, Positions
<1>8. pte' = [pte EXCEPT ![page] = MapPte(f)]
  BY DEF MapFree, MapPage
<1>9. /\ pte'[page] = MapPte(f) /\ pte'[page] \in 0..255
      /\ \A g \in Pages : g # page => pte'[g] = pte[g]
      /\ DOMAIN pte' = Pages
      /\ Present(pte'[page]) /\ ~IsSwapped(pte'[page]) /\ FrameOf(pte'[page]) = f
  <2>1. pte \in [Pages -> 0..255] /\ page \in Pages
    BY <1>1, ZenonT(60) DEF TypeOK
  <2>2. /\ MapPte(f) \in 0..255 /\ Present(MapPte(f)) /\ ~IsSwapped(MapPte(f))
        /\ FrameOf(MapPte(f)) = f
    BY <1>3, MapPteFacts, ZenonT(60)
  <2>3. /\ pte'[page] = MapPte(f) /\ DOMAIN pte' = Pages
        /\ \A g \in Pages : g # page => pte'[g] = pte[g]
    BY <1>8, <2>1
  <2> QED BY <2>2, <2>3
<1>10. pte[page] = 0 /\ page \notin Resident
  BY ZeroPte DEF MapFree, Resident
<1>11. Resident' = Resident \cup {page} /\ Swapped' = {}
  BY <1>1, <1>5, <1>9 DEF Resident, Swapped
<1>12. pc' = "retry" /\ UNCHANGED <<pid, va, procs, sspace>>
  BY DEF MapFree
<1>13. TypeOK'
  <2>1. pte' \in [Pages -> 0..255]
    BY <1>1, <1>8, <1>9 DEF TypeOK
  <2>2. freeList' \in [0..NFrames-1 -> {0, 1}]
    BY <1>1, <1>4 DEF TypeOK
  <2> QED BY <1>1, <1>7, <1>12, <2>1, <2>2 DEF TypeOK
<1>14. \A i \in 1..n : P(i) = AllocPage(i)
  BY <1>7 DEF AllocPage
<1>15. P(n+1) = page
  BY <1>7 DEF page
<1>16. \A i \in 1..n : AllocPage(i) \in Resident /\ AllocPage(i) # page
  BY <1>7, <1>10, EntryFacts
<1>17. ValidEntries'
  <2>1. \A i \in 1..n : allocList[i].PFN # 0 /\ allocList[i].pid \in procs
    BY <1>7 DEF IInv, ValidEntries
  <2>2. \A i \in 1..(n+1) : r[i].PFN # 0 /\ r[i].pid \in procs
    BY <1>1, <1>3, <1>7, <2>1, <1>70
  <2>3. \A g \in Pages : pte'[g] = 0 \/ (\E x \in 1..NFrames-1 : pte'[g] = MapPte(x))
                                     \/ (\E s \in 1..NSlots-1 : pte'[g] = SwapPte(s))
    BY <1>3, <1>9 DEF IInv, ValidEntries
  <2> QED BY <1>7, <1>12, <2>2, <2>3 DEF ValidEntries
<1>18. \A g \in Resident : FrameOf(pte[g]) # f
  BY <1>3 DEF IInv, FramesAccounted
<1>19. \A g \in Resident : pte'[g] = pte[g]
  BY <1>9, <1>10 DEF Resident
<1>20. FrameExclusive'
  BY <1>9, <1>11, <1>18, <1>19 DEF FrameExclusive, IInv
<1>21. AllocListAgrees'
  <2> HIDE DEF P, n, f, e
  <2>1. \A i, j \in 1..n : AllocPage(i) = AllocPage(j) => i = j
    BY <1>7 DEF IInv, AllocListAgrees
  <2>2. \A i, j \in 1..(n+1) : P(i) = P(j) => i = j
    <3>1. \A i \in 1..n : P(i) # page
      BY <1>14, <1>16
    <3>2. \A i, j \in 1..n : P(i) = P(j) => i = j
      BY <1>14, <2>1
    <3> QED BY <1>15, <1>70, <3>1, <3>2, Zenon
  <2>3. \A i \in 1..n : pte[AllocPage(i)] = MapPte(allocList[i].PFN)
    BY <1>7 DEF IInv, AllocListAgrees
  <2>4. \A i \in 1..(n+1) : pte'[P(i)] = MapPte(r[i].PFN)
    <3>1. \A i \in 1..n : pte'[P(i)] = MapPte(r[i].PFN)
      BY <1>7, <1>14, <1>16, <1>19, <2>3
    <3>2. pte'[P(n+1)] = MapPte(r[n+1].PFN)
      BY <1>7, <1>9, <1>15 DEF e
    <3> QED BY <1>70, <3>1, <3>2, Zenon
  <2>5. \A g \in Resident : \E i \in 1..n : AllocPage(i) = g
    BY <1>7 DEF IInv, AllocListAgrees
  <2>6. \A g \in Resident' : \E i \in 1..(n+1) : P(i) = g
    BY <1>7, <1>11, <1>14, <1>15, <2>5, <1>70
  <2> QED BY <1>7, <2>2, <2>4, <2>6 DEF AllocListAgrees, AllocPage, P
<1>22. FramesAccounted'
  <2> SUFFICES ASSUME NEW x \in 1..NFrames-1
               PROVE  freeList'[x] = 1 <=> \E g \in Resident' : FrameOf(pte'[g]) = x
    BY DEF FramesAccounted
  <2>1. freeList[x] = 1 <=> \E g \in Resident : FrameOf(pte[g]) = x
    BY DEF IInv, FramesAccounted
  <2>2. x \in 0..NFrames-1
    BY SMT DEF SizesFit
  <2>3. freeList'[x] = IF x = f THEN 1 ELSE freeList[x]
    BY <1>1, <1>4, <2>2 DEF TypeOK
  <2> QED BY <1>9, <1>11, <1>19, <2>1, <2>3
<1>23. SlotsAccounted'
  BY <1>5, <1>11, <1>12 DEF IInv, SlotsAccounted
<1>24. SwapOnlyWhenFull' /\ FaultMapped'
  BY <1>1, <1>9, <1>11, <1>12 DEF SwapOnlyWhenFull, FaultMapped, MapFree
<1>25. IInv'
  BY <1>13, <1>17, <1>20, <1>21, <1>22, <1>23, <1>24 DEF IInv
<1> QED BY <1>1, <1>2, <1>5, <1>6, <1>10, <1>11, <1>25 DEF NewEntry

(***************************************************************************)
(* Evicting the oldest page to slot s and mapping the faulting page to its *)
(* frame.  ss is the swap map from which the faulting page is absent: it   *)
(* is sspace itself in case 1-1, sspace with one slot released in case 2.  *)
(***************************************************************************)
\* The oldest page takes the place of the faulting one in swap, and the faulting
\* page its frame.
OldestSwapped ==
    /\ page \in Pages /\ FreeFrames(freeList) = {}
    /\ allocList # <<>> /\ NewEntry(Victim.PFN) \in AllocEntry
    /\ allocList' = Append(Tail(allocList), NewEntry(Victim.PFN))
    /\ Swapped' = (Swapped \ {page}) \cup {AllocPage(1)}

LEMMA EvictStep ==
    ASSUME SizesFit, IInv,
           pc = "fault", va # 0, ~Present(pte[page]), FreeFrames(freeList) = {},
           NEW ss \in [0..NSlots-1 -> {0, 1}],
           NEW s \in 1..NSlots-1, ss[s] = 0,
           \A t \in 1..NSlots-1 :
               ss[t] = 1 <=> \E g \in Swapped \ {page} : SlotOf(pte[g]) = t,
           pte' = MapPage(SwapOut(pte, s), Victim.PFN),
           sspace' = [ss EXCEPT ![s] = 1],
           allocList' = Enqueue(Dequeue(allocList), Victim.PFN),
           freeList' = freeList,
           pc' = "retry", UNCHANGED <<pid, va, procs>>
    PROVE  IInv' /\ OldestSwapped
<1> DEFINE r == allocList'
           f == Victim.PFN
           P(i) == <<r[i].pid, r[i].VPN>>
           vp == AllocPage(1)
           e == [pid |-> pid, PFN |-> f, VPN |-> VPN(va)]
<1>1. TypeOK /\ page \in Pages /\ pid \in procs /\ pid \in Pids /\ page' = page
  BY DEF IInv, TypeOK, page
<1>2. page \notin Resident
  BY DEF Resident
<1>3. allocList # <<>>
  BY VictimFacts
<1>4. 1 \in DOMAIN allocList /\ Victim = allocList[1]
  BY VictimFacts
<1>5. vp \in Resident /\ vp \in Pages /\ Victim.pid \in procs /\ FrameOf(pte[vp]) = f
      /\ f \in 1..NFrames-1 /\ f \in 0..63 /\ vp # page
  BY <1>2, <1>4, EntryFacts
<1>6. e \in AllocEntry /\ r = Append(Tail(allocList), e)
  <2>1. VPN(va) \in {VPN(a) : a \in Addrs}
    BY <1>1 DEF page, Pages
  <2>2. f \in 0..NFrames-1
    BY <1>5, Ranges
  <2> QED BY <1>1, <1>3, <2>1, <2>2 DEF Enqueue, Dequeue, AllocEntry
<1>7. PICK n \in Nat :
         /\ DOMAIN allocList = 1..(n+1) /\ DOMAIN r = 1..(n+1) /\ r \in Seq(AllocEntry)
         /\ \A i \in 1..n : r[i] = allocList[i+1]
         /\ r[n+1] = e
  BY <1>1, <1>3, <1>6, RotateFacts DEF TypeOK
<1>70. /\ \A i \in 1..(n+1) : i \in 1..n \/ i = n+1
       /\ \A i \in 1..n : i \in 1..(n+1) /\ i # n+1
       /\ \A i \in 1..n : i+1 \in 1..(n+1) /\ i+1 # 1
       /\ \A i \in 1..(n+1) : i # 1 => i-1 \in 1..n /\ (i-1)+1 = i
       /\ \A i, j \in 1..n : i+1 = j+1 => i = j
       /\ n+1 \in 1..(n+1)
  BY <1>7, Positions
<1>8. pte' = [[pte EXCEPT ![vp] = SwapPte(s)] EXCEPT ![page] = MapPte(f)]
  BY <1>4, <1>5 DEF MapPage, SwapOut, AllocPage
<1>9. s \in 1..127 /\ s \in 0..NSlots-1
  BY Ranges
<1>10. /\ pte'[page] = MapPte(f) /\ pte'[page] \in 0..255
       /\ pte'[vp] = SwapPte(s) /\ pte'[vp] \in 0..255
       /\ \A g \in Pages : g # page /\ g # vp => pte'[g] = pte[g]
       /\ DOMAIN pte' = Pages
  <2>1. /\ pte'[page] = MapPte(f) /\ pte'[vp] = SwapPte(s) /\ DOMAIN pte' = Pages
        /\ \A g \in Pages : g # page /\ g # vp => pte'[g] = pte[g]
    BY <1>1, <1>5, <1>8, ZenonT(60) DEF TypeOK
  <2>2. MapPte(f) \in 0..255
    BY <1>5, MapPteFacts, ZenonT(60)
  <2>3. SwapPte(s) \in 0..255
    BY <1>9, SwapPteFacts, ZenonT(60)
  <2> QED BY <2>1, <2>2, <2>3
<1>11. /\ Present(pte'[page]) /\ ~IsSwapped(pte'[page]) /\ FrameOf(pte'[page]) = f
       /\ ~Present(pte'[vp]) /\ IsSwapped(pte'[vp]) /\ SlotOf(pte'[vp]) = s
  <2>1. Present(MapPte(f)) /\ ~IsSwapped(MapPte(f)) /\ FrameOf(MapPte(f)) = f
    BY <1>5, MapPteFacts, ZenonT(60)
  <2>2. ~Present(SwapPte(s)) /\ IsSwapped(SwapPte(s)) /\ SlotOf(SwapPte(s)) = s
    BY <1>9, SwapPteFacts, ZenonT(60)
  <2> QED BY <1>10, <2>1, <2>2
<1>12. Resident' = (Resident \ {vp}) \cup {page}
  BY <1>1, <1>5, <1>10, <1>11 DEF Resident
<1>13. Swapped' = (Swapped \ {page}) \cup {vp}
  BY <1>1, <1>5, <1>10, <1>11 DEF Swapped
<1>14. /\ \A g \in Resident \ {vp} : pte'[g] = pte[g] /\ g # page
       /\ \A g \in Swapped \ {page} : pte'[g] = pte[g] /\ g # vp
  BY <1>2, <1>5, <1>10 DEF Resident, Swapped, IsSwapped
<1>15. TypeOK'
  <2>1. pte' \in [Pages -> 0..255]
    BY <1>1, <1>8, <1>10, ZenonT(60) DEF TypeOK
  <2>2. sspace' \in [0..NSlots-1 -> {0, 1}]
    BY <1>9
  <2> QED BY <1>1, <1>7, <2>1, <2>2 DEF TypeOK
<1>16. /\ \A i \in 1..n : P(i) = AllocPage(i+1)
       /\ P(n+1) = page
  BY <1>7 DEF AllocPage, page
<1>17. \A i \in 1..n : AllocPage(i+1) \in Resident \ {vp}
  <2> SUFFICES ASSUME NEW i \in 1..n PROVE AllocPage(i+1) \in Resident \ {vp}
    OBVIOUS
  <2>1. i+1 \in DOMAIN allocList /\ i+1 # 1
    BY <1>7, <1>70
  <2>2. AllocPage(i+1) # vp
    BY <1>4, <2>1 DEF IInv, AllocListAgrees
  <2> QED BY <2>1, <2>2, EntryFacts
<1>19. ValidEntries'
  <2>1. \A i \in 1..n : allocList[i+1].PFN # 0 /\ allocList[i+1].pid \in procs
    BY <1>7, <1>70 DEF IInv, ValidEntries
  <2>3. r[n+1].PFN # 0 /\ r[n+1].pid \in procs
    BY <1>1, <1>5, <1>7
  <2>4. \A i \in 1..(n+1) : r[i].PFN # 0 /\ r[i].pid \in procs
    BY <1>7, <2>1, <2>3, <1>70
  <2>2. \A g \in Pages : pte'[g] = 0 \/ (\E x \in 1..NFrames-1 : pte'[g] = MapPte(x))
                                     \/ (\E x \in 1..NSlots-1 : pte'[g] = SwapPte(x))
    BY <1>5, <1>10 DEF IInv, ValidEntries
  <2> QED BY <1>7, <2>2, <2>4 DEF ValidEntries
<1>20. \A g \in Resident \ {vp} : FrameOf(pte[g]) # f
  BY <1>5 DEF IInv, FrameExclusive
<1>21. FrameExclusive'
  BY <1>11, <1>12, <1>14, <1>20 DEF FrameExclusive, IInv
<1>22. AllocListAgrees'
  <2> HIDE DEF P, f, vp, e
  <2>1. \A i, j \in 1..n : AllocPage(i+1) = AllocPage(j+1) => i = j
    <3> SUFFICES ASSUME NEW i \in 1..n, NEW j \in 1..n, AllocPage(i+1) = AllocPage(j+1)
                 PROVE  i = j
      OBVIOUS
    <3>1. i+1 = j+1
      BY <1>7, <1>70 DEF IInv, AllocListAgrees
    <3> QED BY <3>1, <1>70
  <2>2. \A i, j \in 1..(n+1) : P(i) = P(j) => i = j
    <3>1. \A i \in 1..n : P(i) # page
      BY <1>2, <1>16, <1>17
    <3>2. \A i, j \in 1..n : P(i) = P(j) => i = j
      BY <1>16, <2>1
    <3> QED BY <1>16, <1>70, <3>1, <3>2, SMTT(30)
  <2>3. \A i \in 1..n : pte[AllocPage(i+1)] = MapPte(allocList[i+1].PFN)
    BY <1>7, <1>70 DEF IInv, AllocListAgrees
  <2>4. \A i \in 1..(n+1) : pte'[P(i)] = MapPte(r[i].PFN)
    <3>1. \A i \in 1..n : pte'[P(i)] = MapPte(r[i].PFN)
      BY <1>7, <1>14, <1>16, <1>17, <2>3
    <3>2. pte'[P(n+1)] = MapPte(r[n+1].PFN)
      BY <1>7, <1>10, <1>16 DEF e
    <3> QED BY <1>70, <3>1, <3>2, Zenon
  <2>5. \A g \in Resident \ {vp} : \E i \in 1..n : P(i) = g
    <3> SUFFICES ASSUME NEW g \in Resident \ {vp} PROVE \E i \in 1..n : P(i) = g
      OBVIOUS
    <3>1. PICK i \in 1..(n+1) : AllocPage(i) = g
      BY <1>7 DEF IInv, AllocListAgrees
    <3>2. i # 1
      BY <3>1 DEF vp
    <3>3. i-1 \in 1..n /\ (i-1)+1 = i
      BY <3>2, <1>70
    <3> QED BY <1>16, <3>1, <3>3
  <2>6. \A g \in Resident' : \E i \in 1..(n+1) : P(i) = g
    BY <1>12, <1>16, <2>5, <1>70
  <2>7. \A i \in DOMAIN r : AllocPage(i)' = P(i)
    BY DEF AllocPage, P
  <2>8. DOMAIN r = 1..(n+1)
    BY <1>7
  <2> HIDE DEF P
  <2> QED BY <2>2, <2>4, <2>6, <2>7, <2>8 DEF AllocListAgrees
<1>23. FramesAccounted'
  <2> SUFFICES ASSUME NEW x \in 1..NFrames-1
               PROVE  freeList'[x] = 1 <=> \E g \in Resident' : FrameOf(pte'[g]) = x
    BY DEF FramesAccounted
  <2>1. freeList[x] = 1 <=> \E g \in Resident : FrameOf(pte[g]) = x
    BY DEF IInv, FramesAccounted
  <2> QED BY <1>5, <1>11, <1>12, <1>14, <2>1
<1>24. SlotsAccounted'
  <2>1. ASSUME NEW t \in 1..NSlots-1
        PROVE  sspace'[t] = 1 <=> \E g \in Swapped' : SlotOf(pte'[g]) = t
    <3>1. t \in 0..NSlots-1
      BY Ranges
    <3>2. sspace'[t] = IF t = s THEN 1 ELSE ss[t]
      BY <1>9, <3>1
    <3> QED BY <1>11, <1>13, <1>14, <3>2
  <2>2. \A g \in Swapped \ {page} : SlotOf(pte[g]) # s
    OBVIOUS
  <2>3. \A g, h \in Swapped' : SlotOf(pte'[g]) = SlotOf(pte'[h]) => g = h
    BY <1>11, <1>13, <1>14, <2>2 DEF IInv, SlotsAccounted
  <2> QED BY <2>1, <2>3 DEF SlotsAccounted
<1>25. SwapOnlyWhenFull' /\ FaultMapped'
  BY <1>1, <1>11 DEF SwapOnlyWhenFull, FaultMapped
<1>26. IInv'
  BY <1>15, <1>19, <1>21, <1>22, <1>23, <1>24, <1>25 DEF IInv
<1> QED BY <1>1, <1>3, <1>6, <1>13, <1>26 DEF OldestSwapped, NewEntry

(***************************************************************************)
(* Every action of KuMmu                                                   *)
(***************************************************************************)
LEMMA MapEvictStep == ASSUME SizesFit, IInv, MapEvict PROVE IInv' /\ OldestSwapped
<1> DEFINE s == FirstSlot(sspace)
<1>1. freeList \in [0..NFrames-1 -> {0, 1}] /\ sspace \in [0..NSlots-1 -> {0, 1}]
  BY DEF IInv, TypeOK
<1>2. FreeFrames(freeList) = {} /\ MarkFit(freeList) = freeList
  BY <1>1, FirstFitFacts DEF MapEvict
<1>3. s \in 1..NSlots-1 /\ sspace[s] = 0
  BY <1>1, FirstSlotFacts DEF MapEvict, FreeSlots
<1>4. ~Present(pte[page]) /\ page \notin Swapped
  BY ZeroPte DEF MapEvict, Swapped
<1>5. \A t \in 1..NSlots-1 :
        sspace[t] = 1 <=> \E g \in Swapped \ {page} : SlotOf(pte[g]) = t
  BY <1>4 DEF IInv, SlotsAccounted
<1>6. freeList' = freeList
  BY <1>1, <1>2, FreeListRestored DEF MapEvict
<1> HIDE DEF s
<1> QED BY <1>1, <1>2, <1>3, <1>4, <1>5, <1>6, EvictStep DEF MapEvict, s

LEMMA SwapInStep == ASSUME SizesFit, IInv, SwapIn PROVE IInv' /\ OldestSwapped
<1> DEFINE ss == SlotReleased
           old == SlotOf(pte[page])
           fl == FreeListAfterEvict
<1>1. TypeOK /\ page \in Pages
  BY DEF IInv, TypeOK, SwapIn
<1>2. page \in Swapped /\ ~Present(pte[page]) /\ va # 0 /\ pc = "fault"
  BY <1>1 DEF SwapIn, Swapped, IsSwapped
<1>3. FreeFrames(freeList) = {}
  BY <1>2 DEF IInv, SwapOnlyWhenFull
<1>4. NeedEvict /\ MarkFit(freeList) = freeList /\ fl = FreeVictim(freeList)
  BY <1>1, <1>3, FirstFitFacts DEF NeedEvict, FreeListAfterEvict, TypeOK
<1>5. old \in 1..NSlots-1 /\ old \in 0..NSlots-1
  BY <1>1, <1>2, PageFacts, Ranges
<1>6. /\ ss \in [0..NSlots-1 -> {0, 1}] /\ ss[old] = 0
      /\ \A t \in 0..NSlots-1 : t # old => ss[t] = sspace[t]
  BY <1>1, <1>5 DEF SlotReleased, TypeOK
<1>7. \A t \in 1..NSlots-1 :
        ss[t] = 1 <=> \E g \in Swapped \ {page} : SlotOf(pte[g]) = t
  <2> SUFFICES ASSUME NEW t \in 1..NSlots-1
               PROVE  ss[t] = 1 <=> \E g \in Swapped \ {page} : SlotOf(pte[g]) = t
    OBVIOUS
  <2>1. t \in 0..NSlots-1
    BY Ranges
  <2>2. CASE t = old
    BY <1>2, <1>6, <2>2 DEF IInv, SlotsAccounted
  <2>3. CASE t # old
    BY <1>6, <2>1, <2>3 DEF IInv, SlotsAccounted
  <2> QED BY <2>2, <2>3
<1>8. SwapInSlot \in 1..NSlots-1 /\ ss[SwapInSlot] = 0
  <2>1. old \in FreeSlots(ss)
    BY <1>5, <1>6 DEF FreeSlots
  <2>2. FirstSlot(ss) \in FreeSlots(ss) /\ SwapInSlot = FirstSlot(ss)
    BY <1>6, <2>1, FirstSlotFacts DEF SwapInSlot
  <2> QED BY <2>2 DEF FreeSlots
<1>9. FirstFit(fl) = Victim.PFN /\ freeList' = freeList
  BY <1>1, <1>2, <1>3, <1>4, VictimFrameIsTheFit DEF SwapIn
<1>10. pte' = MapPage(SwapOut(pte, SwapInSlot), Victim.PFN)
       /\ sspace' = [ss EXCEPT ![SwapInSlot] = 1]
       /\ allocList' = Enqueue(Dequeue(allocList), Victim.PFN)
       /\ pc' = "retry" /\ UNCHANGED <<pid, va, procs>>
  BY <1>4, <1>9 DEF SwapIn
<1> DEFINE s == SwapInSlot
<1> HIDE DEF ss, s, old, fl
<1>11. ss \in [0..NSlots-1 -> {0, 1}]
  BY <1>6
<1>12. s \in 1..NSlots-1 /\ ss[s] = 0
  BY <1>8 DEF s
<1>13. /\ pte' = MapPage(SwapOut(pte, s), Victim.PFN)
       /\ sspace' = [ss EXCEPT ![s] = 1]
       /\ freeList' = freeList
  BY <1>9, <1>10 DEF s
<1> QED BY <1>2, <1>3, <1>7, <1>10, <1>11, <1>12, <1>13, EvictStep

\* The steps that leave the memory alone.
LEMMA MemorySame ==
    ASSUME IInv, UNCHANGED <<pte, freeList, sspace, allocList>>,
           procs \subseteq procs', TypeOK', FaultMapped'
    PROVE  IInv'
<1>1. Resident' = Resident /\ Swapped' = Swapped
  BY DEF Resident, Swapped
<1>2. \A i : AllocPage(i)' = AllocPage(i)
  BY DEF AllocPage
<1>3. ValidEntries'
  BY DEF IInv, ValidEntries
<1>4. FrameExclusive' /\ FramesAccounted' /\ SlotsAccounted' /\ SwapOnlyWhenFull'
  BY <1>1 DEF IInv, FrameExclusive, FramesAccounted, SlotsAccounted, SwapOnlyWhenFull
<1>5. AllocListAgrees'
  BY <1>1, <1>2 DEF IInv, AllocListAgrees
<1> QED BY <1>3, <1>4, <1>5 DEF IInv

LEMMA NextInv == ASSUME SizesFit, IInv, [Next]_vars PROVE IInv'
<1> USE DEF FaultMapped, Exits
<1>1. TypeOK /\ FaultMapped
  BY DEF IInv
<1>2. ASSUME NEW p \in Pids, NEW a \in Addrs, ReadAccess(p, a) PROVE IInv'
  <2>1. page' \in Pages
    BY <1>2 DEF ReadAccess, page, Pages
  <2>2. TypeOK'
    BY <1>1, <1>2, <2>1 DEF ReadAccess, TypeOK, AllocEntry
  <2> QED BY <1>2, <2>2, MemorySame DEF ReadAccess
<1>3. ASSUME NEW p \in Pids, NEW a \in Addrs, SwitchFails(p, a) PROVE IInv'
  <2>1. TypeOK'
    BY <1>1, <1>3 DEF SwitchFails, TypeOK, AllocEntry
  <2> QED BY <1>3, <2>1, MemorySame DEF SwitchFails
<1>4. ASSUME EndOfInput PROVE IInv'
  <2>1. TypeOK'
    BY <1>1, <1>4 DEF EndOfInput, TypeOK, AllocEntry
  <2> QED BY <1>4, <2>1, MemorySame DEF EndOfInput
<1>5. ASSUME Translate PROVE IInv'
  <2>1. TypeOK'
    BY <1>1, <1>5 DEF Translate, TypeOK, AllocEntry, page
  <2> QED BY <1>5, <2>1, MemorySame DEF Translate
<1>6. ASSUME Retry PROVE IInv'
  <2>1. TypeOK'
    BY <1>1, <1>6 DEF Retry, TypeOK, AllocEntry, page
  <2> QED BY <1>6, <2>1, MemorySame DEF Retry
<1>7. ASSUME FaultNoCase PROVE IInv'
  <2>1. TypeOK' /\ page' = page
    BY <1>1, <1>7 DEF FaultNoCase, TypeOK, AllocEntry, page
  <2> QED BY <1>7, <2>1, MemorySame DEF FaultNoCase
<1>9. ASSUME MapFull PROVE IInv'
  <2>1. freeList' = freeList
    BY <1>1, <1>9, FirstFitFacts DEF MapFull, TypeOK
  <2>2. TypeOK'
    BY <1>1, <1>9, <2>1 DEF MapFull, TypeOK, AllocEntry, page
  <2> QED BY <1>9, <2>1, <2>2, MemorySame DEF MapFull
<1>10. ASSUME UNCHANGED vars PROVE IInv'
  <2>1. TypeOK' /\ page' = page
    BY <1>1, <1>10 DEF vars, TypeOK, AllocEntry, page
  <2> QED BY <1>1, <1>10, <2>1, MemorySame DEF vars
<1> QED BY <1>2, <1>3, <1>4, <1>5, <1>6, <1>7, <1>9, <1>10,
           MapFreeStep, MapEvictStep, SwapInStep
        DEF Next, PageFault, Stopped

(***************************************************************************)
(* Theorems                                                                *)
(***************************************************************************)
\* The page tables, the free list, the allocation list and the swap map agree
\* after every step of the program, whatever the input file, when the sizes fit
\* the page-table entries (ku_page_fault, ku_mmu.h:179-280).
THEOREM Consistency == ASSUME SizesFit PROVE Spec => []IInv
<1>1. Init => IInv
  BY InitInv
<1>2. IInv /\ [Next]_vars => IInv'
  BY NextInv
<1> QED BY <1>1, <1>2, PTL DEF Spec

\* Every variable keeps its C type: entries fit a char, maps hold 0 and 1, and the
\* page being served belongs to a process that has a page table.
THEOREM Typing == ASSUME SizesFit PROVE Spec => []TypeOK
<1>1. IInv => TypeOK
  BY DEF IInv
<1> QED BY <1>1, Consistency, PTL

\* No two pages share a frame, so no process reads another's memory.
THEOREM FrameIsolation == ASSUME SizesFit PROVE Spec => []FrameExclusive
<1>1. IInv => FrameExclusive
  BY DEF IInv
<1> QED BY <1>1, Consistency, PTL

\* The free list and the page tables agree: no frame leaks or is given twice.
THEOREM NoFrameLeaks == ASSUME SizesFit PROVE Spec => []FramesAccounted
<1>1. IInv => FramesAccounted
  BY DEF IInv
<1> QED BY <1>1, Consistency, PTL

\* The swap map and the page tables agree: no slot leaks or is given twice.
THEOREM NoSlotLeaks == ASSUME SizesFit PROVE Spec => []SlotsAccounted
<1>1. IInv => SlotsAccounted
  BY DEF IInv
<1> QED BY <1>1, Consistency, PTL

\* The fact that makes the two first-fit scans of a swap-in harmless.
THEOREM SwapImpliesFull == ASSUME SizesFit PROVE Spec => []SwapOnlyWhenFull
<1>1. IInv => SwapOnlyWhenFull
  BY DEF IInv
<1> QED BY <1>1, Consistency, PTL

\* When the sizes fit, the frame of the OS is never mapped (ku_mmu.h:118, 136).
THEOREM OsFrame == ASSUME SizesFit PROVE Spec => []OsFrameReserved
<1>1. IInv => OsFrameReserved
  <2> SUFFICES ASSUME IInv, NEW g \in Resident PROVE FrameOf(pte[g]) # 0
    BY DEF OsFrameReserved
  <2>1. g \in Pages /\ \A f \in 1..NFrames-1 : f # 0
    BY SMT DEF Resident
  <2> QED BY <2>1, PageFacts
<1> QED BY <1>1, Consistency, PTL

\* After a fault the handler resolved, the second ku_traverse of main succeeds:
\* "Addr translation is failed" is unreachable when the sizes fit.
THEOREM RetrySucceeds == ASSUME SizesFit PROVE Spec => []FaultResolved
<1>1. IInv => FaultResolved
  <2> SUFFICES ASSUME IInv, pc = "retry" PROVE Traverse # 0
    BY DEF FaultResolved
  <2>1. va # 0 /\ Present(pte[page]) /\ page \in Pages /\ va \in 0..255
    BY AddrsAssumption DEF IInv, FaultMapped, TypeOK
  <2>2. FrameOf(pte[page]) \in 1..NFrames-1
    BY <2>1, PageFacts DEF Resident
  <2> DEFINE f == FrameOf(pte[page])
             o == Offset(va)
  <2>3. f \in 0..63 /\ f # 0
    <3>1. \A x \in 1..NFrames-1 : x # 0
      BY SMT
    <3> QED BY <2>2, <3>1, Ranges
  <2>4. o \in 0..3
    BY <2>1, SMT DEF Offset
  <2>5. Traverse = f * 4 + o
    BY <2>1 DEF Traverse
  <2> HIDE DEF f, o
  <2> QED BY <2>3, <2>4, <2>5, SMT
<1> QED BY <1>1, Consistency, PTL

\* No step drops the entry of a page that was touched before.
THEOREM EntriesSurvive == ASSUME SizesFit PROVE Spec => NoPageLost
<1> DEFINE Kept == \A g \in Pages : pte[g] # 0 => pte'[g] # 0
<1>1. IInv /\ [Next]_vars => [Kept]_vars
  <2> SUFFICES ASSUME IInv, Next PROVE Kept
    OBVIOUS
  <2>1. pte \in [Pages -> 0..255]
    BY ZenonT(60) DEF IInv, TypeOK
  <2>2. ASSUME NEW f \in 0..63, NEW s \in 1..127, NEW tbl,
               tbl = pte \/ tbl = SwapOut(pte, s), pte' = MapPage(tbl, f)
        PROVE  Kept
    <3>1. MapPte(f) # 0 /\ SwapPte(s) # 0
      BY MapPteFacts, SwapPteFacts, ZenonT(60)
    <3> QED BY <2>1, <2>2, <3>1 DEF MapPage, SwapOut
  <2>3. 1 \in 1..127 /\ freeList \in [0..NFrames-1 -> {0, 1}]
        /\ sspace \in [0..NSlots-1 -> {0, 1}]
    BY SMT DEF IInv, TypeOK
  <2>4. CASE MapFree
    <3>1. FirstFit(freeList) \in 0..63
      BY <2>3, <2>4, FirstFitFacts, Ranges, ZenonT(60) DEF MapFree, FreeFrames
    <3> QED BY <2>2, <2>3, <2>4, <3>1, ZenonT(60) DEF MapFree
  <2>5. CASE MapEvict
    <3>1. FreeFrames(freeList) = {}
      BY <2>3, <2>5, FirstFitFacts DEF MapEvict
    <3>2. FirstSlot(sspace) \in 1..127
      BY <2>3, <2>5, FirstSlotFacts, Ranges, ZenonT(60) DEF MapEvict, FreeSlots
    <3> QED BY <2>2, <2>5, <3>1, <3>2, VictimFacts, ZenonT(60) DEF MapEvict
  <2>6. CASE SwapIn
    <3>1. page \in Swapped /\ page \in Pages
      BY <2>6 DEF SwapIn, Swapped, IInv, TypeOK
    <3>2. FreeFrames(freeList) = {} /\ NeedEvict
          /\ FreeListAfterEvict = FreeVictim(freeList)
      BY <2>3, <3>1, FirstFitFacts
         DEF IInv, SwapOnlyWhenFull, NeedEvict, FreeListAfterEvict
    <3>3. FirstFit(FreeListAfterEvict) \in 0..63
      BY <3>2, VictimFacts, VictimFrameIsTheFit
    <3>4. SlotOf(pte[page]) \in 1..NSlots-1 /\ SlotOf(pte[page]) \in 0..NSlots-1
      BY <3>1, PageFacts, Ranges
    <3>5. SlotReleased \in [0..NSlots-1 -> {0, 1}] /\ FreeSlots(SlotReleased) # {}
      BY <2>3, <3>4 DEF SlotReleased, FreeSlots
    <3>6. SwapInSlot \in 1..127
      BY <3>5, FirstSlotFacts, Ranges, ZenonT(60) DEF SwapInSlot, FreeSlots
    <3> QED BY <2>2, <2>6, <3>2, <3>3, <3>6, ZenonT(60) DEF SwapIn
  <2>7. CASE UNCHANGED pte
    BY <2>7
  <2> QED BY <2>4, <2>5, <2>6, <2>7 DEF Next, PageFault, Stopped, ReadAccess, SwitchFails,
             EndOfInput, Translate, Retry, FaultNoCase, MapFull, vars
<1> QED BY <1>1, Consistency, PTL DEF Spec, NoPageLost

(***************************************************************************)
(* Counting frames                                                         *)
(***************************************************************************)
\* The list is as long as memory exactly when no frame is free.
LEMMA FramesCounted ==
    ASSUME SizesFit, IInv
    PROVE  /\ Len(allocList) \in Nat /\ Len(allocList) <= NFrames - 1
           /\ FreeFrames(freeList) = {} <=> Len(allocList) = NFrames - 1
<1> DEFINE n == Len(allocList)
           F == [i \in 1..n |-> allocList[i].PFN]
<1>1. n \in Nat /\ DOMAIN allocList = 1..n
  BY LenProperties DEF IInv, TypeOK
<1>2. F \in Injection(1..n, 1..NFrames-1)
  <2>1. F \in [1..n -> 1..NFrames-1]
    BY <1>1, EntryFacts
  <2>2. ASSUME NEW i \in 1..n, NEW j \in 1..n, F[i] = F[j] PROVE i = j
    <3>1. AllocPage(i) = AllocPage(j)
      BY <1>1, <2>2, EntryFacts DEF IInv, FrameExclusive
    <3> QED BY <1>1, <3>1 DEF IInv, AllocListAgrees
  <2> QED BY <2>1, <2>2 DEF Injection, IsInjective
<1>3. F \in Surjection(1..n, 1..NFrames-1) <=> FreeFrames(freeList) = {}
  <2>1. ASSUME FreeFrames(freeList) = {}, NEW f \in 1..NFrames-1
        PROVE  \E i \in 1..n : F[i] = f
    <3>1. freeList[f] = 1
      BY <2>1, Ranges DEF FreeFrames, IInv, TypeOK
    <3>2. PICK g \in Resident : FrameOf(pte[g]) = f
      BY <3>1 DEF IInv, FramesAccounted
    <3>3. PICK i \in 1..n : AllocPage(i) = g
      BY <1>1 DEF IInv, AllocListAgrees
    <3> QED BY <1>1, <3>2, <3>3, EntryFacts
  <2>2. ASSUME NEW f \in 1..NFrames-1, NEW i \in 1..n, F[i] = f PROVE freeList[f] = 1
    BY <1>1, <2>2, EntryFacts DEF IInv, FramesAccounted
  <2>3. F \in [1..n -> 1..NFrames-1]
    BY <1>2 DEF Injection
  <2> HIDE DEF F
  <2> QED BY <2>1, <2>2, <2>3 DEF Surjection, FreeFrames
<1>4. /\ IsFiniteSet(1..n) /\ Cardinality(1..n) = n
      /\ IsFiniteSet(1..NFrames-1) /\ Cardinality(1..NFrames-1) = NFrames - 1
  <2>1. \A m \in Nat : IsFiniteSet(1..m) /\ Cardinality(1..m) = m
    <3> SUFFICES ASSUME NEW m \in Nat PROVE IsFiniteSet(1..m) /\ Cardinality(1..m) = m
      OBVIOUS
    <3>1. IsFiniteSet(1..m) /\ Cardinality(1..m) = IF 1 > m THEN 0 ELSE m - 1 + 1
      BY FS_Interval
    <3>2. (IF 1 > m THEN 0 ELSE m - 1 + 1) = m
      BY SMT
    <3> QED BY <3>1, <3>2
  <2>2. NFrames - 1 \in Nat
    BY SMT DEF SizesFit
  <2> QED BY <1>1, <2>1, <2>2
<1> HIDE DEF F
<1> QED BY <1>1, <1>2, <1>3, <1>4, FS_Injection

(***************************************************************************)
(* Counting slots                                                          *)
(***************************************************************************)
\* The swapped pages are as many as the swap slots exactly when no slot is free.
LEMMA SlotsCounted ==
    ASSUME SizesFit, IInv
    PROVE  /\ IsFiniteSet(Swapped) /\ Cardinality(Swapped) \in Nat
           /\ Cardinality(Swapped) <= NSlots - 1
           /\ FreeSlots(sspace) = {} <=> Cardinality(Swapped) = NSlots - 1
<1> DEFINE G == [g \in Swapped |-> SlotOf(pte[g])]
<1>1. G \in Injection(Swapped, 1..NSlots-1)
  <2>1. G \in [Swapped -> 1..NSlots-1]
    BY PageFacts DEF Swapped
  <2>2. \A g, h \in Swapped : G[g] = G[h] => g = h
    BY DEF IInv, SlotsAccounted
  <2> QED BY <2>1, <2>2 DEF Injection, IsInjective
<1>2. G \in Surjection(Swapped, 1..NSlots-1) <=> FreeSlots(sspace) = {}
  <2>1. \A s \in 1..NSlots-1 : sspace[s] = 1 <=> \E g \in Swapped : G[g] = s
    BY DEF IInv, SlotsAccounted
  <2>2. \A s \in 1..NSlots-1 : sspace[s] \in {0, 1}
    BY Ranges DEF IInv, TypeOK
  <2>3. G \in [Swapped -> 1..NSlots-1]
    BY <1>1 DEF Injection
  <2> HIDE DEF G
  <2> QED BY <2>1, <2>2, <2>3 DEF Surjection, FreeSlots
<1>3. IsFiniteSet(1..NSlots-1) /\ Cardinality(1..NSlots-1) = NSlots - 1
  <2>1. NSlots - 1 \in Int /\ (IF 1 > NSlots - 1 THEN 0 ELSE (NSlots - 1) - 1 + 1) = NSlots - 1
    BY SMT DEF SizesFit
  <2> QED BY <2>1, FS_Interval
<1> HIDE DEF G
<1>4. IsFiniteSet(Swapped) /\ Cardinality(Swapped) <= NSlots - 1
  BY <1>1, <1>3, FS_Injection
<1> QED BY <1>1, <1>2, <1>3, <1>4, FS_Injection, FS_CardinalityType

(***************************************************************************)
(* The fault handler gives up only when everything is full                 *)
(***************************************************************************)
\* The list numbers the resident pages: each page once, and all of them.
LEMMA ResidentCounted ==
    ASSUME SizesFit, IInv
    PROVE  IsFiniteSet(Resident) /\ Cardinality(Resident) = Len(allocList)
<1> DEFINE n == Len(allocList)
           B == [i \in 1..n |-> AllocPage(i)]
<1>1. n \in Nat /\ DOMAIN allocList = 1..n
  BY LenProperties DEF IInv, TypeOK
<1>2. B \in [1..n -> Resident]
  BY <1>1, EntryFacts
<1>3. \A i, j \in 1..n : B[i] = B[j] => i = j
  BY <1>1 DEF IInv, AllocListAgrees
<1>4. \A g \in Resident : \E i \in 1..n : B[i] = g
  BY <1>1 DEF IInv, AllocListAgrees
<1>5. B \in Bijection(1..n, Resident)
  BY <1>2, <1>3, <1>4 DEF Bijection, Injection, Surjection, IsInjective
<1>6. IsFiniteSet(1..n) /\ Cardinality(1..n) = n
  <2>1. (IF 1 > n THEN 0 ELSE n - 1 + 1) = n
    BY <1>1, SMT
  <2> QED BY <1>1, <2>1, FS_Interval
<1> HIDE DEF B, n
<1>7. ExistsBijection(1..n, Resident)
  BY <1>5 DEF ExistsBijection
<1>8. IsFiniteSet(Resident) /\ Cardinality(Resident) = n
  BY <1>6, <1>7, FS_Bijection
<1> QED BY <1>8 DEF n

\* Case 1-1 without a slot is the one place that refuses a valid address.
LEMMA FullWhenRefused ==
    ASSUME SizesFit, IInv, MapFull
    PROVE  Cardinality(Resident \cup Swapped) = (NFrames - 1) + (NSlots - 1)
<1>1. FreeFrames(freeList) = {} /\ FreeSlots(sspace) = {}
  BY FirstFitFacts, FirstSlotFacts DEF MapFull, IInv, TypeOK
<1>2. Cardinality(Resident) = NFrames - 1 /\ Cardinality(Swapped) = NSlots - 1
  BY <1>1, FramesCounted, SlotsCounted, ResidentCounted
<1>3. Resident \cap Swapped = {}
  BY DEF Resident, Swapped, IsSwapped
<1>4. Cardinality(Resident \cup Swapped) =
        Cardinality(Resident) + Cardinality(Swapped) - Cardinality({})
  BY <1>3, ResidentCounted, SlotsCounted, FS_Union
<1>5. Cardinality({}) = 0
  BY FS_EmptySet
<1> QED BY <1>2, <1>4, <1>5, SMT DEF SizesFit

\* The handler gives up on a valid address only when every frame and every slot
\* holds a page (ku_mmu.h:202).
THEOREM RefusesOnlyWhenFull == ASSUME SizesFit PROVE Spec => []NoEarlyFailure
<1>1. Init => NoEarlyFailure
  BY DEF Init, NoEarlyFailure
<1>2. IInv /\ NoEarlyFailure /\ [Next]_vars => NoEarlyFailure'
  <2> SUFFICES ASSUME IInv, NoEarlyFailure, [Next]_vars,
                      pc' = "fault_failed", va' # 0
               PROVE  Cardinality(Resident' \cup Swapped') = (NFrames - 1) + (NSlots - 1)
    BY DEF NoEarlyFailure
  <2>1. CASE MapFull
    <3>1. Resident' = Resident /\ Swapped' = Swapped
      BY <2>1 DEF MapFull, Resident, Swapped
    <3> QED BY <2>1, <3>1, FullWhenRefused
  <2>2. CASE UNCHANGED vars
    <3>1. Resident' = Resident /\ Swapped' = Swapped
      BY <2>2 DEF vars, Resident, Swapped
    <3> QED BY <2>2, <3>1 DEF vars, NoEarlyFailure
  <2>3. CASE Next /\ ~MapFull /\ ~UNCHANGED vars
    BY <2>3 DEF Next, PageFault, Stopped, ReadAccess, SwitchFails, EndOfInput, Translate,
                Retry, FaultNoCase, MapFree, MapEvict, SwapIn
  <2> QED BY <2>1, <2>2, <2>3
<1> QED BY <1>1, <1>2, Consistency, PTL DEF Spec

(***************************************************************************)
(* Refinement: every step of the manager is a step of FIFO paging          *)
(***************************************************************************)
\* What KuPaging calls resident.
ResidentList == [i \in DOMAIN allocList |-> AllocPage(i)]

\* The mapped list is a sequence of pages that holds the resident ones.
LEMMA ListMapped ==
    ASSUME SizesFit, IInv
    PROVE  /\ ResidentList \in Seq(Pages) /\ Len(ResidentList) = Len(allocList)
           /\ Len(allocList) \in Nat /\ DOMAIN allocList = 1..Len(allocList)
           /\ {ResidentList[i] : i \in DOMAIN ResidentList} = Resident
<1> DEFINE n == Len(allocList)
<1>1. n \in Nat /\ DOMAIN allocList = 1..n
  BY LenProperties DEF IInv, TypeOK
<1>2. ResidentList \in [1..n -> Pages]
  BY <1>1, EntryFacts DEF ResidentList
<1>3. ResidentList \in Seq(Pages)
  BY <1>1, <1>2, SeqDef
<1>4. Len(ResidentList) = n
  BY <1>1, <1>2, <1>3, LenProperties, SMT
<1>5. \A i \in 1..n : ResidentList[i] = AllocPage(i) /\ AllocPage(i) \in Resident
  BY <1>1, EntryFacts DEF ResidentList
<1>6. \A g \in Resident : \E i \in 1..n : AllocPage(i) = g
  BY <1>1 DEF IInv, AllocListAgrees
<1> QED BY <1>1, <1>2, <1>3, <1>4, <1>5, <1>6

\* Appending an entry appends its page.
LEMMA AppendMapped ==
    ASSUME SizesFit, IInv, IInv', NEW f, NewEntry(f) \in AllocEntry, page \in Pages,
           allocList' = Append(allocList, NewEntry(f))
    PROVE  ResidentList' = Append(ResidentList, page)
<1> DEFINE n == Len(allocList)
           r == Append(ResidentList, page)
<1>1. n \in Nat /\ DOMAIN allocList = 1..n
      /\ ResidentList \in Seq(Pages) /\ Len(ResidentList) = n
  BY ListMapped
<1>2. /\ DOMAIN allocList' = 1..(n+1) /\ allocList'[n+1] = NewEntry(f)
      /\ \A i \in 1..n : allocList'[i] = allocList[i]
  <2>1. allocList \in Seq(AllocEntry)
    BY DEF IInv, TypeOK
  <2> QED BY <2>1, AppendFacts, LenProperties
<1>3. /\ r \in Seq(Pages) /\ DOMAIN r = 1..(n+1) /\ r[n+1] = page
      /\ \A i \in 1..n : r[i] = ResidentList[i]
  BY <1>1, AppendFacts, LenProperties
<1>4. \A i \in 1..n : r[i] = <<allocList'[i].pid, allocList'[i].VPN>>
  BY <1>1, <1>2, <1>3 DEF ResidentList, AllocPage
<1>5. r[n+1] = <<allocList'[n+1].pid, allocList'[n+1].VPN>>
  BY <1>2, <1>3 DEF NewEntry, page
<1>6. \A i \in 1..(n+1) : r[i] = <<allocList'[i].pid, allocList'[i].VPN>>
  BY <1>1, <1>4, <1>5, Positions
<1>7. ResidentList' = [i \in 1..(n+1) |-> <<allocList'[i].pid, allocList'[i].VPN>>]
  BY <1>2 DEF ResidentList, AllocPage
<1>8. r = [i \in 1..(n+1) |-> r[i]]
  BY <1>3, LenProperties
<1> HIDE DEF r
<1> QED BY <1>6, <1>7, <1>8 DEF r

\* Turning the list over by one entry turns the mapped one over by one page.
LEMMA RotateMapped ==
    ASSUME SizesFit, IInv, IInv', OldestSwapped
    PROVE  /\ ResidentList' = Append(Tail(ResidentList), page)
           /\ Head(ResidentList) = AllocPage(1)
<1> DEFINE r == Append(Tail(ResidentList), page)
<1>1. /\ DOMAIN allocList = 1..Len(allocList) /\ Len(allocList) \in Nat
      /\ ResidentList \in Seq(Pages) /\ Len(ResidentList) = Len(allocList)
  BY ListMapped
<1>2. PICK n \in Nat :
        /\ DOMAIN allocList = 1..(n+1) /\ DOMAIN allocList' = 1..(n+1)
        /\ \A i \in 1..n : allocList'[i] = allocList[i+1]
        /\ allocList'[n+1] = NewEntry(Victim.PFN)
  <2> DEFINE e == NewEntry(Victim.PFN)
             q == Append(Tail(allocList), e)
  <2>1. allocList \in Seq(AllocEntry) /\ allocList # <<>> /\ e \in AllocEntry
    BY DEF IInv, TypeOK, OldestSwapped
  <2>2. allocList' = q
    BY DEF OldestSwapped
  <2> HIDE DEF e
  <2>3. PICK n \in Nat :
           /\ DOMAIN allocList = 1..(n+1) /\ DOMAIN q = 1..(n+1) /\ q \in Seq(AllocEntry)
           /\ \A i \in 1..n : q[i] = allocList[i+1]
           /\ q[n+1] = e
    BY <2>1, RotateFacts
  <2> HIDE DEF q
  <2> QED BY <2>2, <2>3 DEF e
<1>3. DOMAIN ResidentList = 1..(n+1) /\ 1 \in 1..(n+1)
  BY <1>2, SMT DEF ResidentList
<1>4. ResidentList # <<>>
  BY <1>1, <1>3
<1>5. Head(ResidentList) = ResidentList[1]
  BY <1>1, <1>4, HeadTailProperties, SMT
<1>6. PICK m \in Nat :
        /\ DOMAIN ResidentList = 1..(m+1) /\ DOMAIN r = 1..(m+1) /\ r \in Seq(Pages)
        /\ \A i \in 1..m : r[i] = ResidentList[i+1]
        /\ r[m+1] = page
  <2>1. page \in Pages
    BY DEF OldestSwapped
  <2> QED BY <1>1, <1>4, <2>1, RotateFacts
<1>7. m = n
  <2>1. 1..(m+1) = 1..(n+1) /\ m \in Nat /\ n \in Nat
    BY <1>3, <1>6
  <2>2. m+1 \in 1..(n+1) /\ n+1 \in 1..(m+1)
    BY <2>1, Positions
  <2> QED BY <2>1, <2>2, SMT
<1>8. \A i \in 1..n : r[i] = <<allocList'[i].pid, allocList'[i].VPN>>
  <2> SUFFICES ASSUME NEW i \in 1..n
               PROVE  r[i] = <<allocList'[i].pid, allocList'[i].VPN>>
    OBVIOUS
  <2>1. i+1 \in DOMAIN allocList
    BY <1>2, Positions
  <2>2. r[i] = AllocPage(i+1)
    BY <1>6, <1>7, <2>1 DEF ResidentList
  <2> QED BY <1>2, <2>2 DEF AllocPage
<1>9. r[n+1] = <<allocList'[n+1].pid, allocList'[n+1].VPN>>
  BY <1>2, <1>6, <1>7 DEF NewEntry, page
<1>10. \A i \in 1..(n+1) : r[i] = <<allocList'[i].pid, allocList'[i].VPN>>
  BY <1>8, <1>9, Positions
<1>11. ResidentList' = [i \in 1..(n+1) |-> <<allocList'[i].pid, allocList'[i].VPN>>]
  BY <1>2 DEF ResidentList, AllocPage
<1>12. r = [i \in 1..(n+1) |-> r[i]]
  BY <1>6, <1>7, LenProperties
<1>13. ResidentList[1] = AllocPage(1)
  BY <1>2, <1>3 DEF ResidentList
<1> HIDE DEF r
<1> QED BY <1>5, <1>10, <1>11, <1>12, <1>13 DEF r

\* The pages KuPaging knows are those with an entry.
LEMMA KnownMapped ==
    ASSUME SizesFit, IInv
    PROVE  Paging!Known = Resident \cup Swapped
  BY ListMapped DEF Paging!Known, ResidentList

LEMMA AdmitMapped ==
    ASSUME SizesFit, IInv, MapFree PROVE Paging!Admit(page) /\ page \in Pages
<1>1. /\ IInv' /\ FreeFrames(freeList) # {} /\ page \in Pages /\ pte[page] = 0
      /\ allocList' = Append(allocList, NewEntry(FirstFit(freeList)))
      /\ NewEntry(FirstFit(freeList)) \in AllocEntry /\ Swapped' = Swapped
  BY MapFreeStep
<1>2. ResidentList' = Append(ResidentList, page)
  BY <1>1, AppendMapped
<1>3. page \notin Paging!Known
  BY <1>1, KnownMapped, ZeroPte DEF Resident, Swapped
<1>4. Len(ResidentList) < NFrames - 1
  <2>1. Len(allocList) # NFrames - 1 /\ Len(allocList) <= NFrames - 1
        /\ Len(allocList) \in Nat /\ Len(ResidentList) = Len(allocList)
    BY <1>1, FramesCounted, ListMapped
  <2> QED BY <2>1, SMT DEF SizesFit
<1> QED BY <1>1, <1>2, <1>3, <1>4 DEF Paging!Admit, ResidentList

\* Memory is full when the oldest page goes.
LEMMA FullMapped ==
    ASSUME SizesFit, IInv, FreeFrames(freeList) = {}
    PROVE  Len(ResidentList) = NFrames - 1
  BY FramesCounted, ListMapped

\* The cardinality that KuPaging's instance speaks of.
LEMMA CardinalityMapped == \A S : Paging!Cardinality(S) = Cardinality(S)
  BY DEF Paging!Cardinality, Cardinality, Paging!IsFiniteSet, IsFiniteSet

LEMMA AdmitEvictMapped ==
    ASSUME SizesFit, IInv, MapEvict PROVE Paging!AdmitEvict(page) /\ page \in Pages
<1>1. IInv' /\ OldestSwapped /\ pte[page] = 0
  BY MapEvictStep DEF MapEvict
<1>2. page \in Pages /\ FreeFrames(freeList) = {}
      /\ Swapped' = (Swapped \ {page}) \cup {AllocPage(1)}
  BY <1>1 DEF OldestSwapped
<1>3. page \notin Swapped /\ page \notin Resident
  BY <1>1, ZeroPte DEF Swapped, Resident
<1>4. page \notin Paging!Known
  BY <1>3, KnownMapped
<1>5. Cardinality(Swapped) < NSlots - 1
  <2>1. FreeSlots(sspace) # {}
    BY FirstSlotFacts DEF MapEvict, IInv, TypeOK
  <2>2. Cardinality(Swapped) # NSlots - 1 /\ Cardinality(Swapped) <= NSlots - 1
        /\ Cardinality(Swapped) \in Nat
    BY <2>1, SlotsCounted
  <2> QED BY <2>2, SMT DEF SizesFit
<1>6. /\ ResidentList' = Append(Tail(ResidentList), page)
      /\ Swapped' = Swapped \cup {Head(ResidentList)}
  BY <1>1, <1>2, <1>3, RotateMapped
<1>7. Paging!Cardinality(Swapped) < NSlots - 1
  BY <1>5, CardinalityMapped, Zenon
<1> QED BY <1>2, <1>4, <1>6, <1>7, FullMapped DEF Paging!AdmitEvict, ResidentList

LEMMA SwapBackMapped ==
    ASSUME SizesFit, IInv, SwapIn PROVE Paging!SwapBack(page) /\ page \in Pages
<1>1. IInv' /\ OldestSwapped
  BY SwapInStep
<1>2. page \in Pages /\ FreeFrames(freeList) = {}
      /\ Swapped' = (Swapped \ {page}) \cup {AllocPage(1)}
  BY <1>1 DEF OldestSwapped
<1>3. page \in Swapped
  BY <1>2 DEF SwapIn, Swapped
<1>4. /\ ResidentList' = Append(Tail(ResidentList), page)
      /\ Swapped' = (Swapped \ {page}) \cup {Head(ResidentList)}
  BY <1>1, <1>2, RotateMapped
<1> QED BY <1>2, <1>3, <1>4, FullMapped DEF Paging!SwapBack, ResidentList

\* The other steps leave the list and the page tables alone.
LEMMA StutterMapped ==
    ASSUME UNCHANGED <<pte, allocList>> PROVE UNCHANGED Paging!pagingVars
  BY DEF Paging!pagingVars, Swapped, AllocPage

\* The manager implements FIFO paging: pages leave memory in the order they came,
\* only when memory is full, and a swap-in trades exactly one page
\* (ku_page_fault, ku_mmu.h:179-280).
THEOREM RefinesPaging == ASSUME SizesFit PROVE Spec => ImplementsPaging
<1>1. Init => Paging!PInit
  BY ZeroPte DEF Init, Paging!PInit, Swapped
<1>2. IInv /\ [Next]_vars => [Paging!PNext]_(Paging!pagingVars)
  <2> SUFFICES ASSUME IInv, [Next]_vars
               PROVE  Paging!PNext \/ UNCHANGED Paging!pagingVars
    OBVIOUS
  <2>1. CASE MapFree
    BY <2>1, AdmitMapped DEF Paging!PNext
  <2>2. CASE MapEvict
    BY <2>2, AdmitEvictMapped DEF Paging!PNext
  <2>3. CASE SwapIn
    BY <2>3, SwapBackMapped DEF Paging!PNext
  <2>4. CASE UNCHANGED <<pte, allocList>>
    BY <2>4, StutterMapped
  <2> QED BY <2>1, <2>2, <2>3, <2>4 DEF Next, PageFault, Stopped, ReadAccess, SwitchFails,
             EndOfInput, Translate, Retry, FaultNoCase, MapFull, vars
<1> QED BY <1>1, <1>2, Consistency, PTL DEF Spec, ImplementsPaging, Paging!PSpec
=============================================================================
