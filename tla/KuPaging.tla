------------------------------ MODULE KuPaging ------------------------------
(***************************************************************************)
(* What the memory manager of Operating Systems/Assignment #2 promises,    *)
(* without frames, slots or page-table bits: a bounded FIFO of resident    *)
(* pages in front of a bounded swap space.  A page once admitted is in     *)
(* exactly one of the two.                                                 *)
(***************************************************************************)
EXTENDS Naturals, Sequences, FiniteSets

CONSTANTS AllPages, MemCap, SwapCap

VARIABLES resident,   \* resident pages, the one brought in first at the head
          swapped     \* pages in the swap space

pagingVars == <<resident, swapped>>

Known == {resident[i] : i \in DOMAIN resident} \cup swapped

PInit == resident = <<>> /\ swapped = {}

\* First touch of a page while memory has room.
Admit(g) ==
    /\ g \notin Known
    /\ Len(resident) < MemCap
    /\ resident' = Append(resident, g)
    /\ UNCHANGED swapped

\* First touch with memory full: the oldest page moves to the swap space.
AdmitEvict(g) ==
    /\ g \notin Known
    /\ Len(resident) = MemCap
    /\ Cardinality(swapped) < SwapCap
    /\ resident' = Append(Tail(resident), g)
    /\ swapped' = swapped \cup {Head(resident)}

\* A swapped page trades places with the oldest resident one.
SwapBack(g) ==
    /\ g \in swapped
    /\ Len(resident) = MemCap
    /\ resident' = Append(Tail(resident), g)
    /\ swapped' = (swapped \ {g}) \cup {Head(resident)}

PNext == \E g \in AllPages : Admit(g) \/ AdmitEvict(g) \/ SwapBack(g)

PSpec == PInit /\ [][PNext]_pagingVars
=============================================================================
