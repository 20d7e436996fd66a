------------------------------ MODULE MCKuMmu ------------------------------
(***************************************************************************)
(* Instances of KuMmu.  Page 0 is addressed by its byte 1, since byte 0 is *)
(* the null address, the other pages by their byte 0.                      *)
(***************************************************************************)
EXTENDS KuMmu

MCPids == {1, 2}
MCAddrs == {0, 1, 4, 8}

\* An input file that touches every page of every process once, in order: it
\* fills a memory of real size, where any order of accesses is out of reach.
OrderedPids == 1..3
OrderedAddrs == {4 * k + 1 : k \in 0..63}

FollowsOrder ==
    pc = "read" =>
        \/ pid = 0 /\ pid' = 1 /\ va' = 1
        \/ pid' = pid /\ va' = va + 4
        \/ va = 253 /\ pid' = pid + 1 /\ va' = 1

OrderedSpec == Init /\ [][Next /\ FollowsOrder]_vars
=============================================================================
