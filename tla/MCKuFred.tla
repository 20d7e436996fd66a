------------------------------ MODULE MCKuFred ------------------------------
(***************************************************************************)
(* Instances of KuFred.  Files have up to five numbers below Top = 6 and   *)
(* the intervals divide 6, as the assignment's divide 10000.  The numbers  *)
(* are at both ends of the range and on the borders of the intervals.      *)
(***************************************************************************)
EXTENDS KuFred

MCFiles == {<<>>, <<5>>, <<0, 5>>, <<2, 3>>, <<5, 5, 0>>, <<0, 1, 2, 3>>, <<5, 5, 4, 0, 5>>}
MCInputs == [n : 1..MaxWorkers, interval : {1, 2, 6}, data : MCFiles]

\* No more workers than numbers; an empty file has no worker at all.
MCSettings == {s \in MCInputs : s.n <= Len(s.data) \/ s.data = <<>>}
\* More workers than numbers.
MCFewNumbers == {s \in MCInputs : s.n > Len(s.data) /\ s.data # <<>>}
\* One number for each of three senders.
MCOneEach == {[n |-> 3, interval |-> 6, data |-> <<5, 5, 0>>]}

\* The array is taken from a heap that is still zero.
MCGarbage == {0}
\* A killed run left its first queue behind, empty.
MCLeftovers == {<<>>}
MCNoLeftovers == {}
=============================================================================
