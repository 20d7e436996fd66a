-------------------------- MODULE MCKuBinderQueue --------------------------
(* Two senders and two readers: one reader per service (OneEach), or both  *)
(* readers on one service (Shared).                                        *)
EXTENDS KuBinderQueue, TLC

CONSTANTS r1, r2, c1, c2
MCReaders == {r1, r2}
MCSenders == {c1, c2}
OneEach == (r1 :> {0}) @@ (r2 :> {1})
TwoSnums == {0, 1}
Shared == (r1 :> {0}) @@ (r2 :> {0})
OneSnum == {0}
=============================================================================
