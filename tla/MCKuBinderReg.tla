--------------------------- MODULE MCKuBinderReg ---------------------------
(* Three servers, two of them of the same name, for a table of two.         *)
EXTENDS KuBinderReg, TLC

CONSTANTS s1, s2, s3, c1
MCServers == {s1, s2, s3}
MCClients == {c1}
MCNames == {"vol", "led"}
MCNameOf == (s1 :> "vol") @@ (s2 :> "led") @@ (s3 :> "vol")
=============================================================================
