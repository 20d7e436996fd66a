--------------------------- MODULE MCKuBinderSys ---------------------------
(* A server of each name, one client, and a table of two services.         *)
EXTENDS KuBinderSys, TLC

CONSTANTS s1, s2, c1
MCServers == {s1, s2}
MCClients == {c1}
MCNames == {"vol", "led"}
MCNameOf == (s1 :> "vol") @@ (s2 :> "led")
MCSnums == {0, 1}
AnySnum == (s1 :> MCSnums) @@ (s2 :> MCSnums)
=============================================================================
