---------------------------- MODULE KuBinderSys ----------------------------
(***************************************************************************)
(* The binder as its applications use it: ku_binder_server_vol.c and       *)
(* ku_binder_server_led.c register a name and read and apply requests,     *)
(* ku_binder_client.c asks for a number and sends requests to it.  The     *)
(* driver is KuBinderReg and KuBinderQueue; a server process is a reader   *)
(* of the queues and a client process a sender.                            *)
(***************************************************************************)
EXTENDS KuBinderReg, KuBinderQueue

CONSTANT MaxRestarts   \* how many times a server is stopped and started again

ASSUME SysAssumption ==
    /\ Readers = Servers /\ Senders = Clients /\ Snums = 0..SNUM_MAX-1
    /\ MaxRestarts \in Nat

VARIABLES
    app,        \* per server: the menu command being served
    applied,    \* per server: the requests its handler was run on, in order
    known,      \* per client: request_sname, the name it was told a number has
    meant,      \* history: per client, the name each of its requests was for
    restarts

sysVars == <<app, applied, known, meant, restarts>>
allVars == <<regVars, queueVars, sysVars>>

SysInit ==
    /\ RegInit /\ QueueInit
    /\ app = [s \in Servers |-> "menu"]
    /\ applied = [s \in Servers |-> <<>>]
    /\ known = [c \in Clients |-> [k \in Snums |-> NoName]]
    /\ meant = [c \in Clients |-> <<>>]
    /\ restarts = 0

(***************************************************************************)
(* Servers                                                                 *)
(***************************************************************************)
\* Command 0; the result replaces the number the server had.
Register(s) ==
    /\ app[s] = "menu"
    /\ RegBegin(s)
    /\ UNCHANGED <<queueVars, sysVars>>

Registration(s) == RegStep(s) /\ UNCHANGED <<queueVars, sysVars>>

\* Command 2, refused while the server has no number.
MayReadPositive(s) == snum[s] > 0                \* mutant: number 0 taken for none
MayRead(s) == snum[s] # -1
ReadRequest(s) ==
    /\ app[s] = "menu" /\ reg[s].pc = "idle"
    /\ MayRead(s)
    /\ ReadCall(s, snum[s])
    /\ app' = [app EXCEPT ![s] = "reading"]
    /\ UNCHANGED <<regVars, applied, known, meant, restarts>>

Reading(s) == ReadStep(s) /\ UNCHANGED <<regVars, sysVars>>
Interrupted(s) == Signal(s) /\ UNCHANGED <<regVars, sysVars>>

\* handle_request_vol or handle_request_led on what kbinder_read copied to req.
AppliedNext(s) == Append(applied[s], rd[s].got)
HandleRequest(s) ==
    /\ ~oops
    /\ app[s] = "reading" /\ rd[s].pc = "out"
    /\ applied' = [applied EXCEPT ![s] = AppliedNext(s)]
    /\ app' = [app EXCEPT ![s] = "menu"]
    /\ UNCHANGED <<regVars, queueVars, known, meant, restarts>>

\* The server process ends at its menu and is started again: its memory is
\* gone, the driver's is not.
RestartServer(s) ==
    /\ ~oops
    /\ app[s] = "menu" /\ reg[s].pc = "idle" /\ restarts < MaxRestarts
    /\ restarts' = restarts + 1
    /\ snum' = [snum EXCEPT ![s] = -1]
    /\ UNCHANGED <<service_num, service_name, reg, query, queueVars, app, applied, known, meant>>

(***************************************************************************)
(* Clients                                                                 *)
(***************************************************************************)
ClientIdle(c) == query[c].pc = "idle" /\ snd[c].pc = "out"

AskNumber(c, n) ==
    /\ ClientIdle(c)
    /\ QueryBegin(c, n)
    /\ UNCHANGED <<queueVars, sysVars>>

Asking(c) == QueryScan(c) /\ UNCHANGED <<queueVars, sysVars>>

\* The answer is written to request_sname.
Learnt(c) ==
    IF query[c].ret = -1 THEN known[c]
    ELSE [known[c] EXCEPT ![query[c].ret] = query[c].name]
Answered(c) ==
    /\ QueryReturn(c)
    /\ known' = [known EXCEPT ![c] = Learnt(c)]
    /\ UNCHANGED <<queueVars, app, applied, meant, restarts>>

\* A request goes only to a number whose service the client was told.
MaySendAny(c, k) == TRUE                         \* mutant: "wrong snum" not tested
MaySend(c, k) == known[c][k] # NoName
SendRequest(c, k) ==
    /\ ClientIdle(c)
    /\ MaySend(c, k)
    /\ RpcCall(c, k)
    /\ meant' = [meant EXCEPT ![c] = Append(@, known[c][k])]
    /\ UNCHANGED <<regVars, app, applied, known, restarts>>

Sending(c) == RpcStep(c) /\ UNCHANGED <<regVars, sysVars>>

ServerStep(s) == Registration(s) \/ Reading(s) \/ HandleRequest(s)
ClientStep(c) == Asking(c) \/ Answered(c) \/ Sending(c)

SysNext ==
    \/ \E s \in Servers : \/ Register(s) \/ ReadRequest(s) \/ RestartServer(s)
                          \/ ServerStep(s) \/ Interrupted(s)
    \/ \E c \in Clients : \/ \E n \in Names : AskNumber(c, n)
                          \/ \E k \in Snums : SendRequest(c, k)
                          \/ ClientStep(c)

SysSpec == SysInit /\ [][SysNext]_allVars

\* ku_server.c: a server registers until it has a number, then only reads.
LoopNext ==
    /\ SysNext
    /\ \A s \in Servers : snum[s] # -1 => snum'[s] = snum[s] /\ reg'[s] = reg[s]
LoopSpec ==
    /\ SysInit /\ [][LoopNext]_allVars
    /\ \A s \in Servers : WF_allVars(ServerStep(s)) /\ WF_allVars(ReadRequest(s))
    /\ \A c \in Clients : WF_allVars(ClientStep(c))

(***************************************************************************)
(* Properties                                                              *)
(***************************************************************************)
\* The handler of a server only runs on requests, and only on requests that
\* their sender meant for the name this server registered.
RightServer ==
    \A s \in Servers : \A i \in DOMAIN applied[s] :
        LET m == applied[s][i]
        IN  m # NoMsg /\ meant[m.from][m.n] = NameOf[s]

\* No request is applied twice, by one server or by two, and the requests of
\* one client to one server are applied in the order they were sent.
AppliedInOrder ==
    \A s, t \in Servers : \A i \in DOMAIN applied[s], j \in DOMAIN applied[t] :
        /\ applied[s][i] = applied[t][j] => s = t /\ i = j
        /\ s = t /\ i < j /\ applied[s][i].from = applied[s][j].from =>
             applied[s][i].n < applied[s][j].n

\* Only a signal makes a read reach an empty list (ku_binder.c:136): with a single
\* reader for each number, the unlocked test of emptiness stays true until the
\* locked section, whatever the client and the other servers do.
Survives == oops => signals > 0

\* Types, and who is in the wait queues, in the order in which they came.
TypeOK == RegTypeOK /\ QueueTypeOK

\* One registration at a time, the unlocked table and the queues amount to a
\* directory without duplicates whose numbers never change hands, answers that are
\* right when they are given, and one FIFO queue for each number.
Meant(ms) == [i \in DOMAIN ms |->
                 [from |-> ms[i].from, n |-> ms[i].n, for |-> meant[ms[i].from][ms[i].n]]]
Handed(s) == IF app[s] = "reading" /\ rd[s].pc = "out" THEN AppliedNext(s) ELSE applied[s]
Bus == INSTANCE KuBus WITH
    Capacity <- SNUM_MAX, None <- NoName, number <- snum, entering <- Registering,
    directory <- [i \in 1..service_num |-> service_name[i - 1]],
    asks <- [c \in Clients |-> IF query[c].pc = "idle" THEN NoName ELSE query[c].name],
    sent <- [c \in Clients |-> IF snd[c].pc = "add" THEN snd[c].n - 1 ELSE snd[c].n],
    queue <- [k \in Snums |-> Meant(rpc_list[k])],
    served <- [s \in Servers |-> Meant(Handed(s))]
ImplementsBus == Bus!BSpec

\* When every server keeps reading, the requests accepted for a number that a
\* server holds are all applied in the end.
RequestsApplied ==
    \A k \in Snums :
        accepted[k] # <<>> /\ (\E s \in Servers : snum[s] = k) ~>
            \A x \in DOMAIN accepted[k] : \E s \in Servers :
                \E i \in DOMAIN applied[s] : applied[s][i] = accepted[k][x]
=============================================================================
