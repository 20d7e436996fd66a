---------------------------- MODULE KuBinderReg ----------------------------
(***************************************************************************)
(* Service registration of the ku_binder driver (Embedded System           *)
(* Softwares/assignment1): ku_binder_register and ku_binder_query, called  *)
(* by servers and clients through kbinder_reg and kbinder_query.           *)
(*                                                                         *)
(* Neither call takes a lock.  A registration reads service_num, copies    *)
(* the name into that slot, only then looks for a duplicate, and at last   *)
(* reads and writes service_num again; each of these is a step.            *)
(***************************************************************************)
EXTENDS Integers, FiniteSets

CONSTANTS
    Servers,        \* server processes
    Clients,        \* client processes
    Names,          \* service names
    NameOf,         \* [Servers -> Names]: the name each server registers
    SNUM_MAX,       \* KBINDER_SNUM_MAX
    MaxRegistering  \* how many servers may be inside ku_binder_register

\* An empty slot of the table holds no service's name.
NoName == "none"

ASSUME RegAssumption ==
    /\ IsFiniteSet(Servers) /\ NameOf \in [Servers -> Names] /\ NoName \notin Names
    /\ SNUM_MAX \in Nat \ {0} /\ MaxRegistering \in Nat

VARIABLES
    service_num,    \* number of services, static in the driver
    service_name,   \* the table of names
    reg,            \* per server, the registration call in progress
    snum,           \* per server, what kbinder_reg returned last, -1 at first
    query           \* per client, the query in progress or its answer

regVars == <<service_num, service_name, reg, snum, query>>

Idle == [pc |-> "idle", slot |-> 0, i |-> 0]
Registering == {s \in Servers : reg[s].pc # "idle"}
\* What a read of the table past its end finds is no service's name.
NameAt(i) == IF i < SNUM_MAX THEN service_name[i] ELSE NoName

RegInit ==
    /\ service_num = 0
    /\ service_name = [i \in 0..SNUM_MAX-1 |-> NoName]
    /\ reg = [s \in Servers |-> Idle]
    /\ snum = [s \in Servers |-> -1]
    /\ query = [c \in Clients |-> [pc |-> "idle", name |-> NoName, i |-> 0, ret |-> -1]]

(***************************************************************************)
(* ku_binder_register                                                      *)
(***************************************************************************)
HasRoomForOneMore == service_num <= SNUM_MAX          \* mutant: <= for <
HasRoom == service_num < SNUM_MAX
FreeSlotBehind == IF service_num = 0 THEN 0 ELSE service_num - 1  \* mutant: off by one
FreeSlot == service_num
RegBegin(s) ==
    /\ reg[s].pc = "idle"
    /\ Cardinality(Registering) < MaxRegistering
    /\ IF HasRoom
       THEN /\ reg' = [reg EXCEPT ![s] = [pc |-> "store", slot |-> FreeSlot, i |-> 0]]
            /\ UNCHANGED snum
       ELSE snum' = [snum EXCEPT ![s] = -1] /\ UNCHANGED reg
    /\ UNCHANGED <<service_num, service_name, query>>

\* strlcpy into the slot that is not counted yet.
RegStore(s) ==
    /\ reg[s].pc = "store"
    /\ service_name' = [service_name EXCEPT ![reg[s].slot] = NameOf[s]]
    /\ reg' = [reg EXCEPT ![s].pc = "scan"]
    /\ UNCHANGED <<service_num, snum, query>>

\* One turn of the duplicate search: the bound is read again each time.
IsDuplicateInverted(s) == NameAt(reg[s].i) # NameOf[s] \* mutant: strncmp() for !strncmp()
IsDuplicate(s) == NameAt(reg[s].i) = NameOf[s]
NextIndex(s) == reg[s].i + 1
RegScan(s) ==
    /\ reg[s].pc = "scan"
    /\ reg[s].i < service_num
    /\ IF IsDuplicate(s)
       THEN snum' = [snum EXCEPT ![s] = -1] /\ reg' = [reg EXCEPT ![s] = Idle]
       ELSE reg' = [reg EXCEPT ![s].i = NextIndex(s)] /\ UNCHANGED snum
    /\ UNCHANGED <<service_num, service_name, query>>

\* return service_num++ is a load, then a store.
RegLoad(s) ==
    /\ reg[s].pc = "scan"
    /\ reg[s].i >= service_num
    /\ reg' = [reg EXCEPT ![s] = [pc |-> "inc", slot |-> service_num, i |-> 0]]
    /\ UNCHANGED <<service_num, service_name, snum, query>>

NewCount(s) == reg[s].slot + 1
NewNumberPre(s) == reg[s].slot + 1                    \* mutant: ++service_num
NewNumber(s) == reg[s].slot
RegReturn(s) ==
    /\ reg[s].pc = "inc"
    /\ service_num' = NewCount(s)
    /\ snum' = [snum EXCEPT ![s] = NewNumber(s)]
    /\ reg' = [reg EXCEPT ![s] = Idle]
    /\ UNCHANGED <<service_name, query>>

RegStep(s) == RegStore(s) \/ RegScan(s) \/ RegLoad(s) \/ RegReturn(s)

(***************************************************************************)
(* ku_binder_query: the whole table is read and the last match returned    *)
(***************************************************************************)
QueryBegin(c, n) ==
    /\ query[c].pc = "idle"
    /\ query' = [query EXCEPT ![c] = [pc |-> "scan", name |-> n, i |-> 0, ret |-> -1]]
    /\ UNCHANGED <<service_num, service_name, reg, snum>>

Matches(c) == NameAt(query[c].i) = query[c].name
QueryScan(c) ==
    /\ query[c].pc = "scan"
    /\ query[c].i < service_num
    /\ query' = [query EXCEPT ![c].i = @ + 1,
                              ![c].ret = IF Matches(c) THEN query[c].i ELSE @]
    /\ UNCHANGED <<service_num, service_name, reg, snum>>

QueryReturn(c) ==
    /\ query[c].pc = "scan"
    /\ query[c].i >= service_num
    /\ query' = [query EXCEPT ![c].pc = "idle", ![c].i = 0]
    /\ UNCHANGED <<service_num, service_name, reg, snum>>

RegNext ==
    \/ \E s \in Servers : RegBegin(s) \/ RegStep(s)
    \/ \E c \in Clients : (\E n \in Names : QueryBegin(c, n)) \/ QueryScan(c) \/ QueryReturn(c)

RegSpec == RegInit /\ [][RegNext]_regVars
             /\ \A s \in Servers : WF_regVars(RegStep(s))
             /\ \A c \in Clients : WF_regVars(QueryScan(c) \/ QueryReturn(c))

(***************************************************************************)
(* Properties                                                              *)
(***************************************************************************)
RegTypeOK ==
    /\ service_num \in 0..SNUM_MAX
    /\ service_name \in [0..SNUM_MAX-1 -> Names \cup {NoName}]
    /\ reg \in [Servers -> [pc : {"idle", "store", "scan", "inc"}, slot : 0..SNUM_MAX-1,
                            i : 0..SNUM_MAX]]
    /\ snum \in [Servers -> -1..SNUM_MAX-1]
    /\ query \in [Clients -> [pc : {"idle", "scan"}, name : Names \cup {NoName},
                              i : 0..SNUM_MAX, ret : -1..SNUM_MAX-1]]

\* Servers register one after the other, as the assignment starts them.
OneAtATime == MaxRegistering <= 1

\* "successfully registered with service number %d" (ku_binder_lib.c:55): the
\* number a server was given names that server's service from then on.
NumberMeansName ==
    \A s \in Servers : snum[s] # -1 => NameAt(snum[s]) = NameOf[s]

\* A name once counted keeps its number: later registrations never move or
\* overwrite it.
TableGrows ==
    [][/\ service_num' >= service_num
       /\ \A i \in 0..service_num-1 : NameAt(i)' = NameAt(i)]_regVars
=============================================================================
