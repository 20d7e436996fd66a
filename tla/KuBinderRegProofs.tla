-------------------------- MODULE KuBinderRegProofs --------------------------
(***************************************************************************)
(* Registration in the binder driver, for any number of servers, clients   *)
(* and names and any size of the table, when servers register one at a     *)
(* time (OneAtATime).  Without that the theorems are false: two            *)
(* registrations at once share a slot and a number.                        *)
(***************************************************************************)
EXTENDS KuBinderReg, TLAPS, FiniteSetTheorems

(***************************************************************************)
(* The inductive invariant                                                 *)
(***************************************************************************)
Counted == 0..service_num-1

\* One call at a time is inside ku_binder_register.
Alone == \A s, t \in Registering : s = t

\* Each counted slot holds a name, and no name is counted twice.
NamesDistinct ==
    /\ \A i \in Counted : service_name[i] \in Names
    /\ \A i, j \in Counted : service_name[i] = service_name[j] => i = j

\* The call under way works on the first slot that is not counted, and its name
\* is in none of the slots it has searched.
Searched(s) ==
    /\ reg[s].slot = service_num /\ service_num < SNUM_MAX
    /\ reg[s].pc # "store" => service_name[reg[s].slot] = NameOf[s]
    /\ reg[s].pc = "store" => reg[s].i = 0
    /\ reg[s].pc = "scan" => reg[s].i <= service_num
    /\ \A j \in Counted :
         (reg[s].pc = "scan" /\ j < reg[s].i) \/ reg[s].pc = "inc" => service_name[j] # NameOf[s]
RegistrationsSearched == \A s \in Registering : Searched(s)

\* A number a server holds is counted and its slot has the server's name.
NumbersCounted ==
    \A s \in Servers : snum[s] # -1 =>
        snum[s] \in Counted /\ service_name[snum[s]] = NameOf[s]

\* A query has found the name exactly where it has looked and the name is.
Found(c) ==
    /\ query[c].name \in Names /\ query[c].i <= service_num
    /\ query[c].ret # -1 =>
         query[c].ret \in Counted /\ service_name[query[c].ret] = query[c].name
    /\ \A j \in Counted :
         j < query[c].i /\ service_name[j] = query[c].name => query[c].ret = j
QueriesFound == \A c \in Clients : query[c].pc = "scan" => Found(c)

RegInv ==
    /\ RegTypeOK
    /\ Alone
    /\ NamesDistinct
    /\ RegistrationsSearched
    /\ NumbersCounted
    /\ QueriesFound

(***************************************************************************)
(* Facts the steps rest on                                                 *)
(***************************************************************************)
\* The bound on registrations, and so the test in RegBegin, leaves room for one.
LEMMA NoneRegistering ==
    ASSUME OneAtATime, Cardinality(Registering) < MaxRegistering
    PROVE  Registering = {}
<1>1. IsFiniteSet(Registering)
  BY RegAssumption, FS_Subset DEF Registering
<1>2. Cardinality(Registering) \in Nat
  BY <1>1, FS_CardinalityType
<1>3. Cardinality(Registering) = 0
  BY <1>2, RegAssumption, SMT DEF OneAtATime
<1> QED BY <1>1, <1>3, FS_EmptySet

\* Indices of the table, and of its counted part.
LEMMA CountedFacts ==
    ASSUME service_num \in 0..SNUM_MAX
    PROVE  /\ SNUM_MAX \in Nat /\ service_num \in Nat
           /\ \A i \in Counted : i \in 0..SNUM_MAX-1 /\ i \in Nat /\ i < service_num
                                 /\ i < SNUM_MAX /\ NameAt(i) = service_name[i]
  BY RegAssumption, SMT DEF Counted, NameAt

LEMMA IndexBelow ==
    ASSUME NEW m \in Nat, NEW n \in 0..m
    PROVE  n \in Nat /\ \A i \in 0..n-1 : i < m
  BY SMT

\* A step of the registration under way is the only one.
LEMMA TheOne ==
    ASSUME RegInv, NEW s \in Servers, reg[s].pc # "idle"
    PROVE  /\ Registering = {s} /\ Searched(s)
           /\ reg[s].slot = service_num /\ service_num \in 0..SNUM_MAX-1
           /\ service_num \notin Counted
<1>1. s \in Registering
  BY DEF Registering
<1>2. Registering = {s} /\ Searched(s)
  BY <1>1 DEF RegInv, Alone, RegistrationsSearched
<1>3. reg[s].slot = service_num /\ service_num < SNUM_MAX
  BY <1>2 DEF Searched
<1>4. service_num \in 0..SNUM_MAX /\ SNUM_MAX \in Nat
  BY RegAssumption DEF RegInv, RegTypeOK
<1>5. service_num \in 0..SNUM_MAX-1 /\ service_num \notin Counted
  BY <1>3, <1>4, SMT DEF Counted
<1> QED BY <1>2, <1>3, <1>5

\* A step that leaves the table alone keeps what is said of it.
LEMMA TableSame ==
    ASSUME RegInv, UNCHANGED <<service_num, service_name>>, RegTypeOK'
    PROVE  /\ Counted' = Counted /\ NamesDistinct'
           /\ UNCHANGED reg => Alone' /\ RegistrationsSearched'
           /\ UNCHANGED snum => NumbersCounted'
           /\ UNCHANGED query => QueriesFound'
<1>1. Counted' = Counted
  BY DEF Counted
<1>2. NamesDistinct'
  BY <1>1 DEF RegInv, NamesDistinct
<1>3. ASSUME UNCHANGED reg PROVE Alone' /\ RegistrationsSearched'
  BY <1>1, <1>3 DEF RegInv, Alone, RegistrationsSearched, Registering, Searched
<1>4. ASSUME UNCHANGED snum PROVE NumbersCounted'
  BY <1>1, <1>4 DEF RegInv, NumbersCounted
<1>5. ASSUME UNCHANGED query PROVE QueriesFound'
  BY <1>1, <1>5 DEF RegInv, QueriesFound, Found
<1> QED BY <1>1, <1>2, <1>3, <1>4, <1>5

\* A step of one query keeps what is said of the others.
LEMMA OneQueryMoves ==
    ASSUME RegInv, NEW c \in Clients, UNCHANGED <<service_num, service_name>>,
           \A d \in Clients : d # c => query'[d] = query[d],
           query'[c].pc = "scan" => Found(c)'
    PROVE  QueriesFound'
<1> SUFFICES ASSUME NEW d \in Clients, query'[d].pc = "scan" PROVE Found(d)'
  BY DEF QueriesFound
<1>1. CASE d = c
  BY <1>1
<1>2. CASE d # c
  <2>1. query'[d] = query[d] /\ Counted' = Counted
    BY <1>2 DEF Counted
  <2>2. Found(d)
    BY <2>1 DEF RegInv, QueriesFound
  <2> QED BY <2>1, <2>2 DEF Found
<1> QED BY <1>1, <1>2

(***************************************************************************)
(* ku_binder_register                                                      *)
(***************************************************************************)
LEMMA RegInitInv == ASSUME RegInit PROVE RegInv
<1>1. RegTypeOK
  BY RegAssumption, SMT DEF RegInit, RegTypeOK, Idle
<1>2. Counted = {}
  BY SMT DEF RegInit, Counted
<1>3. Registering = {}
  BY DEF RegInit, Registering, Idle
<1> QED BY <1>1, <1>2, <1>3 DEF RegInit, RegInv, Alone, NamesDistinct, RegistrationsSearched,
           NumbersCounted, QueriesFound

LEMMA RegBeginInv ==
    ASSUME OneAtATime, RegInv, NEW s \in Servers, RegBegin(s) PROVE RegInv'
<1>1. Registering = {} /\ RegTypeOK
  BY NoneRegistering DEF RegBegin, RegInv
<1>2. SNUM_MAX \in Nat \ {0} /\ service_num \in 0..SNUM_MAX
  BY <1>1, RegAssumption DEF RegTypeOK
<1>3. CASE HasRoom
  <2>1. service_num \in 0..SNUM_MAX-1 /\ 0 \in 0..SNUM_MAX /\ service_num < SNUM_MAX
    BY <1>2, <1>3, SMT DEF HasRoom
  <2>2. reg' = [reg EXCEPT ![s] = [pc |-> "store", slot |-> service_num, i |-> 0]]
        /\ UNCHANGED <<service_num, service_name, snum, query>>
    BY <1>3 DEF RegBegin, FreeSlot
  <2>3. RegTypeOK'
    BY <1>1, <2>1, <2>2 DEF RegTypeOK
  <2>4. Registering' = {s} /\ reg'[s] = [pc |-> "store", slot |-> service_num, i |-> 0]
    BY <1>1, <2>2 DEF Registering, RegTypeOK
  <2>5. Searched(s)'
    BY <2>1, <2>2, <2>4 DEF Searched
  <2>6. Alone' /\ RegistrationsSearched'
    BY <2>4, <2>5 DEF Alone, RegistrationsSearched
  <2> QED BY <2>2, <2>3, <2>6, TableSame DEF RegInv
<1>4. CASE ~HasRoom
  <2>1. snum' = [snum EXCEPT ![s] = -1] /\ UNCHANGED <<service_num, service_name, reg, query>>
    BY <1>4 DEF RegBegin
  <2>2. RegTypeOK'
    <3>1. -1 \in -1..SNUM_MAX-1
      BY <1>2, SMT
    <3> QED BY <1>1, <2>1, <3>1 DEF RegTypeOK
  <2>3. NumbersCounted'
    BY <1>1, <2>1, <2>2, TableSame DEF RegInv, NumbersCounted, RegTypeOK
  <2> QED BY <2>1, <2>2, <2>3, TableSame DEF RegInv
<1> QED BY <1>3, <1>4

LEMMA RegStoreInv ==
    ASSUME RegInv, NEW s \in Servers, RegStore(s) PROVE RegInv'
<1>1. RegTypeOK /\ reg[s].pc = "store"
  BY DEF RegInv, RegStore
<1>2. /\ Registering = {s} /\ reg[s].slot = service_num /\ service_num \in 0..SNUM_MAX-1
      /\ service_num \notin Counted /\ Searched(s)
  BY <1>1, TheOne
<1>3. /\ service_name' = [service_name EXCEPT ![service_num] = NameOf[s]]
      /\ reg' = [reg EXCEPT ![s].pc = "scan"]
      /\ UNCHANGED <<service_num, snum, query>>
  BY <1>2 DEF RegStore
<1>4. NameOf[s] \in Names
  BY RegAssumption
<1>5. RegTypeOK'
  BY <1>1, <1>3, <1>4, ZenonT(60) DEF RegTypeOK
<1>6. /\ Counted' = Counted /\ service_name'[service_num] = NameOf[s]
      /\ \A i \in Counted : service_name'[i] = service_name[i]
  BY <1>1, <1>2, <1>3 DEF Counted, RegTypeOK
<1>7. NamesDistinct' /\ NumbersCounted'
  BY <1>3, <1>6 DEF RegInv, NamesDistinct, NumbersCounted
<1>8. QueriesFound'
  BY <1>3, <1>6 DEF RegInv, QueriesFound, Found
<1>9. /\ Registering' = {s} /\ reg'[s].pc = "scan" /\ reg'[s].slot = reg[s].slot
      /\ reg'[s].i = reg[s].i
  BY <1>1, <1>2, <1>3 DEF Registering, RegTypeOK
<1>10. reg[s].i = 0 /\ (\A j \in Counted : ~(j < 0)) /\ 0 <= service_num
  <2>1. (\A j \in Counted : ~(j < 0)) /\ 0 <= service_num
    BY <1>2, SMT DEF Counted
  <2> QED BY <1>1, <1>2, <2>1 DEF Searched
<1>11. Searched(s)'
  BY <1>2, <1>3, <1>6, <1>9, <1>10 DEF Searched
<1>12. Alone' /\ RegistrationsSearched'
  BY <1>9, <1>11 DEF Alone, RegistrationsSearched
<1> QED BY <1>5, <1>7, <1>8, <1>12 DEF RegInv

LEMMA RegScanInv ==
    ASSUME RegInv, NEW s \in Servers, RegScan(s) PROVE RegInv'
<1>1. RegTypeOK /\ reg[s].pc = "scan" /\ reg[s].i < service_num
      /\ UNCHANGED <<service_num, service_name, query>>
  BY DEF RegInv, RegScan
<1>2. /\ Registering = {s} /\ Searched(s) /\ reg[s].slot = service_num
      /\ service_num \in 0..SNUM_MAX-1
  BY <1>1, TheOne
<1>3. /\ reg[s].i \in 0..SNUM_MAX /\ SNUM_MAX \in Nat /\ reg[s].i \in Nat
      /\ reg[s].i + 1 \in 0..SNUM_MAX /\ reg[s].i + 1 <= service_num
      /\ 0 \in 0..SNUM_MAX /\ 0 \in 0..SNUM_MAX-1 /\ -1 \in -1..SNUM_MAX-1
      /\ reg[s].i \in Counted
  <2>1. reg[s].i \in 0..SNUM_MAX /\ SNUM_MAX \in Nat \ {0} /\ service_num \in 0..SNUM_MAX-1
    BY <1>1, <1>2, RegAssumption DEF RegTypeOK
  <2> QED BY <1>1, <2>1, SMT DEF Counted
<1>4. CASE IsDuplicate(s)
  <2>1. snum' = [snum EXCEPT ![s] = -1] /\ reg' = [reg EXCEPT ![s] = Idle]
    BY <1>4 DEF RegScan
  <2>2. RegTypeOK'
    BY <1>1, <1>3, <2>1 DEF RegTypeOK, Idle
  <2>3. Registering' = {}
    BY <1>1, <1>2, <2>1 DEF Registering, RegTypeOK, Idle
  <2>4. NumbersCounted' /\ Alone' /\ RegistrationsSearched'
    BY <1>1, <2>1, <2>2, <2>3, TableSame, SMTT(30)
       DEF RegInv, NumbersCounted, Alone, RegistrationsSearched, RegTypeOK
  <2> QED BY <1>1, <2>2, <2>4, TableSame DEF RegInv
<1>5. CASE ~IsDuplicate(s)
  <2>1. reg' = [reg EXCEPT ![s].i = reg[s].i + 1] /\ UNCHANGED snum
    BY <1>5 DEF RegScan, NextIndex
  <2>2. RegTypeOK'
    BY <1>1, <1>3, <2>1, ZenonT(60) DEF RegTypeOK
  <2>3. /\ Registering' = {s} /\ reg'[s].pc = "scan" /\ reg'[s].slot = reg[s].slot
        /\ reg'[s].i = reg[s].i + 1
    BY <1>1, <1>2, <2>1 DEF Registering, RegTypeOK
  <2>4. service_name[reg[s].i] # NameOf[s]
    BY <1>1, <1>3, <1>5, CountedFacts DEF IsDuplicate, RegTypeOK
  <2>5. \A j \in Counted : j < reg[s].i + 1 => j < reg[s].i \/ j = reg[s].i
    BY <1>3, SMT DEF Counted
  <2>6. Counted' = Counted
    BY <1>1 DEF Counted
  <2>7. Searched(s)'
    BY <1>1, <1>2, <1>3, <2>3, <2>4, <2>5, <2>6 DEF Searched
  <2>8. Alone' /\ RegistrationsSearched'
    BY <2>3, <2>7 DEF Alone, RegistrationsSearched
  <2> QED BY <1>1, <2>1, <2>2, <2>8, TableSame DEF RegInv
<1> QED BY <1>4, <1>5

LEMMA RegLoadInv ==
    ASSUME RegInv, NEW s \in Servers, RegLoad(s) PROVE RegInv'
<1>1. RegTypeOK /\ reg[s].pc = "scan" /\ reg[s].i >= service_num
      /\ UNCHANGED <<service_num, service_name, snum, query>>
      /\ reg' = [reg EXCEPT ![s] = [pc |-> "inc", slot |-> service_num, i |-> 0]]
  BY DEF RegInv, RegLoad
<1>2. /\ Registering = {s} /\ Searched(s) /\ reg[s].slot = service_num
      /\ service_num \in 0..SNUM_MAX-1
  BY <1>1, TheOne
<1>3. 0 \in 0..SNUM_MAX /\ \A j \in Counted : j < reg[s].i
  <2>1. reg[s].i \in 0..SNUM_MAX /\ SNUM_MAX \in Nat \ {0} /\ service_num \in 0..SNUM_MAX-1
    BY <1>1, <1>2, RegAssumption DEF RegTypeOK
  <2> QED BY <1>1, <2>1, SMT DEF Counted
<1>4. RegTypeOK'
  BY <1>1, <1>2, <1>3 DEF RegTypeOK
<1>5. Registering' = {s} /\ reg'[s] = [pc |-> "inc", slot |-> service_num, i |-> 0]
  BY <1>1, <1>2 DEF Registering, RegTypeOK
<1>6. Counted' = Counted
  BY <1>1 DEF Counted
<1>7. Searched(s)'
  BY <1>1, <1>2, <1>3, <1>5, <1>6 DEF Searched
<1>8. Alone' /\ RegistrationsSearched'
  BY <1>5, <1>7 DEF Alone, RegistrationsSearched
<1> QED BY <1>1, <1>4, <1>8, TableSame DEF RegInv

\* The store of the increment counts the slot, and its name is new.
LEMMA RegReturnInv ==
    ASSUME RegInv, NEW s \in Servers, RegReturn(s)
    PROVE  /\ RegInv' /\ service_num' = service_num + 1 /\ snum' = [snum EXCEPT ![s] = service_num]
           /\ service_name[service_num] = NameOf[s] /\ service_num \in 0..SNUM_MAX-1
           /\ \A j \in Counted : service_name[j] # NameOf[s]
<1>1. RegTypeOK /\ reg[s].pc = "inc" /\ UNCHANGED <<service_name, query>>
      /\ reg' = [reg EXCEPT ![s] = Idle]
  BY DEF RegInv, RegReturn
<1>2. /\ Registering = {s} /\ Searched(s) /\ reg[s].slot = service_num
      /\ service_num \in 0..SNUM_MAX-1 /\ service_num \notin Counted
  BY <1>1, TheOne
<1>3. service_num' = service_num + 1 /\ snum' = [snum EXCEPT ![s] = service_num]
  BY <1>2 DEF RegReturn, NewCount, NewNumber
<1>4. /\ SNUM_MAX \in Nat \ {0} /\ service_num \in Nat
      /\ service_num + 1 \in 0..SNUM_MAX /\ service_num \in -1..SNUM_MAX-1
      /\ 0 \in 0..SNUM_MAX /\ 0 \in 0..SNUM_MAX-1 /\ Counted' = Counted \cup {service_num}
      /\ \A i \in 0..SNUM_MAX : i <= service_num => i <= service_num + 1
  BY <1>2, <1>3, RegAssumption, SMT DEF Counted
<1>5. RegTypeOK'
  BY <1>1, <1>3, <1>4 DEF RegTypeOK, Idle
<1>6. service_name[service_num] = NameOf[s] /\ \A j \in Counted : service_name[j] # NameOf[s]
  BY <1>1, <1>2 DEF Searched
<1>7. Registering' = {}
  BY <1>1, <1>2 DEF Registering, RegTypeOK, Idle
<1>8. Alone' /\ RegistrationsSearched'
  BY <1>7 DEF Alone, RegistrationsSearched
<1>9. NameOf[s] \in Names
  BY RegAssumption
<1>10. NamesDistinct'
  BY <1>1, <1>4, <1>6, <1>9 DEF RegInv, NamesDistinct
<1>11. NumbersCounted'
  BY <1>1, <1>3, <1>4, <1>6 DEF RegInv, NumbersCounted, RegTypeOK
<1>12. QueriesFound'
  <2> SUFFICES ASSUME NEW c \in Clients, query[c].pc = "scan" PROVE Found(c)'
    BY <1>1 DEF QueriesFound
  <2>1. Found(c) /\ query[c].i \in 0..SNUM_MAX
    BY <1>1 DEF RegInv, QueriesFound, RegTypeOK
  <2>2. query[c].i <= service_num + 1 /\ ~(service_num < query[c].i)
    BY <1>4, <2>1, SMT DEF Found
  <2> QED BY <1>1, <1>3, <1>4, <2>1, <2>2 DEF Found
<1> QED BY <1>2, <1>3, <1>5, <1>6, <1>8, <1>10, <1>11, <1>12 DEF RegInv

(***************************************************************************)
(* ku_binder_query                                                         *)
(***************************************************************************)
LEMMA QueryBeginInv ==
    ASSUME RegInv, NEW c \in Clients, NEW n \in Names, QueryBegin(c, n) PROVE RegInv'
<1>1. /\ RegTypeOK /\ UNCHANGED <<service_num, service_name, reg, snum>>
      /\ query' = [query EXCEPT ![c] = [pc |-> "scan", name |-> n, i |-> 0, ret |-> -1]]
  BY DEF RegInv, QueryBegin
<1>2. 0 \in 0..SNUM_MAX /\ -1 \in -1..SNUM_MAX-1 /\ 0 <= service_num
      /\ \A j \in Counted : ~(j < 0)
  BY <1>1, RegAssumption, SMT DEF RegTypeOK, Counted
<1>3. RegTypeOK'
  BY <1>1, <1>2 DEF RegTypeOK
<1>4. Counted' = Counted
  BY <1>1 DEF Counted
<1>5. Found(c)'
  BY <1>1, <1>2, <1>4 DEF Found, RegTypeOK
<1>6. \A d \in Clients : d # c => query'[d] = query[d]
  BY <1>1 DEF RegTypeOK
<1>7. QueriesFound'
  BY <1>1, <1>5, <1>6, OneQueryMoves
<1> QED BY <1>1, <1>3, <1>7, TableSame DEF RegInv

LEMMA QueryScanInv ==
    ASSUME RegInv, NEW c \in Clients, QueryScan(c) PROVE RegInv'
<1> DEFINE i == query[c].i
           ret == IF Matches(c) THEN i ELSE query[c].ret
<1>1. /\ RegTypeOK /\ UNCHANGED <<service_num, service_name, reg, snum>>
      /\ query[c].pc = "scan" /\ i < service_num
      /\ query' = [query EXCEPT ![c].i = i + 1, ![c].ret = ret]
  BY DEF RegInv, QueryScan
<1>2. Found(c)
  BY <1>1 DEF RegInv, QueriesFound
<1>3. /\ i \in Counted /\ i + 1 <= service_num /\ i + 1 \in 0..SNUM_MAX
      /\ i \in -1..SNUM_MAX-1 /\ i # -1
      /\ \A j \in Counted : j < i + 1 => j < i \/ j = i
  <2>1. i \in 0..SNUM_MAX /\ SNUM_MAX \in Nat \ {0} /\ service_num \in 0..SNUM_MAX
    BY <1>1, RegAssumption DEF RegTypeOK
  <2> HIDE DEF i, ret
  <2> QED BY <1>1, <2>1, SMT DEF Counted
<1>4. Matches(c) <=> service_name[i] = query[c].name
  BY <1>1, <1>3, CountedFacts DEF Matches, RegTypeOK
<1>5. ret \in -1..SNUM_MAX-1
  BY <1>1, <1>3 DEF RegTypeOK
<1>6. query'[c].pc = "scan" /\ query'[c].name = query[c].name /\ query'[c].i = i + 1
      /\ query'[c].ret = ret
  BY <1>1 DEF RegTypeOK
<1>7. \A d \in Clients : d # c => query'[d] = query[d]
  BY <1>1 DEF RegTypeOK
<1>8. RegTypeOK'
  <2> HIDE DEF i, ret
  <2> QED BY <1>1, <1>3, <1>5, ZenonT(60) DEF RegTypeOK
<1>9. Counted' = Counted
  BY <1>1 DEF Counted
<1>10. \A j \in Counted : j < i + 1 /\ service_name[j] = query[c].name => ret = j
  <2> SUFFICES ASSUME NEW j \in Counted, j < i + 1, service_name[j] = query[c].name
               PROVE  ret = j
    OBVIOUS
  <2>1. CASE j = i
    BY <1>4, <2>1
  <2>2. CASE j < i
    <3>1. query[c].ret = j
      BY <1>2, <2>2 DEF Found
    <3>2. service_name[i] = service_name[j] => i = j
      BY <1>3 DEF RegInv, NamesDistinct
    <3> QED BY <1>4, <3>1, <3>2
  <2> QED BY <1>3, <2>1, <2>2
<1>11. ret # -1 => ret \in Counted /\ service_name[ret] = query[c].name
  BY <1>2, <1>3, <1>4 DEF Found
<1> HIDE DEF i, ret
<1>12. Found(c)'
  <2>1. query[c].name \in Names /\ UNCHANGED <<service_num, service_name>>
    BY <1>1, <1>2 DEF Found
  <2> QED BY <2>1, <1>3, <1>6, <1>9, <1>10, <1>11 DEF Found
<1>13. QueriesFound'
  BY <1>1, <1>7, <1>12, OneQueryMoves
<1> QED BY <1>1, <1>8, <1>13, TableSame DEF RegInv

\* When a query returns it has looked at every counted slot.
LEMMA QueryReturnInv ==
    ASSUME RegInv, NEW c \in Clients, QueryReturn(c)
    PROVE  /\ RegInv' /\ query[c].name \in Names
           /\ \A j \in Counted : service_name[j] = query[c].name <=> query[c].ret = j
<1>1. /\ RegTypeOK /\ UNCHANGED <<service_num, service_name, reg, snum>>
      /\ query[c].pc = "scan" /\ query[c].i >= service_num
      /\ query' = [query EXCEPT ![c].pc = "idle", ![c].i = 0]
  BY DEF RegInv, QueryReturn
<1>2. Found(c)
  BY <1>1 DEF RegInv, QueriesFound
<1>3. 0 \in 0..SNUM_MAX /\ \A j \in Counted : j < query[c].i /\ j # -1
  <2>1. query[c].i \in 0..SNUM_MAX /\ SNUM_MAX \in Nat \ {0} /\ service_num \in 0..SNUM_MAX
    BY <1>1, RegAssumption DEF RegTypeOK
  <2> QED BY <1>1, <2>1, SMT DEF Counted
<1>4. RegTypeOK'
  BY <1>1, <1>3, ZenonT(60) DEF RegTypeOK
<1>5. query'[c].pc = "idle" /\ \A d \in Clients : d # c => query'[d] = query[d]
  BY <1>1 DEF RegTypeOK
<1>6. Counted' = Counted
  BY <1>1 DEF Counted
<1>7. QueriesFound'
  BY <1>1, <1>5, OneQueryMoves
<1>8. \A j \in Counted : service_name[j] = query[c].name <=> query[c].ret = j
  BY <1>2, <1>3 DEF Found
<1> QED BY <1>1, <1>2, <1>4, <1>7, <1>8, TableSame DEF RegInv, Found

(***************************************************************************)
(* Every action, and the one by which KuBinderSys restarts a server        *)
(***************************************************************************)
LEMMA RegSame == ASSUME RegInv, UNCHANGED regVars PROVE RegInv'
<1>1. RegTypeOK'
  BY DEF RegInv, RegTypeOK, regVars
<1> QED BY <1>1, TableSame DEF RegInv, regVars

LEMMA NumberForgotten ==
    ASSUME RegInv, NEW s \in Servers, snum' = [snum EXCEPT ![s] = -1],
           UNCHANGED <<service_num, service_name, reg, query>>
    PROVE  RegInv'
<1>1. -1 \in -1..SNUM_MAX-1
  BY RegAssumption, SMT
<1>2. RegTypeOK'
  BY <1>1 DEF RegInv, RegTypeOK
<1>3. NumbersCounted'
  BY <1>2, TableSame DEF RegInv, NumbersCounted, RegTypeOK
<1> QED BY <1>2, <1>3, TableSame DEF RegInv

LEMMA RegNextInv == ASSUME OneAtATime, RegInv, [RegNext]_regVars PROVE RegInv'
  BY RegSame, RegBeginInv, RegStoreInv, RegScanInv, RegLoadInv, RegReturnInv, QueryBeginInv,
     QueryScanInv, QueryReturnInv DEF RegNext, RegStep

(***************************************************************************)
(* Theorems                                                                *)
(***************************************************************************)
\* What each step keeps: the invariant of registration one at a time.
THEOREM RegConsistency == ASSUME OneAtATime PROVE RegSpec => []RegInv
<1>1. RegInit => RegInv
  BY RegInitInv
<1>2. RegInv /\ [RegNext]_regVars => RegInv'
  BY RegNextInv
<1> QED BY <1>1, <1>2, PTL DEF RegSpec

\* The number of a server names its service.
LEMMA NumbersMean == ASSUME RegInv PROVE NumberMeansName
  BY CountedFacts DEF RegInv, RegTypeOK, NumbersCounted, NumberMeansName

\* "successfully registered with service number %d" (ku_binder_lib.c:55) stays
\* true: the number a server was given names its service from then on.
THEOREM NumberHolds == ASSUME OneAtATime PROVE RegSpec => []NumberMeansName
  BY NumbersMean, RegConsistency, PTL

\* What a single step does to the counted names.
TableGrowsStep ==
    /\ service_num' >= service_num
    /\ \A i \in 0..service_num-1 : NameAt(i)' = NameAt(i)

LEMMA GrowsByStep == ASSUME RegInv, RegInv', [RegNext]_regVars PROVE TableGrowsStep
<1>1. RegTypeOK /\ RegTypeOK'
  BY DEF RegInv
<1>2. /\ \A i \in Counted : NameAt(i) = service_name[i]
      /\ \A i \in Counted' : NameAt(i)' = service_name'[i]
      /\ service_num \in Nat /\ service_num' \in Nat
  <2>1. /\ \A i \in Counted : NameAt(i) = service_name[i]
        /\ service_num \in Nat
    BY <1>1, CountedFacts DEF RegTypeOK
  <2>2. SNUM_MAX \in Nat /\ service_num' \in 0..SNUM_MAX
    BY <1>1, RegAssumption DEF RegTypeOK
  <2>3. service_num' \in Nat /\ \A i \in Counted' : i < SNUM_MAX
    BY <2>2, IndexBelow DEF Counted
  <2> QED BY <2>1, <2>3 DEF NameAt
<1>3. CASE UNCHANGED <<service_num, service_name>>
  BY <1>2, <1>3 DEF TableGrowsStep, Counted
<1>4. ASSUME NEW s \in Servers, RegStore(s) PROVE TableGrowsStep
  <2>1. /\ service_name' = [service_name EXCEPT ![service_num] = NameOf[s]]
        /\ UNCHANGED service_num /\ service_num \notin Counted
    BY <1>4, TheOne DEF RegStore
  <2>2. \A i \in Counted : service_name'[i] = service_name[i]
    BY <1>1, <2>1, CountedFacts DEF RegTypeOK
  <2> QED BY <1>2, <2>1, <2>2 DEF TableGrowsStep, Counted
<1>5. ASSUME NEW s \in Servers, RegReturn(s) PROVE TableGrowsStep
  <2>1. service_num' = service_num + 1 /\ UNCHANGED service_name
    BY <1>5, RegReturnInv DEF RegReturn
  <2>2. service_num' >= service_num /\ \A i \in Counted : i \in Counted'
    BY <1>2, <2>1, SMT DEF Counted
  <2> QED BY <1>2, <2>1, <2>2 DEF TableGrowsStep, Counted
<1> QED BY <1>3, <1>4, <1>5 DEF RegNext, RegStep, RegBegin, RegScan, RegLoad, QueryBegin,
           QueryScan, QueryReturn, regVars

\* A counted name keeps its number, whatever is registered later.
THEOREM NamesStay == ASSUME OneAtATime PROVE RegSpec => TableGrows
<1>1. RegInv /\ RegInv' /\ [RegNext]_regVars => [TableGrowsStep]_regVars
  BY GrowsByStep
<1> QED BY <1>1, RegConsistency, PTL DEF RegSpec, TableGrows, TableGrowsStep
=============================================================================
