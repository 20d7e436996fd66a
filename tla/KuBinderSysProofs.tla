------------------------- MODULE KuBinderSysProofs -------------------------
(***************************************************************************)
(* The binder with its applications, for any servers, clients, names,      *)
(* table size, numbers of requests, signals and restarts, when servers     *)
(* register one at a time: requests reach the server their sender meant,   *)
(* each once and in order, and only a signal can break the driver.  At the *)
(* end, the whole implements KuBus: every step is a step of the bus under  *)
(* the mapping of KuBinderSys, or leaves the bus as it is.                 *)
(***************************************************************************)
EXTENDS KuBinderSys, KuBinderRegProofs, KuBinderQueueProofs

(***************************************************************************)
(* The inductive invariant                                                 *)
(***************************************************************************)
SysTyped ==
    /\ app \in [Servers -> {"menu", "reading"}] /\ applied \in [Servers -> Seq(Msg)]
    /\ known \in [Clients -> [Snums -> Names \cup {NoName}]]
    /\ meant \in [Clients -> Seq(Names)]

\* A client is inside one call at a time and remembers what each request was for.
ClientsInCall ==
    \A c \in Clients : Len(meant[c]) = snd[c].n /\ (snd[c].pc # "out" => query[c].pc = "idle")

\* A server inside BINDER_READ reads the number it holds, and nobody else holds it.
ReadersServe ==
    /\ \A s \in Servers : rd[s].pc # "out" => app[s] = "reading"
    /\ \A s \in Servers : app[s] = "reading" =>
         /\ reg[s].pc = "idle" /\ snum[s] # -1 /\ rd[s].snum = snum[s]
         /\ rd[s].pc = "out" => rd[s].got \in Msg
    /\ \A s, t \in Servers : snum[s] # -1 /\ snum[s] = snum[t] => s = t

\* What a client was told of a number is still true, and its requests go by it.
KnownRight ==
    /\ \A c \in Clients, k \in Snums : known[c][k] # NoName =>
         k \in Counted /\ service_name[k] = known[c][k]
    /\ \A c \in Clients : snd[c].pc = "add" =>
         /\ known[c][snd[c].snum] # NoName
         /\ meant[c][snd[c].n] = known[c][snd[c].snum]

\* A request that its sender has put into a queue, and the name it was meant for.
Posted(m) ==
    m \in Msg /\ m.n <= snd[m.from].n /\ (snd[m.from].pc = "add" => m.n # snd[m.from].n)
For(m) == meant[m.from][m.n]

QueuedRight ==
    \A k \in Snums : \A m \in ToSet(rpc_list[k]) :
        Posted(m) /\ k \in Counted /\ For(m) = service_name[k]
HandedRight ==
    \A s \in Servers : \A m \in ToSet(Handed(s)) : Posted(m) /\ For(m) = NameOf[s]

\* Requests of one client stand in the order in which it sent them.
Precedes(m, w) == m.from = w.from => m.n < w.n
Ordered(q) == \A i, j \in DOMAIN q : i < j => Precedes(q[i], q[j])
QueuesOrdered == \A k \in Snums : Ordered(rpc_list[k])
HandedOrdered == \A s \in Servers : Ordered(Handed(s))
HandedFirst ==
    \A s \in Servers, k \in Snums : service_name[k] = NameOf[s] =>
        \A m \in ToSet(Handed(s)), w \in ToSet(rpc_list[k]) : Precedes(m, w)
HandedOnce ==
    \A s, t \in Servers : \A m \in ToSet(Handed(s)) : m \in ToSet(Handed(t)) => s = t

\* Before the first signal, a reader at the locked section finds a request there.
TakersFind ==
    signals = 0 =>
        ~oops /\ \A s \in Servers : rd[s].pc = "take" => rpc_list[rd[s].snum] # <<>>

AppInv ==
    /\ SysTyped
    /\ ClientsInCall
    /\ ReadersServe
    /\ KnownRight
    /\ QueuedRight
    /\ HandedRight
    /\ QueuesOrdered
    /\ HandedOrdered
    /\ HandedFirst
    /\ HandedOnce
    /\ TakersFind
SysInv == RegInv /\ QueueInv /\ AppInv

(***************************************************************************)
(* Facts the steps rest on                                                 *)
(***************************************************************************)
LEMMA OrderedJoin ==
    ASSUME NEW q \in Seq(Msg), NEW e \in Msg, Ordered(q), \A m \in ToSet(q) : Precedes(m, e)
    PROVE  Ordered(Append(q, e))
<1> DEFINE r == Append(q, e)
           n == Len(q)
<1>1. n \in Nat /\ DOMAIN q = 1..n /\ \A i \in 1..n : q[i] \in ToSet(q)
  BY PlacesOf
<1>2. r \in Seq(Msg) /\ Len(r) = n + 1 /\ (\A i \in 1..n : r[i] = q[i]) /\ r[n + 1] = e
  BY AppendProperties
<1>3. DOMAIN r = 1..(n + 1)
  BY <1>2, PlacesOf
<1> HIDE DEF r, n
<1>4. /\ \A i \in 1..(n + 1) : i \in 1..n \/ i = n + 1
      /\ \A i, j \in 1..(n + 1) : i < j => i \in 1..n
  BY <1>1, SMT
<1>5. Ordered(r)
  BY <1>1, <1>2, <1>3, <1>4 DEF Ordered
<1> QED BY <1>5 DEF r

LEMMA OrderedLeave ==
    ASSUME NEW q \in Seq(Msg), q # <<>>, Ordered(q)
    PROVE  /\ Head(q) \in Msg /\ Head(q) \in ToSet(q)
           /\ Tail(q) \in Seq(Msg) /\ Ordered(Tail(q)) /\ ToSet(Tail(q)) \subseteq ToSet(q)
           /\ \A w \in ToSet(Tail(q)) : Precedes(Head(q), w)
<1> DEFINE t == Tail(q)
           h == Head(q)
<1>1. Len(q) \in Nat /\ DOMAIN q = 1..Len(q) /\ Len(q) # 0
  BY PlacesOf
<1>2. /\ h \in Msg /\ t \in Seq(Msg) /\ Len(t) = Len(q) - 1
      /\ \A i \in 1..Len(t) : t[i] = q[i + 1]
  BY HeadTailProperties
<1>3. h = q[1]
  BY <1>1
<1>4. Len(t) \in Nat /\ DOMAIN t = 1..Len(t)
  BY <1>2, PlacesOf
<1> HIDE DEF t, h
<1>5. /\ 1 \in 1..Len(q)
      /\ \A i \in 1..Len(t) : i + 1 \in 1..Len(q) /\ 1 < i + 1
      /\ \A i, j \in 1..Len(t) : i < j => i + 1 < j + 1
  BY <1>1, <1>2, <1>4, SMT
<1>6. Ordered(t)
  BY <1>1, <1>2, <1>4, <1>5 DEF Ordered
<1>7. h \in ToSet(q) /\ ToSet(t) \subseteq ToSet(q)
  BY <1>1, <1>2, <1>3, <1>4, <1>5 DEF ToSet
<1>8. \A w \in ToSet(t) : Precedes(h, w)
  BY <1>1, <1>2, <1>3, <1>4, <1>5 DEF Ordered, ToSet
<1> QED BY <1>2, <1>6, <1>7, <1>8 DEF t, h

\* Two entries of an ordered sequence are not the same request.
LEMMA OrderedOnce ==
    ASSUME NEW q \in Seq(Msg), Ordered(q), NEW i \in DOMAIN q, NEW j \in DOMAIN q, q[i] = q[j]
    PROVE  i = j
<1>1. Len(q) \in Nat /\ DOMAIN q = 1..Len(q)
  BY PlacesOf
<1>2. q[i] \in Msg /\ q[i].n \in 1..MaxSends
  <2>1. i \in 1..Len(q)
    BY <1>1
  <2>2. q[i] \in Msg
    BY <2>1, ElementOfSeq
  <2> QED BY <2>2 DEF Msg
<1>3. ~(q[i].n < q[i].n)
  BY <1>2, QueueAssumption, SMT
<1>4. ~(i < j) /\ ~(j < i)
  BY <1>3 DEF Ordered, Precedes
<1> QED BY <1>1, <1>4, SMT

LEMMA SysFacts ==
    ASSUME SysInv
    PROVE  /\ RegTypeOK /\ CallsTyped /\ QueuesTyped /\ SysTyped
           /\ \A s \in Servers : Handed(s) \in Seq(Msg)
           /\ \A k \in Snums : rpc_list[k] \in Seq(Msg)
           /\ Counted \subseteq Snums
           /\ \A s \in Servers, t \in Servers : snum[s] # -1 /\ snum[s] = snum[t] => s = t
<1>1. RegTypeOK /\ CallsTyped /\ QueuesTyped /\ SysTyped /\ ReadersServe /\ QueueTypeOK
  BY DEF SysInv, RegInv, QueueInv, AppInv
<1>2. ASSUME NEW s \in Servers PROVE Handed(s) \in Seq(Msg)
  <2>1. applied[s] \in Seq(Msg)
    BY <1>1 DEF SysTyped
  <2>2. CASE app[s] = "reading" /\ rd[s].pc = "out"
    <3>1. rd[s].got \in Msg
      BY <1>1, <2>2 DEF ReadersServe
    <3>2. Append(applied[s], rd[s].got) \in Seq(Msg)
      BY <2>1, <3>1, AppendProperties
    <3> QED BY <2>2, <3>2 DEF Handed, AppliedNext
  <2>3. CASE ~(app[s] = "reading" /\ rd[s].pc = "out")
    BY <2>1, <2>3 DEF Handed
  <2> QED BY <2>2, <2>3
<1>3. Counted \subseteq Snums
  BY <1>1, CountedFacts, SysAssumption DEF RegTypeOK
<1> QED BY <1>1, <1>2, <1>3 DEF ReadersServe, QueueTypeOK

(***************************************************************************)
(* A step of the table: registration, restart, query.  It may add a name,  *)
(* forget or give out a number and tell a client one.                      *)
(***************************************************************************)
LEMMA TableMoves ==
    ASSUME SysInv, RegInv', UNCHANGED queueVars, UNCHANGED <<app, applied, meant>>,
           Counted \subseteq Counted', \A k \in Counted : service_name'[k] = service_name[k],
           \A s \in Servers : app[s] = "reading" => reg'[s].pc = "idle" /\ snum'[s] = snum[s],
           \A s, t \in Servers : snum'[s] # -1 /\ snum'[s] = snum'[t] => s = t,
           \A c \in Clients : snd[c].pc # "out" => query'[c].pc = "idle" /\ known'[c] = known[c],
           known' \in [Clients -> [Snums -> Names \cup {NoName}]],
           \A c \in Clients, k \in Snums : known'[c][k] # NoName =>
               known'[c][k] = known[c][k] \/ (k \in Counted /\ service_name[k] = known'[c][k])
    PROVE  SysInv'
<1>1. AppInv /\ QueueInv
  BY DEF SysInv
<1>2. UNCHANGED <<rpc_list, wqueue, lock, rd, snd, signals, oops, accepted, taken>>
  BY DEF queueVars
<1>3. QueueInv'
  BY <1>1, QueueSame
<1>4. SysTyped' /\ ClientsInCall'
  BY <1>1, <1>2 DEF AppInv, SysTyped, ClientsInCall
<1>5. ReadersServe'
  BY <1>1, <1>2 DEF AppInv, ReadersServe
<1>6. KnownRight'
  <2>1. KnownRight
    BY <1>1 DEF AppInv
  <2>2. ASSUME NEW c \in Clients, NEW k \in Snums, known'[c][k] # NoName
        PROVE  k \in Counted' /\ service_name'[k] = known'[c][k]
    <3>1. k \in Counted /\ service_name[k] = known'[c][k]
      BY <2>1, <2>2 DEF KnownRight
    <3> QED BY <3>1
  <2>3. ASSUME NEW c \in Clients, snd'[c].pc = "add"
        PROVE  /\ known'[c][snd'[c].snum] # NoName
               /\ meant'[c][snd'[c].n] = known'[c][snd'[c].snum]
    <3>1. snd[c].pc = "add" /\ snd'[c] = snd[c] /\ known'[c] = known[c] /\ meant' = meant
      BY <1>2, <2>3
    <3> QED BY <2>1, <3>1 DEF KnownRight
  <2> QED BY <2>2, <2>3 DEF KnownRight
<1>7. \A s : Handed(s)' = Handed(s)
  BY <1>2 DEF Handed, AppliedNext
<1>8. \A m : Posted(m)' <=> Posted(m)
  BY <1>2 DEF Posted
<1>9. \A m : For(m)' = For(m)
  BY DEF For
<1>10. QueuedRight'
  BY <1>1, <1>2, <1>8, <1>9 DEF AppInv, QueuedRight
<1>11. HandedRight' /\ HandedOrdered' /\ QueuesOrdered' /\ HandedOnce'
  BY <1>1, <1>2, <1>7, <1>8, <1>9
     DEF AppInv, HandedRight, HandedOrdered, QueuesOrdered, HandedOnce, Ordered, Precedes
<1>12. HandedFirst'
  <2> SUFFICES ASSUME NEW s \in Servers, NEW k \in Snums, service_name'[k] = NameOf[s],
                      NEW m \in ToSet(Handed(s)), NEW w \in ToSet(rpc_list[k])
               PROVE  Precedes(m, w)
    BY <1>2, <1>7 DEF HandedFirst, Precedes
  <2>1. k \in Counted
    BY <1>1 DEF AppInv, QueuedRight
  <2>2. service_name[k] = NameOf[s]
    BY <2>1
  <2> QED BY <1>1, <2>2 DEF AppInv, HandedFirst
<1>13. TakersFind'
  BY <1>1, <1>2 DEF AppInv, TakersFind
<1> QED BY <1>3, <1>4, <1>5, <1>6, <1>10, <1>11, <1>12, <1>13 DEF SysInv, AppInv

(***************************************************************************)
(* A step that neither posts nor takes a request                           *)
(***************************************************************************)
LEMMA WaitMoves ==
    ASSUME SysInv, QueueInv', TakersFind', UNCHANGED <<regVars, app, applied, known, meant, rpc_list>>,
           \A s \in Servers : /\ rd'[s].pc = "out" <=> rd[s].pc = "out"
                              /\ rd'[s].snum = rd[s].snum /\ rd'[s].got = rd[s].got,
           \A c \in Clients : /\ snd'[c].n = snd[c].n /\ snd'[c].snum = snd[c].snum
                              /\ snd'[c].pc = "add" <=> snd[c].pc = "add"
                              /\ snd'[c].pc # "out" => snd[c].pc # "out"
    PROVE  SysInv'
<1>1. AppInv
  BY DEF SysInv
<1>2. UNCHANGED <<service_num, service_name, reg, snum, query>>
  BY DEF regVars
<1>3. RegInv' /\ Counted' = Counted
  BY <1>2, RegSame DEF SysInv, Counted
<1>4. SysTyped' /\ ClientsInCall'
  BY <1>1, <1>2 DEF AppInv, SysTyped, ClientsInCall
<1>5. ReadersServe'
  BY <1>1, <1>2 DEF AppInv, ReadersServe
<1>6. KnownRight'
  BY <1>1, <1>2, <1>3 DEF AppInv, KnownRight
<1>7. \A s \in Servers : Handed(s)' = Handed(s)
  BY DEF Handed, AppliedNext
<1>8. \A m : Posted(m)' <=> Posted(m)
  BY SysAssumption DEF Posted, Msg
<1>9. \A m : For(m)' = For(m)
  BY DEF For
<1>10. QueuedRight'
  BY <1>1, <1>2, <1>3, <1>8, <1>9 DEF AppInv, QueuedRight
<1>11. HandedRight' /\ HandedOrdered' /\ QueuesOrdered' /\ HandedOnce'
  BY <1>1, <1>7, <1>8, <1>9
     DEF AppInv, HandedRight, HandedOrdered, QueuesOrdered, HandedOnce, Ordered, Precedes
<1>12. HandedFirst'
  BY <1>1, <1>2, <1>7 DEF AppInv, HandedFirst, Precedes
<1> QED BY <1>3, <1>4, <1>5, <1>6, <1>10, <1>11, <1>12 DEF SysInv, AppInv

(***************************************************************************)
(* The steps of the table                                                  *)
(***************************************************************************)
LEMMA RegisterInv ==
    ASSUME OneAtATime, SysInv, NEW s \in Servers, Register(s)
    PROVE  SysInv'
<1>1. /\ RegBegin(s) /\ app[s] = "menu" /\ reg[s].pc = "idle"
      /\ UNCHANGED <<service_num, service_name, query>> /\ UNCHANGED queueVars
      /\ UNCHANGED <<app, applied, known, meant>>
  BY DEF Register, RegBegin, sysVars
<1>2. RegInv' /\ RegTypeOK /\ SysTyped /\ ReadersServe /\ ClientsInCall
  BY <1>1, RegBeginInv DEF SysInv, RegInv, AppInv
<1>3. Counted' = Counted /\ \A k \in Counted : service_name'[k] = service_name[k]
  BY <1>1 DEF Counted
<1>4. \A t \in Servers : t # s => reg'[t] = reg[t] /\ snum'[t] = snum[t]
  BY <1>1, <1>2 DEF RegBegin, RegTypeOK
<1>5. snum'[s] = snum[s] \/ snum'[s] = -1
  BY <1>1, <1>2 DEF RegBegin, RegTypeOK
<1>6. \A t \in Servers : app[t] = "reading" => reg'[t].pc = "idle" /\ snum'[t] = snum[t]
  BY <1>1, <1>2, <1>4 DEF ReadersServe
<1>7. \A t, u \in Servers : snum'[t] # -1 /\ snum'[t] = snum'[u] => t = u
  BY <1>2, <1>4, <1>5 DEF ReadersServe
<1>8. known' \in [Clients -> [Snums -> Names \cup {NoName}]]
  BY <1>1, <1>2 DEF SysTyped
<1>9. \A c \in Clients : snd[c].pc # "out" => query'[c].pc = "idle" /\ known'[c] = known[c]
  BY <1>1, <1>2 DEF ClientsInCall
<1> QED BY <1>1, <1>2, <1>3, <1>6, <1>7, <1>8, <1>9, TableMoves

\* The steps inside ku_binder_register.
LEMMA RegStepEffect ==
    ASSUME RegInv, NEW s \in Servers, RegStep(s)
    PROVE  /\ RegInv' /\ UNCHANGED query /\ reg[s].pc # "idle"
           /\ \A t \in Servers : t # s => reg'[t] = reg[t] /\ snum'[t] = snum[t]
           /\ snum'[s] \in {-1, snum[s]} \/ (snum'[s] = service_num /\ service_num \notin Counted)
<1>1. /\ RegTypeOK /\ reg[s].pc # "idle" /\ UNCHANGED query
      /\ RegStore(s) \/ RegScan(s) \/ RegLoad(s) \/ RegReturn(s)
  BY DEF RegInv, RegStep, RegStore, RegScan, RegLoad, RegReturn
<1>2. RegInv'
  BY <1>1, RegStoreInv, RegScanInv, RegLoadInv, RegReturnInv
<1>3. \A t \in Servers : t # s => reg'[t] = reg[t] /\ snum'[t] = snum[t]
  BY <1>1 DEF RegStore, RegScan, RegLoad, RegReturn, RegTypeOK
<1>4. CASE RegReturn(s)
  <2>1. snum' = [snum EXCEPT ![s] = service_num] /\ service_num \notin Counted
    BY <1>1, <1>4, TheOne, RegReturnInv
  <2> QED BY <1>1, <1>2, <1>3, <2>1 DEF RegTypeOK
<1>5. CASE RegStore(s) \/ RegScan(s) \/ RegLoad(s)
  <2>1. snum'[s] \in {-1, snum[s]}
    BY <1>1, <1>5 DEF RegStore, RegScan, RegLoad, RegTypeOK
  <2> QED BY <1>1, <1>2, <1>3, <2>1
<1> QED BY <1>1, <1>4, <1>5

LEMMA CountedStays ==
    ASSUME RegInv, RegInv', [RegNext]_regVars
    PROVE  Counted \subseteq Counted' /\ \A k \in Counted : service_name'[k] = service_name[k]
<1>1. service_num' >= service_num /\ \A i \in Counted : NameAt(i)' = NameAt(i)
  BY GrowsByStep DEF TableGrowsStep, Counted
<1>2. service_num \in Nat /\ service_num' \in Nat
  BY RegAssumption DEF RegInv, RegTypeOK
<1>3. Counted \subseteq Counted'
  <2>1. \A m, n \in Nat : n >= m => 0..m-1 \subseteq 0..n-1
    BY SMT
  <2> QED BY <1>1, <1>2, <2>1 DEF Counted
<1>4. /\ \A i \in Counted : NameAt(i) = service_name[i] /\ i < SNUM_MAX
  BY CountedFacts DEF RegInv, RegTypeOK
<1>5. \A i \in Counted : NameAt(i)' = service_name'[i]
  BY <1>4 DEF NameAt
<1> QED BY <1>1, <1>3, <1>4, <1>5

LEMMA RegistrationInv ==
    ASSUME SysInv, NEW s \in Servers, Registration(s)
    PROVE  SysInv'
<1>1. RegStep(s) /\ UNCHANGED queueVars /\ UNCHANGED <<app, applied, known, meant>>
  BY DEF Registration, sysVars
<1>2. RegInv /\ SysTyped /\ ReadersServe /\ ClientsInCall /\ RegTypeOK /\ NumbersCounted
  BY DEF SysInv, AppInv, RegInv
<1>3. /\ RegInv' /\ UNCHANGED query /\ reg[s].pc # "idle"
      /\ \A t \in Servers : t # s => reg'[t] = reg[t] /\ snum'[t] = snum[t]
      /\ snum'[s] \in {-1, snum[s]} \/ (snum'[s] = service_num /\ service_num \notin Counted)
  BY <1>1, <1>2, RegStepEffect
<1>4. Counted \subseteq Counted' /\ \A k \in Counted : service_name'[k] = service_name[k]
  BY <1>1, <1>2, <1>3, CountedStays DEF RegNext
<1>5. \A t \in Servers : app[t] = "reading" => reg'[t].pc = "idle" /\ snum'[t] = snum[t]
  BY <1>2, <1>3 DEF ReadersServe
<1>6. \A t, u \in Servers : snum'[t] # -1 /\ snum'[t] = snum'[u] => t = u
  <2>1. \A t \in Servers : snum[t] # -1 => snum[t] \in Counted
    BY <1>2 DEF NumbersCounted
  <2> QED BY <1>2, <1>3, <2>1 DEF ReadersServe
<1>7. known' \in [Clients -> [Snums -> Names \cup {NoName}]]
  BY <1>1, <1>2 DEF SysTyped
<1>8. \A c \in Clients : snd[c].pc # "out" => query'[c].pc = "idle" /\ known'[c] = known[c]
  BY <1>1, <1>2, <1>3 DEF ClientsInCall
<1> QED BY <1>1, <1>3, <1>4, <1>5, <1>6, <1>7, <1>8, TableMoves

LEMMA RestartServerInv ==
    ASSUME SysInv, NEW s \in Servers, RestartServer(s)
    PROVE  SysInv'
<1>1. /\ snum' = [snum EXCEPT ![s] = -1] /\ app[s] = "menu"
      /\ UNCHANGED <<service_num, service_name, reg, query>> /\ UNCHANGED queueVars
      /\ UNCHANGED <<app, applied, known, meant>>
  BY DEF RestartServer
<1>2. RegInv' /\ RegTypeOK /\ SysTyped /\ ReadersServe /\ ClientsInCall
  BY <1>1, NumberForgotten DEF SysInv, RegInv, AppInv
<1>3. Counted' = Counted /\ \A k \in Counted : service_name'[k] = service_name[k]
  BY <1>1 DEF Counted
<1>4. snum'[s] = -1 /\ \A t \in Servers : t # s => snum'[t] = snum[t]
  BY <1>1, <1>2 DEF RegTypeOK
<1>5. \A t \in Servers : app[t] = "reading" => reg'[t].pc = "idle" /\ snum'[t] = snum[t]
  BY <1>1, <1>2, <1>4 DEF ReadersServe
<1>6. \A t, u \in Servers : snum'[t] # -1 /\ snum'[t] = snum'[u] => t = u
  BY <1>2, <1>4 DEF ReadersServe
<1>7. known' \in [Clients -> [Snums -> Names \cup {NoName}]]
  BY <1>1, <1>2 DEF SysTyped
<1>8. \A c \in Clients : snd[c].pc # "out" => query'[c].pc = "idle" /\ known'[c] = known[c]
  BY <1>1, <1>2 DEF ClientsInCall
<1> QED BY <1>1, <1>2, <1>3, <1>5, <1>6, <1>7, <1>8, TableMoves

\* A query leaves the table alone; its client is inside no other call.
LEMMA QueryMoves ==
    ASSUME SysInv, RegInv', NEW c \in Clients, snd[c].pc = "out" \/ query'[c].pc = "idle",
           snd[c].pc = "out" \/ known'[c] = known[c],
           \A d \in Clients : d # c => query'[d] = query[d] /\ known'[d] = known[d],
           UNCHANGED <<service_num, service_name, reg, snum>>, UNCHANGED queueVars,
           UNCHANGED <<app, applied, meant>>,
           known' \in [Clients -> [Snums -> Names \cup {NoName}]],
           \A k \in Snums : known'[c][k] # NoName =>
               known'[c][k] = known[c][k] \/ (k \in Counted /\ service_name[k] = known'[c][k])
    PROVE  SysInv'
<1>1. RegTypeOK /\ SysTyped /\ ReadersServe /\ ClientsInCall
  BY DEF SysInv, RegInv, AppInv
<1>2. Counted' = Counted /\ \A k \in Counted : service_name'[k] = service_name[k]
  BY DEF Counted
<1>3. \A t \in Servers : app[t] = "reading" => reg'[t].pc = "idle" /\ snum'[t] = snum[t]
  BY <1>1 DEF ReadersServe
<1>4. \A t, u \in Servers : snum'[t] # -1 /\ snum'[t] = snum'[u] => t = u
  BY <1>1 DEF ReadersServe
<1>5. \A d \in Clients : snd[d].pc # "out" => query'[d].pc = "idle" /\ known'[d] = known[d]
  BY <1>1 DEF ClientsInCall
<1>6. \A d \in Clients, k \in Snums : known'[d][k] # NoName =>
        known'[d][k] = known[d][k] \/ (k \in Counted /\ service_name[k] = known'[d][k])
  OBVIOUS
<1> QED BY <1>2, <1>3, <1>4, <1>5, <1>6, TableMoves

LEMMA AskNumberInv ==
    ASSUME SysInv, NEW c \in Clients, NEW n \in Names, AskNumber(c, n)
    PROVE  SysInv'
<1>1. /\ QueryBegin(c, n) /\ snd[c].pc = "out" /\ UNCHANGED queueVars
      /\ UNCHANGED <<app, applied, known, meant>> /\ UNCHANGED <<service_num, service_name, reg, snum>>
  BY DEF AskNumber, ClientIdle, QueryBegin, sysVars
<1>2. RegInv' /\ RegTypeOK /\ SysTyped
  BY <1>1, QueryBeginInv DEF SysInv, RegInv, AppInv
<1>3. \A d \in Clients : d # c => query'[d] = query[d]
  BY <1>1, <1>2 DEF QueryBegin, RegTypeOK
<1>4. known' \in [Clients -> [Snums -> Names \cup {NoName}]]
  BY <1>1, <1>2 DEF SysTyped
<1> QED BY <1>1, <1>2, <1>3, <1>4, QueryMoves

LEMMA AskingInv ==
    ASSUME SysInv, NEW c \in Clients, Asking(c)
    PROVE  SysInv'
<1>1. /\ QueryScan(c) /\ UNCHANGED queueVars /\ query[c].pc = "scan"
      /\ UNCHANGED <<app, applied, known, meant>> /\ UNCHANGED <<service_num, service_name, reg, snum>>
  BY DEF Asking, QueryScan, sysVars
<1>2. RegInv' /\ RegTypeOK /\ SysTyped /\ snd[c].pc = "out"
  BY <1>1, QueryScanInv DEF SysInv, RegInv, AppInv, ClientsInCall
<1>3. \A d \in Clients : d # c => query'[d] = query[d]
  BY <1>1, <1>2 DEF QueryScan, RegTypeOK
<1>4. known' \in [Clients -> [Snums -> Names \cup {NoName}]]
  BY <1>1, <1>2 DEF SysTyped
<1> QED BY <1>1, <1>2, <1>3, <1>4, QueryMoves

LEMMA AnsweredInv ==
    ASSUME SysInv, NEW c \in Clients, Answered(c)
    PROVE  SysInv'
<1>1. /\ QueryReturn(c) /\ UNCHANGED queueVars /\ query[c].pc = "scan"
      /\ known' = [known EXCEPT ![c] = Learnt(c)]
      /\ UNCHANGED <<app, applied, meant>> /\ UNCHANGED <<service_num, service_name, reg, snum>>
  BY DEF Answered, QueryReturn
<1>2. RegInv' /\ RegTypeOK /\ SysTyped /\ snd[c].pc = "out" /\ Found(c)
  BY <1>1, QueryReturnInv DEF SysInv, RegInv, AppInv, ClientsInCall, QueriesFound
<1>3. \A d \in Clients : d # c => query'[d] = query[d] /\ known'[d] = known[d]
  BY <1>1, <1>2 DEF QueryReturn, RegTypeOK, SysTyped
<1>4. known[c] \in [Snums -> Names \cup {NoName}] /\ query[c].name \in Names
  BY <1>2 DEF SysTyped, Found
<1>5. Learnt(c) \in [Snums -> Names \cup {NoName}]
  BY <1>4 DEF Learnt
<1>6. known' \in [Clients -> [Snums -> Names \cup {NoName}]] /\ known'[c] = Learnt(c)
  BY <1>1, <1>2, <1>5 DEF SysTyped
<1>7. ASSUME NEW k \in Snums
      PROVE  Learnt(c)[k] = known[c][k] \/ (k \in Counted /\ service_name[k] = Learnt(c)[k])
  <2>1. CASE query[c].ret = -1
    BY <2>1 DEF Learnt
  <2>2. CASE query[c].ret # -1
    <3>1. query[c].ret \in Counted /\ service_name[query[c].ret] = query[c].name
      BY <1>2, <2>2 DEF Found
    <3>2. Learnt(c)[k] = IF k = query[c].ret THEN query[c].name ELSE known[c][k]
      BY <1>4, <2>2 DEF Learnt
    <3> QED BY <3>1, <3>2
  <2> QED BY <2>1, <2>2
<1> QED BY <1>1, <1>2, <1>3, <1>6, <1>7, QueryMoves

(***************************************************************************)
(* The steps of a call that neither posts nor takes                        *)
(***************************************************************************)
LEMMA ReaderWaits ==
    ASSUME SysInv, QueueInv', NEW s \in Servers, NEW p, p # "out", rd[s].pc # "out",
           UNCHANGED <<regVars, sysVars, rpc_list, snd, oops>>, rd' = [rd EXCEPT ![s].pc = p],
           signals' = 0 => signals = 0 /\ (p = "take" => rpc_list[rd[s].snum] # <<>>)
    PROVE  SysInv'
<1>1. /\ UNCHANGED <<app, applied, known, meant>> /\ CallsTyped /\ TakersFind
  BY SysFacts DEF SysInv, AppInv, sysVars
<1>2. /\ \A t \in Servers : t # s => rd'[t] = rd[t]
      /\ rd'[s].pc = p /\ rd'[s].snum = rd[s].snum /\ rd'[s].got = rd[s].got
  BY <1>1, SysAssumption DEF CallsTyped
<1>3. TakersFind'
  BY <1>1, <1>2 DEF TakersFind
<1>4. \A t \in Servers : /\ rd'[t].pc = "out" <=> rd[t].pc = "out"
                         /\ rd'[t].snum = rd[t].snum /\ rd'[t].got = rd[t].got
  BY <1>2
<1>5. UNCHANGED <<regVars, app, applied, known, meant, rpc_list>>
  BY <1>1
<1> QED BY <1>3, <1>4, <1>5, WaitMoves

LEMMA ReadWaitInv ==
    ASSUME SysInv, NEW s \in Servers, UNCHANGED <<regVars, sysVars>>,
           ReadCheck(s) \/ ReadPrepare(s) \/ ReadRecheck(s) \/ ReadSchedule(s)
    PROVE  SysInv'
<1>1. s \in Readers /\ QueueInv
  BY SysAssumption DEF SysInv
<1>2. QueueInv'
  BY <1>1, ReadStepInv DEF ReadStep
<1>3. UNCHANGED <<rpc_list, snd, signals, oops>> /\ rd[s].pc # "out"
  BY DEF ReadCheck, ReadPrepare, ReadRecheck, ReadSchedule
<1>4. ListEmpty(s) <=> rpc_list[rd[s].snum] = <<>>
  BY <1>1, <1>3, ReaderFacts
<1>5. CASE ReadCheck(s)
  <2> DEFINE p == IF ListEmpty(s) THEN "prepare" ELSE "take"
  <2>1. rd' = [rd EXCEPT ![s].pc = p] /\ p # "out" /\ (p = "take" => ~ListEmpty(s))
    BY <1>5 DEF ReadCheck, MoveReader
  <2> HIDE DEF p
  <2> QED BY <1>2, <1>3, <1>4, <2>1, ReaderWaits
<1>6. CASE ReadPrepare(s)
  <2>1. rd' = [rd EXCEPT ![s].pc = "recheck"]
    BY <1>6 DEF ReadPrepare, MoveReader
  <2> QED BY <1>2, <1>3, <2>1, ReaderWaits
<1>7. CASE ReadRecheck(s)
  <2> DEFINE p == RecheckTo(s)
  <2>1. rd' = [rd EXCEPT ![s].pc = p] /\ p # "out" /\ (p = "take" => ~ListEmpty(s))
    BY <1>7 DEF ReadRecheck, RecheckTo, MoveReader
  <2> HIDE DEF p
  <2> QED BY <1>2, <1>3, <1>4, <2>1, ReaderWaits
<1>8. CASE ReadSchedule(s)
  <2> DEFINE p == IF Waiting(s) THEN "asleep" ELSE "prepare"
  <2>1. rd' = [rd EXCEPT ![s].pc = p] /\ p # "out" /\ p # "take"
    BY <1>8 DEF ReadSchedule, MoveReader
  <2> HIDE DEF p
  <2> QED BY <1>2, <1>3, <2>1, ReaderWaits
<1> QED BY <1>5, <1>6, <1>7, <1>8

LEMMA InterruptedInv ==
    ASSUME SysInv, NEW s \in Servers, Interrupted(s)
    PROVE  SysInv'
<1>1. s \in Readers /\ Signal(s) /\ UNCHANGED <<regVars, sysVars>> /\ QueueInv
  BY SysAssumption DEF SysInv, Interrupted
<1>2. QueueInv'
  BY <1>1, SignalInv
<1>3. signals' # 0
  <2>1. signals' = signals + 1 /\ signals \in 0..MaxSignals
    BY <1>1 DEF Signal, QueueInv, QueuesTyped
  <2> QED BY <2>1, QueueAssumption, SMT
<1>4. rd[s].pc # "out" /\ rd' = [rd EXCEPT ![s].pc = "take"] /\ UNCHANGED <<rpc_list, snd, oops>>
  BY <1>1 DEF Signal, MoveReader
<1> QED BY <1>1, <1>2, <1>3, <1>4, ReaderWaits

LEMMA RpcWakes ==
    ASSUME SysInv, NEW c \in Clients, RpcWake(c), UNCHANGED <<regVars, sysVars>>
    PROVE  SysInv'
<1>1. c \in Senders /\ QueueInv /\ CallsTyped /\ TakersFind
  BY SysAssumption, SysFacts DEF SysInv, AppInv
<1>2. QueueInv'
  BY <1>1, RpcWakeInv
<1>3. /\ UNCHANGED <<rpc_list, signals, oops>> /\ UNCHANGED <<app, applied, known, meant>>
      /\ snd[c].pc = "wake" /\ snd' = [snd EXCEPT ![c].pc = "out"]
      /\ \A r \in Readers : rd'[r] \in {rd[r], Restart(r)}
  BY DEF RpcWake, sysVars
<1>4. \A d \in Clients : /\ snd'[d].n = snd[d].n /\ snd'[d].snum = snd[d].snum
                         /\ snd'[d].pc = "add" <=> snd[d].pc = "add"
                         /\ snd'[d].pc # "out" => snd[d].pc # "out"
  BY <1>1, <1>3, SysAssumption DEF CallsTyped
<1>5. \A r \in Readers :
        /\ rd'[r].pc = rd[r].pc \/ (rd[r].pc = "asleep" /\ rd'[r].pc = "prepare")
        /\ rd'[r].snum = rd[r].snum /\ rd'[r].got = rd[r].got
  BY <1>1, <1>3 DEF CallsTyped, Restart
<1>6. TakersFind'
  BY <1>1, <1>3, <1>5, SysAssumption DEF TakersFind
<1>7. \A t \in Servers : /\ rd'[t].pc = "out" <=> rd[t].pc = "out"
                         /\ rd'[t].snum = rd[t].snum /\ rd'[t].got = rd[t].got
  BY <1>5, SysAssumption
<1>8. UNCHANGED <<regVars, app, applied, known, meant, rpc_list>>
  BY <1>3
<1> QED BY <1>2, <1>4, <1>6, <1>7, <1>8, WaitMoves

(***************************************************************************)
(* A step that leaves the queues and what the servers were handed alone    *)
(***************************************************************************)
LEMMA CallMoves ==
    ASSUME SysInv, UNCHANGED <<regVars, rpc_list>>, QueueInv',
           SysTyped', ClientsInCall', ReadersServe', KnownRight', TakersFind',
           \A s \in Servers : Handed(s)' = Handed(s),
           \A m : Posted(m) => Posted(m)' /\ For(m)' = For(m)
    PROVE  SysInv'
<1>1. AppInv /\ UNCHANGED <<service_num, service_name, rpc_list>>
  BY DEF SysInv, regVars
<1>2. RegInv' /\ Counted' = Counted
  BY <1>1, RegSame DEF SysInv, Counted
<1>3. QueuedRight'
  BY <1>1, <1>2 DEF AppInv, QueuedRight
<1>4. HandedRight' /\ HandedOrdered' /\ QueuesOrdered' /\ HandedOnce'
  BY <1>1 DEF AppInv, HandedRight, HandedOrdered, QueuesOrdered, HandedOnce, Ordered, Precedes
<1>5. HandedFirst'
  BY <1>1 DEF AppInv, HandedFirst, Precedes
<1> QED BY <1>1, <1>2, <1>3, <1>4, <1>5 DEF SysInv, AppInv

LEMMA ReadRequestInv ==
    ASSUME SysInv, NEW s \in Servers, ReadRequest(s)
    PROVE  SysInv'
<1>1. /\ app[s] = "menu" /\ reg[s].pc = "idle" /\ snum[s] # -1 /\ ReadCall(s, snum[s])
      /\ app' = [app EXCEPT ![s] = "reading"] /\ UNCHANGED <<regVars, applied, known, meant>>
  BY DEF ReadRequest, MayRead
<1>2. /\ SysTyped /\ CallsTyped /\ ReadersServe /\ ClientsInCall /\ KnownRight /\ TakersFind
      /\ NumbersCounted /\ QueueInv
  BY SysFacts DEF SysInv, AppInv, RegInv
<1>3. s \in Readers /\ snum[s] \in Snums
  BY <1>1, <1>2, SysFacts, SysAssumption DEF NumbersCounted
<1>4. QueueInv'
  BY <1>1, <1>2, <1>3, ReadCallInv
<1>5. /\ UNCHANGED <<rpc_list, snd, signals, oops>> /\ rd[s].pc = "out"
      /\ rd' = [rd EXCEPT ![s].pc = "check", ![s].snum = snum[s]]
      /\ UNCHANGED <<service_num, service_name, reg, snum, query>>
  BY <1>1 DEF ReadCall, regVars
<1>6. /\ rd'[s].pc = "check" /\ rd'[s].snum = snum[s] /\ app'[s] = "reading"
      /\ \A t \in Servers : t # s => rd'[t] = rd[t] /\ app'[t] = app[t]
  BY <1>1, <1>2, <1>3, <1>5, SysAssumption DEF CallsTyped, SysTyped
<1>7. SysTyped' /\ ClientsInCall'
  BY <1>1, <1>2, <1>5 DEF SysTyped, ClientsInCall
<1>8. ReadersServe'
  <2>1. ASSUME NEW t \in Servers
        PROVE  /\ rd'[t].pc # "out" => app'[t] = "reading"
               /\ app'[t] = "reading" =>
                    /\ reg'[t].pc = "idle" /\ snum'[t] # -1 /\ rd'[t].snum = snum'[t]
                    /\ rd'[t].pc = "out" => rd'[t].got \in Msg
    <3>1. CASE t = s
      BY <1>1, <1>5, <1>6, <3>1
    <3>2. CASE t # s
      <4>1. rd'[t] = rd[t] /\ app'[t] = app[t] /\ reg'[t] = reg[t] /\ snum'[t] = snum[t]
        BY <1>5, <1>6, <3>2
      <4> QED BY <1>2, <4>1 DEF ReadersServe
    <3> QED BY <3>1, <3>2
  <2>2. \A t, u \in Servers : snum'[t] # -1 /\ snum'[t] = snum'[u] => t = u
    BY <1>2, <1>5 DEF ReadersServe
  <2> QED BY <2>1, <2>2 DEF ReadersServe
<1>9. KnownRight' /\ TakersFind'
  BY <1>1, <1>2, <1>5, <1>6, ZenonT(60) DEF KnownRight, TakersFind, Counted
<1>10. \A t \in Servers : Handed(t)' = Handed(t)
  BY <1>1, <1>6 DEF Handed, AppliedNext
<1>11. \A m : Posted(m) => Posted(m)' /\ For(m)' = For(m)
  BY <1>1, <1>5 DEF Posted, For
<1> QED BY <1>1, <1>4, <1>5, <1>7, <1>8, <1>9, <1>10, <1>11, CallMoves

LEMMA HandleRequestInv ==
    ASSUME SysInv, NEW s \in Servers, HandleRequest(s)
    PROVE  SysInv'
<1>1. /\ app[s] = "reading" /\ rd[s].pc = "out"
      /\ applied' = [applied EXCEPT ![s] = AppliedNext(s)] /\ app' = [app EXCEPT ![s] = "menu"]
      /\ UNCHANGED regVars /\ UNCHANGED queueVars /\ UNCHANGED <<known, meant>>
  BY DEF HandleRequest
<1>2. /\ SysTyped /\ ReadersServe /\ ClientsInCall /\ KnownRight /\ TakersFind /\ QueueInv
      /\ Handed(s) \in Seq(Msg)
  BY SysFacts DEF SysInv, AppInv
<1>3. /\ UNCHANGED <<rpc_list, wqueue, lock, rd, snd, signals, oops, accepted, taken>>
      /\ UNCHANGED <<service_num, service_name, reg, snum, query>>
  BY <1>1 DEF queueVars, regVars
<1>4. Handed(s) = AppliedNext(s)
  BY <1>1 DEF Handed
<1>5. /\ applied'[s] = Handed(s) /\ app'[s] = "menu"
      /\ \A t \in Servers : t # s => applied'[t] = applied[t] /\ app'[t] = app[t]
  BY <1>1, <1>2, <1>4 DEF SysTyped
<1>6. SysTyped' /\ ClientsInCall'
  BY <1>1, <1>2, <1>3, <1>4 DEF SysTyped, ClientsInCall
<1>7. ReadersServe' /\ KnownRight' /\ TakersFind'
  BY <1>1, <1>2, <1>3, <1>5 DEF ReadersServe, KnownRight, TakersFind, Counted
<1>8. \A t \in Servers : Handed(t)' = Handed(t)
  BY <1>1, <1>3, <1>5 DEF Handed, AppliedNext
<1>9. \A m : Posted(m) => Posted(m)' /\ For(m)' = For(m)
  BY <1>1, <1>3 DEF Posted, For
<1>10. QueueInv'
  BY <1>1, <1>2, QueueSame
<1> QED BY <1>1, <1>3, <1>6, <1>7, <1>8, <1>9, <1>10, CallMoves

LEMMA SendRequestInv ==
    ASSUME SysInv, NEW c \in Clients, NEW k \in Snums, SendRequest(c, k)
    PROVE  SysInv'
<1>1. /\ query[c].pc = "idle" /\ known[c][k] # NoName /\ RpcCall(c, k)
      /\ meant' = [meant EXCEPT ![c] = Append(@, known[c][k])]
      /\ UNCHANGED <<regVars, app, applied, known>>
  BY DEF SendRequest, ClientIdle, MaySend
<1>2. /\ SysTyped /\ CallsTyped /\ ReadersServe /\ ClientsInCall /\ KnownRight /\ TakersFind
      /\ QueueInv
  BY SysFacts DEF SysInv, AppInv
<1>3. c \in Senders /\ QueueInv'
  BY <1>1, <1>2, RpcCallInv, SysAssumption
<1>4. /\ UNCHANGED <<rpc_list, rd, signals, oops>> /\ snd[c].pc = "out"
      /\ snd' = [snd EXCEPT ![c] = [pc |-> "add", snum |-> k, n |-> snd[c].n + 1]]
      /\ UNCHANGED <<service_num, service_name, reg, snum, query>>
  BY <1>1 DEF RpcCall, regVars
<1> DEFINE b == meant[c]
           e == known[c][k]
           a == Append(b, e)
<1>5. b \in Seq(Names) /\ Len(b) = snd[c].n /\ e \in Names
  BY <1>1, <1>2 DEF SysTyped, ClientsInCall
<1>6. /\ a \in Seq(Names) /\ Len(a) = snd[c].n + 1 /\ a[snd[c].n + 1] = e
      /\ \A i \in 1..snd[c].n : a[i] = b[i]
  <2>1. /\ a \in Seq(Names) /\ Len(a) = Len(b) + 1 /\ a[Len(b) + 1] = e
        /\ \A i \in 1..Len(b) : a[i] = b[i]
    BY <1>5, AppendProperties
  <2> HIDE DEF a, b
  <2> QED BY <1>5, <2>1
<1>7. /\ snd'[c] = [pc |-> "add", snum |-> k, n |-> snd[c].n + 1] /\ meant'[c] = a
      /\ \A d \in Clients : d # c => snd'[d] = snd[d] /\ meant'[d] = meant[d]
  BY <1>1, <1>2, <1>4, SysAssumption DEF CallsTyped, SysTyped
<1>8. SysTyped'
  BY <1>1, <1>2, <1>6 DEF SysTyped
<1> HIDE DEF a, b, e
<1>9. ClientsInCall'
  BY <1>1, <1>2, <1>4, <1>6, <1>7 DEF ClientsInCall
<1>10. ReadersServe' /\ TakersFind'
  BY <1>1, <1>2, <1>4 DEF ReadersServe, TakersFind
<1>11. KnownRight'
  BY <1>1, <1>2, <1>4, <1>6, <1>7 DEF KnownRight, Counted, e
<1>12. \A t \in Servers : Handed(t)' = Handed(t)
  BY <1>1, <1>4 DEF Handed, AppliedNext
<1>13. ASSUME NEW m, Posted(m) PROVE Posted(m)' /\ For(m)' = For(m)
  <2>1. m.from \in Clients /\ m.n \in 1..MaxSends /\ m.n <= snd[m.from].n
    BY <1>13, SysAssumption DEF Posted, Msg
  <2>2. CASE m.from # c
    BY <1>7, <1>13, <2>1, <2>2 DEF Posted, For
  <2>3. CASE m.from = c
    <3>1. snd[c].n \in Nat
      BY <1>2, <2>3, <2>1, SysAssumption, QueueAssumption DEF CallsTyped
    <3>2. m.n \in 1..snd[c].n /\ m.n <= snd[c].n + 1 /\ m.n # snd[c].n + 1
      <4>1. \A i \in 1..MaxSends : \A n \in Nat : i <= n => i \in 1..n /\ i <= n + 1 /\ i # n + 1
        BY QueueAssumption, SMT
      <4> QED BY <2>1, <2>3, <3>1, <4>1
    <3> QED BY <1>6, <1>7, <1>13, <2>3, <3>2 DEF Posted, For, b
  <2> QED BY <2>2, <2>3
<1> QED BY <1>1, <1>3, <1>4, <1>8, <1>9, <1>10, <1>11, <1>12, <1>13, CallMoves

(***************************************************************************)
(* A request is posted                                                     *)
(***************************************************************************)
LEMMA RpcAdds ==
    ASSUME SysInv, NEW c \in Clients, RpcAdd(c), UNCHANGED <<regVars, sysVars>>
    PROVE  SysInv'
<1> DEFINE k == snd[c].snum
           q == rpc_list[k]
           m == Request(c)
           a == Append(q, m)
<1>1. /\ snd[c].pc = "add" /\ rpc_list' = [rpc_list EXCEPT ![k] = a]
      /\ snd' = [snd EXCEPT ![c].pc = "wake"]
      /\ UNCHANGED <<rd, signals, oops>> /\ UNCHANGED <<app, applied, known, meant>>
      /\ UNCHANGED <<service_num, service_name, reg, snum, query>>
  BY DEF RpcAdd, AddTail, sysVars, regVars
<1>2. /\ SysTyped /\ CallsTyped /\ AppInv /\ QueueInv /\ QueueTypeOK
  BY SysFacts DEF SysInv, QueueInv
<1>3. c \in Senders /\ QueueInv'
  BY <1>2, RpcAddInv, SysAssumption
<1>4. RegInv' /\ Counted' = Counted
  BY <1>1, RegSame DEF SysInv, Counted
<1>5. /\ k \in Snums /\ m \in Msg /\ m.from = c /\ m.n = snd[c].n
      /\ snd[c].n \in 1..MaxSends
  BY <1>1, <1>2, SysAssumption DEF CallsTyped, Request, Msg
<1>6. q \in Seq(Msg)
  BY <1>5, SysFacts
<1>7. /\ For(m) = service_name[k] /\ k \in Counted
  <2>1. meant[c][snd[c].n] = known[c][k] /\ known[c][k] # NoName
    BY <1>1, <1>2 DEF AppInv, KnownRight
  <2>2. service_name[k] = known[c][k] /\ k \in Counted
    BY <1>2, <1>5, <2>1 DEF AppInv, KnownRight
  <2> QED BY <1>5, <2>1, <2>2 DEF For
<1>8. a \in Seq(Msg) /\ ToSet(a) = ToSet(q) \cup {m} /\ a # <<>>
  BY <1>5, <1>6, Joining, AppendProperties
<1>9. /\ snd'[c].pc = "wake" /\ snd'[c].n = snd[c].n /\ snd'[c].snum = k
      /\ \A d \in Clients : d # c => snd'[d] = snd[d]
  BY <1>1, <1>2, SysAssumption DEF CallsTyped
<1>10. ASSUME NEW w, Posted(w) PROVE Posted(w)' /\ For(w)' = For(w) /\ Precedes(w, m)
  <2>1. w \in Msg /\ w.from \in Clients /\ w.n \in 1..MaxSends
    BY <1>10, SysAssumption DEF Posted, Msg
  <2>2. Posted(w)' /\ For(w)' = For(w)
    BY <1>1, <1>9, <1>10, <2>1 DEF Posted, For
  <2>3. w.from = c => w.n <= snd[c].n /\ w.n # snd[c].n
    BY <1>1, <1>10 DEF Posted
  <2>4. \A i, j \in 1..MaxSends : i <= j /\ i # j => i < j
    BY QueueAssumption, SMT
  <2>5. Precedes(w, m)
    BY <1>5, <2>1, <2>3, <2>4 DEF Precedes
  <2> QED BY <2>2, <2>5
<1>11. ASSUME NEW w, w = m PROVE Posted(w)' /\ For(w)' = service_name[k]
  <2>1. \A i \in 1..MaxSends : i <= i
    BY QueueAssumption, SMT
  <2>2. w \in Msg /\ w.from = c /\ w.n = snd'[c].n /\ w.n <= snd'[c].n
    BY <1>5, <1>9, <1>11, <2>1
  <2>3. Posted(w)'
    BY <1>9, <2>2 DEF Posted
  <2>4. For(w)' = service_name[k]
    BY <1>1, <1>7, <1>11 DEF For
  <2> QED BY <2>3, <2>4
<1>12. \A w \in ToSet(q) : Posted(w) /\ For(w) = service_name[k]
  BY <1>2, <1>5 DEF AppInv, QueuedRight
<1>13. Ordered(q) /\ Ordered(a)
  BY <1>2, <1>5, <1>6, <1>10, <1>12, OrderedJoin DEF AppInv, QueuesOrdered
<1> HIDE DEF a, m
<1>14. rpc_list'[k] = a /\ \A j \in Snums : j # k => rpc_list'[j] = rpc_list[j]
  BY <1>1, <1>2, <1>5 DEF QueueTypeOK
<1>15. SysTyped' /\ ClientsInCall' /\ ReadersServe'
  BY <1>1, <1>2, <1>9 DEF AppInv, SysTyped, ClientsInCall, ReadersServe
<1>16. KnownRight'
  BY <1>1, <1>2, <1>4, <1>9 DEF AppInv, KnownRight
<1>17. \A s \in Servers : Handed(s)' = Handed(s)
  BY <1>1 DEF Handed, AppliedNext
<1>18. QueuedRight'
  <2> SUFFICES ASSUME NEW j \in Snums, NEW w \in ToSet(rpc_list'[j])
               PROVE  Posted(w)' /\ j \in Counted /\ For(w)' = service_name[j]
    BY <1>1, <1>4 DEF QueuedRight
  <2>1. CASE w \in ToSet(rpc_list[j])
    <3>1. Posted(w) /\ j \in Counted /\ For(w) = service_name[j]
      BY <1>2, <2>1 DEF AppInv, QueuedRight
    <3> QED BY <1>10, <3>1
  <2>2. CASE w \notin ToSet(rpc_list[j])
    <3>1. j = k /\ w = m
      BY <1>8, <1>14, <2>2
    <3> QED BY <1>7, <1>11, <3>1
  <2> QED BY <2>1, <2>2
<1>19. \A s \in Servers : \A w \in ToSet(Handed(s)) : Posted(w) /\ For(w) = NameOf[s]
  BY <1>2 DEF AppInv, HandedRight
<1>20. HandedRight'
  <2> SUFFICES ASSUME NEW s \in Servers, NEW w \in ToSet(Handed(s))
               PROVE  Posted(w)' /\ For(w)' = NameOf[s]
    BY <1>17 DEF HandedRight
  <2> QED BY <1>10, <1>19
<1>21. QueuesOrdered'
  BY <1>2, <1>13, <1>14 DEF AppInv, QueuesOrdered, Ordered, Precedes
<1>22. HandedOrdered' /\ HandedOnce'
  BY <1>2, <1>17 DEF AppInv, HandedOrdered, HandedOnce, Ordered, Precedes
<1>23. HandedFirst'
  <2> SUFFICES ASSUME NEW s \in Servers, NEW j \in Snums, service_name[j] = NameOf[s],
                      NEW w \in ToSet(Handed(s)), NEW x \in ToSet(rpc_list'[j])
               PROVE  Precedes(w, x)
    BY <1>1, <1>17 DEF HandedFirst, Precedes
  <2>1. CASE x \in ToSet(rpc_list[j])
    BY <1>2, <2>1 DEF AppInv, HandedFirst
  <2>2. CASE x \notin ToSet(rpc_list[j])
    <3>1. x = m
      BY <1>8, <1>14, <2>2
    <3> QED BY <1>10, <1>19, <3>1
  <2> QED BY <2>1, <2>2
<1>24. TakersFind'
  <2>1. TakersFind /\ \A s \in Servers : rd[s].pc = "take" => rd[s].snum \in Snums
    BY <1>2, SysAssumption DEF AppInv, CallsTyped
  <2> QED BY <1>1, <1>8, <1>14, <2>1 DEF TakersFind
<1> QED BY <1>3, <1>4, <1>15, <1>16, <1>18, <1>20, <1>21, <1>22, <1>23, <1>24 DEF SysInv, AppInv

(***************************************************************************)
(* A request is taken                                                      *)
(***************************************************************************)
LEMMA ReadTakes ==
    ASSUME SysInv, NEW s \in Servers, ReadTake(s), UNCHANGED <<regVars, sysVars>>
    PROVE  SysInv'
<1> DEFINE k == rd[s].snum
           q == rpc_list[k]
           h == Head(q)
           t == Tail(q)
<1>1. /\ rd[s].pc = "take" /\ UNCHANGED <<snd, signals>> /\ UNCHANGED <<app, applied, known, meant>>
      /\ UNCHANGED <<service_num, service_name, reg, snum, query>>
  BY DEF ReadTake, sysVars, regVars
<1>2. /\ SysTyped /\ CallsTyped /\ AppInv /\ RegInv /\ QueueInv /\ QueueTypeOK
  BY SysFacts DEF SysInv, QueueInv
<1>3. s \in Readers /\ QueueInv'
  BY <1>2, ReadStepInv, SysAssumption DEF ReadStep
<1>4. RegInv' /\ Counted' = Counted
  BY <1>1, RegSame DEF SysInv, Counted
<1>5. /\ app[s] = "reading" /\ snum[s] = k /\ k # -1
      /\ k \in Counted /\ service_name[k] = NameOf[s] /\ k \in Snums
  <2>1. app[s] = "reading" /\ snum[s] = k /\ k # -1
    BY <1>1, <1>2 DEF AppInv, ReadersServe
  <2> QED BY <1>2, <2>1, SysFacts DEF RegInv, NumbersCounted
<1>6. CASE ListEmpty(s)
  <2>1. UNCHANGED <<rpc_list, rd>>
    BY <1>6 DEF ReadTake
  <2>2. q = <<>>
    BY <1>1, <1>2, <1>3, <1>6, ReaderFacts
  <2>3. TakersFind'
    BY <1>1, <1>2, <2>2 DEF AppInv, TakersFind
  <2>4. UNCHANGED <<regVars, app, applied, known, meant, rpc_list>>
    BY <1>1, <2>1
  <2>5. \A u \in Servers : /\ rd'[u].pc = "out" <=> rd[u].pc = "out"
                           /\ rd'[u].snum = rd[u].snum /\ rd'[u].got = rd[u].got
    BY <2>1
  <2> QED BY <1>1, <1>3, <2>3, <2>4, <2>5, WaitMoves
<1>7. CASE ~ListEmpty(s)
  <2>1. /\ rpc_list' = [rpc_list EXCEPT ![k] = t]
        /\ rd' = [rd EXCEPT ![s].pc = "out", ![s].got = h] /\ UNCHANGED oops
    BY <1>7 DEF ReadTake, Rest
  <2>2. q # <<>> /\ q \in Seq(Msg) /\ Ordered(q)
    BY <1>1, <1>2, <1>3, <1>5, <1>7, ReaderFacts, SysFacts DEF AppInv, QueuesOrdered
  <2>3. /\ h \in Msg /\ h \in ToSet(q)
        /\ t \in Seq(Msg) /\ Ordered(t) /\ ToSet(t) \subseteq ToSet(q)
        /\ \A w \in ToSet(t) : Precedes(h, w)
    BY <2>2, OrderedLeave
  <2> HIDE DEF h, t
  <2>4. /\ rpc_list'[k] = t /\ \A j \in Snums : j # k => rpc_list'[j] = rpc_list[j]
        /\ rd'[s].pc = "out" /\ rd'[s].snum = k /\ rd'[s].got = h
        /\ \A u \in Servers : u # s => rd'[u] = rd[u]
    BY <1>2, <1>3, <1>5, <2>1, SysAssumption DEF QueueTypeOK, CallsTyped
  <2>5. /\ Handed(s) = applied[s] /\ Handed(s)' = Append(Handed(s), h)
        /\ \A u \in Servers : u # s => Handed(u)' = Handed(u)
    BY <1>1, <1>5, <2>4 DEF Handed, AppliedNext
  <2>6. /\ Posted(h) /\ For(h) = service_name[k]
        /\ \A u \in Servers : \A w \in ToSet(Handed(u)) :
             Posted(w) /\ For(w) = NameOf[u] /\ (service_name[k] = NameOf[u] => Precedes(w, h))
    BY <1>2, <1>5, <2>3 DEF AppInv, QueuedRight, HandedRight, HandedFirst
  <2>7. /\ Handed(s) \in Seq(Msg) /\ Ordered(Handed(s))
        /\ ToSet(Append(Handed(s), h)) = ToSet(Handed(s)) \cup {h}
        /\ Ordered(Append(Handed(s), h))
    BY <1>2, <1>5, <2>3, <2>6, SysFacts, OrderedJoin, Joining DEF AppInv, HandedOrdered
  <2>8. \A u \in Servers : \A w \in ToSet(Handed(u)') : w \in ToSet(Handed(u)) \/ (u = s /\ w = h)
    BY <2>5, <2>7
  <2>9. \A j \in Snums : \A w \in ToSet(rpc_list'[j]) :
          w \in ToSet(rpc_list[j]) /\ (j = k => Precedes(h, w))
    BY <2>3, <2>4
  <2>10. SysTyped' /\ ClientsInCall' /\ KnownRight'
    BY <1>1, <1>2, <1>4 DEF AppInv, SysTyped, ClientsInCall, KnownRight
  <2>11. ReadersServe'
    <3>1. ASSUME NEW u \in Servers
          PROVE  /\ rd'[u].pc # "out" => app'[u] = "reading"
                 /\ app'[u] = "reading" =>
                      /\ reg'[u].pc = "idle" /\ snum'[u] # -1 /\ rd'[u].snum = snum'[u]
                      /\ rd'[u].pc = "out" => rd'[u].got \in Msg
      <4>1. CASE u = s
        BY <1>1, <1>2, <1>5, <2>3, <2>4, <4>1 DEF AppInv, ReadersServe
      <4>2. CASE u # s
        BY <1>1, <1>2, <2>4, <4>2 DEF AppInv, ReadersServe
      <4> QED BY <4>1, <4>2
    <3>2. \A u, v \in Servers : snum'[u] # -1 /\ snum'[u] = snum'[v] => u = v
      BY <1>1, <1>2 DEF AppInv, ReadersServe
    <3> QED BY <3>1, <3>2 DEF ReadersServe
  <2>12. \A w : Posted(w)' = Posted(w) /\ For(w)' = For(w)
    BY <1>1 DEF Posted, For
  <2>13. QueuedRight'
    BY <1>1, <1>2, <1>4, <2>9, <2>12 DEF AppInv, QueuedRight
  <2>14. HandedRight'
    BY <1>5, <2>6, <2>8, <2>12 DEF HandedRight
  <2>15. QueuesOrdered'
    BY <1>2, <2>3, <2>4 DEF AppInv, QueuesOrdered, Ordered, Precedes
  <2>16. HandedOrdered'
    BY <1>2, <2>5, <2>7 DEF AppInv, HandedOrdered, Ordered, Precedes
  <2>17. HandedFirst'
    <3> SUFFICES ASSUME NEW u \in Servers, NEW j \in Snums, service_name[j] = NameOf[u],
                        NEW w \in ToSet(Handed(u)'), NEW x \in ToSet(rpc_list'[j])
                 PROVE  Precedes(w, x)
      BY <1>1 DEF HandedFirst, Precedes
    <3>1. x \in ToSet(rpc_list[j]) /\ j \in Counted
      BY <1>2, <2>9 DEF AppInv, QueuedRight
    <3>2. CASE w \in ToSet(Handed(u))
      BY <1>2, <3>1, <3>2 DEF AppInv, HandedFirst
    <3>3. CASE u = s /\ w = h
      <4>1. j = k
        BY <1>2, <1>5, <3>1, <3>3 DEF RegInv, NamesDistinct
      <4> QED BY <2>9, <3>3, <4>1
    <3> QED BY <2>8, <3>2, <3>3
  <2>18. \A u \in Servers : h \notin ToSet(Handed(u))
    <3> SUFFICES ASSUME NEW u \in Servers, h \in ToSet(Handed(u)) PROVE FALSE
      OBVIOUS
    <3>1. h.n < h.n
      BY <2>6 DEF Precedes
    <3>2. h.n \in 1..MaxSends
      BY <2>3 DEF Msg
    <3> QED BY <3>1, <3>2, QueueAssumption, SMT
  <2>19. HandedOnce'
    <3> SUFFICES ASSUME NEW u \in Servers, NEW v \in Servers,
                        NEW w \in ToSet(Handed(u)'), w \in ToSet(Handed(v)')
                 PROVE  u = v
      BY DEF HandedOnce
    <3> QED BY <1>2, <2>8, <2>18 DEF AppInv, HandedOnce
  <2>20. TakersFind'
    <3> SUFFICES ASSUME signals = 0, NEW u \in Servers, rd'[u].pc = "take"
                 PROVE  rpc_list'[rd'[u].snum] # <<>>
      BY <1>1, <1>2, <2>1 DEF AppInv, TakersFind
    <3>1. u # s /\ rd'[u] = rd[u]
      BY <2>4
    <3>2. snum[u] = rd[u].snum /\ snum[u] # -1 /\ rd[u].snum \in Snums
      BY <1>2, <3>1, SysAssumption DEF AppInv, ReadersServe, CallsTyped
    <3>3. rd[u].snum # k
      BY <1>2, <1>5, <3>1, <3>2 DEF AppInv, ReadersServe
    <3> QED BY <1>2, <2>4, <3>1, <3>2, <3>3 DEF AppInv, TakersFind
  <2> QED BY <1>3, <1>4, <2>10, <2>11, <2>13, <2>14, <2>15, <2>16, <2>17, <2>19, <2>20
          DEF SysInv, AppInv
<1> QED BY <1>6, <1>7

(***************************************************************************)
(* Every step keeps the invariant                                          *)
(***************************************************************************)
LEMMA SysInitInv == SysInit => SysInv
<1> SUFFICES ASSUME SysInit PROVE SysInv
  OBVIOUS
<1>1. RegInit /\ QueueInit
  BY DEF SysInit
<1>2. RegInv /\ QueueInv
  BY <1>1, RegInitInv, QueueInitInv
<1>3. /\ app = [s \in Servers |-> "menu"] /\ applied = [s \in Servers |-> <<>>]
      /\ known = [c \in Clients |-> [k \in Snums |-> NoName]] /\ meant = [c \in Clients |-> <<>>]
      /\ rpc_list = [k \in Snums |-> <<>>] /\ oops = FALSE
      /\ rd = [r \in Servers |-> [pc |-> "out", snum |-> -1, got |-> NoMsg]]
      /\ snd = [c \in Clients |-> [pc |-> "out", snum |-> -1, n |-> 0]]
      /\ snum = [s \in Servers |-> -1]
  BY <1>1, SysAssumption DEF SysInit, RegInit, QueueInit
<1>4. /\ ToSet(<<>>) = {} /\ DOMAIN <<>> = {} /\ Len(<<>>) = 0 /\ \A S : <<>> \in Seq(S)
  BY EmptySeq DEF ToSet
<1>5. SysTyped /\ ClientsInCall
  BY <1>3, <1>4 DEF SysTyped, ClientsInCall
<1>6. ReadersServe /\ KnownRight /\ TakersFind
  BY <1>3 DEF ReadersServe, KnownRight, TakersFind
<1>7. \A s \in Servers : Handed(s) = <<>>
  BY <1>3 DEF Handed
<1>8. Ordered(<<>>)
  BY <1>4 DEF Ordered
<1>9. QueuedRight /\ HandedRight /\ QueuesOrdered /\ HandedOrdered /\ HandedFirst /\ HandedOnce
  BY <1>3, <1>4, <1>7, <1>8
     DEF QueuedRight, HandedRight, QueuesOrdered, HandedOrdered, HandedFirst, HandedOnce
<1> QED BY <1>2, <1>5, <1>6, <1>9 DEF SysInv, AppInv

LEMMA SysSame == ASSUME SysInv, UNCHANGED allVars PROVE SysInv'
<1>1. /\ UNCHANGED <<regVars, app, applied, known, meant, rpc_list>>
      /\ UNCHANGED queueVars /\ UNCHANGED <<rd, snd, signals, oops>>
  BY DEF allVars, sysVars, queueVars
<1>2. QueueInv' /\ TakersFind'
  BY <1>1, QueueSame DEF SysInv, AppInv, TakersFind
<1> QED BY <1>1, <1>2, WaitMoves

LEMMA ServerInv ==
    ASSUME SysInv, NEW s \in Servers, ServerStep(s)
    PROVE  SysInv'
<1>1. CASE Registration(s)
  BY <1>1, RegistrationInv
<1>2. CASE Reading(s)
  <2>1. ReadStep(s) /\ UNCHANGED <<regVars, sysVars>>
    BY <1>2 DEF Reading
  <2> QED BY <2>1, ReadWaitInv, ReadTakes DEF ReadStep
<1>3. CASE HandleRequest(s)
  BY <1>3, HandleRequestInv
<1> QED BY <1>1, <1>2, <1>3 DEF ServerStep

LEMMA ClientInv ==
    ASSUME SysInv, NEW c \in Clients, ClientStep(c)
    PROVE  SysInv'
<1>1. CASE Sending(c)
  <2>1. RpcStep(c) /\ UNCHANGED <<regVars, sysVars>>
    BY <1>1 DEF Sending
  <2> QED BY <2>1, RpcAdds, RpcWakes DEF RpcStep
<1>2. CASE Asking(c) \/ Answered(c)
  BY <1>2, AskingInv, AnsweredInv
<1> QED BY <1>1, <1>2 DEF ClientStep

LEMMA SysNextInv == ASSUME OneAtATime, SysInv, [SysNext]_allVars PROVE SysInv'
<1>1. ASSUME NEW s \in Servers, Register(s) \/ ReadRequest(s) \/ RestartServer(s) \/ Interrupted(s)
      PROVE  SysInv'
  BY <1>1, RegisterInv, ReadRequestInv, RestartServerInv, InterruptedInv
<1>2. ASSUME NEW s \in Servers, ServerStep(s) PROVE SysInv'
  BY <1>2, ServerInv
<1>3. ASSUME NEW c \in Clients, NEW n \in Names, AskNumber(c, n) PROVE SysInv'
  BY <1>3, AskNumberInv
<1>4. ASSUME NEW c \in Clients, NEW k \in Snums, SendRequest(c, k) PROVE SysInv'
  BY <1>4, SendRequestInv
<1>5. ASSUME NEW c \in Clients, ClientStep(c) PROVE SysInv'
  BY <1>5, ClientInv
<1> QED BY <1>1, <1>2, <1>3, <1>4, <1>5, SysSame DEF SysNext

(***************************************************************************)
(* Theorems                                                                *)
(***************************************************************************)
\* Table, queues and applications agree after every step.
THEOREM SysConsistency == ASSUME OneAtATime PROVE SysSpec => []SysInv
<1>1. SysInit => SysInv
  BY SysInitInv
<1>2. SysInv /\ [SysNext]_allVars => SysInv'
  BY SysNextInv
<1> QED BY <1>1, <1>2, PTL DEF SysSpec

LEMMA HandlersServe == ASSUME SysInv PROVE RightServer
<1> SUFFICES ASSUME NEW s \in Servers, NEW i \in DOMAIN applied[s]
             PROVE  LET m == applied[s][i]
                    IN  m # NoMsg /\ meant[m.from][m.n] = NameOf[s]
  BY DEF RightServer
<1> DEFINE m == applied[s][i]
<1>1. applied[s] \in Seq(Msg) /\ Handed(s) \in Seq(Msg) /\ HandedRight /\ ReadersServe
  BY SysFacts DEF SysInv, AppInv, SysTyped
<1>2. m \in ToSet(applied[s])
  BY DEF ToSet
<1>3. ToSet(applied[s]) \subseteq ToSet(Handed(s))
  <2>1. CASE app[s] = "reading" /\ rd[s].pc = "out"
    <3>1. rd[s].got \in Msg
      BY <1>1, <2>1 DEF ReadersServe
    <3>2. ToSet(Append(applied[s], rd[s].got)) = ToSet(applied[s]) \cup {rd[s].got}
      BY <1>1, <3>1, Joining
    <3> QED BY <2>1, <3>2 DEF Handed, AppliedNext
  <2>2. CASE ~(app[s] = "reading" /\ rd[s].pc = "out")
    BY <2>2 DEF Handed
  <2> QED BY <2>1, <2>2
<1> HIDE DEF m
<1>4. Posted(m) /\ For(m) = NameOf[s]
  BY <1>1, <1>2, <1>3 DEF HandedRight
<1>5. m.from # NoProc
  BY <1>4, QueueAssumption DEF Posted, Msg
<1>6. m # NoMsg
  BY <1>5 DEF NoMsg
<1> QED BY <1>4, <1>6 DEF For, m

\* The handler of a server runs only on requests meant for the name it registered.
THEOREM RequestsReachTheirServer == ASSUME OneAtATime PROVE SysSpec => []RightServer
  BY HandlersServe, SysConsistency, PTL

\* What was applied is a beginning of what was handed over, entry for entry.
LEMMA AppliedBegins ==
    ASSUME SysInv, NEW s \in Servers
    PROVE  /\ Handed(s) \in Seq(Msg) /\ Ordered(Handed(s))
           /\ \A i \in DOMAIN applied[s] :
                i \in DOMAIN Handed(s) /\ Handed(s)[i] = applied[s][i]
                /\ applied[s][i] \in ToSet(Handed(s))
<1>1. applied[s] \in Seq(Msg) /\ Handed(s) \in Seq(Msg) /\ Ordered(Handed(s)) /\ ReadersServe
  BY SysFacts DEF SysInv, AppInv, SysTyped, HandedOrdered
<1>2. \A i \in DOMAIN applied[s] : i \in DOMAIN Handed(s) /\ Handed(s)[i] = applied[s][i]
  <2>1. CASE app[s] = "reading" /\ rd[s].pc = "out"
    <3> DEFINE b == applied[s]
               e == rd[s].got
               a == Append(b, e)
    <3>1. e \in Msg /\ b \in Seq(Msg) /\ Handed(s) = a
      BY <1>1, <2>1 DEF ReadersServe, Handed, AppliedNext
    <3>2. a \in Seq(Msg) /\ Len(a) = Len(b) + 1 /\ \A i \in 1..Len(b) : a[i] = b[i]
      BY <3>1, AppendProperties
    <3> HIDE DEF a, b
    <3>3. Len(b) \in Nat /\ DOMAIN b = 1..Len(b) /\ DOMAIN a = 1..Len(a)
      BY <3>1, <3>2, PlacesOf
    <3>4. \A i \in 1..Len(b) : i \in 1..(Len(b) + 1)
      BY <3>3, SMT
    <3> QED BY <3>1, <3>2, <3>3, <3>4 DEF b
  <2>2. CASE ~(app[s] = "reading" /\ rd[s].pc = "out")
    BY <2>2 DEF Handed
  <2> QED BY <2>1, <2>2
<1> QED BY <1>1, <1>2 DEF ToSet

LEMMA HandlersInOrder == ASSUME SysInv PROVE AppliedInOrder
<1> SUFFICES ASSUME NEW s \in Servers, NEW t \in Servers,
                    NEW i \in DOMAIN applied[s], NEW j \in DOMAIN applied[t]
             PROVE  /\ applied[s][i] = applied[t][j] => s = t /\ i = j
                    /\ s = t /\ i < j /\ applied[s][i].from = applied[s][j].from =>
                         applied[s][i].n < applied[s][j].n
  BY DEF AppliedInOrder
<1>1. /\ Handed(s) \in Seq(Msg) /\ Ordered(Handed(s))
      /\ i \in DOMAIN Handed(s) /\ Handed(s)[i] = applied[s][i]
      /\ applied[s][i] \in ToSet(Handed(s)) /\ applied[t][j] \in ToSet(Handed(t))
      /\ j \in DOMAIN Handed(t) /\ Handed(t)[j] = applied[t][j]
  BY AppliedBegins
<1>2. ASSUME applied[s][i] = applied[t][j] PROVE s = t /\ i = j
  <2>1. s = t
    BY <1>1, <1>2 DEF SysInv, AppInv, HandedOnce
  <2> QED BY <1>1, <1>2, <2>1, OrderedOnce
<1>3. ASSUME s = t, i < j, applied[s][i].from = applied[s][j].from
      PROVE  applied[s][i].n < applied[s][j].n
  BY <1>1, <1>3 DEF Ordered, Precedes
<1> QED BY <1>2, <1>3

\* No request is applied twice, by one server or by two, and those of one client to
\* one server are applied in the order they were sent, across restarts and signals.
THEOREM RequestsAppliedInOrder == ASSUME OneAtATime PROVE SysSpec => []AppliedInOrder
  BY HandlersInOrder, SysConsistency, PTL

\* Without a signal no read reaches an empty list (ku_binder.c:136).
THEOREM OnlySignalsBreak == ASSUME OneAtATime PROVE SysSpec => []Survives
<1>1. SysInv => Survives
  <2>1. SysInv => TakersFind /\ signals \in 0..MaxSignals
    BY DEF SysInv, AppInv, QueueInv, QueuesTyped
  <2>2. \A n \in 0..MaxSignals : n = 0 \/ n > 0
    BY QueueAssumption, SMT
  <2> QED BY <2>1, <2>2 DEF TakersFind, Survives
<1> QED BY <1>1, SysConsistency, PTL

\* Types of the whole driver, and who is in the wait queues.
THEOREM SysTypes == ASSUME OneAtATime PROVE SysSpec => []TypeOK
<1>1. SysInv => TypeOK
  BY DEF SysInv, RegInv, QueueInv, TypeOK
<1> QED BY <1>1, SysConsistency, PTL

\* A request that was accepted is taken once, in order, or still waits: also under the
\* applications.
THEOREM SysFifo == ASSUME OneAtATime PROVE SysSpec => [](Fifo /\ NoLostWakeup)
<1>1. SysInv => Fifo /\ NoLostWakeup
  BY SleeperWoken DEF SysInv, QueueInv
<1> QED BY <1>1, SysConsistency, PTL

\* The number a server was given names its service, and counted names never move,
\* also when servers restart.
THEOREM SysNumbersHold == ASSUME OneAtATime PROVE SysSpec => []NumberMeansName
<1>1. SysInv => NumberMeansName
  BY NumbersMean DEF SysInv
<1> QED BY <1>1, SysConsistency, PTL

LEMMA GrowsBySysStep ==
    ASSUME SysInv, SysInv', [SysNext]_allVars
    PROVE  [TableGrowsStep]_regVars
<1>1. RegInv /\ RegInv'
  BY DEF SysInv
<1>2. CASE [RegNext]_regVars
  BY <1>1, <1>2, GrowsByStep
<1>3. ASSUME NEW s \in Servers, RestartServer(s) PROVE TableGrowsStep
  <2>1. UNCHANGED <<service_num, service_name>>
    BY <1>3 DEF RestartServer
  <2>2. service_num \in Nat
    BY <1>1, RegAssumption DEF RegInv, RegTypeOK
  <2>3. service_num >= service_num
    BY <2>2, SMT
  <2> QED BY <2>1, <2>3 DEF TableGrowsStep, NameAt
<1>4. ASSUME NEW s \in Servers,
             Register(s) \/ ReadRequest(s) \/ ServerStep(s) \/ Interrupted(s)
      PROVE  [RegNext]_regVars
  BY <1>4 DEF Register, ReadRequest, ServerStep, Registration, Reading, HandleRequest, Interrupted,
              RegNext
<1>5. ASSUME NEW c \in Clients,
             ClientStep(c) \/ (\E n \in Names : AskNumber(c, n)) \/ \E k \in Snums : SendRequest(c, k)
      PROVE  [RegNext]_regVars
  BY <1>5 DEF ClientStep, Asking, Answered, Sending, AskNumber, SendRequest, RegNext
<1>6. UNCHANGED allVars => UNCHANGED regVars
  BY DEF allVars
<1> QED BY <1>2, <1>3, <1>4, <1>5, <1>6 DEF SysNext

\* A counted name keeps its number whatever the applications do.
THEOREM SysNamesStay == ASSUME OneAtATime PROVE SysSpec => TableGrows
<1>1. SysInv /\ SysInv' /\ [SysNext]_allVars => [TableGrowsStep]_regVars
  BY GrowsBySysStep
<1> QED BY <1>1, SysConsistency, PTL DEF SysSpec, TableGrows, TableGrowsStep


(***************************************************************************)
(* The mapping, by name                                                    *)
(***************************************************************************)
BusDirectory == [i \in 1..service_num |-> service_name[i - 1]]
BusAsks == [c \in Clients |-> IF query[c].pc = "idle" THEN NoName ELSE query[c].name]
BusSent == [c \in Clients |-> IF snd[c].pc = "add" THEN snd[c].n - 1 ELSE snd[c].n]
BusQueue == [k \in Snums |-> Meant(rpc_list[k])]
BusServed == [s \in Servers |-> Meant(Handed(s))]

\* A step the bus does not see.
LEMMA BusSame ==
    ASSUME UNCHANGED <<BusDirectory, snum, Registering, restarts, BusAsks, known, BusSent,
                       BusQueue, BusServed>>
    PROVE  UNCHANGED Bus!busVars
  BY DEF Bus!busVars, Bus!dirVars, BusDirectory, BusAsks, BusSent, BusQueue, BusServed

\* Two functions that differ in one place at most.
LEMMA OneEntry ==
    ASSUME NEW S, NEW f, NEW g, f = [x \in S |-> f[x]], g = [x \in S |-> g[x]],
           NEW k \in S, \A j \in S : j # k => g[j] = f[j]
    PROVE  g = [f EXCEPT ![k] = g[k]]
  OBVIOUS

LEMMA BusFunctions ==
    /\ BusAsks = [c \in Clients |-> BusAsks[c]] /\ BusAsks' = [c \in Clients |-> BusAsks'[c]]
    /\ BusSent = [c \in Clients |-> BusSent[c]] /\ BusSent' = [c \in Clients |-> BusSent'[c]]
    /\ BusQueue = [k \in Snums |-> BusQueue[k]] /\ BusQueue' = [k \in Snums |-> BusQueue'[k]]
    /\ BusServed = [s \in Servers |-> BusServed[s]] /\ BusServed' = [s \in Servers |-> BusServed'[s]]
  BY DEF BusAsks, BusSent, BusQueue, BusServed

LEMMA ContainsMapped == \A q, e : Bus!Contains(q, e) <=> \E i \in 1..Len(q) : q[i] = e
  BY DEF Bus!Contains

(***************************************************************************)
(* The directory                                                           *)
(***************************************************************************)
LEMMA Places ==
    ASSUME NEW n \in Nat
    PROVE  /\ \A i \in 1..n : i - 1 \in 0..n-1 /\ (i - 1) + 1 = i
           /\ \A j \in 0..n-1 : j + 1 \in 1..n /\ (j + 1) - 1 = j
           /\ \A i \in 1..n+1 : i \in 1..n \/ i = n + 1
           /\ \A i \in 1..n : i \in 1..n+1
           /\ n + 1 \in 1..n+1 /\ (n + 1) - 1 = n
           /\ \A j \in Nat : j + 1 \in 1..n <=> j \in 0..n-1
  BY SMT

LEMMA DirectoryFacts ==
    ASSUME RegInv
    PROVE  /\ service_num \in Nat
           /\ BusDirectory \in Seq(Names) /\ Len(BusDirectory) = service_num
           /\ DOMAIN BusDirectory = 1..service_num
           /\ \A i \in 1..service_num : BusDirectory[i] = service_name[i - 1]
           /\ \A j \in Counted : BusDirectory[j + 1] = service_name[j]
           /\ \A x : Bus!Contains(BusDirectory, x) <=> \E j \in Counted : service_name[j] = x
<1>1. service_num \in Nat /\ \A j \in Counted : service_name[j] \in Names
  BY RegAssumption DEF RegInv, RegTypeOK, NamesDistinct
<1>2. \A i \in 1..service_num : service_name[i - 1] \in Names
  BY <1>1, Places DEF Counted
<1>3. BusDirectory \in [1..service_num -> Names]
  BY <1>2 DEF BusDirectory
<1>4. BusDirectory \in Seq(Names) /\ DOMAIN BusDirectory = 1..service_num
  BY <1>1, <1>3, SMT
<1>5. Len(BusDirectory) = service_num
  BY <1>1, <1>4, LenProperties
<1>6. \A i \in 1..service_num : BusDirectory[i] = service_name[i - 1]
  BY DEF BusDirectory
<1>7. \A j \in Counted : BusDirectory[j + 1] = service_name[j]
  BY <1>1, <1>6, Places DEF Counted
<1>8. ASSUME NEW x
      PROVE  (\E i \in 1..service_num : BusDirectory[i] = x) <=> \E j \in Counted : service_name[j] = x
  BY <1>1, <1>6, <1>7, Places DEF Counted
<1> QED BY <1>1, <1>4, <1>5, <1>6, <1>7, <1>8, ContainsMapped

DirectoryListed ==
    /\ BusDirectory \in Seq(Names) /\ Len(BusDirectory) = service_num
    /\ \A i \in 1..service_num : BusDirectory[i] = service_name[i - 1]

LEMMA DirectoryNext == RegInv' => DirectoryListed'
<1>1. RegInv => DirectoryListed
  BY DirectoryFacts DEF DirectoryListed
<1> QED BY <1>1, PTL

LEMMA DirectorySame ==
    ASSUME RegInv, UNCHANGED service_num, \A k \in Counted : service_name'[k] = service_name[k]
    PROVE  UNCHANGED BusDirectory
<1>1. service_num \in Nat
  BY DirectoryFacts
<1>2. \A i \in 1..service_num : service_name'[i - 1] = service_name[i - 1]
  BY <1>1, Places DEF Counted
<1> QED BY <1>2 DEF BusDirectory

(***************************************************************************)
(* Requests with the names they were meant for                             *)
(***************************************************************************)
\* Joining and leaving commute with a function applied to each entry.
LEMMA EachMapped ==
    ASSUME NEW S, NEW T, NEW g \in [S -> T], NEW q \in Seq(S)
    PROVE  LET mapped(r) == [i \in DOMAIN r |-> g[r[i]]]
           IN  /\ mapped(q) \in Seq(T) /\ Len(mapped(q)) = Len(q)
               /\ \A e \in S : mapped(Append(q, e)) = Append(mapped(q), g[e])
               /\ q # <<>> => /\ mapped(Tail(q)) = Tail(mapped(q))
                              /\ mapped(q) # <<>> /\ Head(mapped(q)) = g[Head(q)]
<1> DEFINE mapped(r) == [i \in DOMAIN r |-> g[r[i]]]
<1>1. ASSUME NEW r \in Seq(S)
      PROVE  /\ mapped(r) \in Seq(T) /\ Len(mapped(r)) = Len(r) /\ Len(r) \in Nat
             /\ \A i \in 1..Len(r) : mapped(r)[i] = g[r[i]]
  <2>1. Len(r) \in Nat /\ DOMAIN r = 1..Len(r) /\ \A i \in 1..Len(r) : r[i] \in S
    BY <1>1, LenProperties, ElementOfSeq
  <2> DEFINE b == mapped(r)
  <2>2. b \in [1..Len(r) -> T] /\ \A i \in 1..Len(r) : b[i] = g[r[i]]
    BY <2>1
  <2> HIDE DEF b
  <2>3. b \in Seq(T) /\ DOMAIN b = 1..Len(r)
    BY <2>1, <2>2, SMT
  <2>4. Len(b) = Len(r)
    BY <2>1, <2>3, LenProperties
  <2> QED BY <2>1, <2>2, <2>3, <2>4 DEF b
<1>2. ASSUME NEW e \in S PROVE mapped(Append(q, e)) = Append(mapped(q), g[e])
  <2> DEFINE a == Append(q, e)
             b == mapped(q)
             f == g[e]
             c == Append(b, f)
             d == mapped(a)
  <2>1. a \in Seq(S) /\ Len(a) = Len(q) + 1 /\ (\A i \in 1..Len(q) : a[i] = q[i]) /\ a[Len(q) + 1] = e
    BY AppendProperties
  <2> HIDE DEF a
  <2>2. /\ b \in Seq(T) /\ Len(b) = Len(q) /\ Len(q) \in Nat
        /\ \A i \in 1..Len(q) : b[i] = g[q[i]]
    BY <1>1
  <2>3. d \in Seq(T) /\ Len(d) = Len(q) + 1 /\ \A i \in 1..Len(q)+1 : d[i] = g[a[i]]
    BY <1>1, <2>1
  <2> HIDE DEF b, d
  <2>4. f \in T
    OBVIOUS
  <2> HIDE DEF f
  <2>5. c \in Seq(T) /\ Len(c) = Len(b) + 1 /\ (\A i \in 1..Len(b) : c[i] = b[i]) /\ c[Len(b) + 1] = f
    BY <2>2, <2>4, AppendProperties
  <2> HIDE DEF c
  <2>6. \A i \in 1..Len(d) : d[i] = c[i]
    <3> SUFFICES ASSUME NEW i \in 1..Len(d) PROVE d[i] = c[i]
      OBVIOUS
    <3>1. CASE i \in 1..Len(q)
      <4>1. d[i] = g[q[i]]
        BY <2>1, <2>3, <3>1
      <4>2. c[i] = g[q[i]]
        BY <2>2, <2>5, <3>1
      <4> QED BY <4>1, <4>2
    <3>2. CASE i = Len(q) + 1
      <4>1. d[i] = f
        BY <2>1, <2>3, <3>2 DEF f
      <4>2. c[i] = f
        BY <2>2, <2>5, <3>2
      <4> QED BY <4>1, <4>2
    <3> QED BY <2>2, <2>3, <3>1, <3>2, SMT
  <2>7. d = c
    BY <2>2, <2>3, <2>5, <2>6, SeqEqual
  <2> QED BY <2>7 DEF a, b, c, d, f
<1>3. ASSUME q # <<>>
      PROVE  mapped(Tail(q)) = Tail(mapped(q)) /\ mapped(q) # <<>> /\ Head(mapped(q)) = g[Head(q)]
  <2> DEFINE t == Tail(q)
             b == mapped(q)
             d == mapped(t)
             c == Tail(b)
  <2>1. t \in Seq(S) /\ Len(t) = Len(q) - 1 /\ \A i \in 1..Len(t) : t[i] = q[i + 1]
    BY <1>3, HeadTailProperties
  <2> HIDE DEF t
  <2>2. /\ b \in Seq(T) /\ Len(b) = Len(q) /\ Len(q) \in Nat
        /\ \A i \in 1..Len(q) : b[i] = g[q[i]]
    BY <1>1
  <2>3. d \in Seq(T) /\ Len(d) = Len(t) /\ Len(t) \in Nat /\ \A i \in 1..Len(t) : d[i] = g[t[i]]
    BY <1>1, <2>1
  <2> HIDE DEF b, d
  <2>4. Len(q) # 0
    BY <1>3, PlacesOf
  <2>5. b # <<>>
    BY <2>2, <2>4, PlacesOf
  <2>6. c \in Seq(T) /\ Len(c) = Len(b) - 1 /\ \A i \in 1..Len(c) : c[i] = b[i + 1]
    BY <2>2, <2>5, HeadTailProperties
  <2>7. /\ \A i \in 1..Len(t) : i + 1 \in 1..Len(q)
        /\ 1 \in 1..Len(q)
    BY <2>1, <2>2, <2>3, <2>4, SMT
  <2>8. Head(b) = b[1] /\ Head(q) = q[1]
    BY <2>2, <2>4, <2>5
  <2> HIDE DEF c
  <2>a. Len(c) = Len(d) /\ Len(d) = Len(t)
    BY <2>1, <2>2, <2>3, <2>6
  <2>9. ASSUME NEW i \in 1..Len(d) PROVE d[i] = c[i]
    <3>1. i \in 1..Len(t) /\ i \in 1..Len(c) /\ i + 1 \in 1..Len(q)
      BY <2>7, <2>9, <2>a
    <3> QED BY <2>1, <2>2, <2>3, <2>6, <3>1
  <2>10. d = c
    BY <2>3, <2>6, <2>9, <2>a, SeqEqual
  <2> QED BY <2>2, <2>5, <2>7, <2>8, <2>10 DEF b, c, d, t
<1> QED BY <1>1, <1>2, <1>3

Tagged(m) == [from |-> m.from, n |-> m.n, for |-> meant[m.from][m.n]]

LEMMA MeantMoves ==
    ASSUME NEW q \in Seq(Msg)
    PROVE  /\ \A e \in Msg : Meant(Append(q, e)) = Append(Meant(q), Tagged(e))
           /\ q # <<>> => /\ Meant(Tail(q)) = Tail(Meant(q))
                          /\ Meant(q) # <<>> /\ Head(Meant(q)) = Tagged(Head(q))
<1> DEFINE g == [m \in Msg |-> Tagged(m)]
           T == {Tagged(m) : m \in Msg}
           mapped(r) == [i \in DOMAIN r |-> g[r[i]]]
<1>1. ASSUME NEW r \in Seq(Msg) PROVE Meant(r) = mapped(r)
  <2>1. DOMAIN r = 1..Len(r) /\ \A i \in 1..Len(r) : r[i] \in Msg
    BY <1>1, LenProperties, ElementOfSeq
  <2>2. \A i \in DOMAIN r : g[r[i]] = Tagged(r[i])
    BY <2>1
  <2> QED BY <2>2 DEF Meant, Tagged
<1>2. g \in [Msg -> T] /\ \A m \in Msg : g[m] = Tagged(m)
  OBVIOUS
<1> HIDE DEF g, T
<1>3. /\ \A e \in Msg : mapped(Append(q, e)) = Append(mapped(q), g[e])
      /\ q # <<>> => /\ mapped(Tail(q)) = Tail(mapped(q))
                     /\ mapped(q) # <<>> /\ Head(mapped(q)) = g[Head(q)]
  BY <1>2, EachMapped
<1> HIDE DEF mapped
<1>4. ASSUME NEW e \in Msg PROVE Meant(Append(q, e)) = Append(Meant(q), Tagged(e))
  <2>1. Append(q, e) \in Seq(Msg)
    BY AppendProperties
  <2> QED BY <1>1, <1>2, <1>3, <2>1
<1>5. ASSUME q # <<>>
      PROVE  Meant(Tail(q)) = Tail(Meant(q)) /\ Meant(q) # <<>> /\ Head(Meant(q)) = Tagged(Head(q))
  <2>1. Tail(q) \in Seq(Msg) /\ Head(q) \in Msg
    BY <1>5, HeadTailProperties
  <2> QED BY <1>1, <1>2, <1>3, <1>5, <2>1
<1> QED BY <1>4, <1>5

(***************************************************************************)
(* Registration, restart and query                                         *)
(***************************************************************************)
LEMMA RequestsUnseen ==
    ASSUME UNCHANGED queueVars, UNCHANGED <<app, applied, meant>>
    PROVE  UNCHANGED <<BusSent, BusQueue, BusServed>>
<1>1. UNCHANGED <<rpc_list, rd, snd>>
  BY DEF queueVars
<1>2. \A s : Handed(s)' = Handed(s)
  BY <1>1 DEF Handed, AppliedNext
<1> QED BY <1>1, <1>2 DEF BusSent, BusQueue, BusServed, Meant

LEMMA RegisterMapped ==
    ASSUME SysInv, NEW s \in Servers, Register(s)
    PROVE  Bus!Enter(s) \/ Bus!Refuse(s)
<1>1. /\ RegBegin(s) /\ reg[s].pc = "idle" /\ UNCHANGED queueVars
      /\ UNCHANGED <<app, applied, known, meant, restarts>>
      /\ UNCHANGED <<service_num, service_name, query>>
  BY DEF Register, RegBegin, sysVars
<1>2. RegInv /\ RegTypeOK
  BY DEF SysInv, RegInv
<1>3. UNCHANGED <<BusSent, BusQueue, BusServed, BusDirectory, BusAsks>>
  BY <1>1, <1>2, RequestsUnseen, DirectorySame DEF BusAsks
<1>4. CASE HasRoom
  <2>1. reg' = [reg EXCEPT ![s] = [pc |-> "store", slot |-> FreeSlot, i |-> 0]] /\ UNCHANGED snum
    BY <1>1, <1>4 DEF RegBegin
  <2>2. reg'[s].pc = "store" /\ \A t \in Servers : t # s => reg'[t] = reg[t]
    BY <1>2, <2>1 DEF RegTypeOK
  <2>3. Registering' = Registering \cup {s}
    BY <2>2 DEF Registering
  <2> QED BY <1>1, <1>3, <2>1, <2>3
          DEF Bus!Enter, BusDirectory, BusAsks, BusSent, BusQueue, BusServed
<1>5. CASE ~HasRoom
  <2>1. snum' = [snum EXCEPT ![s] = -1] /\ UNCHANGED reg
    BY <1>1, <1>5 DEF RegBegin
  <2>2. Len(BusDirectory) = SNUM_MAX
    <3>1. service_num \in 0..SNUM_MAX /\ ~(service_num < SNUM_MAX)
      BY <1>2, <1>5 DEF RegTypeOK, HasRoom
    <3>2. service_num = SNUM_MAX
      BY <3>1, RegAssumption, SMT
    <3> QED BY <1>2, <3>2, DirectoryFacts
  <2>3. Registering' = Registering \ {s}
    BY <1>1, <2>1 DEF Registering
  <2> QED BY <1>1, <1>3, <2>1, <2>2, <2>3
          DEF Bus!Refuse, BusDirectory, BusAsks, BusSent, BusQueue, BusServed
<1> QED BY <1>4, <1>5

LEMMA RegistrationMapped ==
    ASSUME SysInv, NEW s \in Servers, Registration(s)
    PROVE  Bus!Accept(s) \/ Bus!Refuse(s) \/ UNCHANGED Bus!busVars
<1>1. /\ RegStep(s) /\ UNCHANGED queueVars
      /\ UNCHANGED <<app, applied, known, meant, restarts>>
  BY DEF Registration, sysVars
<1>2. RegInv /\ RegTypeOK
  BY DEF SysInv, RegInv
<1>3. /\ RegInv' /\ UNCHANGED query /\ reg[s].pc # "idle"
      /\ \A t \in Servers : t # s => reg'[t] = reg[t] /\ snum'[t] = snum[t]
  BY <1>1, <1>2, RegStepEffect
<1>4. \A k \in Counted : service_name'[k] = service_name[k]
  BY <1>1, <1>2, <1>3, CountedStays DEF RegNext
<1>5. UNCHANGED <<BusSent, BusQueue, BusServed, BusAsks>>
  BY <1>1, <1>3, RequestsUnseen DEF BusAsks
<1>6. s \in Registering
  BY <1>3 DEF Registering
<1>7. reg'[s].pc = "idle" => Registering' = Registering \ {s}
  BY <1>3 DEF Registering
<1>8. reg'[s].pc # "idle" => Registering' = Registering
  BY <1>3, <1>6 DEF Registering
<1>9. CASE RegStore(s) \/ RegLoad(s) \/ (RegScan(s) /\ ~IsDuplicate(s))
  <2>1. UNCHANGED <<service_num, snum>> /\ reg'[s].pc # "idle"
    BY <1>2, <1>9 DEF RegStore, RegLoad, RegScan, RegTypeOK
  <2>2. UNCHANGED BusDirectory
    BY <1>2, <1>4, <2>1, DirectorySame
  <2> QED BY <1>1, <1>5, <1>8, <2>1, <2>2, BusSame
<1>10. CASE RegScan(s) /\ IsDuplicate(s)
  <2>1. /\ reg[s].pc = "scan" /\ reg[s].i < service_num /\ NameAt(reg[s].i) = NameOf[s]
        /\ snum' = [snum EXCEPT ![s] = -1] /\ reg' = [reg EXCEPT ![s] = Idle]
        /\ UNCHANGED <<service_num, service_name, query>>
    BY <1>10 DEF RegScan, IsDuplicate
  <2>2. reg[s].i \in Counted
    <3>1. reg[s].i \in 0..SNUM_MAX /\ service_num \in 0..SNUM_MAX
      BY <1>2 DEF RegTypeOK
    <3> QED BY <2>1, <3>1, RegAssumption, SMT DEF Counted
  <2>3. service_name[reg[s].i] = NameOf[s]
    BY <1>2, <2>1, <2>2, CountedFacts DEF RegTypeOK
  <2>4. Bus!Contains(BusDirectory, NameOf[s])
    BY <1>2, <2>2, <2>3, DirectoryFacts
  <2>5. UNCHANGED BusDirectory
    BY <1>2, <1>4, <2>1, DirectorySame
  <2>6. Registering' = Registering \ {s}
    BY <1>2, <1>7, <2>1 DEF RegTypeOK, Idle
  <2>7. Bus!Refuse(s)
    BY <1>1, <1>5, <1>6, <2>1, <2>4, <2>5, <2>6
       DEF Bus!Refuse, BusDirectory, BusAsks, BusSent, BusQueue, BusServed
  <2> QED BY <2>7
<1>11. CASE RegReturn(s)
  <2>1. /\ service_num' = service_num + 1 /\ snum' = [snum EXCEPT ![s] = service_num]
        /\ service_name[service_num] = NameOf[s] /\ service_num \in 0..SNUM_MAX-1
        /\ \A j \in Counted : service_name[j] # NameOf[s]
    BY <1>2, <1>11, RegReturnInv
  <2>2. UNCHANGED service_name /\ reg' = [reg EXCEPT ![s] = Idle]
    BY <1>11 DEF RegReturn
  <2>3. Registering' = Registering \ {s}
    BY <1>2, <1>7, <2>2 DEF RegTypeOK, Idle
  <2>4. /\ Len(BusDirectory) = service_num /\ service_num \in Nat /\ BusDirectory \in Seq(Names)
        /\ ~Bus!Contains(BusDirectory, NameOf[s])
        /\ \A i \in 1..service_num : BusDirectory[i] = service_name[i - 1]
    BY <1>2, <2>1, DirectoryFacts
  <2>5. service_num < SNUM_MAX
    BY <2>1, RegAssumption, SMT
  <2>6. BusDirectory' = Append(BusDirectory, NameOf[s])
    <3> DEFINE b == BusDirectory
               b2 == BusDirectory'
               e == NameOf[s]
               a == Append(b, e)
    <3>1. e \in Names
      BY RegAssumption
    <3>2. /\ a \in Seq(Names) /\ Len(a) = service_num + 1
          /\ \A i \in 1..service_num : a[i] = b[i]
          /\ a[service_num + 1] = e
      BY <2>4, <3>1, AppendProperties
    <3>3. /\ b2 \in Seq(Names) /\ Len(b2) = service_num'
          /\ \A i \in 1..service_num' : b2[i] = service_name'[i - 1]
      BY <1>3, DirectoryNext DEF DirectoryListed
    <3> HIDE DEF a, b2
    <3>4. ASSUME NEW i \in 1..service_num+1 PROVE a[i] = b2[i]
      <4>1. b2[i] = service_name[i - 1]
        BY <2>1, <2>2, <3>3
      <4>2. CASE i \in 1..service_num
        BY <2>4, <3>2, <4>1, <4>2
      <4>3. CASE i = service_num + 1
        BY <2>1, <2>4, <3>2, <4>1, <4>3, Places
      <4> QED BY <2>4, <4>2, <4>3, Places
    <3>5. a = b2
      BY <2>1, <3>2, <3>3, <3>4, SeqEqual
    <3> QED BY <3>5 DEF a, b2
  <2>7. Bus!Accept(s)
    BY <1>1, <1>5, <1>6, <2>1, <2>3, <2>4, <2>5, <2>6
       DEF Bus!Accept, BusDirectory, BusAsks, BusSent, BusQueue, BusServed
  <2> QED BY <2>7
<1> QED BY <1>1, <1>9, <1>10, <1>11 DEF RegStep

LEMMA RestartMapped ==
    ASSUME SysInv, NEW s \in Servers, RestartServer(s)
    PROVE  Bus!Forget(s)
<1>1. /\ snum' = [snum EXCEPT ![s] = -1] /\ restarts' = restarts + 1
      /\ UNCHANGED <<service_num, service_name, reg, query>> /\ UNCHANGED queueVars
      /\ UNCHANGED <<app, applied, known, meant>>
  BY DEF RestartServer
<1>2. UNCHANGED <<BusSent, BusQueue, BusServed, BusDirectory, BusAsks, Registering>>
  BY <1>1, RequestsUnseen, DirectorySame DEF SysInv, BusAsks, Registering
<1> QED BY <1>1, <1>2 DEF Bus!Forget, BusDirectory, BusAsks, BusSent, BusQueue, BusServed

LEMMA AskMapped ==
    ASSUME SysInv, NEW c \in Clients, NEW n \in Names, AskNumber(c, n)
    PROVE  Bus!Ask(c, n)
<1>1. /\ query' = [query EXCEPT ![c] = [pc |-> "scan", name |-> n, i |-> 0, ret |-> -1]]
      /\ query[c].pc = "idle" /\ UNCHANGED queueVars
      /\ UNCHANGED <<app, applied, known, meant, restarts>>
      /\ UNCHANGED <<service_num, service_name, reg, snum>>
  BY DEF AskNumber, QueryBegin, sysVars
<1>2. RegTypeOK
  BY DEF SysInv, RegInv
<1>3. UNCHANGED <<BusSent, BusQueue, BusServed, BusDirectory, Registering>>
  BY <1>1, RequestsUnseen, DirectorySame DEF SysInv, Registering
<1>4. /\ query'[c].pc = "scan" /\ query'[c].name = n
      /\ \A d \in Clients : d # c => query'[d] = query[d]
  BY <1>1, <1>2 DEF RegTypeOK
<1>5. BusAsks[c] = NoName /\ BusAsks' = [BusAsks EXCEPT ![c] = n]
  <2>1. /\ BusAsks[c] = NoName /\ BusAsks'[c] = n
        /\ \A d \in Clients : d # c => BusAsks'[d] = BusAsks[d]
    BY <1>1, <1>4 DEF BusAsks
  <2> QED BY <2>1, OneEntry, BusFunctions
<1> QED BY <1>1, <1>3, <1>5
        DEF Bus!Ask, Bus!dirVars, BusDirectory, BusAsks, BusSent, BusQueue, BusServed

LEMMA AskingUnseen ==
    ASSUME SysInv, NEW c \in Clients, Asking(c)
    PROVE  UNCHANGED Bus!busVars
<1>1. /\ QueryScan(c) /\ UNCHANGED queueVars /\ query[c].pc = "scan"
      /\ UNCHANGED <<app, applied, known, meant, restarts>>
      /\ UNCHANGED <<service_num, service_name, reg, snum>>
  BY DEF Asking, QueryScan, sysVars
<1>2. RegTypeOK
  BY DEF SysInv, RegInv
<1>3. UNCHANGED <<BusSent, BusQueue, BusServed, BusDirectory, Registering>>
  BY <1>1, RequestsUnseen, DirectorySame DEF SysInv, Registering
<1>4. \A d \in Clients : query'[d].pc = query[d].pc /\ query'[d].name = query[d].name
  BY <1>1, <1>2 DEF QueryScan, RegTypeOK
<1>5. UNCHANGED BusAsks
  BY <1>4 DEF BusAsks
<1> QED BY <1>1, <1>3, <1>5, BusSame

LEMMA MinusOneOut == -1 \notin Snums
<1>1. \A k \in 0..SNUM_MAX-1 : k # -1
  BY SMT
<1> QED BY <1>1, SysAssumption

LEMMA AnsweredMapped ==
    ASSUME SysInv, NEW c \in Clients, Answered(c)
    PROVE  Bus!Answer(c)
<1>1. /\ QueryReturn(c) /\ UNCHANGED queueVars /\ query[c].pc = "scan"
      /\ query' = [query EXCEPT ![c].pc = "idle", ![c].i = 0]
      /\ known' = [known EXCEPT ![c] = Learnt(c)]
      /\ UNCHANGED <<app, applied, meant, restarts>>
      /\ UNCHANGED <<service_num, service_name, reg, snum>>
  BY DEF Answered, QueryReturn
<1>2. RegInv /\ RegTypeOK /\ Found(c) /\ SysTyped
  BY <1>1 DEF SysInv, RegInv, QueriesFound, AppInv
<1>3. UNCHANGED <<BusSent, BusQueue, BusServed, BusDirectory, Registering>>
  BY <1>1, RequestsUnseen, DirectorySame DEF SysInv, Registering
<1>4. /\ query'[c].pc = "idle" /\ query[c].pc # "idle"
      /\ \A d \in Clients : d # c => query'[d] = query[d]
  BY <1>1, <1>2 DEF RegTypeOK
<1>5. BusAsks[c] = query[c].name /\ BusAsks' = [BusAsks EXCEPT ![c] = NoName]
  <2>1. /\ BusAsks[c] = query[c].name /\ BusAsks'[c] = NoName
        /\ \A d \in Clients : d # c => BusAsks'[d] = BusAsks[d]
    BY <1>4 DEF BusAsks
  <2> QED BY <2>1, OneEntry, BusFunctions
<1>6. query[c].name \in Names /\ query[c].name # NoName
  BY <1>2, RegAssumption DEF Found
<1>7. /\ \A j \in Counted : service_name[j] = query[c].name <=> query[c].ret = j
      /\ query[c].ret # -1 => query[c].ret \in Counted
      /\ -1 \notin Counted /\ Counted \subseteq Snums
  <2>1. -1 \notin Counted
    BY SMT DEF Counted
  <2> QED BY <1>1, <1>2, <2>1, QueryReturnInv, SysFacts DEF Found
<1> DEFINE answer == [k \in Snums |->
                        IF k + 1 \in DOMAIN BusDirectory /\ BusDirectory[k + 1] = BusAsks[c]
                        THEN BusAsks[c] ELSE known[c][k]]
<1>8. Learnt(c) = answer
  <2>1. known[c] \in [Snums -> Names \cup {NoName}]
    BY <1>2 DEF SysTyped
  <2>2. ASSUME NEW k \in Snums
        PROVE  /\ k + 1 \in DOMAIN BusDirectory <=> k \in Counted
               /\ k \in Counted => BusDirectory[k + 1] = service_name[k]
    <3>1. k \in Nat /\ service_num \in Nat
      BY <1>2, DirectoryFacts, SysAssumption, RegAssumption, SMT
    <3>2. k + 1 \in 1..service_num <=> k \in Counted
      BY <3>1, Places DEF Counted
    <3> QED BY <1>2, <3>2, DirectoryFacts
  <2>3. ASSUME NEW k \in Snums
        PROVE  answer[k] = IF query[c].ret = k THEN query[c].name ELSE known[c][k]
    <3>1. CASE k \in Counted
      <4>1. BusDirectory[k + 1] = service_name[k] /\ k + 1 \in DOMAIN BusDirectory
        BY <2>2, <3>1
      <4>2. (service_name[k] = query[c].name) <=> (query[c].ret = k)
        BY <1>7, <3>1
      <4> QED BY <1>5, <4>1, <4>2
    <3>2. CASE k \notin Counted
      <4>1. query[c].ret # k
        BY <1>7, <3>2, MinusOneOut
      <4>2. k + 1 \notin DOMAIN BusDirectory
        BY <2>2, <3>2
      <4> QED BY <4>1, <4>2
    <3> QED BY <3>1, <3>2
  <2>4. ASSUME NEW k \in Snums
        PROVE  Learnt(c)[k] = IF query[c].ret = k THEN query[c].name ELSE known[c][k]
    <3>1. CASE query[c].ret = -1
      BY <3>1, MinusOneOut DEF Learnt
    <3>2. CASE query[c].ret # -1
      BY <2>1, <3>2 DEF Learnt
    <3> QED BY <3>1, <3>2
  <2>5. Learnt(c) = [k \in Snums |-> Learnt(c)[k]]
    BY <2>1 DEF Learnt
  <2> HIDE DEF answer
  <2>6. \A k \in Snums : Learnt(c)[k] = answer[k]
    BY <2>3, <2>4
  <2>7. answer = [k \in Snums |-> answer[k]]
    BY DEF answer
  <2> QED BY <2>5, <2>6, <2>7
<1>9. Snums = Bus!Numbers
  BY SysAssumption DEF Bus!Numbers
<1> QED BY <1>1, <1>3, <1>5, <1>6, <1>8, <1>9
        DEF Bus!Answer, Bus!dirVars, BusDirectory, BusAsks, BusSent, BusQueue, BusServed

(***************************************************************************)
(* Steps of the queues that the bus does not see                           *)
(***************************************************************************)
LEMMA HandedSame ==
    ASSUME NEW s, UNCHANGED <<app, applied>>,
           rd'[s].pc = "out" <=> rd[s].pc = "out", rd'[s].got = rd[s].got
    PROVE  Handed(s)' = Handed(s)
  BY DEF Handed, AppliedNext

LEMMA MeantKept ==
    ASSUME NEW q, \A i \in DOMAIN q : For(q[i])' = For(q[i])
    PROVE  Meant(q)' = Meant(q)
  BY DEF Meant, For

LEMMA QueueMapped ==
    ASSUME NEW k \in Snums
    PROVE  /\ \A q : q = rpc_list[k] => BusQueue[k] = Meant(q)
           /\ \A q : q = rpc_list'[k] => BusQueue'[k] = Meant(q)'
  BY DEF BusQueue, Meant

LEMMA ServedMapped ==
    ASSUME NEW s \in Servers
    PROVE  /\ \A q : q = Handed(s) => BusServed[s] = Meant(q)
           /\ \A q : q = Handed(s)' => BusServed'[s] = Meant(q)'
  BY DEF BusServed, Meant

LEMMA StepUnseen ==
    ASSUME UNCHANGED regVars, UNCHANGED <<known, restarts, rpc_list>>,
           \A k \in Snums : \A i \in DOMAIN rpc_list[k] : For(rpc_list[k][i])' = For(rpc_list[k][i]),
           \A s \in Servers : Handed(s)' = Handed(s),
           \A s \in Servers : \A i \in DOMAIN Handed(s) : For(Handed(s)[i])' = For(Handed(s)[i]),
           \A c \in Clients : BusSent'[c] = BusSent[c]
    PROVE  UNCHANGED Bus!busVars
<1>1. UNCHANGED <<service_num, service_name, reg, snum, query>>
  BY DEF regVars
<1>2. UNCHANGED <<BusDirectory, Registering, BusAsks>>
  BY <1>1 DEF BusDirectory, Registering, BusAsks
<1>3. UNCHANGED BusSent
  BY BusFunctions
<1>4. UNCHANGED BusQueue
  <2>1. ASSUME NEW k \in Snums PROVE BusQueue'[k] = BusQueue[k]
    BY QueueMapped, MeantKept
  <2> QED BY <2>1, BusFunctions
<1>5. UNCHANGED BusServed
  <2>1. ASSUME NEW s \in Servers PROVE BusServed'[s] = BusServed[s]
    BY ServedMapped, MeantKept
  <2> QED BY <2>1, BusFunctions
<1> QED BY <1>1, <1>2, <1>3, <1>4, <1>5, BusSame

LEMMA ReadersUnseen ==
    ASSUME UNCHANGED regVars, UNCHANGED <<known, meant, restarts, rpc_list>>,
           \A s \in Servers : Handed(s)' = Handed(s),
           \A c \in Clients : /\ snd'[c].n = snd[c].n
                              /\ snd'[c].pc = "add" <=> snd[c].pc = "add"
    PROVE  UNCHANGED Bus!busVars
<1>1. \A c \in Clients : BusSent'[c] = BusSent[c]
  BY DEF BusSent
<1>2. \A k \in Snums : \A i \in DOMAIN rpc_list[k] : For(rpc_list[k][i])' = For(rpc_list[k][i])
  BY DEF For
<1>3. \A s \in Servers : \A i \in DOMAIN Handed(s) : For(Handed(s)[i])' = For(Handed(s)[i])
  BY DEF For
<1> QED BY <1>1, <1>2, <1>3, StepUnseen

LEMMA ReadRequestUnseen ==
    ASSUME SysInv, NEW s \in Servers, ReadRequest(s)
    PROVE  UNCHANGED Bus!busVars
<1>1. /\ app[s] = "menu" /\ rd' = [rd EXCEPT ![s].pc = "check", ![s].snum = snum[s]]
      /\ app' = [app EXCEPT ![s] = "reading"] /\ UNCHANGED <<rpc_list, snd>>
      /\ UNCHANGED regVars /\ UNCHANGED <<applied, known, meant, restarts>>
  BY DEF ReadRequest, ReadCall
<1>2. SysTyped /\ CallsTyped
  BY SysFacts
<1>3. /\ rd'[s].pc = "check"
      /\ \A t \in Servers : t # s => rd'[t] = rd[t] /\ app'[t] = app[t]
  BY <1>1, <1>2, SysAssumption DEF SysTyped, CallsTyped
<1>4. ASSUME NEW t \in Servers PROVE Handed(t)' = Handed(t)
  <2>1. CASE t = s
    <3>1. Handed(s) = applied[s] /\ Handed(s)' = applied'[s]
      BY <1>1, <1>3 DEF Handed
    <3> QED BY <1>1, <2>1, <3>1
  <2>2. CASE t # s
    <3>1. rd'[t] = rd[t] /\ app'[t] = app[t] /\ UNCHANGED applied
      BY <1>1, <1>3, <2>2
    <3> QED BY <3>1 DEF Handed, AppliedNext
  <2> QED BY <2>1, <2>2
<1> QED BY <1>1, <1>4, ReadersUnseen

LEMMA WaitingUnseen ==
    ASSUME SysInv, NEW s \in Servers, UNCHANGED regVars, UNCHANGED sysVars,
           ReadCheck(s) \/ ReadPrepare(s) \/ ReadRecheck(s) \/ ReadSchedule(s) \/ Signal(s)
    PROVE  UNCHANGED Bus!busVars
<1>1. CallsTyped /\ UNCHANGED <<app, applied, known, meant, restarts>>
  BY SysFacts DEF sysVars
<1>2. /\ UNCHANGED <<rpc_list, snd>> /\ rd[s].pc # "out"
      /\ \E p : p # "out" /\ rd' = [rd EXCEPT ![s].pc = p]
  BY DEF ReadCheck, ReadPrepare, ReadRecheck, ReadSchedule, Signal, MoveReader, RecheckTo
<1>3. /\ rd'[s].pc # "out" /\ rd'[s].got = rd[s].got
      /\ \A t \in Servers : t # s => rd'[t] = rd[t]
  BY <1>1, <1>2, SysAssumption DEF CallsTyped
<1>4. \A t \in Servers : Handed(t)' = Handed(t)
  BY <1>1, <1>2, <1>3, HandedSame
<1> QED BY <1>1, <1>2, <1>4, ReadersUnseen

LEMMA HandleRequestUnseen ==
    ASSUME SysInv, NEW s \in Servers, HandleRequest(s)
    PROVE  UNCHANGED Bus!busVars
<1>1. /\ app[s] = "reading" /\ rd[s].pc = "out"
      /\ applied' = [applied EXCEPT ![s] = AppliedNext(s)] /\ app' = [app EXCEPT ![s] = "menu"]
      /\ UNCHANGED regVars /\ UNCHANGED <<rpc_list, rd, snd>> /\ UNCHANGED <<known, meant, restarts>>
  BY DEF HandleRequest, queueVars
<1>2. SysTyped
  BY SysFacts
<1>3. Handed(s) = AppliedNext(s)
  BY <1>1 DEF Handed
<1>4. /\ applied'[s] = Handed(s) /\ app'[s] = "menu"
      /\ \A t \in Servers : t # s => applied'[t] = applied[t] /\ app'[t] = app[t]
  BY <1>1, <1>2, <1>3 DEF SysTyped
<1>5. \A t \in Servers : Handed(t)' = Handed(t)
  BY <1>1, <1>4 DEF Handed, AppliedNext
<1> QED BY <1>1, <1>5, ReadersUnseen

LEMMA RpcWakeUnseen ==
    ASSUME SysInv, NEW c \in Clients, RpcWake(c), UNCHANGED regVars, UNCHANGED sysVars
    PROVE  UNCHANGED Bus!busVars
<1>1. /\ snd[c].pc = "wake" /\ UNCHANGED rpc_list /\ snd' = [snd EXCEPT ![c].pc = "out"]
      /\ \E k : rd' = [r \in Readers |-> IF r \in Woken(k) THEN Restart(r) ELSE rd[r]]
      /\ UNCHANGED <<app, applied, known, meant, restarts>>
  BY DEF RpcWake, sysVars
<1>2. CallsTyped
  BY SysFacts
<1>3. \A d \in Clients : /\ snd'[d].n = snd[d].n
                         /\ snd'[d].pc = "add" <=> snd[d].pc = "add"
  BY <1>1, <1>2, SysAssumption DEF CallsTyped
<1>4. ASSUME NEW s \in Servers
      PROVE  (rd'[s].pc = "out" <=> rd[s].pc = "out") /\ rd'[s].got = rd[s].got
  <2>1. s \in Readers
    BY SysAssumption
  <2>2. rd'[s] = Restart(s) \/ rd'[s] = rd[s]
    BY <1>1, <2>1
  <2>3. (Restart(s).pc = "out" <=> rd[s].pc = "out") /\ Restart(s).got = rd[s].got
    BY <1>2, <2>1 DEF Restart, CallsTyped
  <2> QED BY <2>2, <2>3
<1>5. \A s \in Servers : Handed(s)' = Handed(s)
  BY <1>1, <1>4, HandedSame
<1> QED BY <1>1, <1>3, <1>5, ReadersUnseen

\* A request that is posted keeps the name it was meant for.
LEMMA SendRequestUnseen ==
    ASSUME SysInv, NEW c \in Clients, NEW k \in Snums, SendRequest(c, k)
    PROVE  UNCHANGED Bus!busVars
<1> DEFINE b == meant[c]
           e == known[c][k]
           a == Append(b, e)
<1>1. /\ meant' = [meant EXCEPT ![c] = a] /\ known[c][k] # NoName
      /\ snd[c].pc = "out" /\ snd' = [snd EXCEPT ![c] = [pc |-> "add", snum |-> k, n |-> snd[c].n + 1]]
      /\ UNCHANGED regVars /\ UNCHANGED <<rpc_list, rd, app, applied, known, restarts>>
  BY DEF SendRequest, RpcCall, MaySend, sysVars
<1>2. SysTyped /\ CallsTyped /\ ClientsInCall /\ QueuedRight /\ HandedRight
  BY SysFacts DEF SysInv, AppInv
<1>3. b \in Seq(Names) /\ Len(b) = snd[c].n /\ e \in Names /\ snd[c].n \in Nat
  <2>1. b \in Seq(Names) /\ Len(b) = snd[c].n /\ e \in Names
    BY <1>1, <1>2 DEF SysTyped, ClientsInCall
  <2>2. \A n \in 0..MaxSends : n \in Nat
    BY QueueAssumption, SMT
  <2>3. snd[c].n \in 0..MaxSends
    BY <1>2, SysAssumption DEF CallsTyped
  <2> QED BY <2>1, <2>2, <2>3
<1>4. \A i \in 1..Len(b) : a[i] = b[i]
  BY <1>3, AppendProperties
<1> HIDE DEF a, e
<1>5. /\ meant'[c] = a /\ \A d \in Clients : d # c => meant'[d] = meant[d] /\ snd'[d] = snd[d]
      /\ snd'[c].pc = "add" /\ snd'[c].n = snd[c].n + 1
  BY <1>1, <1>2, SysAssumption DEF SysTyped, CallsTyped
<1>6. ASSUME NEW m, Posted(m) PROVE For(m)' = For(m)
  <2>1. m.from \in Clients /\ m.n \in 1..MaxSends /\ m.n <= snd[m.from].n
    BY <1>6, SysAssumption DEF Posted, Msg
  <2>2. CASE m.from # c
    BY <1>5, <2>1, <2>2 DEF For
  <2>3. CASE m.from = c
    <3>1. \A i \in 1..MaxSends : \A n \in Nat : i <= n => i \in 1..n
      BY QueueAssumption, SMT
    <3>2. m.n \in 1..Len(b)
      BY <1>3, <2>1, <2>3, <3>1
    <3> QED BY <1>4, <1>5, <2>3, <3>2 DEF For
  <2> QED BY <2>2, <2>3
<1>7. \A n \in Nat : (n + 1) - 1 = n
  BY SMT
<1>8. \A d \in Clients : BusSent'[d] = BusSent[d]
  BY <1>1, <1>3, <1>5, <1>7 DEF BusSent
<1>9. \A s \in Servers : Handed(s)' = Handed(s)
  BY <1>1 DEF Handed, AppliedNext
<1>10. ASSUME NEW j \in Snums, NEW i \in DOMAIN rpc_list[j]
       PROVE  For(rpc_list[j][i])' = For(rpc_list[j][i])
  <2>1. Posted(rpc_list[j][i])
    BY <1>2, SysFacts, PlacesOf DEF QueuedRight
  <2> QED BY <1>1, <1>6, <2>1
<1>11. ASSUME NEW s \in Servers, NEW i \in DOMAIN Handed(s)
       PROVE  For(Handed(s)[i])' = For(Handed(s)[i])
  <2>1. Posted(Handed(s)[i])
    BY <1>2, SysFacts, PlacesOf DEF HandedRight
  <2> QED BY <1>6, <1>9, <2>1
<1> QED BY <1>1, <1>8, <1>9, <1>10, <1>11, StepUnseen

(***************************************************************************)
(* Sending and serving                                                     *)
(***************************************************************************)
LEMMA RestOfBus ==
    ASSUME UNCHANGED regVars, UNCHANGED restarts
    PROVE  UNCHANGED <<BusDirectory, snum, Registering, restarts, BusAsks>>
  BY DEF regVars, BusDirectory, Registering, BusAsks

LEMMA RpcAddMapped ==
    ASSUME SysInv, NEW c \in Clients, RpcAdd(c), UNCHANGED regVars, UNCHANGED sysVars,
           NEW k, k = snd[c].snum
    PROVE  k \in Snums /\ Bus!Send(c, k)
<1> DEFINE q == rpc_list[k]
           m == Request(c)
           a == Append(q, m)
<1>1. /\ snd[c].pc = "add" /\ rpc_list' = [rpc_list EXCEPT ![k] = a]
      /\ snd' = [snd EXCEPT ![c].pc = "wake"]
      /\ UNCHANGED rd /\ UNCHANGED <<app, applied, known, meant, restarts>>
  BY DEF RpcAdd, AddTail, sysVars
<1>2. /\ SysTyped /\ CallsTyped /\ QueuesTyped /\ KnownRight /\ ClientsInCall
      /\ rpc_list \in [Snums -> Seq(Msg)]
  BY SysFacts DEF SysInv, AppInv, QueueInv, QueueTypeOK
<1>3. /\ k \in Snums /\ m \in Msg /\ m.from = c /\ m.n = snd[c].n
      /\ snd[c].n \in 1..MaxSends
  BY <1>1, <1>2, SysAssumption DEF CallsTyped, Request, Msg
<1>4. q \in Seq(Msg) /\ For(m) = known[c][k] /\ known[c][k] # NoName
  BY <1>1, <1>2, <1>3 DEF For, KnownRight
<1>5. Tagged(m) = [from |-> c, n |-> snd[c].n, for |-> known[c][k]]
  BY <1>3, <1>4 DEF Tagged, For
<1>6. Meant(a) = Append(Meant(q), Tagged(m))
  BY <1>3, <1>4, MeantMoves
<1> HIDE DEF a, m
<1>7. /\ snd'[c].pc = "wake" /\ snd'[c].n = snd[c].n
      /\ \A d \in Clients : d # c => snd'[d] = snd[d]
  BY <1>1, <1>2, SysAssumption DEF CallsTyped
<1>8. /\ BusSent'[c] = snd[c].n /\ BusSent[c] = snd[c].n - 1
      /\ \A d \in Clients : d # c => BusSent'[d] = BusSent[d]
  BY <1>1, <1>7 DEF BusSent
<1>9. \A i \in 1..MaxSends : (i - 1) + 1 = i
  BY QueueAssumption, SMT
<1>10. BusSent' = [BusSent EXCEPT ![c] = BusSent[c] + 1]
  BY <1>3, <1>8, <1>9, OneEntry, BusFunctions
<1>11. rpc_list'[k] = a /\ \A j \in Snums : j # k => rpc_list'[j] = rpc_list[j]
  BY <1>1, <1>2, <1>3
<1>12. \A x : Meant(x)' = Meant(x)
  BY <1>1 DEF Meant
<1>13. /\ BusQueue[k] = Meant(q) /\ BusQueue'[k] = Meant(a)
       /\ \A j \in Snums : j # k => BusQueue'[j] = BusQueue[j]
  BY <1>3, <1>11, <1>12, QueueMapped
<1>14. BusQueue' = [BusQueue EXCEPT ![k] = Append(BusQueue[k],
                       [from |-> c, n |-> BusSent'[c], for |-> known[c][k]])]
  <2>1. BusQueue'[k] = Append(BusQueue[k], [from |-> c, n |-> BusSent'[c], for |-> known[c][k]])
    BY <1>5, <1>6, <1>8, <1>13
  <2>2. BusQueue' = [BusQueue EXCEPT ![k] = BusQueue'[k]]
    BY <1>3, <1>13, OneEntry, BusFunctions
  <2> QED BY <2>1, <2>2
<1>15. \A s \in Servers : Handed(s)' = Handed(s)
  BY <1>1 DEF Handed, AppliedNext
<1>16. UNCHANGED BusServed
  <2>1. ASSUME NEW s \in Servers PROVE BusServed'[s] = BusServed[s]
    BY <1>12, <1>15, ServedMapped
  <2> QED BY <2>1, BusFunctions
<1>17. BusAsks[c] = NoName
  BY <1>1, <1>2 DEF BusAsks, ClientsInCall
<1>18. Bus!Send(c, k)
  BY <1>1, <1>4, <1>10, <1>14, <1>16, <1>17, RestOfBus
     DEF Bus!Send, Bus!dirVars, BusDirectory, BusAsks, BusSent, BusQueue, BusServed
<1> QED BY <1>3, <1>18

LEMMA ReadTakeMapped ==
    ASSUME SysInv, NEW s \in Servers, ReadTake(s), UNCHANGED regVars, UNCHANGED sysVars
    PROVE  Bus!Serve(s) \/ UNCHANGED Bus!busVars
<1> DEFINE k == rd[s].snum
           q == rpc_list[k]
           h == Head(q)
           t == Tail(q)
           g == Handed(s)
<1>1. /\ rd[s].pc = "take" /\ UNCHANGED snd /\ UNCHANGED <<app, applied, known, meant, restarts>>
  BY DEF ReadTake, sysVars
<1>2. /\ CallsTyped /\ QueueInv /\ ReadersServe /\ QueuedRight /\ NumbersCounted
      /\ rpc_list \in [Snums -> Seq(Msg)] /\ s \in Readers
  BY SysFacts, SysAssumption DEF SysInv, AppInv, RegInv, QueueInv, QueueTypeOK
<1>3. /\ app[s] = "reading" /\ snum[s] = k /\ k # -1
      /\ k \in Counted /\ service_name[k] = NameOf[s] /\ k \in Snums
  <2>1. app[s] = "reading" /\ snum[s] = k /\ k # -1
    BY <1>1, <1>2 DEF ReadersServe
  <2> QED BY <1>2, <2>1, SysFacts DEF NumbersCounted
<1>4. CASE ListEmpty(s)
  <2>1. UNCHANGED <<rpc_list, rd>>
    BY <1>4 DEF ReadTake
  <2>2. \A u \in Servers : Handed(u)' = Handed(u)
    BY <1>1, <2>1, HandedSame
  <2> QED BY <1>1, <2>1, <2>2, ReadersUnseen
<1>5. CASE ~ListEmpty(s)
  <2>1. /\ rpc_list' = [rpc_list EXCEPT ![k] = t]
        /\ rd' = [rd EXCEPT ![s].pc = "out", ![s].got = h]
    BY <1>5 DEF ReadTake, Rest
  <2>2. q # <<>> /\ q \in Seq(Msg)
    BY <1>2, <1>3, <1>5, ReaderFacts, SysFacts DEF ListEmpty
  <2>3. h \in Msg /\ h \in ToSet(q) /\ g \in Seq(Msg)
    <3>1. Len(q) \in Nat /\ DOMAIN q = 1..Len(q) /\ Len(q) # 0
      BY <2>2, PlacesOf
    <3>2. h = q[1] /\ 1 \in 1..Len(q) /\ h \in Msg
      BY <2>2, <3>1, HeadTailProperties
    <3> QED BY <3>1, <3>2, SysFacts DEF ToSet
  <2>4. For(h) = NameOf[s]
    BY <1>2, <1>3, <2>3 DEF QueuedRight
  <2>5. /\ Meant(t) = Tail(Meant(q)) /\ Meant(q) # <<>> /\ Head(Meant(q)) = Tagged(h)
        /\ Meant(Append(g, h)) = Append(Meant(g), Tagged(h))
        /\ Tagged(h).for = For(h)
    BY <2>2, <2>3, MeantMoves DEF Tagged, For
  <2> HIDE DEF h, t
  <2>6. /\ rpc_list'[k] = t /\ \A j \in Snums : j # k => rpc_list'[j] = rpc_list[j]
        /\ rd'[s].pc = "out" /\ rd'[s].got = h
        /\ \A u \in Servers : u # s => rd'[u] = rd[u]
    BY <1>2, <1>3, <2>1, SysAssumption DEF CallsTyped
  <2>7. /\ g = applied[s] /\ Handed(s)' = Append(g, h)
        /\ \A u \in Servers : u # s => Handed(u)' = Handed(u)
    BY <1>1, <1>3, <2>6 DEF Handed, AppliedNext
  <2>8. \A x : Meant(x)' = Meant(x)
    BY <1>1 DEF Meant
  <2>9. /\ BusQueue[k] = Meant(q) /\ BusQueue'[k] = Meant(t)
        /\ \A j \in Snums : j # k => BusQueue'[j] = BusQueue[j]
    BY <1>3, <2>6, <2>8, QueueMapped
  <2>10. /\ BusServed[s] = Meant(g) /\ BusServed'[s] = Meant(Append(g, h))
         /\ \A u \in Servers : u # s => BusServed'[u] = BusServed[u]
    BY <2>7, <2>8, ServedMapped
  <2> HIDE DEF g
  <2>11. BusQueue' = [BusQueue EXCEPT ![k] = Tail(BusQueue[k])]
    BY <1>3, <2>5, <2>9, OneEntry, BusFunctions
  <2>12. BusServed' = [BusServed EXCEPT ![s] = Append(BusServed[s], Head(BusQueue[k]))]
    BY <2>5, <2>9, <2>10, OneEntry, BusFunctions
  <2>13. BusQueue[k] # <<>> /\ Head(BusQueue[k]).for = NameOf[s]
    BY <2>4, <2>5, <2>9
  <2>14. UNCHANGED BusSent
    BY <1>1 DEF BusSent
  <2>15. Bus!Serve(s)
    BY <1>1, <1>3, <2>11, <2>12, <2>13, <2>14, RestOfBus
       DEF Bus!Serve, Bus!dirVars, BusDirectory, BusAsks, BusSent, BusQueue, BusServed
  <2> QED BY <2>15
<1> QED BY <1>4, <1>5

(***************************************************************************)
(* Every step of the binder is a step of the bus                           *)
(***************************************************************************)
LEMMA BusServerStep ==
    ASSUME SysInv, NEW s \in Servers,
           Register(s) \/ ReadRequest(s) \/ RestartServer(s) \/ ServerStep(s) \/ Interrupted(s)
    PROVE  \/ Bus!Enter(s) \/ Bus!Accept(s) \/ Bus!Refuse(s) \/ Bus!Forget(s) \/ Bus!Serve(s)
           \/ UNCHANGED Bus!busVars
<1>1. CASE Register(s) \/ ReadRequest(s) \/ RestartServer(s) \/ Registration(s) \/ HandleRequest(s)
  BY <1>1, RegisterMapped, ReadRequestUnseen, RestartMapped, RegistrationMapped,
     HandleRequestUnseen
<1>2. CASE Reading(s)
  <2>1. ReadStep(s) /\ UNCHANGED regVars /\ UNCHANGED sysVars
    BY <1>2 DEF Reading
  <2> QED BY <2>1, WaitingUnseen, ReadTakeMapped DEF ReadStep
<1>3. CASE Interrupted(s)
  <2>1. Signal(s) /\ UNCHANGED regVars /\ UNCHANGED sysVars
    BY <1>3 DEF Interrupted
  <2> QED BY <2>1, WaitingUnseen
<1> QED BY <1>1, <1>2, <1>3 DEF ServerStep

LEMMA BusClientStep ==
    ASSUME SysInv, NEW c \in Clients,
           \/ \E n \in Names : AskNumber(c, n)
           \/ \E k \in Snums : SendRequest(c, k)
           \/ ClientStep(c)
    PROVE  \/ \E n \in Names : Bus!Ask(c, n)
           \/ Bus!Answer(c)
           \/ \E k \in Bus!Numbers : Bus!Send(c, k)
           \/ UNCHANGED Bus!busVars
<1>1. CASE \E n \in Names : AskNumber(c, n)
  BY <1>1, AskMapped
<1>2. CASE \E k \in Snums : SendRequest(c, k)
  BY <1>2, SendRequestUnseen
<1>3. CASE Asking(c) \/ Answered(c)
  BY <1>3, AskingUnseen, AnsweredMapped
<1>4. CASE Sending(c)
  <2>1. RpcStep(c) /\ UNCHANGED regVars /\ UNCHANGED sysVars
    BY <1>4 DEF Sending
  <2>2. CASE RpcWake(c)
    BY <2>1, <2>2, RpcWakeUnseen
  <2>3. CASE RpcAdd(c)
    <3>1. PICK k : k = snd[c].snum
      OBVIOUS
    <3>2. k \in Snums /\ Bus!Send(c, k)
      BY <2>1, <2>3, <3>1, RpcAddMapped
    <3>3. Bus!Numbers = Snums
      BY SysAssumption DEF Bus!Numbers
    <3> QED BY <3>2, <3>3
  <2> QED BY <2>1, <2>2, <2>3 DEF RpcStep
<1> QED BY <1>1, <1>2, <1>3, <1>4 DEF ClientStep

LEMMA BusStutter == ASSUME UNCHANGED allVars PROVE UNCHANGED Bus!busVars
<1>1. UNCHANGED regVars /\ UNCHANGED <<known, meant, restarts, rpc_list, app, applied, rd, snd>>
  BY DEF allVars, queueVars, sysVars
<1>2. \A s \in Servers : Handed(s)' = Handed(s)
  BY <1>1, HandedSame
<1> QED BY <1>1, <1>2, ReadersUnseen

LEMMA BusStep == ASSUME SysInv, [SysNext]_allVars PROVE [Bus!BNext]_Bus!busVars
<1>1. CASE UNCHANGED allVars
  BY <1>1, BusStutter
<1>2. CASE \E s \in Servers : \/ Register(s) \/ ReadRequest(s) \/ RestartServer(s)
                              \/ ServerStep(s) \/ Interrupted(s)
  BY <1>2, BusServerStep DEF Bus!BNext
<1>3. CASE \E c \in Clients : \/ \E n \in Names : AskNumber(c, n)
                              \/ \E k \in Snums : SendRequest(c, k)
                              \/ ClientStep(c)
  BY <1>3, BusClientStep DEF Bus!BNext
<1> QED BY <1>1, <1>2, <1>3 DEF SysNext

LEMMA BusStart == SysInit => Bus!BInit
<1> SUFFICES ASSUME SysInit PROVE Bus!BInit
  OBVIOUS
<1>1. RegInit /\ QueueInit /\ restarts = 0 /\ SysInv
  BY SysInitInv DEF SysInit
<1>2. /\ app = [s \in Servers |-> "menu"] /\ applied = [s \in Servers |-> <<>>]
      /\ known = [c \in Clients |-> [k \in Snums |-> NoName]]
      /\ rpc_list = [k \in Snums |-> <<>>]
      /\ snd = [c \in Clients |-> [pc |-> "out", snum |-> -1, n |-> 0]]
      /\ snum = [s \in Servers |-> -1] /\ service_num = 0
      /\ \A s \in Servers : reg[s].pc = "idle"
      /\ \A c \in Clients : query[c].pc = "idle"
  BY <1>1, SysAssumption DEF SysInit, RegInit, QueueInit, Idle
<1>3. BusDirectory = <<>>
  <2>1. Len(BusDirectory) = 0 /\ BusDirectory \in Seq(Names)
    BY <1>1, <1>2, DirectoryFacts DEF SysInv
  <2> QED BY <2>1, EmptySeq
<1>4. Registering = {} /\ BusAsks = [c \in Clients |-> NoName] /\ BusSent = [c \in Clients |-> 0]
  BY <1>2 DEF Registering, BusAsks, BusSent
<1>5. Meant(<<>>) = <<>>
  BY EmptySeq DEF Meant
<1>6. BusQueue = [k \in Snums |-> <<>>]
  BY <1>2, <1>5 DEF BusQueue
<1>7. BusServed = [s \in Servers |-> <<>>]
  BY <1>2, <1>5 DEF BusServed, Handed
<1>8. Bus!Numbers = Snums
  BY SysAssumption DEF Bus!Numbers
<1> QED BY <1>1, <1>2, <1>3, <1>4, <1>6, <1>7, <1>8
        DEF Bus!BInit, BusDirectory, BusAsks, BusSent, BusQueue, BusServed

\* The slots, scans, locks, sleeps and wake-ups of the driver, and the programs
\* that call it, amount to a directory and one queue for each number.
THEOREM ImplementsTheBus == ASSUME OneAtATime PROVE SysSpec => ImplementsBus
<1>1. SysInv /\ [SysNext]_allVars => [Bus!BNext]_Bus!busVars
  BY BusStep
<1> QED BY <1>1, BusStart, SysConsistency, PTL DEF SysSpec, ImplementsBus, Bus!BSpec
=============================================================================
