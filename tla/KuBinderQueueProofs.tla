------------------------- MODULE KuBinderQueueProofs -------------------------
(***************************************************************************)
(* The request queues of the binder driver, for any number of readers,     *)
(* senders, services and requests: nothing is lost, repeated or overtaken, *)
(* and no request waits behind sleepers only.                              *)
(***************************************************************************)
EXTENDS KuBinderQueue, TLAPS, SequenceTheorems, FiniteSetTheorems, NaturalsInduction,
        WellFoundedInduction

(***************************************************************************)
(* The inductive invariant                                                 *)
(***************************************************************************)
ReaderPcs == {"out", "check", "prepare", "recheck", "schedule", "asleep", "take"}

\* Calls in progress are for numbers in use, requests are numbered by their sender.
CallsTyped ==
    /\ rd \in [Readers -> [pc : ReaderPcs, snum : Snums \cup {-1}, got : Msg \cup {NoMsg}]]
    /\ snd \in [Senders -> [pc : {"out", "add", "wake"}, snum : Snums \cup {-1}, n : 0..MaxSends]]
    /\ \A r \in Readers : rd[r].pc # "out" => rd[r].snum \in Snums
    /\ \A c \in Senders : snd[c].pc # "out" => snd[c].snum \in Snums /\ snd[c].n \in 1..MaxSends

QueuesTyped ==
    /\ wqueue \in [Snums -> Seq(Readers)]
    /\ accepted \in [Snums -> Seq(Msg)]
    /\ oops \in BOOLEAN /\ signals \in 0..MaxSignals

\* A process sleeps only where a wake-up finds it.
Queued(r) == r \in ToSet(wqueue[rd[r].snum])
SleepersQueued == \A r \in Readers : rd[r].pc = "asleep" => Queued(r)

\* x stands before y in q.
Before(q, x, y) == \E i, j \in DOMAIN q : i < j /\ q[i] = x /\ q[j] = y

\* Who sees to it that the requests of number k do not wait for sleeper r: the
\* senders about to wake a reader, and the readers that left the wait or will
\* test the list again and stand behind r.
Waking(k) == {c \in Senders : snd[c].pc = "wake" /\ snd[c].snum = k}
Helps(x, k, r) ==
    /\ rd[x].pc # "out" /\ rd[x].snum = k
    /\ x \in ToSet(wqueue[k]) => rd[x].pc = "recheck" /\ Before(wqueue[k], r, x)
Helping(k, r) == {x \in Readers : Helps(x, k, r)}

\* There are at least as many of them as there are requests.
Enough(k, r) ==
    Len(rpc_list[k]) <= Cardinality(Waking(k)) + Cardinality(Helping(k, r))
EnoughHelp ==
    \A k \in Snums : \A r \in ToSet(wqueue[k]) : rd[r].pc # "recheck" => Enough(k, r)

QueueInv ==
    /\ QueueTypeOK
    /\ CallsTyped
    /\ QueuesTyped
    /\ SleepersQueued
    /\ Fifo
    /\ EnoughHelp

(***************************************************************************)
(* Sequences without repetition                                            *)
(***************************************************************************)
LEMMA PlacesOf ==
    ASSUME NEW S, NEW q \in Seq(S)
    PROVE  /\ Len(q) \in Nat /\ DOMAIN q = 1..Len(q)
           /\ \A x : x \in ToSet(q) <=> \E i \in 1..Len(q) : q[i] = x
           /\ ToSet(q) \subseteq S
           /\ q = <<>> <=> Len(q) = 0
  BY LenProperties, EmptySeq DEF ToSet

\* Joining at the end leaves everybody before where he is.
LEMMA Joining ==
    ASSUME NEW S, NEW q \in Seq(S), NEW e \in S
    PROVE  /\ Append(q, e) \in Seq(S) /\ ToSet(Append(q, e)) = ToSet(q) \cup {e}
           /\ IsInjective(q) /\ e \notin ToSet(q) => IsInjective(Append(q, e))
           /\ \A x, y : Before(q, x, y) => Before(Append(q, e), x, y)
           /\ \A x \in ToSet(q) : Before(Append(q, e), x, e)
<1> DEFINE r == Append(q, e)
           n == Len(q)
<1>1. n \in Nat /\ DOMAIN q = 1..n
  BY PlacesOf
<1>2. r \in Seq(S) /\ Len(r) = n + 1 /\ (\A i \in 1..n : r[i] = q[i]) /\ r[n + 1] = e
  BY AppendProperties
<1>3. DOMAIN r = 1..(n + 1)
  BY <1>2, PlacesOf
<1> HIDE DEF r, n
<1>4. /\ \A i \in 1..n : i \in 1..(n + 1) /\ i < n + 1
      /\ \A i \in 1..(n + 1) : i \in 1..n \/ i = n + 1
      /\ n + 1 \in 1..(n + 1)
  BY <1>1, SMT
<1>5. ToSet(r) = ToSet(q) \cup {e}
  BY <1>1, <1>2, <1>3, <1>4 DEF ToSet
<1>6. ASSUME IsInjective(q), e \notin ToSet(q) PROVE IsInjective(r)
  BY <1>1, <1>2, <1>3, <1>4, <1>6 DEF IsInjective, ToSet
<1>7. ASSUME NEW x, NEW y, Before(q, x, y) PROVE Before(r, x, y)
  BY <1>1, <1>2, <1>3, <1>4, <1>7 DEF Before
<1>8. ASSUME NEW x \in ToSet(q) PROVE Before(r, x, e)
  BY <1>1, <1>2, <1>3, <1>4 DEF Before, ToSet
<1> QED BY <1>2, <1>5, <1>6, <1>7, <1>8 DEF r

\* Taking out the entry at p closes the gap.
LEMMA Dropping ==
    ASSUME NEW S, NEW q \in Seq(S), IsInjective(q), NEW p \in 1..Len(q),
           NEW r \in Seq(S), Len(r) = Len(q) - 1,
           \A i \in 1..Len(r) : r[i] = IF i < p THEN q[i] ELSE q[i + 1]
    PROVE  /\ IsInjective(r) /\ ToSet(r) = ToSet(q) \ {q[p]}
           /\ \A x, y : Before(q, x, y) /\ x # q[p] /\ y # q[p] => Before(r, x, y)
<1> DEFINE n == Len(r)
           from(i) == IF i < p THEN i ELSE i + 1
           to(i) == IF i < p THEN i ELSE i - 1
<1>1. n \in Nat /\ Len(q) = n + 1 /\ DOMAIN q = 1..(n + 1) /\ DOMAIN r = 1..n
  BY PlacesOf, SMT
<1>2. p \in 1..(n + 1)
  BY <1>1
<1>3. \A i \in 1..n : r[i] = q[from(i)]
  OBVIOUS
<1>4. /\ \A i \in 1..n : from(i) \in 1..(n + 1) /\ from(i) # p
      /\ \A i, j \in 1..n : from(i) = from(j) => i = j
      /\ \A i \in 1..(n + 1) : i # p => to(i) \in 1..n /\ from(to(i)) = i
      /\ \A i, j \in 1..(n + 1) : i # p /\ j # p /\ i < j => to(i) < to(j)
  <2> HIDE DEF n
  <2> QED BY <1>1, <1>2, SMT
<1> HIDE DEF n, from, to
<1>5. IsInjective(r)
  BY <1>1, <1>3, <1>4 DEF IsInjective
<1>6. \A x \in ToSet(r) : x \in ToSet(q) \ {q[p]}
  BY <1>1, <1>2, <1>3, <1>4 DEF ToSet, IsInjective
<1>7. \A x \in ToSet(q) \ {q[p]} : x \in ToSet(r)
  BY <1>1, <1>2, <1>3, <1>4 DEF ToSet
<1>8. ASSUME NEW x, NEW y, Before(q, x, y), x # q[p], y # q[p] PROVE Before(r, x, y)
  <2>1. PICK i \in 1..(n + 1), j \in 1..(n + 1) : i < j /\ q[i] = x /\ q[j] = y
    BY <1>1, <1>8 DEF Before
  <2>2. i # p /\ j # p
    BY <1>8, <2>1
  <2>3. to(i) \in 1..n /\ to(j) \in 1..n /\ to(i) < to(j) /\ r[to(i)] = x /\ r[to(j)] = y
    BY <1>3, <1>4, <2>1, <2>2
  <2> QED BY <1>1, <2>3 DEF Before
<1> QED BY <1>5, <1>6, <1>7, <1>8

\* The first one leaves; nobody stood before him.
LEMMA FirstLeaves ==
    ASSUME NEW S, NEW q \in Seq(S), IsInjective(q), q # <<>>
    PROVE  /\ Tail(q) \in Seq(S) /\ IsInjective(Tail(q)) /\ Head(q) \in ToSet(q)
           /\ ToSet(Tail(q)) = ToSet(q) \ {Head(q)}
           /\ \A x, y : Before(q, x, y) /\ x # Head(q) => Before(Tail(q), x, y)
           /\ \A x : ~Before(q, x, Head(q))
<1>1. /\ Tail(q) \in Seq(S) /\ Len(Tail(q)) = Len(q) - 1 /\ Len(q) \in Nat
      /\ \A i \in 1..Len(Tail(q)) : Tail(q)[i] = q[i + 1]
  BY HeadTailProperties, LenProperties
<1>2. 1 \in 1..Len(q) /\ DOMAIN q = 1..Len(q)
  BY PlacesOf, EmptySeq, SMT
<1>3. Head(q) = q[1]
  BY <1>2
<1>4. \A i \in 1..Len(Tail(q)) : Tail(q)[i] = IF i < 1 THEN q[i] ELSE q[i + 1]
  <2>1. Len(Tail(q)) \in Nat
    BY <1>1, PlacesOf
  <2>2. \A i \in 1..Len(Tail(q)) : ~(i < 1)
    BY <2>1, SMT
  <2> QED BY <1>1, <2>2
<1>5. /\ IsInjective(Tail(q)) /\ ToSet(Tail(q)) = ToSet(q) \ {q[1]}
      /\ \A x, y : Before(q, x, y) /\ x # q[1] /\ y # q[1] => Before(Tail(q), x, y)
  <2> DEFINE t == Tail(q)
  <2>1. /\ t \in Seq(S) /\ Len(t) = Len(q) - 1
        /\ \A i \in 1..Len(t) : t[i] = IF i < 1 THEN q[i] ELSE q[i + 1]
    BY <1>1, <1>4
  <2> HIDE DEF t
  <2>2. /\ IsInjective(t) /\ ToSet(t) = ToSet(q) \ {q[1]}
        /\ \A x, y : Before(q, x, y) /\ x # q[1] /\ y # q[1] => Before(t, x, y)
    BY <1>2, <2>1, Dropping, SMTT(30)
  <2> QED BY <2>2 DEF t
<1>6. \A x : ~Before(q, x, q[1])
  <2> SUFFICES ASSUME NEW i \in 1..Len(q), NEW j \in 1..Len(q), i < j, q[j] = q[1] PROVE FALSE
    BY <1>2 DEF Before
  <2>1. j = 1
    BY <1>2 DEF IsInjective
  <2> QED BY <2>1, SMT
<1> QED BY <1>1, <1>2, <1>3, <1>5, <1>6 DEF ToSet

\* The pieces before and after p, joined.
LEMMA GapClosed ==
    ASSUME NEW S, NEW q \in Seq(S), NEW p \in 1..Len(q)
    PROVE  LET r == SubSeq(q, 1, p - 1) \o SubSeq(q, p + 1, Len(q))
           IN  /\ r \in Seq(S) /\ Len(r) = Len(q) - 1
               /\ \A i \in 1..Len(r) : r[i] = IF i < p THEN q[i] ELSE q[i + 1]
<1> DEFINE n == Len(q)
           a == SubSeq(q, 1, p - 1)
           b == SubSeq(q, p + 1, n)
           r == a \o b
<1>1. n \in Nat /\ p \in 1..n /\ \A i \in 1..n : q[i] \in S
  BY LenProperties, ElementOfSeq
<1> HIDE DEF n
<1>2. /\ p - 1 \in Int /\ p + 1 \in Int /\ 1 \in Int /\ n \in Int
      /\ \A i \in 1..p-1 : i \in 1..n /\ 1 + i - 1 = i
      /\ \A i \in p+1..n : i \in 1..n
      /\ \A i \in 1..n-p : p + 1 + i - 1 = p + i
      /\ (IF 1 <= p - 1 THEN p - 1 - 1 + 1 ELSE 0) = p - 1 /\ p - 1 - 1 + 1 = p - 1
      /\ (IF p + 1 <= n THEN n - (p + 1) + 1 ELSE 0) = n - p /\ n - (p + 1) + 1 = n - p
      /\ (p - 1) + (n - p) = n - 1
  BY <1>1, SMT
<1>3. /\ \A i \in 1..p-1 : q[i] \in S
      /\ \A i \in p+1..n : q[i] \in S
  BY <1>1, <1>2
<1>4. a \in Seq(S) /\ Len(a) = p - 1 /\ \A i \in 1..p-1 : a[i] = q[i]
  <2>1. /\ a \in Seq(S) /\ Len(a) = IF 1 <= p - 1 THEN p - 1 - 1 + 1 ELSE 0
        /\ \A i \in 1..(p - 1 - 1 + 1) : a[i] = q[1 + i - 1]
    BY <1>2, <1>3, SubSeqProperties
  <2> HIDE DEF a
  <2> QED BY <1>2, <2>1
<1>5. b \in Seq(S) /\ Len(b) = n - p /\ \A i \in 1..n-p : b[i] = q[p + i]
  <2>1. /\ b \in Seq(S) /\ Len(b) = IF p + 1 <= n THEN n - (p + 1) + 1 ELSE 0
        /\ \A i \in 1..(n - (p + 1) + 1) : b[i] = q[p + 1 + i - 1]
    BY <1>2, <1>3, SubSeqProperties
  <2> HIDE DEF b
  <2> QED BY <1>2, <2>1
<1> HIDE DEF a, b
<1>6. /\ r \in Seq(S) /\ Len(r) = Len(a) + Len(b)
      /\ \A i \in 1..(Len(a) + Len(b)) : r[i] = IF i <= Len(a) THEN a[i] ELSE b[i - Len(a)]
  BY <1>4, <1>5, ConcatProperties
<1> HIDE DEF r
<1>7. /\ Len(r) = n - 1
      /\ \A i \in 1..n-1 : r[i] = IF i <= p - 1 THEN a[i] ELSE b[i - (p - 1)]
  BY <1>2, <1>4, <1>5, <1>6
<1>8. /\ \A i \in 1..n-1 : i <= p - 1 <=> i < p
      /\ \A i \in 1..n-1 : i < p => i \in 1..p-1
      /\ \A i \in 1..n-1 : ~(i < p) => i - (p - 1) \in 1..n-p /\ p + (i - (p - 1)) = i + 1
  BY <1>1, SMT
<1>9. \A i \in 1..n-1 : r[i] = IF i < p THEN q[i] ELSE q[i + 1]
  BY <1>4, <1>5, <1>7, <1>8
<1> QED BY <1>6, <1>7, <1>9 DEF r, a, b, n

LEMMA OneLeaves ==
    ASSUME NEW S, NEW q \in Seq(S), IsInjective(q), NEW e
    PROVE  /\ RemoveFirst(q, e) \in Seq(S) /\ IsInjective(RemoveFirst(q, e))
           /\ ToSet(RemoveFirst(q, e)) = ToSet(q) \ {e}
           /\ \A x, y : Before(q, x, y) /\ x # e /\ y # e => Before(RemoveFirst(q, e), x, y)
<1>1. Len(q) \in Nat /\ DOMAIN q = 1..Len(q)
  BY PlacesOf
<1>2. CASE e \notin ToSet(q)
  <2>1. RemoveFirst(q, e) = q
    BY <1>1, <1>2 DEF RemoveFirst, ToSet
  <2> QED BY <1>2, <2>1
<1>3. ASSUME NEW p \in 1..Len(q), q[p] = e
      PROVE  RemoveFirst(q, e) = SubSeq(q, 1, p - 1) \o SubSeq(q, p + 1, Len(q))
  <2>1. {i \in 1..Len(q) : q[i] = e} = {p}
    BY <1>1, <1>3 DEF IsInjective
  <2>2. Min({p}) = p
    BY SMT DEF Min
  <2>3. SelectInSeq(q, LAMBDA v : v = e) = p
    BY <2>1, <2>2 DEF SelectInSeq
  <2> QED BY <1>3, <2>3 DEF RemoveFirst, RemoveAt
<1>4. CASE e \in ToSet(q)
  <2>1. PICK p \in 1..Len(q) : q[p] = e
    BY <1>1, <1>4 DEF ToSet
  <2> DEFINE r == SubSeq(q, 1, p - 1) \o SubSeq(q, p + 1, Len(q))
  <2>2. /\ r \in Seq(S) /\ Len(r) = Len(q) - 1
        /\ \A i \in 1..Len(r) : r[i] = IF i < p THEN q[i] ELSE q[i + 1]
    BY GapClosed
  <2>3. RemoveFirst(q, e) = r
    BY <1>3, <2>1
  <2> HIDE DEF r
  <2>4. /\ IsInjective(r) /\ ToSet(r) = ToSet(q) \ {q[p]}
        /\ \A x, y : Before(q, x, y) /\ x # q[p] /\ y # q[p] => Before(r, x, y)
    BY <2>1, <2>2, Dropping, SMTT(30)
  <2> QED BY <2>1, <2>2, <2>3, <2>4
<1> QED BY <1>2, <1>4

(***************************************************************************)
(* What the invariant says of one wait queue, and how help is counted      *)
(***************************************************************************)
LEMMA WaitersOf ==
    ASSUME QueueInv, NEW k \in Snums
    PROVE  /\ wqueue[k] \in Seq(Readers) /\ IsInjective(wqueue[k])
           /\ \A r \in ToSet(wqueue[k]) :
                r \in Readers /\ rd[r].snum = k /\ rd[r].pc \in {"recheck", "schedule", "asleep"}
           /\ rpc_list[k] \in Seq(Msg) /\ Len(rpc_list[k]) \in Nat
  BY LenProperties DEF QueueInv, QueueTypeOK, QueuesTyped

\* The counted sets are finite, now and after a step.
LEMMA Countable ==
    ASSUME NEW k, NEW r
    PROVE  /\ IsFiniteSet(Waking(k)) /\ Cardinality(Waking(k)) \in Nat
           /\ IsFiniteSet(Helping(k, r)) /\ Cardinality(Helping(k, r)) \in Nat
           /\ IsFiniteSet(Waking(k)') /\ Cardinality(Waking(k)') \in Nat
           /\ IsFiniteSet(Helping(k, r)') /\ Cardinality(Helping(k, r)') \in Nat
<1>1. /\ Waking(k) \in SUBSET Senders /\ Waking(k)' \in SUBSET Senders
      /\ Helping(k, r) \in SUBSET Readers /\ Helping(k, r)' \in SUBSET Readers
  BY DEF Waking, Helping
<1> HIDE DEF Waking, Helping
<1>2. \A S : S \in SUBSET Senders \/ S \in SUBSET Readers =>
        IsFiniteSet(S) /\ Cardinality(S) \in Nat
  BY QueueAssumption, FS_Subset, FS_CardinalityType
<1> QED BY <1>1, <1>2

\* What one process more or less changes.
LEMMA OneFewer ==
    ASSUME NEW H, NEW H2, NEW e, IsFiniteSet(H), IsFiniteSet(H2), H \ {e} \subseteq H2
    PROVE  Cardinality(H) - 1 <= Cardinality(H2)
<1>1. /\ Cardinality(H) \in Nat /\ Cardinality(H2) \in Nat /\ Cardinality(H \ {e}) \in Nat
      /\ Cardinality(H \ {e}) <= Cardinality(H2)
      /\ Cardinality(H \ {e}) = Cardinality(H) - 1 \/ Cardinality(H \ {e}) = Cardinality(H)
  BY FS_Subset, FS_RemoveElement, FS_CardinalityType
<1> QED BY <1>1, SMT

LEMMA OneMore ==
    ASSUME NEW H, NEW H2, NEW e, IsFiniteSet(H), IsFiniteSet(H2), e \notin H, H \cup {e} \subseteq H2
    PROVE  Cardinality(H) + 1 <= Cardinality(H2)
  BY FS_Subset, FS_AddElement, FS_CardinalityType

\* Putting at the end and taking from the front keep the order.
LEMMA PutAtEnd ==
    ASSUME NEW S, NEW t \in Seq(S), NEW q \in Seq(S), NEW e \in S
    PROVE  Append(t \o q, e) = t \o Append(q, e)
<1> DEFINE u == <<e>>
           v == t \o q
<1>1. v \in Seq(S) /\ u \in Seq(S)
  BY ConcatProperties
<1>2. Append(v, e) = v \o u /\ Append(q, e) = q \o u
  BY <1>1, AppendIsConcat
<1> HIDE DEF u
<1>3. (t \o q) \o u = t \o (q \o u)
  BY <1>1, ConcatAssociative
<1> QED BY <1>2, <1>3

LEMMA TakenFromFront ==
    ASSUME NEW S, NEW t \in Seq(S), NEW q \in Seq(S), q # <<>>
    PROVE  Append(t, Head(q)) \o Tail(q) = t \o q
<1> DEFINE h == Head(q)
           r == Tail(q)
<1>1. h \in S /\ r \in Seq(S) /\ q = <<h>> \o r
  BY HeadTailProperties
<1> HIDE DEF h, r
<1>2. <<h>> \in Seq(S) /\ Append(t, h) = t \o <<h>>
  BY <1>1, AppendIsConcat
<1>3. (t \o <<h>>) \o r = t \o (<<h>> \o r)
  BY <1>1, <1>2, ConcatAssociative
<1> QED BY <1>1, <1>2, <1>3 DEF h, r

\* Arithmetic of Enough.
LEMMA Counting ==
    ASSUME NEW l \in Nat, NEW w \in Nat, NEW h \in Nat, l <= w + h,
           NEW l2 \in Nat, NEW w2 \in Nat, NEW h2 \in Nat
    PROVE  /\ l2 <= l /\ w2 = w /\ h <= h2 => l2 <= w2 + h2
           /\ l2 = l + 1 /\ w2 = w + 1 /\ h <= h2 => l2 <= w2 + h2
           /\ l2 = l /\ w2 >= w - 1 /\ h + 1 <= h2 => l2 <= w2 + h2
           /\ l2 = l - 1 /\ w2 = w /\ h - 1 <= h2 => l2 <= w2 + h2
           /\ l2 = 0 => l2 <= w2 + h2
  BY SMT

\* Requests do not grow, wakers stay, helpers stay or are joined by others.
LEMMA EnoughKept ==
    ASSUME NEW k, NEW r, Enough(k, r), Len(rpc_list[k]) \in Nat, Len(rpc_list'[k]) \in Nat,
           Len(rpc_list'[k]) <= Len(rpc_list[k]), Waking(k)' = Waking(k),
           Helping(k, r) \subseteq Helping(k, r)'
    PROVE  Enough(k, r)'
<1>1. Cardinality(Helping(k, r)) <= Cardinality(Helping(k, r)')
  BY Countable, FS_Subset
<1> QED BY <1>1, Countable, Counting DEF Enough

LEMMA EnoughForNothing ==
    ASSUME NEW k, NEW r, rpc_list'[k] = <<>> PROVE Enough(k, r)'
<1>1. Len(rpc_list'[k]) = 0
  BY EmptySeq
<1>2. \A w, h \in Nat : 0 <= w + h
  BY SMT
<1> QED BY <1>1, <1>2, Countable DEF Enough

(***************************************************************************)
(* A reader moves: it changes its pc and may join or leave the wait queue  *)
(* of its number, all else stays.                                          *)
(***************************************************************************)
ReaderMoves(r, p, q) ==
    /\ rd' = [rd EXCEPT ![r].pc = p]
    /\ wqueue' = [wqueue EXCEPT ![rd[r].snum] = q]
    /\ UNCHANGED <<rpc_list, lock, snd, oops, accepted, taken>>
    /\ signals' \in 0..MaxSignals

\* The queue q is the old one for the others, r is in it only to wait, stands last
\* when it joined, and sleeps only after it saw an empty list or had slept.
MovesRight(r, p, q) ==
    LET w == wqueue[rd[r].snum]
    IN  /\ rd[r].pc # "out" /\ p \in ReaderPcs \ {"out"}
        /\ q \in Seq(Readers) /\ IsInjective(q)
        /\ ToSet(w) \ {r} = ToSet(q) \ {r}
        /\ \A x, y : Before(w, x, y) /\ x # r /\ y # r => Before(q, x, y)
        /\ r \in ToSet(q) => p \in {"recheck", "schedule", "asleep"}
        /\ p = "asleep" => r \in ToSet(q)
        /\ r \in ToSet(q) /\ p = "recheck" => \A x \in ToSet(q) \ {r} : Before(q, x, r)
        /\ r \in ToSet(q) /\ p # "recheck" =>
             q = w /\ (rd[r].pc # "recheck" \/ rpc_list[rd[r].snum] = <<>>)

LEMMA ReaderMovesInv ==
    ASSUME QueueInv, NEW r \in Readers, NEW p, NEW q, ReaderMoves(r, p, q), MovesRight(r, p, q)
    PROVE  QueueInv'
<1> DEFINE k == rd[r].snum
           w == wqueue[k]
<1>1. /\ QueueTypeOK /\ CallsTyped /\ QueuesTyped /\ SleepersQueued
      /\ k \in Snums /\ rd[r].pc # "out" /\ p \in ReaderPcs \ {"out"}
  BY DEF QueueInv, CallsTyped, MovesRight
<1>2. /\ rd'[r].pc = p /\ rd'[r].snum = k
      /\ \A x \in Readers : x # r => rd'[x] = rd[x]
      /\ \A x \in Readers : rd'[x].snum = rd[x].snum
      /\ wqueue'[k] = q /\ \A j \in Snums : j # k => wqueue'[j] = wqueue[j]
  BY <1>1 DEF ReaderMoves, CallsTyped, QueuesTyped
<1>3. CallsTyped'
  BY <1>1, <1>2 DEF ReaderMoves, CallsTyped
<1>4. QueuesTyped'
  BY <1>1 DEF ReaderMoves, MovesRight, QueuesTyped
<1>5. \A j \in Snums : IsInjective(wqueue'[j])
  BY <1>1, <1>2 DEF QueueTypeOK, MovesRight
<1>6. ASSUME NEW j \in Snums, NEW x \in ToSet(wqueue'[j])
      PROVE  x \in Readers /\ rd'[x].snum = j /\ rd'[x].pc \in {"recheck", "schedule", "asleep"}
  <2>1. CASE x = r
    <3>1. j = k
      BY <1>1, <1>2, <1>6, <2>1, WaitersOf
    <3> QED BY <1>2, <1>6, <2>1, <3>1 DEF MovesRight
  <2>2. CASE x # r
    <3>1. x \in ToSet(wqueue[j])
      BY <1>2, <1>6, <2>2 DEF MovesRight
    <3> QED BY <1>2, <2>2, <3>1, WaitersOf
  <2> QED BY <2>1, <2>2
<1>7. QueueTypeOK'
  <2>1. UNCHANGED <<rpc_list, lock, taken>>
    BY DEF ReaderMoves
  <2> QED BY <1>1, <1>5, <1>6, <2>1 DEF QueueTypeOK
<1>8. SleepersQueued'
  <2> SUFFICES ASSUME NEW x \in Readers, rd'[x].pc = "asleep"
               PROVE  x \in ToSet(wqueue'[rd'[x].snum])
    BY DEF SleepersQueued, Queued
  <2>1. CASE x = r
    BY <1>2, <2>1 DEF MovesRight
  <2>2. CASE x # r
    <3>1. x \in ToSet(wqueue[rd[x].snum]) /\ rd[x].snum \in Snums
      BY <1>1, <1>2, <2>2 DEF SleepersQueued, Queued, CallsTyped
    <3> QED BY <1>2, <2>2, <3>1 DEF MovesRight
  <2> QED BY <2>1, <2>2
<1>9. Fifo'
  BY DEF QueueInv, Fifo, ReaderMoves
<1>10. ASSUME NEW j \in Snums, NEW x \in ToSet(wqueue'[j]), rd'[x].pc # "recheck"
       PROVE  Enough(j, x)'
  <2>1. x \in Readers /\ UNCHANGED rpc_list /\ UNCHANGED snd
    BY <1>6 DEF ReaderMoves
  <2>2. CASE rpc_list[j] = <<>>
    BY <2>1, <2>2, EnoughForNothing
  <2>3. CASE rpc_list[j] # <<>>
    <3>1. x \in ToSet(wqueue[j]) /\ rd[x].pc # "recheck"
      <4>1. CASE x = r
        <5>1. j = k
          BY <1>2, <1>6, <4>1
        <5> QED BY <1>2, <1>10, <2>3, <4>1, <5>1 DEF MovesRight
      <4>2. CASE x # r
        <5>1. rd'[x] = rd[x]
          BY <1>2, <2>1, <4>2
        <5>2. j = k => x \in ToSet(w)
          BY <1>2, <1>10, <4>2 DEF MovesRight
        <5>3. j # k => wqueue'[j] = wqueue[j]
          BY <1>2
        <5> QED BY <1>10, <5>1, <5>2, <5>3
      <4> QED BY <4>1, <4>2
    <3>2. Enough(j, x)
      BY <3>1 DEF QueueInv, EnoughHelp
    <3>3. Waking(j)' = Waking(j)
      BY <2>1 DEF Waking
    <3>4. ASSUME NEW y \in Helping(j, x) PROVE y \in Helping(j, x)'
      <4>1. y \in Readers /\ Helps(y, j, x)
        BY <3>4 DEF Helping
      <4>2. CASE y # r
        <5>1. rd'[y] = rd[y]
          BY <1>2, <4>1, <4>2
        <5>2. j # k => wqueue'[j] = wqueue[j]
          BY <1>2
        <5>3. y \in ToSet(wqueue'[j]) => y \in ToSet(wqueue[j])
          BY <1>2, <4>2, <5>2 DEF MovesRight
        <5>4. CASE j = k /\ x = r
          <6>1. q = w
            BY <1>2, <1>10, <5>4 DEF MovesRight
          <6> QED BY <1>2, <4>1, <5>1, <5>4, <6>1 DEF Helping, Helps
        <5>5. CASE j = k /\ x # r
          <6>1. Before(wqueue[j], x, y) => Before(wqueue'[j], x, y)
            BY <1>2, <4>2, <5>5 DEF MovesRight
          <6> QED BY <4>1, <5>1, <5>3, <6>1 DEF Helping, Helps
        <5>6. CASE j # k
          BY <4>1, <5>1, <5>2, <5>6 DEF Helping, Helps
        <5> QED BY <5>4, <5>5, <5>6
      <4>3. CASE y = r
        <5>1. j = k
          BY <4>1, <4>3 DEF Helps
        <5>2. CASE r \notin ToSet(q)
          BY <1>1, <1>2, <4>3, <5>1, <5>2 DEF Helping, Helps
        <5>3. CASE r \in ToSet(q) /\ p = "recheck"
          <6>1. x # r
            BY <1>2, <1>10, <5>3
          <6>2. Before(q, x, r)
            BY <1>2, <1>10, <5>1, <5>3, <6>1 DEF MovesRight
          <6> QED BY <1>1, <1>2, <4>3, <5>1, <5>3, <6>2 DEF Helping, Helps
        <5>4. CASE r \in ToSet(q) /\ p # "recheck"
          <6>1. r \in ToSet(w) /\ rd[r].pc # "recheck"
            BY <2>3, <5>1, <5>4 DEF MovesRight
          <6> QED BY <4>1, <4>3, <5>1, <6>1 DEF Helps
        <5> QED BY <5>2, <5>3, <5>4
      <4> QED BY <4>2, <4>3
    <3>5. Helping(j, x) \subseteq Helping(j, x)'
      BY <3>4
    <3>6. Len(rpc_list[j]) \in Nat /\ rpc_list'[j] = rpc_list[j]
          /\ Len(rpc_list'[j]) <= Len(rpc_list[j])
      BY <2>1, WaitersOf, SMT
    <3> QED BY <3>2, <3>3, <3>5, <3>6, EnoughKept
  <2> QED BY <2>2, <2>3
<1>11. EnoughHelp'
  BY <1>10 DEF EnoughHelp
<1> QED BY <1>3, <1>4, <1>7, <1>8, <1>9, <1>11 DEF QueueInv

(***************************************************************************)
(* The steps of a reader                                                   *)
(***************************************************************************)
LEMMA ReaderFacts ==
    ASSUME QueueInv, NEW r \in Readers, rd[r].pc # "out"
    PROVE  /\ rd[r].snum \in Snums
           /\ wqueue[rd[r].snum] \in Seq(Readers) /\ IsInjective(wqueue[rd[r].snum])
           /\ \A j \in Snums : r \in ToSet(wqueue[j]) =>
                rd[r].snum = j /\ rd[r].pc \in {"recheck", "schedule", "asleep"}
           /\ ListEmpty(r) <=> rpc_list[rd[r].snum] = <<>>
           /\ Waiting(r) <=> Queued(r)
           /\ wqueue = [wqueue EXCEPT ![rd[r].snum] = @]
           /\ signals \in 0..MaxSignals
<1>1. rd[r].snum \in Snums
  BY DEF QueueInv, CallsTyped
<1>2. wqueue[rd[r].snum] \in Seq(Readers)
  BY <1>1, WaitersOf
<1>3. DOMAIN wqueue[rd[r].snum] = 1..Len(wqueue[rd[r].snum])
  BY <1>2, PlacesOf
<1>4. Waiting(r) <=> Queued(r)
  BY <1>3 DEF Waiting, Queued, ToSet
<1> QED BY <1>1, <1>2, <1>4, WaitersOf DEF ListEmpty, QueueInv, QueuesTyped

LEMMA ReadCheckInv ==
    ASSUME QueueInv, NEW r \in Readers, ReadCheck(r)
    PROVE  QueueInv'
<1>1. rd[r].pc = "check"
  BY DEF ReadCheck
<1> DEFINE w == wqueue[rd[r].snum]
           p == IF ListEmpty(r) THEN "prepare" ELSE "take"
<1>2. ReaderMoves(r, p, w)
  BY <1>1, ReaderFacts DEF ReadCheck, ReaderMoves, MoveReader
<1>3. MovesRight(r, p, w)
  BY <1>1, ReaderFacts DEF MovesRight, ReaderPcs
<1> QED BY <1>2, <1>3, ReaderMovesInv

LEMMA ReadPrepareInv ==
    ASSUME QueueInv, NEW r \in Readers, ReadPrepare(r)
    PROVE  QueueInv'
<1>1. rd[r].pc = "prepare"
  BY DEF ReadPrepare
<1> DEFINE w == wqueue[rd[r].snum]
           q == Append(w, r)
<1>2. ReaderMoves(r, "recheck", q)
  BY <1>1, ReaderFacts DEF ReadPrepare, ReaderMoves, MoveReader
<1>3. r \notin ToSet(w) /\ w \in Seq(Readers) /\ IsInjective(w)
  BY <1>1, ReaderFacts
<1>4. /\ q \in Seq(Readers) /\ ToSet(q) = ToSet(w) \cup {r}
      /\ IsInjective(q)
      /\ \A x, y : Before(w, x, y) => Before(q, x, y)
      /\ \A x \in ToSet(w) : Before(q, x, r)
  BY <1>3, Joining
<1> HIDE DEF q
<1>5. MovesRight(r, "recheck", q)
  BY <1>1, <1>4 DEF MovesRight, ReaderPcs
<1> QED BY <1>2, <1>5, ReaderMovesInv

LEMMA LeavesRight ==
    ASSUME QueueInv, NEW r \in Readers, rd[r].pc # "out"
    PROVE  MovesRight(r, "take", RemoveFirst(wqueue[rd[r].snum], r))
<1> DEFINE w == wqueue[rd[r].snum]
           q == RemoveFirst(w, r)
<1>1. /\ q \in Seq(Readers) /\ IsInjective(q) /\ ToSet(q) = ToSet(w) \ {r}
      /\ \A x, y : Before(w, x, y) /\ x # r /\ y # r => Before(q, x, y)
  BY ReaderFacts, OneLeaves
<1> HIDE DEF q
<1>2. MovesRight(r, "take", q)
  BY <1>1 DEF MovesRight, ReaderPcs
<1> QED BY <1>2 DEF q

LEMMA ReadRecheckInv ==
    ASSUME QueueInv, NEW r \in Readers, ReadRecheck(r)
    PROVE  QueueInv'
<1>1. rd[r].pc = "recheck"
  BY DEF ReadRecheck
<1> DEFINE w == wqueue[rd[r].snum]
<1>2. CASE ListEmpty(r)
  <2>1. ReaderMoves(r, "schedule", w)
    BY <1>1, <1>2, ReaderFacts DEF ReadRecheck, ReaderMoves, MoveReader, RecheckTo
  <2>2. MovesRight(r, "schedule", w)
    BY <1>1, <1>2, ReaderFacts DEF MovesRight, ReaderPcs
  <2> QED BY <2>1, <2>2, ReaderMovesInv
<1>3. CASE ~ListEmpty(r)
  <2>1. ReaderMoves(r, "take", RemoveFirst(w, r))
    BY <1>1, <1>3, ReaderFacts DEF ReadRecheck, ReaderMoves, MoveReader, RecheckTo, LeaveWait
  <2> QED BY <1>1, <2>1, LeavesRight, ReaderMovesInv
<1> QED BY <1>2, <1>3

LEMMA ReadScheduleInv ==
    ASSUME QueueInv, NEW r \in Readers, ReadSchedule(r)
    PROVE  QueueInv'
<1>1. rd[r].pc = "schedule"
  BY DEF ReadSchedule
<1> DEFINE w == wqueue[rd[r].snum]
           p == IF Waiting(r) THEN "asleep" ELSE "prepare"
<1>2. ReaderMoves(r, p, w)
  BY <1>1, ReaderFacts DEF ReadSchedule, ReaderMoves, MoveReader
<1>3. MovesRight(r, p, w)
  BY <1>1, ReaderFacts DEF MovesRight, ReaderPcs, Queued
<1> QED BY <1>2, <1>3, ReaderMovesInv

LEMMA SignalInv ==
    ASSUME QueueInv, NEW r \in Readers, Signal(r)
    PROVE  QueueInv'
<1>1. rd[r].pc \in {"prepare", "recheck", "schedule", "asleep"}
  BY DEF Signal
<1>2. signals' \in 0..MaxSignals
  BY <1>1, ReaderFacts, QueueAssumption, SMT DEF Signal
<1>3. ReaderMoves(r, "take", RemoveFirst(wqueue[rd[r].snum], r))
  BY <1>2 DEF Signal, ReaderMoves, MoveReader, LeaveWait
<1> QED BY <1>1, <1>3, LeavesRight, ReaderMovesInv

\* A reader enters BINDER_READ for any number in use.
LEMMA ReadCallInv ==
    ASSUME QueueInv, NEW r \in Readers, NEW k \in Snums, ReadCall(r, k)
    PROVE  QueueInv'
<1>1. /\ rd[r].pc = "out" /\ rd' = [rd EXCEPT ![r].pc = "check", ![r].snum = k]
      /\ UNCHANGED <<rpc_list, wqueue, lock, snd, signals, oops, accepted, taken>>
  BY DEF ReadCall
<1>2. CallsTyped /\ QueuesTyped /\ QueueTypeOK /\ SleepersQueued /\ Fifo /\ EnoughHelp
  BY DEF QueueInv
<1>3. /\ rd'[r].pc = "check" /\ rd'[r].snum = k
      /\ \A x \in Readers : x # r => rd'[x] = rd[x]
  BY <1>1, <1>2 DEF CallsTyped
<1>4. CallsTyped'
  <2> DEFINE R == [pc : ReaderPcs, snum : Snums \cup {-1}, got : Msg \cup {NoMsg}]
             g == [[rd[r] EXCEPT !.pc = "check"] EXCEPT !.snum = k]
  <2>1. rd' = [rd EXCEPT ![r] = g] /\ rd \in [Readers -> R] /\ rd[r] \in R
    BY <1>1, <1>2 DEF CallsTyped
  <2>2. g \in R
    BY <2>1 DEF ReaderPcs
  <2>3. rd' \in [Readers -> R]
    BY <2>1, <2>2
  <2> QED BY <1>1, <1>2, <1>3, <2>3 DEF CallsTyped
<1>5. \A j \in Snums : \A x \in ToSet(wqueue[j]) : x \in Readers /\ rd[x].pc # "out" /\ rd'[x] = rd[x]
  BY <1>1, <1>3, WaitersOf, ZenonT(60)
<1>6. QueueTypeOK' /\ QueuesTyped' /\ Fifo'
  <2>1. ASSUME NEW j \in Snums, NEW x \in ToSet(wqueue'[j])
        PROVE  x \in Readers /\ rd'[x].snum = j /\ rd'[x].pc \in {"recheck", "schedule", "asleep"}
    <3>1. x \in ToSet(wqueue[j])
      BY <1>1, <2>1
    <3> QED BY <1>5, <3>1, WaitersOf
  <2>2. QueueTypeOK'
    BY <1>1, <1>2, <2>1 DEF QueueTypeOK
  <2> QED BY <1>1, <1>2, <2>2 DEF QueuesTyped, Fifo
<1>7. SleepersQueued'
  BY <1>1, <1>2, <1>3 DEF SleepersQueued, Queued
<1>8. ASSUME NEW j \in Snums, NEW x \in ToSet(wqueue'[j]), rd'[x].pc # "recheck"
      PROVE  Enough(j, x)'
  <2>1. Enough(j, x)
    BY <1>1, <1>2, <1>5, <1>8 DEF EnoughHelp
  <2>2. Waking(j)' = Waking(j)
    BY <1>1 DEF Waking
  <2>3. Helping(j, x) \subseteq Helping(j, x)'
    BY <1>1, <1>3 DEF Helping, Helps
  <2>4. Len(rpc_list[j]) \in Nat /\ rpc_list'[j] = rpc_list[j]
        /\ Len(rpc_list'[j]) <= Len(rpc_list[j])
    BY <1>1, WaitersOf, SMT
  <2> QED BY <2>1, <2>2, <2>3, <2>4, EnoughKept
<1> QED BY <1>4, <1>6, <1>7, <1>8 DEF QueueInv, EnoughHelp

\* The locked section: one request fewer, and the reader that took it no longer helps.
LEMMA ReadTakeInv ==
    ASSUME QueueInv, NEW r \in Readers, ReadTake(r)
    PROVE  QueueInv'
<1> DEFINE k == rd[r].snum
           q == rpc_list[k]
<1>1. rd[r].pc = "take"
  BY DEF ReadTake
<1>2. CallsTyped /\ QueuesTyped /\ QueueTypeOK /\ SleepersQueued /\ Fifo /\ EnoughHelp
  BY DEF QueueInv
<1>3. CASE ListEmpty(r)
  <2>1. oops' = TRUE /\ UNCHANGED <<rpc_list, taken, rd, wqueue, lock, snd, signals, accepted>>
    BY <1>3 DEF ReadTake
  <2>2. QueueTypeOK' /\ CallsTyped' /\ QueuesTyped' /\ SleepersQueued' /\ Fifo'
    BY <1>2, <2>1 DEF QueueTypeOK, CallsTyped, QueuesTyped, SleepersQueued, Queued, Fifo
  <2>3. \A j, x : Waking(j)' = Waking(j) /\ Helping(j, x)' = Helping(j, x)
    BY <2>1 DEF Waking, Helping, Helps, Before
  <2>4. \A j, x : Enough(j, x) => Enough(j, x)'
    BY <2>1, <2>3 DEF Enough
  <2>5. EnoughHelp'
    BY <1>2, <2>1, <2>4 DEF EnoughHelp
  <2> QED BY <2>2, <2>5 DEF QueueInv
<1>4. CASE ~ListEmpty(r)
  <2>1. k \in Snums /\ q # <<>> /\ q \in Seq(Msg)
    BY <1>1, <1>4, ReaderFacts, WaitersOf
  <2>2. /\ rpc_list' = [rpc_list EXCEPT ![k] = Tail(q)]
        /\ taken' = [taken EXCEPT ![k] = Append(@, Head(q))]
        /\ rd' = [rd EXCEPT ![r].pc = "out", ![r].got = Head(q)]
        /\ UNCHANGED <<oops, wqueue, lock, snd, signals, accepted>>
    BY <1>4 DEF ReadTake, Rest
  <2> DEFINE h == Head(q)
             t == Tail(q)
  <2>3. h \in Msg /\ t \in Seq(Msg) /\ Len(q) \in Nat /\ Len(t) = Len(q) - 1
    BY <2>1, HeadTailProperties, LenProperties
  <2> HIDE DEF h, t
  <2>4. /\ rpc_list'[k] = t /\ taken'[k] = Append(taken[k], h)
        /\ \A j \in Snums : j # k => rpc_list'[j] = rpc_list[j] /\ taken'[j] = taken[j]
        /\ rd'[r].pc = "out" /\ rd'[r].snum = k /\ rd'[r].got = h
        /\ \A x \in Readers : x # r => rd'[x] = rd[x]
    BY <1>2, <2>1, <2>2 DEF QueueTypeOK, CallsTyped, h, t
  <2>5. taken[k] \in Seq(Msg) /\ Append(taken[k], h) \in Seq(Msg)
    BY <1>2, <2>1, <2>3, AppendProperties DEF QueueTypeOK
  <2>6. rpc_list' \in [Snums -> Seq(Msg)] /\ taken' \in [Snums -> Seq(Msg)]
    BY <1>2, <2>1, <2>2, <2>3, <2>5 DEF QueueTypeOK, h, t
  <2>7. \A j \in Snums : \A x \in ToSet(wqueue[j]) : x \in Readers /\ x # r /\ rd'[x] = rd[x]
    BY <1>1, <2>4, WaitersOf
  <2>8. QueueTypeOK'
    <3>1. ASSUME NEW j \in Snums, NEW x \in ToSet(wqueue'[j])
          PROVE  x \in Readers /\ rd'[x].snum = j /\ rd'[x].pc \in {"recheck", "schedule", "asleep"}
      <4>1. x \in ToSet(wqueue[j])
        BY <2>2, <3>1
      <4> QED BY <2>7, <4>1, WaitersOf
    <3> QED BY <1>2, <2>2, <2>6, <3>1 DEF QueueTypeOK
  <2>9. CallsTyped' /\ QueuesTyped' /\ SleepersQueued'
    <3> DEFINE R == [pc : ReaderPcs, snum : Snums \cup {-1}, got : Msg \cup {NoMsg}]
               g == [[rd[r] EXCEPT !.pc = "out"] EXCEPT !.got = h]
    <3>a. rd' = [rd EXCEPT ![r] = g] /\ rd \in [Readers -> R] /\ rd[r] \in R
      BY <1>2, <2>2 DEF CallsTyped, h
    <3>b. g \in R
      BY <2>3, <3>a DEF ReaderPcs
    <3>1. rd' \in [Readers -> [pc : ReaderPcs, snum : Snums \cup {-1}, got : Msg \cup {NoMsg}]]
      BY <3>a, <3>b
    <3>2. CallsTyped'
      BY <1>2, <2>2, <2>4, <3>1 DEF CallsTyped
    <3> QED BY <1>2, <2>2, <2>4, <3>2 DEF QueuesTyped, SleepersQueued, Queued
  <2>10. Fifo'
    <3>1. Append(taken[k], h) \o t = taken[k] \o q
      BY <2>1, <2>5, TakenFromFront DEF h, t
    <3>2. accepted'[k] = taken'[k] \o rpc_list'[k]
      BY <1>2, <2>1, <2>2, <2>4, <3>1 DEF Fifo
    <3> QED BY <1>2, <2>2, <2>4, <3>2 DEF Fifo
  <2>11. ASSUME NEW j \in Snums, NEW x \in ToSet(wqueue'[j]), rd'[x].pc # "recheck"
         PROVE  Enough(j, x)'
    <3>1. Enough(j, x)
      BY <1>2, <2>2, <2>7, <2>11 DEF EnoughHelp
    <3>2. Waking(j)' = Waking(j)
      BY <2>2 DEF Waking
    <3>3. Helping(j, x) \ {r} \subseteq Helping(j, x)'
      BY <2>2, <2>4 DEF Helping, Helps
    <3>4. CASE j # k
      <4>1. r \notin Helping(j, x)
        BY <3>4 DEF Helping, Helps
      <4>2. Len(rpc_list[j]) \in Nat /\ rpc_list'[j] = rpc_list[j]
            /\ Len(rpc_list'[j]) <= Len(rpc_list[j])
        BY <2>4, <3>4, WaitersOf, SMT
      <4> QED BY <3>1, <3>2, <3>3, <4>1, <4>2, EnoughKept
    <3>5. CASE j = k
      <4> DEFINE H == Helping(j, x)
                 H2 == Helping(j, x)'
      <4>1. IsFiniteSet(H) /\ Cardinality(H) \in Nat /\ IsFiniteSet(H2) /\ Cardinality(H2) \in Nat
            /\ Cardinality(Waking(j)) \in Nat /\ Cardinality(Waking(j)') \in Nat
        BY Countable
      <4>2. H \ {r} \subseteq H2
        BY <3>3
      <4> HIDE DEF H, H2
      <4>7. Cardinality(H) - 1 <= Cardinality(H2)
        BY <4>1, <4>2, OneFewer
      <4>8. Len(t) \in Nat
        BY <2>3, LenProperties
      <4>9. Len(q) <= Cardinality(Waking(j)) + Cardinality(H)
        BY <3>1, <3>5 DEF Enough, H
      <4>10. Len(t) <= Cardinality(Waking(j)') + Cardinality(H2)
        BY <2>3, <3>2, <4>1, <4>7, <4>8, <4>9, Counting
      <4> QED BY <2>4, <3>5, <4>10 DEF Enough, H2
    <3> QED BY <3>4, <3>5
  <2> QED BY <2>8, <2>9, <2>10, <2>11 DEF QueueInv, EnoughHelp
<1> QED BY <1>3, <1>4

(***************************************************************************)
(* The steps of a sender                                                   *)
(***************************************************************************)
LEMMA RpcCallInv ==
    ASSUME QueueInv, NEW c \in Senders, NEW k \in Snums, RpcCall(c, k)
    PROVE  QueueInv'
<1>1. /\ snd[c].pc = "out" /\ snd[c].n < MaxSends
      /\ snd' = [snd EXCEPT ![c] = [pc |-> "add", snum |-> k, n |-> snd[c].n + 1]]
      /\ UNCHANGED <<rpc_list, wqueue, lock, rd, signals, oops, accepted, taken>>
  BY DEF RpcCall
<1>2. CallsTyped /\ QueuesTyped /\ QueueTypeOK /\ SleepersQueued /\ Fifo /\ EnoughHelp
  BY DEF QueueInv
<1>3. snd[c].n \in 0..MaxSends
  BY <1>2 DEF CallsTyped
<1>4. snd[c].n + 1 \in 1..MaxSends /\ snd[c].n + 1 \in 0..MaxSends
  BY <1>1, <1>3, QueueAssumption, SMT
<1>5. /\ snd'[c] = [pc |-> "add", snum |-> k, n |-> snd[c].n + 1]
      /\ \A d \in Senders : d # c => snd'[d] = snd[d]
  BY <1>1, <1>2 DEF CallsTyped
<1>6. CallsTyped'
  <2>1. snd' \in [Senders -> [pc : {"out", "add", "wake"}, snum : Snums \cup {-1}, n : 0..MaxSends]]
    BY <1>1, <1>2, <1>4 DEF CallsTyped
  <2> QED BY <1>1, <1>2, <1>4, <1>5, <2>1 DEF CallsTyped
<1>7. QueueTypeOK' /\ QueuesTyped' /\ SleepersQueued' /\ Fifo'
  BY <1>1, <1>2 DEF QueueTypeOK, QueuesTyped, SleepersQueued, Queued, Fifo
<1>8. \A j : Waking(j)' = Waking(j)
  BY <1>1, <1>5 DEF Waking
<1>9. \A j, x : Enough(j, x) => Enough(j, x)'
  BY <1>1, <1>8 DEF Enough, Helping, Helps, Before
<1>10. EnoughHelp'
  BY <1>1, <1>2, <1>9 DEF EnoughHelp
<1> QED BY <1>6, <1>7, <1>10 DEF QueueInv

\* One request more, and one sender more that is about to wake a reader.
LEMMA RpcAddInv ==
    ASSUME QueueInv, NEW c \in Senders, RpcAdd(c)
    PROVE  QueueInv'
<1> DEFINE k == snd[c].snum
           q == rpc_list[k]
           m == Request(c)
           a == Append(q, m)
<1>1. CallsTyped /\ QueuesTyped /\ QueueTypeOK /\ SleepersQueued /\ Fifo /\ EnoughHelp
  BY DEF QueueInv
<1>2. /\ snd[c].pc = "add" /\ lock' = [lock EXCEPT ![k] = c]
      /\ rpc_list' = [rpc_list EXCEPT ![k] = a]
      /\ accepted' = [accepted EXCEPT ![k] = Append(@, m)]
      /\ snd' = [snd EXCEPT ![c].pc = "wake"]
      /\ UNCHANGED <<wqueue, rd, signals, oops, taken>>
  BY DEF RpcAdd, AddTail
<1>3. k \in Snums /\ m \in Msg
  BY <1>1, <1>2 DEF CallsTyped, Request, Msg
<1>4. q \in Seq(Msg) /\ Len(q) \in Nat /\ accepted[k] \in Seq(Msg) /\ taken[k] \in Seq(Msg)
  BY <1>1, <1>3, WaitersOf DEF QueuesTyped, QueueTypeOK
<1>5. a \in Seq(Msg) /\ Len(a) = Len(q) + 1 /\ Append(accepted[k], m) \in Seq(Msg)
  BY <1>3, <1>4, AppendProperties
<1> HIDE DEF a, m
<1>7. /\ rpc_list'[k] = a /\ accepted'[k] = Append(accepted[k], m)
      /\ \A j \in Snums : j # k => rpc_list'[j] = rpc_list[j] /\ accepted'[j] = accepted[j]
      /\ snd'[c].pc = "wake" /\ snd'[c].snum = k
      /\ \A d \in Senders : d # c => snd'[d] = snd[d]
  BY <1>1, <1>2, <1>3 DEF QueueTypeOK, QueuesTyped, CallsTyped
<1>8. CallsTyped'
  BY <1>1, <1>2 DEF CallsTyped
<1>9. QueuesTyped' /\ SleepersQueued'
  BY <1>1, <1>2, <1>5 DEF QueuesTyped, SleepersQueued, Queued
<1>10. QueueTypeOK'
  <2>1. rpc_list' \in [Snums -> Seq(Msg)] /\ lock' \in [Snums -> Senders \cup {NoProc}]
    BY <1>1, <1>2, <1>5 DEF QueueTypeOK
  <2> QED BY <1>1, <1>2, <2>1 DEF QueueTypeOK
<1>11. Fifo'
  <2> DEFINE t == taken[k]
             b == accepted[k]
  <2>1. t \in Seq(Msg) /\ q \in Seq(Msg) /\ m \in Msg /\ b = t \o q /\ a = Append(q, m)
    BY <1>1, <1>3, <1>4 DEF Fifo, a
  <2>2. accepted'[k] = Append(b, m) /\ taken'[k] = t /\ rpc_list'[k] = a
    BY <1>2, <1>7
  <2> HIDE DEF t, b, q
  <2>3. Append(t \o q, m) = t \o Append(q, m)
    BY <2>1, PutAtEnd
  <2>4. accepted'[k] = taken'[k] \o rpc_list'[k]
    BY <2>1, <2>2, <2>3
  <2> QED BY <1>1, <1>2, <1>7, <2>4 DEF Fifo
<1>12. \A j, x : Helping(j, x)' = Helping(j, x)
  BY <1>2 DEF Helping, Helps, Before
<1>13. ASSUME NEW j \in Snums, NEW x, Enough(j, x)
       PROVE  Enough(j, x)'
  <2> DEFINE W == Waking(j)
             W2 == Waking(j)'
  <2>1. /\ IsFiniteSet(W) /\ Cardinality(W) \in Nat /\ Cardinality(W2) \in Nat
        /\ Cardinality(Helping(j, x)) \in Nat /\ Helping(j, x)' = Helping(j, x)
    BY <1>12, Countable
  <2>2. CASE j # k
    <3>1. W2 = W
      BY <1>2, <1>7, <2>2 DEF Waking
    <3> QED BY <1>7, <1>13, <2>1, <2>2, <3>1 DEF Enough
  <2>3. CASE j = k
    <3>1. c \notin W /\ W2 = W \cup {c}
      BY <1>2, <1>7, <2>3 DEF Waking
    <3>2. Len(q) <= Cardinality(W) + Cardinality(Helping(j, x))
      BY <1>13, <2>3 DEF Enough
    <3> HIDE DEF W, W2
    <3>3. Cardinality(W2) = Cardinality(W) + 1
      BY <2>1, <3>1, FS_AddElement
    <3>4. Len(a) \in Nat /\ Cardinality(Helping(j, x)) <= Cardinality(Helping(j, x))
      BY <1>5, <2>1, LenProperties, SMT
    <3>5. Len(a) <= Cardinality(W2) + Cardinality(Helping(j, x))
      BY <1>4, <1>5, <2>1, <3>2, <3>3, <3>4, Counting
    <3> QED BY <1>7, <2>1, <2>3, <3>5 DEF Enough, W2
  <2> QED BY <2>2, <2>3
<1>14. EnoughHelp'
  BY <1>1, <1>2, <1>13 DEF EnoughHelp
<1> QED BY <1>8, <1>9, <1>10, <1>11, <1>14 DEF QueueInv

\* The head of the wait queue leaves it and helps from now on; the sender no longer does.
LEMMA RpcWakeInv ==
    ASSUME QueueInv, NEW c \in Senders, RpcWake(c)
    PROVE  QueueInv'
<1> DEFINE k == snd[c].snum
           w == wqueue[k]
           v == StillWaiting(w)
<1>1. CallsTyped /\ QueuesTyped /\ QueueTypeOK /\ SleepersQueued /\ Fifo /\ EnoughHelp
  BY DEF QueueInv
<1>2. /\ snd[c].pc = "wake" /\ lock' = [lock EXCEPT ![k] = NoProc]
      /\ rd' = [r \in Readers |-> IF r \in Woken(k) THEN Restart(r) ELSE rd[r]]
      /\ wqueue' = [wqueue EXCEPT ![k] = v]
      /\ snd' = [snd EXCEPT ![c].pc = "out"]
      /\ UNCHANGED <<rpc_list, signals, oops, accepted, taken>>
  BY DEF RpcWake
<1>3. k \in Snums
  BY <1>1, <1>2 DEF CallsTyped
<1>4. w \in Seq(Readers) /\ IsInjective(w)
  BY <1>3, WaitersOf
<1>5. /\ v \in Seq(Readers) /\ IsInjective(v) /\ ToSet(v) = ToSet(w) \ Woken(k)
      /\ Woken(k) \subseteq ToSet(w)
      /\ \A x, y : Before(w, x, y) /\ x \notin Woken(k) => Before(v, x, y)
      /\ \A h \in Woken(k) : \A x : ~Before(w, x, h)
      /\ v # <<>> => \E h : h \in Woken(k)
  <2>1. CASE w = <<>>
    <3>1. v = w /\ Woken(k) = {}
      BY <2>1 DEF StillWaiting, Woken
    <3> QED BY <1>4, <2>1, <3>1
  <2>2. CASE w # <<>>
    <3> DEFINE t == Tail(w)
               h == Head(w)
    <3>1. v = t /\ Woken(k) = {h}
      BY <2>2 DEF StillWaiting, Woken
    <3>2. /\ t \in Seq(Readers) /\ IsInjective(t) /\ h \in ToSet(w)
          /\ ToSet(t) = ToSet(w) \ {h}
          /\ \A x, y : Before(w, x, y) /\ x # h => Before(t, x, y)
          /\ \A x : ~Before(w, x, h)
      BY <1>4, <2>2, FirstLeaves
    <3> HIDE DEF t, h, v, w
    <3> QED BY <3>1, <3>2
  <2> QED BY <2>1, <2>2
<1> HIDE DEF v
<1>6. /\ wqueue'[k] = v /\ \A j \in Snums : j # k => wqueue'[j] = wqueue[j]
      /\ snd'[c].pc = "out" /\ \A d \in Senders : d # c => snd'[d] = snd[d]
  BY <1>1, <1>2, <1>3 DEF QueuesTyped, CallsTyped
<1>7. \A r \in Readers :
        /\ r \notin Woken(k) => rd'[r] = rd[r]
        /\ rd'[r].snum = rd[r].snum
        /\ r \in Woken(k) => rd[r].snum = k /\ rd'[r].pc \in {"prepare", "recheck", "schedule"}
        /\ \/ rd'[r].pc = rd[r].pc
           \/ r \in Woken(k) /\ rd[r].pc = "asleep" /\ rd'[r].pc = "prepare"
  <2> SUFFICES ASSUME NEW r \in Readers
               PROVE  /\ r \notin Woken(k) => rd'[r] = rd[r]
                      /\ rd'[r].snum = rd[r].snum
                      /\ r \in Woken(k) =>
                           rd[r].snum = k /\ rd'[r].pc \in {"prepare", "recheck", "schedule"}
                      /\ \/ rd'[r].pc = rd[r].pc
                         \/ r \in Woken(k) /\ rd[r].pc = "asleep" /\ rd'[r].pc = "prepare"
    OBVIOUS
  <2>1. rd[r] \in [pc : ReaderPcs, snum : Snums \cup {-1}, got : Msg \cup {NoMsg}]
    BY <1>1 DEF CallsTyped
  <2>2. rd'[r] = IF r \in Woken(k) THEN Restart(r) ELSE rd[r]
    BY <1>2
  <2>3. /\ Restart(r).snum = rd[r].snum
        /\ Restart(r).pc = IF rd[r].pc = "asleep" THEN "prepare" ELSE rd[r].pc
    BY <2>1 DEF Restart
  <2>4. r \in Woken(k) => rd[r].snum = k /\ rd[r].pc \in {"recheck", "schedule", "asleep"}
    BY <1>3, <1>5, WaitersOf
  <2> QED BY <2>2, <2>3, <2>4
<1>8. CallsTyped'
  <2> DEFINE R == [pc : ReaderPcs, snum : Snums \cup {-1}, got : Msg \cup {NoMsg}]
  <2>1. \A r \in Readers : rd[r] \in R /\ Restart(r) \in R
    BY <1>1 DEF CallsTyped, Restart, ReaderPcs
  <2>2. rd' \in [Readers -> R]
    BY <1>2, <2>1
  <2>3. \A r \in Readers : rd'[r].pc # "out" => rd'[r].snum \in Snums
    BY <1>1, <1>7 DEF CallsTyped
  <2>4. snd' \in [Senders -> [pc : {"out", "add", "wake"}, snum : Snums \cup {-1}, n : 0..MaxSends]]
    BY <1>1, <1>2 DEF CallsTyped
  <2>5. \A d \in Senders : snd'[d].pc # "out" => snd'[d].snum \in Snums /\ snd'[d].n \in 1..MaxSends
    BY <1>1, <1>6 DEF CallsTyped
  <2> QED BY <2>2, <2>3, <2>4, <2>5 DEF CallsTyped
<1>9. QueuesTyped' /\ Fifo'
  BY <1>1, <1>2, <1>5 DEF QueuesTyped, Fifo
<1>10. ASSUME NEW j \in Snums, NEW x \in ToSet(wqueue'[j])
       PROVE  x \in ToSet(wqueue[j]) /\ rd'[x] = rd[x] /\ x \in Readers /\ x \notin Woken(k)
  <2>1. CASE j = k
    BY <1>3, <1>5, <1>6, <1>7, <1>10, <2>1, WaitersOf
  <2>2. CASE j # k
    <3>1. x \in ToSet(wqueue[j])
      BY <1>6, <1>10, <2>2
    <3>2. x \in Readers /\ rd[x].snum = j
      BY <3>1, WaitersOf
    <3>3. x \notin Woken(k)
      BY <1>7, <2>2, <3>2
    <3> QED BY <1>7, <3>1, <3>2, <3>3
  <2> QED BY <2>1, <2>2
<1>11. QueueTypeOK'
  <2>1. \A j \in Snums : IsInjective(wqueue'[j])
    BY <1>1, <1>5, <1>6 DEF QueueTypeOK
  <2>2. ASSUME NEW j \in Snums, NEW x \in ToSet(wqueue'[j])
        PROVE  x \in Readers /\ rd'[x].snum = j /\ rd'[x].pc \in {"recheck", "schedule", "asleep"}
    <3>1. x \in ToSet(wqueue[j]) /\ rd'[x] = rd[x]
      BY <1>10, <2>2
    <3> QED BY <3>1, WaitersOf
  <2>3. lock' \in [Snums -> Senders \cup {NoProc}]
    BY <1>1, <1>2 DEF QueueTypeOK
  <2> QED BY <1>1, <1>2, <2>1, <2>2, <2>3 DEF QueueTypeOK
<1>12. SleepersQueued'
  <2> SUFFICES ASSUME NEW x \in Readers, rd'[x].pc = "asleep"
               PROVE  x \in ToSet(wqueue'[rd'[x].snum])
    BY DEF SleepersQueued, Queued
  <2>1. x \notin Woken(k) /\ rd'[x] = rd[x]
    BY <1>7
  <2>2. x \in ToSet(wqueue[rd[x].snum]) /\ rd[x].snum \in Snums
    BY <1>1, <2>1 DEF SleepersQueued, Queued, CallsTyped
  <2> QED BY <1>5, <1>6, <2>1, <2>2
<1>13. ASSUME NEW j \in Snums, NEW x \in ToSet(wqueue'[j]), rd'[x].pc # "recheck"
       PROVE  Enough(j, x)'
  <2>1. x \in ToSet(wqueue[j]) /\ x \in Readers /\ x \notin Woken(k) /\ rd'[x] = rd[x]
    BY <1>10, <1>13
  <2>2. Enough(j, x)
    BY <1>1, <1>13, <2>1 DEF EnoughHelp
  <2>3. Len(rpc_list[j]) \in Nat /\ rpc_list'[j] = rpc_list[j]
        /\ Len(rpc_list'[j]) <= Len(rpc_list[j])
    BY <1>2, WaitersOf, SMT
  <2>4. ASSUME NEW y \in Helping(j, x) PROVE y \in Helping(j, x)' /\ y \notin Woken(j)
    <3>1. y \in Readers /\ Helps(y, j, x)
      BY <2>4 DEF Helping
    <3>2. CASE j = k
      <4>1. y \notin Woken(k)
        BY <1>5, <3>1, <3>2 DEF Helps
      <4>2. rd'[y] = rd[y]
        BY <1>7, <3>1, <4>1
      <4>3. y \in ToSet(v) => y \in ToSet(w)
        BY <1>5
      <4>4. Before(w, x, y) => Before(v, x, y)
        BY <1>5, <2>1
      <4> QED BY <1>6, <3>1, <3>2, <4>1, <4>2, <4>3, <4>4 DEF Helping, Helps
    <3>3. CASE j # k
      <4>1. y \notin Woken(k) /\ rd'[y] = rd[y] /\ wqueue'[j] = wqueue[j]
        BY <1>6, <1>7, <3>1, <3>3 DEF Helps
      <4>2. y \notin Woken(j)
        <5> SUFFICES ASSUME y \in Woken(j) PROVE FALSE
          OBVIOUS
        <5>1. wqueue[j] # <<>> /\ y = Head(wqueue[j])
          BY DEF Woken
        <5>2. wqueue[j] \in Seq(Readers) /\ IsInjective(wqueue[j])
          BY WaitersOf
        <5>3. y \in ToSet(wqueue[j]) /\ ~Before(wqueue[j], x, y)
          BY <5>1, <5>2, FirstLeaves
        <5> QED BY <3>1, <5>3 DEF Helps
      <4> QED BY <3>1, <4>1, <4>2 DEF Helping, Helps
    <3> QED BY <3>2, <3>3
  <2>5. Helping(j, x) \subseteq Helping(j, x)'
    BY <2>4
  <2>6. CASE j # k
    <3>1. Waking(j)' = Waking(j)
      BY <1>2, <1>6, <2>6 DEF Waking
    <3> QED BY <2>2, <2>3, <2>5, <3>1, EnoughKept
  <2>7. CASE j = k
    <3>1. PICK h : h \in Woken(k)
      <4>1. ToSet(v) # {}
        BY <1>6, <1>13, <2>7
      <4>2. v # <<>>
        BY <4>1 DEF ToSet
      <4> QED BY <1>5, <4>2
    <3>2. h \in ToSet(w) /\ h \notin ToSet(v) /\ h \in Readers
      BY <1>3, <1>5, <3>1, WaitersOf
    <3>3. h \in Helping(j, x)'
      BY <1>6, <1>7, <2>7, <3>1, <3>2 DEF Helping, Helps
    <3>4. h \notin Helping(j, x)
      BY <2>4, <2>7, <3>1
    <3> DEFINE H == Helping(j, x)
               H2 == Helping(j, x)'
               W == Waking(j)
               W2 == Waking(j)'
    <3>5. /\ IsFiniteSet(H) /\ Cardinality(H) \in Nat /\ IsFiniteSet(H2) /\ Cardinality(H2) \in Nat
          /\ IsFiniteSet(W) /\ Cardinality(W) \in Nat /\ IsFiniteSet(W2) /\ Cardinality(W2) \in Nat
      BY Countable
    <3>6. H \cup {h} \subseteq H2 /\ h \notin H
      BY <2>5, <3>3, <3>4
    <3>7. W \ {c} \subseteq W2
      BY <1>2, <1>6 DEF Waking
    <3>8. Len(rpc_list[j]) <= Cardinality(W) + Cardinality(H)
      BY <2>2 DEF Enough
    <3> HIDE DEF H, H2, W, W2
    <3>9. Cardinality(H) + 1 <= Cardinality(H2)
      BY <3>5, <3>6, OneMore
    <3>10. Cardinality(W) - 1 <= Cardinality(W2)
      BY <3>5, <3>7, OneFewer
    <3>11. Len(rpc_list'[j]) <= Cardinality(W2) + Cardinality(H2)
      BY <2>3, <3>5, <3>8, <3>9, <3>10, SMT
    <3> QED BY <3>11 DEF Enough, H2, W2
  <2> QED BY <2>6, <2>7
<1> QED BY <1>8, <1>9, <1>11, <1>12, <1>13 DEF QueueInv, EnoughHelp

(***************************************************************************)
(* The queues by themselves                                                *)
(***************************************************************************)
LEMMA QueueInitInv == QueueInit => QueueInv
<1> SUFFICES ASSUME QueueInit PROVE QueueInv
  OBVIOUS
<1>1. \A S : <<>> \in Seq(S)
  BY EmptySeq
<1>2. ToSet(<<>>) = {} /\ IsInjective(<<>>) /\ <<>> \o <<>> = <<>>
  BY DEF ToSet, IsInjective
<1>3. /\ rpc_list = [k \in Snums |-> <<>>] /\ wqueue = [k \in Snums |-> <<>>]
      /\ lock = [k \in Snums |-> NoProc]
      /\ rd = [r \in Readers |-> [pc |-> "out", snum |-> -1, got |-> NoMsg]]
      /\ snd = [c \in Senders |-> [pc |-> "out", snum |-> -1, n |-> 0]]
      /\ signals = 0 /\ oops = FALSE
      /\ accepted = [k \in Snums |-> <<>>] /\ taken = [k \in Snums |-> <<>>]
  BY DEF QueueInit
<1>4. QueueTypeOK
  BY <1>1, <1>2, <1>3 DEF QueueTypeOK
<1>5. 0 \in 0..MaxSends /\ 0 \in 0..MaxSignals
  BY QueueAssumption, SMT
<1>6. CallsTyped
  BY <1>3, <1>5 DEF CallsTyped, ReaderPcs
<1>7. QueuesTyped /\ SleepersQueued /\ Fifo /\ EnoughHelp
  BY <1>1, <1>2, <1>3, <1>5 DEF QueuesTyped, SleepersQueued, Fifo, EnoughHelp
<1> QED BY <1>4, <1>6, <1>7 DEF QueueInv

LEMMA QueueSame ==
    ASSUME QueueInv, UNCHANGED queueVars
    PROVE  QueueInv'
<1>1. UNCHANGED <<rpc_list, wqueue, lock, rd, snd, signals, oops, accepted, taken>>
  BY DEF queueVars
<1>2. \A k, r : Enough(k, r) => Enough(k, r)'
  BY <1>1 DEF Enough, Waking, Helping, Helps, Before
<1> QED BY <1>1, <1>2 DEF QueueInv, QueueTypeOK, CallsTyped, QueuesTyped, SleepersQueued, Queued,
                          Fifo, EnoughHelp

LEMMA RpcStepInv ==
    ASSUME QueueInv, NEW c \in Senders, RpcStep(c)
    PROVE  QueueInv'
  BY RpcAddInv, RpcWakeInv DEF RpcStep

LEMMA ReadStepInv ==
    ASSUME QueueInv, NEW r \in Readers, ReadStep(r)
    PROVE  QueueInv'
  BY ReadCheckInv, ReadPrepareInv, ReadRecheckInv, ReadScheduleInv, ReadTakeInv DEF ReadStep

LEMMA QueueNextInv ==
    ASSUME QueueInv, [QueueNext]_queueVars
    PROVE  QueueInv'
<1>1. ASSUME NEW c \in Senders, NEW k \in Snums, RpcCall(c, k) PROVE QueueInv'
  BY <1>1, RpcCallInv
<1>2. ASSUME NEW c \in Senders, RpcStep(c) PROVE QueueInv'
  BY <1>2, RpcStepInv
<1>3. ASSUME NEW r \in Readers, NEW k \in ServedBy[r], ReadCall(r, k) PROVE QueueInv'
  <2>1. k \in Snums
    BY <1>3, QueueAssumption
  <2> QED BY <1>3, <2>1, ReadCallInv
<1>4. ASSUME NEW r \in Readers, ReadStep(r) PROVE QueueInv'
  BY <1>4, ReadStepInv
<1>5. ASSUME NEW r \in Readers, Signal(r) PROVE QueueInv'
  BY <1>5, SignalInv
<1>6. CASE UNCHANGED queueVars
  BY <1>6, QueueSame
<1> QED BY <1>1, <1>2, <1>3, <1>4, <1>5, <1>6 DEF QueueNext

\* A sleeper is queued, so there is at least one helper or waker for a request.
LEMMA SleeperWoken ==
    ASSUME QueueInv
    PROVE  NoLostWakeup
<1> SUFFICES ASSUME NEW k \in Snums, NEW r \in Readers,
                    rd[r].pc = "asleep", rd[r].snum = k, rpc_list[k] # <<>>
             PROVE  \/ \E c \in Senders : snd[c].pc = "wake" /\ snd[c].snum = k
                    \/ \E x \in Readers : rd[x].pc \notin {"out", "asleep"} /\ rd[x].snum = k
  BY DEF NoLostWakeup
<1>1. r \in ToSet(wqueue[k])
  BY DEF QueueInv, SleepersQueued, Queued
<1>2. Enough(k, r)
  BY <1>1 DEF QueueInv, EnoughHelp
<1>3. Len(rpc_list[k]) \in Nat /\ Len(rpc_list[k]) # 0
  BY WaitersOf, PlacesOf
<1>4. /\ Cardinality(Waking(k)) \in Nat /\ Cardinality(Helping(k, r)) \in Nat
      /\ IsFiniteSet(Waking(k)) /\ IsFiniteSet(Helping(k, r))
  BY Countable
<1>5. Cardinality(Waking(k)) # 0 \/ Cardinality(Helping(k, r)) # 0
  <2>1. \A l, w, h \in Nat : l # 0 /\ l <= w + h => w # 0 \/ h # 0
    BY SMT
  <2> QED BY <1>2, <1>3, <1>4, <2>1 DEF Enough
<1>6. Waking(k) # {} \/ Helping(k, r) # {}
  BY <1>4, <1>5, FS_EmptySet
<1>7. CASE Waking(k) # {}
  BY <1>7 DEF Waking
<1>8. CASE Helping(k, r) # {}
  <2>1. PICK x \in Readers : Helps(x, k, r)
    BY <1>8 DEF Helping
  <2>2. rd[x].pc # "asleep"
    <3> SUFFICES ASSUME rd[x].pc = "asleep" PROVE FALSE
      OBVIOUS
    <3>1. x \in ToSet(wqueue[k])
      BY <2>1 DEF QueueInv, SleepersQueued, Queued, Helps
    <3> QED BY <2>1, <3>1 DEF Helps
  <2> QED BY <2>1, <2>2 DEF Helps
<1> QED BY <1>6, <1>7, <1>8

\* The wait queues, the requests and the help under way always agree, for any
\* number of readers, senders, services, requests and signals.
THEOREM QueueConsistency == QueueSpec => []QueueInv
<1>1. QueueInit => QueueInv
  BY QueueInitInv
<1>2. QueueInv /\ [QueueNext]_queueVars => QueueInv'
  BY QueueNextInv
<1> QED BY <1>1, <1>2, PTL DEF QueueSpec

\* Every request is taken once, in the order of arrival, or still waits.
THEOREM FirstInFirstOut == QueueSpec => []Fifo
<1>1. QueueInv => Fifo
  BY DEF QueueInv
<1> QED BY <1>1, QueueConsistency, PTL

\* ku_binder_rpc wakes one reader for each request, and that is enough: no request
\* waits behind sleeping readers only.
THEOREM WakeupsReach == QueueSpec => []NoLostWakeup
<1>1. QueueInv => NoLostWakeup
  BY SleeperWoken
<1> QED BY <1>1, QueueConsistency, PTL

\* A process is in at most one wait queue, once, and only while it waits there.
THEOREM WaitQueuesRight == QueueSpec => []QueueTypeOK
<1>1. QueueInv => QueueTypeOK
  BY DEF QueueInv
<1> QED BY <1>1, QueueConsistency, PTL
=============================================================================
