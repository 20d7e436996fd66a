---------------------------- MODULE KuFredProofs ----------------------------
(***************************************************************************)
(* Both frequency counters, for any file, interval and number of workers,  *)
(* when there are no more workers than numbers: no update of the shared    *)
(* array is lost, main receives from a queue what its sender was to send,  *)
(* and what is printed counts every number of the file once.               *)
(***************************************************************************)
EXTENDS KuFred, FunctionTheorems, FiniteSetTheorems, SequenceTheorems, TLAPS

\* The inputs the assignment describes: no more workers than numbers, intervals
\* that divide the range, a fresh heap and no messages of an earlier run.
EnoughNumbers == \A s \in Settings : s.n <= Len(s.data) \/ s.data = <<>>
IntervalsDivide == \A s \in Settings : Top % s.interval = 0
FreshStart == Garbage \subseteq {0} /\ Leftovers \subseteq {<<>>}
Regular == EnoughNumbers /\ IntervalsDivide /\ FreshStart

(***************************************************************************)
(* Quotients                                                               *)
(***************************************************************************)
LEMMA Division ==
    ASSUME NEW m \in Nat, NEW n \in Nat \ {0}
    PROVE  /\ m \div n \in Nat /\ m % n \in 0..n-1
           /\ m = n * (m \div n) + (m % n)
  BY SMT

LEMMA Products ==
    ASSUME NEW a \in Nat, NEW b \in Nat, NEW c \in Nat
    PROVE  /\ a * c \in Nat /\ a * c = c * a /\ (a + 1) * c = a * c + c
           /\ a < b => a * c + c <= b * c
<1>1. a * c \in Nat /\ a * c = c * a /\ (a + 1) * c = a * c + c
  BY SMT
<1>2. ASSUME a < b PROVE a * c + c <= b * c
  <2> DEFINE d == b - a - 1
  <2>1. d \in Nat /\ b = (a + 1) + d
    BY <1>2, SMT
  <2>2. d * c \in Nat
    BY <2>1, SMT
  <2>3. b * c = (a + 1) * c + d * c
    BY <2>1, SMT
  <2> HIDE DEF d
  <2> QED BY <1>1, <2>2, <2>3, SMT
<1> QED BY <1>1, <1>2

\* A number below a multiple of n has a quotient below the quotient.
LEMMA InCells ==
    ASSUME NEW top \in Nat, NEW n \in Nat \ {0}, top % n = 0, NEW v \in 0..top-1
    PROVE  v \div n \in 0..(top \div n)-1
<1> DEFINE q == v \div n
           r == v % n
           z == top \div n
<1>1. q \in Nat /\ r \in 0..n-1 /\ v = n * q + r
  <2>1. v \in Nat
    BY SMT
  <2> QED BY <2>1, Division
<1>2. z \in Nat /\ top = n * z
  BY Division
<1> HIDE DEF q, r, z
<1>3. v \in Nat /\ v < top
  BY SMT
<1>4. ASSUME z <= q PROVE FALSE
  <2>1. CASE z = q
    BY <1>1, <1>2, <1>3, <2>1, SMT
  <2>2. CASE z < q
    <3>1. z * n + n <= q * n /\ z * n = n * z /\ q * n = n * q
      BY <1>1, <1>2, <2>2, Products
    <3>2. n * z \in Nat /\ n * q \in Nat
      BY <1>1, <1>2, Products
    <3> QED BY <1>1, <1>2, <1>3, <3>1, <3>2, SMT
  <2> QED BY <1>1, <1>2, <1>4, <2>1, <2>2, SMT
<1>5. q \in 0..z-1
  BY <1>1, <1>2, <1>4, SMT
<1> QED BY <1>5 DEF q, z

(***************************************************************************)
(* The shares of n workers tile a file of m numbers                        *)
(***************************************************************************)
FirstOf(m, n, t) == t * (m \div n)
LengthOf(m, n, t) == IF m % n # 0 /\ t = n - 1 THEN (m \div n) + (m % n) ELSE m \div n
ShareOf(m, n, t) == 0..LengthOf(m, n, t)-1

LEMMA Shares ==
    ASSUME NEW m \in Nat, NEW n \in Nat \ {0}, n <= m
    PROVE  /\ m \div n \in 1..m
           /\ \A t \in 0..n-1 : LengthOf(m, n, t) \in 1..m /\ t * (m \div n) \in Nat
           /\ \A t \in 0..n-1 : t < n-1 => LengthOf(m, n, t) = m \div n
           /\ \A t \in 0..n-1 : t * (m \div n) + LengthOf(m, n, t) <= m
<1> DEFINE q == m \div n
           r == m % n
<1>1. q \in Nat /\ r \in 0..n-1 /\ m = n * q + r
  BY Division
<1>2. \A t \in 0..n-1 : LengthOf(m, n, t) = IF r # 0 /\ t = n - 1 THEN q + r ELSE q
  BY DEF LengthOf
<1> HIDE DEF q, r
<1>3. q # 0
  <2> SUFFICES ASSUME q = 0 PROVE FALSE
    OBVIOUS
  <2>1. n * q = 0
    BY SMT
  <2> QED BY <1>1, <2>1, SMT
<1>4. n = (n - 1) + 1 /\ n - 1 \in Nat
  BY SMT
<1>5. n * q = (n - 1) * q + q /\ (n - 1) * q \in Nat
  <2>1. ((n - 1) + 1) * q = (n - 1) * q + q /\ (n - 1) * q \in Nat
    BY <1>1, <1>4, Products
  <2> QED BY <1>4, <2>1
<1>6. q \in 1..m /\ q + r \in 1..m
  BY <1>1, <1>3, <1>5, SMT
<1>7. ASSUME NEW t \in 0..n-1
      PROVE  /\ t * q \in Nat
             /\ t < n - 1 => t * q + q <= (n - 1) * q
  <2>1. t \in Nat
    BY SMT
  <2> QED BY <1>1, <1>4, <2>1, Products
<1>8. ASSUME NEW t \in 0..n-1
      PROVE  t * q + (IF r # 0 /\ t = n - 1 THEN q + r ELSE q) <= m
  <2>1. CASE t = n - 1
    BY <1>1, <1>5, <2>1, SMT
  <2>2. CASE t # n - 1
    <3>1. t < n - 1
      BY <2>2, SMT
    <3> QED BY <1>1, <1>5, <1>7, <3>1, SMT
  <2> QED BY <2>1, <2>2
<1>9. \A t \in 0..n-1 : t < n-1 => LengthOf(m, n, t) = q
  BY <1>2, SMT
<1> QED BY <1>2, <1>6, <1>7, <1>8, <1>9 DEF q

\* Every record is in exactly one share.
Tiles(m, n) ==
    /\ \A t \in 0..n-1 : \A j \in ShareOf(m, n, t) :
         FirstOf(m, n, t) + j + 1 \in 1..m /\ j \in 0..m
    /\ \A t, u \in 0..n-1 : \A j \in ShareOf(m, n, t), l \in ShareOf(m, n, u) :
         FirstOf(m, n, t) + j + 1 = FirstOf(m, n, u) + l + 1 => t = u /\ j = l
    /\ \A p \in 1..m : \E t \in 0..n-1 : \E j \in ShareOf(m, n, t) :
         FirstOf(m, n, t) + j + 1 = p

LEMMA Tiling ==
    ASSUME NEW m \in Nat, NEW n \in Nat \ {0}, n <= m
    PROVE  Tiles(m, n)
<1> DEFINE q == m \div n
           r == m % n
           first(t) == t * q
           len(t) == LengthOf(m, n, t)
           share(t) == 0..len(t)-1
<1>1. /\ q \in 1..m /\ r \in 0..n-1 /\ m = n * q + r /\ q \in Nat
      /\ \A t \in 0..n-1 : len(t) \in 1..m /\ first(t) \in Nat /\ first(t) + len(t) <= m
      /\ \A t \in 0..n-1 : t < n-1 => len(t) = q
      /\ len(n-1) = IF r # 0 THEN q + r ELSE q
  BY Division, Shares DEF LengthOf
<1>2. \A t, u \in 0..n-1 : t < u => first(t) + q <= first(u)
  <2> SUFFICES ASSUME NEW t \in 0..n-1, NEW u \in 0..n-1, t < u PROVE t * q + q <= u * q
    OBVIOUS
  <2>1. t \in Nat /\ u \in Nat
    BY SMT
  <2> QED BY <1>1, <2>1, Products
<1>3. ASSUME NEW p \in 0..m-1
      PROVE  \E t \in 0..n-1 : \E j \in 0..len(t)-1 : first(t) + j = p
  <2> DEFINE z == p \div q
             y == p % q
  <2>1. p \in Nat /\ z \in Nat /\ y \in 0..q-1 /\ p = q * z + y
    <3>1. p \in Nat /\ q \in Nat \ {0}
      BY <1>1, SMT
    <3> QED BY <3>1, Division
  <2> HIDE DEF z, y
  <2>2. q * z = z * q /\ z * q \in Nat
    BY <1>1, <2>1, Products
  <2>3. CASE z \in 0..n-1
    <3>1. y \in 0..len(z)-1 /\ z * q + y = p
      <4>1. q <= len(z)
        BY <1>1, <2>3, SMT
      <4> QED BY <1>1, <2>1, <2>2, <2>3, <4>1, SMT
    <3> QED BY <2>3, <3>1
  <2>4. CASE z \notin 0..n-1
    <3>1. n <= z
      BY <2>1, <2>4, SMT
    <3>2. n * q <= z * q /\ n * q \in Nat
      <4>1. n * q \in Nat /\ (n < z => n * q + q <= z * q)
        BY <1>1, <2>1, Products
      <4>2. CASE n = z
        BY <2>2, <4>1, <4>2, SMT
      <4>3. CASE n < z
        BY <1>1, <2>2, <4>1, <4>3, SMT
      <4> QED BY <2>1, <3>1, <4>1, <4>2, <4>3, SMT
    <3>3. n * q = (n - 1) * q + q /\ (n - 1) * q \in Nat /\ n - 1 \in 0..n-1
      <4>1. n - 1 \in Nat /\ n = (n - 1) + 1
        BY SMT
      <4>2. ((n - 1) + 1) * q = (n - 1) * q + q /\ (n - 1) * q \in Nat
        BY <1>1, <4>1, Products
      <4> QED BY <4>1, <4>2, SMT
    <3> DEFINE a == n * q
               b == z * q
               f == (n - 1) * q
               j == p - f
    <3>4. a \in Nat /\ b \in Nat /\ a <= b /\ a = f + q /\ p = b + y /\ m = a + r /\ f \in Nat
      BY <1>1, <2>1, <2>2, <3>2, <3>3
    <3> HIDE DEF a, b, f
    <3>5. r # 0 /\ j \in 0..(q + r)-1 /\ f + j = p
      BY <1>1, <2>1, <3>4, SMT
    <3>6. j \in 0..len(n-1)-1 /\ (n - 1) * q + j = p
      BY <1>1, <3>5 DEF f
    <3> QED BY <3>3, <3>6
  <2> QED BY <2>3, <2>4
<1> HIDE DEF q, r, len, first
<1>4. ASSUME NEW t \in 0..n-1, NEW j \in 0..len(t)-1
      PROVE  first(t) + j + 1 \in 1..m /\ j \in 0..m
  BY <1>1, SMT
<1>5. ASSUME NEW t \in 0..n-1, NEW u \in 0..n-1, NEW j \in 0..len(t)-1, NEW l \in 0..len(u)-1,
             first(t) + j + 1 = first(u) + l + 1
      PROVE  t = u /\ j = l
  <2>1. ~(t < u)
    <3> SUFFICES ASSUME t < u PROVE FALSE
      OBVIOUS
    <3>1. t < n-1
      BY SMT
    <3> QED BY <1>1, <1>2, <1>5, <3>1, SMT
  <2>2. ~(u < t)
    <3> SUFFICES ASSUME u < t PROVE FALSE
      OBVIOUS
    <3>1. u < n-1
      BY SMT
    <3> QED BY <1>1, <1>2, <1>5, <3>1, SMT
  <2>3. t = u
    BY <2>1, <2>2, SMT
  <2>4. first(t) \in Nat /\ j \in Int /\ l \in Int /\ first(t) + j + 1 = first(t) + l + 1
    BY <1>1, <1>5, <2>3, SMT
  <2> QED BY <2>3, <2>4, SMT
<1>6. ASSUME NEW p \in 1..m
      PROVE  \E t \in 0..n-1 : \E j \in 0..len(t)-1 : first(t) + j + 1 = p
  <2>1. p - 1 \in 0..m-1
    BY SMT
  <2>2. PICK t \in 0..n-1 : \E j \in 0..len(t)-1 : first(t) + j = p - 1
    BY <1>3, <2>1
  <2>3. PICK j \in 0..len(t)-1 : first(t) + j = p - 1
    BY <2>2
  <2>4. first(t) + j + 1 = p
    BY <1>1, <2>3, SMT
  <2> QED BY <2>4
<1> QED BY <1>4, <1>5, <1>6 DEF first, len, q, FirstOf, ShareOf, Tiles

(***************************************************************************)
(* The records that have been counted in a bucket: done[t] records of the  *)
(* share of worker t are counted                                           *)
(***************************************************************************)
Tally(d, q, n, done, b) ==
    {x \in (0..MaxWorkers-1) \X (0..2*Len(d)) :
        /\ x[2] \in 0..done[x[1]]-1
        /\ d[FirstOf(Len(d), n, x[1]) + x[2] + 1] \div q = b}

LEMMA TallyFinite ==
    ASSUME NEW d \in Seq(Nat), NEW q, NEW n, NEW done, NEW b
    PROVE  IsFiniteSet(Tally(d, q, n, done, b)) /\ Cardinality(Tally(d, q, n, done, b)) \in Nat
<1>1. Len(d) \in Nat /\ MaxWorkers \in Nat
  BY LenProperties, FredAssumption DEF T!InputsOK
<1>2. 0 \in Int /\ MaxWorkers - 1 \in Int /\ 2 * Len(d) \in Int
  BY <1>1, SMT
<1>3. IsFiniteSet((0..MaxWorkers-1) \X (0..2*Len(d)))
  <2>1. IsFiniteSet(0..MaxWorkers-1) /\ IsFiniteSet(0..2*Len(d))
    BY <1>2, FS_Interval
  <2> QED BY <2>1, FS_Product
<1>4. Tally(d, q, n, done, b) \in SUBSET ((0..MaxWorkers-1) \X (0..2*Len(d)))
  BY DEF Tally
<1> QED BY <1>3, <1>4, FS_Subset, FS_CardinalityType

\* Counting the next record of worker t adds one to its bucket, and to no other.
OneMore(d, t, old, new) ==
    /\ old \in [0..MaxWorkers-1 -> Nat] /\ new \in [0..MaxWorkers-1 -> Nat]
    /\ old[t] <= 2 * Len(d) /\ new[t] = old[t] + 1
    /\ \A u \in 0..MaxWorkers-1 : u # t => new[u] = old[u]
TallyMoves(before, after, here) == after = IF here THEN before + 1 ELSE before

LEMMA TallyNext ==
    ASSUME NEW d \in Seq(Nat), NEW q, NEW n, NEW t \in 0..MaxWorkers-1,
           NEW old, NEW new, OneMore(d, t, old, new), NEW b
    PROVE  TallyMoves(Cardinality(Tally(d, q, n, old, b)), Cardinality(Tally(d, q, n, new, b)),
                      d[FirstOf(Len(d), n, t) + old[t] + 1] \div q = b)
<1> DEFINE x == <<t, old[t]>>
           W == 0..MaxWorkers-1
           R == 0..2*Len(d)
           at(u, j) == d[FirstOf(Len(d), n, u) + j + 1] \div q
           A == Tally(d, q, n, old, b)
           B == Tally(d, q, n, new, b)
<1>1. Len(d) \in Nat /\ old[t] \in Nat /\ old[t] \in R /\ x \in W \X R
  <2>1. Len(d) \in Nat
    BY LenProperties
  <2> QED BY <2>1, SMT DEF OneMore
<1>2. A = {y \in W \X R : y[2] \in 0..old[y[1]]-1 /\ at(y[1], y[2]) = b}
  BY DEF Tally
<1>3. B = {y \in W \X R : y[2] \in 0..new[y[1]]-1 /\ at(y[1], y[2]) = b}
  BY DEF Tally
<1>4. IsFiniteSet(A) /\ Cardinality(A) \in Nat
  BY TallyFinite
<1> HIDE DEF A, B, at
<1>5. x \notin A
  <2>1. old[t] \notin 0..old[t]-1
    BY <1>1, SMT
  <2> QED BY <1>2, <2>1
<1>6. ASSUME NEW y \in W \X R
      PROVE  y[2] \in 0..new[y[1]]-1 <=> y[2] \in 0..old[y[1]]-1 \/ y = x
  <2>1. PICK u \in W, j \in R : y = <<u, j>>
    OBVIOUS
  <2>2. CASE u = t
    <3>1. j \in 0..new[t]-1 <=> j \in 0..old[t]-1 \/ j = old[t]
      BY <1>1, SMT DEF OneMore
    <3> QED BY <2>1, <2>2, <3>1
  <2>3. CASE u # t
    BY <2>1, <2>3 DEF OneMore
  <2> QED BY <2>2, <2>3
<1>7. CASE at(t, old[t]) = b
  <2>1. B = A \cup {x}
    <3>1. x[1] = t /\ x[2] = old[t] /\ x \in W \X R
      BY <1>1
    <3>2. x \in B
      BY <1>3, <1>6, <1>7, <3>1, Zenon
    <3>3. \A y \in A : y \in B
      BY <1>2, <1>3, <1>6, Zenon
    <3>4. \A y \in B : y \in A \/ y = x
      BY <1>2, <1>3, <1>6, Zenon
    <3> QED BY <3>2, <3>3, <3>4
  <2>2. Cardinality(B) = Cardinality(A) + 1
    BY <1>4, <1>5, <2>1, FS_AddElement
  <2> QED BY <1>7, <2>2 DEF A, B, at, TallyMoves
<1>8. CASE at(t, old[t]) # b
  <2>1. B = A
    <3>1. \A y \in A : y \in B
      BY <1>2, <1>3, <1>6, Zenon
    <3>2. ASSUME NEW y \in B PROVE y \in A
      <4>1. y # x
        <5>1. at(y[1], y[2]) = b
          BY <1>3
        <5> QED BY <1>1, <1>8, <5>1
      <4> QED BY <1>2, <1>3, <1>6, <4>1, Zenon
    <3> QED BY <3>1, <3>2
  <2> QED BY <1>8, <2>1 DEF A, B, at, TallyMoves
<1> QED BY <1>7, <1>8

\* When each of n workers counted its share, every record is counted once.
SharesDone(d, n, done) ==
    /\ n \in Nat \ {0} /\ n <= Len(d) /\ n <= MaxWorkers
    /\ done \in [0..MaxWorkers-1 -> Nat]
    /\ \A t \in 0..MaxWorkers-1 : done[t] = IF t < n THEN LengthOf(Len(d), n, t) ELSE 0

LEMMA TallyAll ==
    ASSUME NEW d \in Seq(Nat), NEW q, NEW n, NEW done, SharesDone(d, n, done), NEW b
    PROVE  Cardinality(Tally(d, q, n, done, b)) = Cardinality({p \in 1..Len(d) : d[p] \div q = b})
<1> DEFINE m == Len(d)
           W == 0..MaxWorkers-1
           first(t) == FirstOf(m, n, t)
           share(t) == ShareOf(m, n, t)
           A == Tally(d, q, n, done, b)
           B == {p \in 1..m : d[p] \div q = b}
           place(x) == first(x[1]) + x[2] + 1
           f == [x \in A |-> place(x)]
<1>1. m \in Nat /\ MaxWorkers \in Nat /\ n \in Nat \ {0} /\ n <= m /\ n <= MaxWorkers
  BY LenProperties, FredAssumption DEF T!InputsOK, SharesDone
<1>2. /\ \A t \in 0..n-1 : \A j \in share(t) : first(t) + j + 1 \in 1..m /\ j \in 0..m
      /\ \A t, u \in 0..n-1 : \A j \in share(t), l \in share(u) :
           first(t) + j + 1 = first(u) + l + 1 => t = u /\ j = l
      /\ \A p \in 1..m : \E t \in 0..n-1 : \E j \in share(t) : first(t) + j + 1 = p
  <2>1. Tiles(m, n)
    BY <1>1, Tiling
  <2> QED BY <2>1 DEF Tiles
<1>3. A = {x \in W \X (0..2*m) : x[2] \in 0..done[x[1]]-1 /\ d[place(x)] \div q = b}
  BY DEF Tally
<1>4. \A t \in 0..n-1 : t \in W /\ done[t] = LengthOf(m, n, t)
  <2>1. \A t \in 0..n-1 : t \in W /\ t < n
    BY <1>1, SMT
  <2> QED BY <2>1 DEF SharesDone
<1>5. IsFiniteSet(A)
  BY TallyFinite
<1> HIDE DEF A, first, share
<1>6. ASSUME NEW x \in A
      PROVE  /\ x = <<x[1], x[2]>> /\ x[1] \in 0..n-1 /\ x[2] \in share(x[1])
             /\ d[place(x)] \div q = b
  <2>1. PICK t \in W, j \in 0..2*m : x = <<t, j>>
    BY <1>3
  <2>2. j \in 0..done[t]-1 /\ d[place(x)] \div q = b
    BY <1>3, <2>1
  <2>3. t < n
    <3> SUFFICES ASSUME ~(t < n) PROVE FALSE
      OBVIOUS
    <3>1. done[t] = 0
      BY DEF SharesDone
    <3> QED BY <2>2, <3>1, SMT
  <2>4. t \in 0..n-1
    BY <1>1, <2>3, SMT
  <2> QED BY <1>4, <2>1, <2>2, <2>4 DEF share, ShareOf
<1>7. ASSUME NEW t \in 0..n-1, NEW j \in share(t), d[first(t) + j + 1] \div q = b
      PROVE  <<t, j>> \in A
  <2>1. j \in 0..done[t]-1
    BY <1>4 DEF share, ShareOf
  <2>2. j \in 0..2*m
    <3>1. j \in 0..m
      BY <1>2
    <3> QED BY <1>1, <3>1, SMT
  <2> QED BY <1>3, <1>4, <1>7, <2>1, <2>2
<1>8. f \in [A -> B]
  <2>1. \A x \in A : place(x) \in B
    BY <1>2, <1>6
  <2> QED BY <2>1
<1>9. \A x, y \in A : f[x] = f[y] => x = y
  <2> SUFFICES ASSUME NEW x \in A, NEW y \in A, place(x) = place(y) PROVE x = y
    OBVIOUS
  <2>1. x[1] = y[1] /\ x[2] = y[2]
    BY <1>2, <1>6
  <2> QED BY <1>6, <2>1
<1>10. ASSUME NEW p \in B PROVE \E x \in A : f[x] = p
  <2>1. PICK t \in 0..n-1 : \E j \in share(t) : first(t) + j + 1 = p
    BY <1>2
  <2>2. PICK j \in share(t) : first(t) + j + 1 = p
    BY <2>1
  <2>3. <<t, j>> \in A
    BY <1>7, <2>2
  <2> QED BY <2>2, <2>3
<1>11. f \in Bijection(A, B)
  <2> HIDE DEF f
  <2> QED BY <1>8, <1>9, <1>10, Fun_IsBij
<1>12. ExistsBijection(A, B)
  BY <1>11, Fun_ExistsBij
<1>13. Cardinality(B) = Cardinality(A)
  BY <1>5, <1>12, FS_Bijection
<1> QED BY <1>13 DEF A

(***************************************************************************)
(* What main computes before it starts a worker                            *)
(***************************************************************************)
InputsRight ==
    /\ data \in Seq(0..Top-1) /\ interval \in 1..Top /\ Top % interval = 0
    /\ \/ workers = 0 /\ data = <<>> /\ remainder = 0
       \/ /\ workers \in 1..MaxWorkers /\ workers <= Len(data)
          /\ remainder = Len(data) % workers

LEMMA Constants ==
    /\ Top \in Nat \ {0} /\ MaxWorkers \in Nat
    /\ T!Threads = 0..MaxWorkers-1 /\ P!Procs = 0..MaxWorkers-1
    /\ \A n : T!Cells(n) = 0..(Top \div n)-1 /\ P!Cells(n) = 0..(Top \div n)-1
    /\ \A t \in 0..MaxWorkers-1 : t # -1 /\ t \in Nat
    /\ 0 \in 0..Top-1
    /\ \A S : T!Cardinality(S) = Cardinality(S) /\ P!Cardinality(S) = Cardinality(S)
<1>1. Top \in Nat \ {0} /\ MaxWorkers \in Nat
  BY FredAssumption DEF T!InputsOK
<1>2. (\A t \in 0..MaxWorkers-1 : t # -1 /\ t \in Nat) /\ 0 \in 0..Top-1
  BY <1>1, SMT
<1>3. \A S : T!Cardinality(S) = Cardinality(S) /\ P!Cardinality(S) = Cardinality(S)
  BY DEF T!Cardinality, P!Cardinality, Cardinality
<1> QED BY <1>1, <1>2, <1>3 DEF T!Threads, P!Procs, T!Cells, P!Cells

\* The share of a worker, as its program computes it.
LEMMA SharesRight ==
    ASSUME InputsRight, NEW t \in 0..MaxWorkers-1, t < workers
    PROVE  LET l == LengthOf(Len(data), workers, t)
               f == FirstOf(Len(data), workers, t)
           IN  /\ T!Length(t) = l /\ T!FirstRecord(t) = f
               /\ P!ToSend(t) = l /\ P!ToReceive(t) = l /\ P!FirstRecord(t) = f
               /\ l \in 1..Len(data) /\ f \in Nat /\ f + l <= Len(data)
               /\ Len(data) \in Nat
<1>1. Len(data) \in Nat
  BY LenProperties DEF InputsRight
<1>2. t \in 0..workers-1 /\ workers \in Nat \ {0} /\ workers <= Len(data)
      /\ remainder = Len(data) % workers
  <2>1. t \in Nat
    BY Constants
  <2> QED BY <2>1, Constants, SMT DEF InputsRight
<1>3. /\ LengthOf(Len(data), workers, t) \in 1..Len(data)
      /\ t * (Len(data) \div workers) \in Nat
      /\ t * (Len(data) \div workers) + LengthOf(Len(data), workers, t) <= Len(data)
  BY <1>1, <1>2, Shares
<1>4. /\ T!Length(t) = LengthOf(Len(data), workers, t)
      /\ T!FirstRecord(t) = FirstOf(Len(data), workers, t)
  BY <1>2 DEF T!Length, T!FirstRecord, T!Share, T!SIZE, LengthOf, FirstOf
<1>5. /\ P!ToSend(t) = LengthOf(Len(data), workers, t)
      /\ P!ToReceive(t) = LengthOf(Len(data), workers, t)
      /\ P!FirstRecord(t) = FirstOf(Len(data), workers, t)
  BY <1>2 DEF P!ToSend, P!ToReceive, P!HasExtra, P!FirstRecord, P!Share, P!size, LengthOf, FirstOf
<1> QED BY <1>1, <1>3, <1>4, <1>5 DEF FirstOf

\* Every record of the file has a bucket in the array.
LEMMA BucketsFit ==
    ASSUME InputsRight
    PROVE  /\ data \in Seq(Nat) /\ Len(data) \in Nat
           /\ \A p \in 1..Len(data) : data[p] \in 0..Top-1
           /\ \A v \in 0..Top-1 : v \div interval \in 0..(Top \div interval)-1
<1>1. Top \in Nat \ {0} /\ interval \in Nat \ {0} /\ Top % interval = 0
  BY Constants, SMT DEF InputsRight
<1>2. 0..Top-1 \subseteq Nat
  BY <1>1, SMT
<1>3. Len(data) \in Nat /\ \A p \in 1..Len(data) : data[p] \in 0..Top-1
  BY LenProperties, ElementOfSeq DEF InputsRight
<1>4. data \in Seq(Nat)
  BY <1>2, SeqMonotonic DEF InputsRight
<1>5. \A v \in 0..Top-1 : v \div interval \in 0..(Top \div interval)-1
  BY <1>1, InCells
<1> QED BY <1>3, <1>4, <1>5

LEMMA SettingsTyped ==
    ASSUME NEW s \in Settings
    PROVE  s.n \in 1..MaxWorkers /\ s.interval \in 1..Top /\ s.data \in Seq(0..Top-1)
<1> DEFINE z == [numt |-> s.n, interval |-> s.interval, data |-> s.data]
<1>1. z \in [numt : 1..MaxWorkers, interval : 1..Top, data : Seq(0..Top-1)]
  BY FredAssumption DEF T!InputsOK
<1>2. z.numt = s.n /\ z.interval = s.interval /\ z.data = s.data
  OBVIOUS
<1> HIDE DEF z
<1> QED BY <1>1, <1>2

\* A program starts with right inputs when its inputs are regular.
LEMMA InputsStartRight ==
    ASSUME Regular, NEW s \in Settings, data = s.data, interval = s.interval,
           remainder = Len(s.data) % s.n,
           workers = IF s.n > Len(s.data) THEN Len(s.data) ELSE s.n
    PROVE  InputsRight
<1>1. s.n \in 1..MaxWorkers /\ s.interval \in 1..Top /\ s.data \in Seq(0..Top-1)
  BY SettingsTyped
<1>2. Top % s.interval = 0 /\ (s.n <= Len(s.data) \/ s.data = <<>>)
  BY DEF Regular, EnoughNumbers, IntervalsDivide
<1>3. Len(s.data) \in Nat
  BY <1>1, LenProperties
<1>4. CASE s.n <= Len(s.data)
  <2>1. workers = s.n
    BY <1>1, <1>3, <1>4, Constants, SMT
  <2> QED BY <1>1, <1>2, <1>4, <2>1 DEF InputsRight
<1>5. CASE s.data = <<>>
  <2>1. Len(s.data) = 0
    BY <1>5
  <2>2. workers = 0 /\ remainder = 0
    BY <1>1, <2>1, Constants, SMT
  <2> QED BY <1>1, <1>2, <1>5, <2>2 DEF InputsRight
<1> QED BY <1>2, <1>4, <1>5

(***************************************************************************)
(* ku_tfred.c: the inductive invariant                                     *)
(***************************************************************************)
Within == {"load", "store", "unlock"}
ThreadRecord == [pc : {"none", "read", "lock", "returned"} \cup Within,
                 i : 0..Len(data), buffer : 0..Top-1, count : Int]
Created == IF tmain = "create" THEN tk ELSE workers

\* A thread with a record in hand has the next record of its share.
PlaceRight(t, r) ==
    LET l == LengthOf(Len(data), workers, t)
    IN  /\ r.pc = "none" => r.i = 0
        /\ r.pc = "read" => r.i <= l
        /\ r.pc \in {"lock"} \cup Within =>
             r.i < l /\ r.buffer = data[FirstOf(Len(data), workers, t) + r.i + 1]
        /\ r.pc = "returned" => r.i = l

\* How many of its records a thread has counted.
ThreadDone == [t \in 0..MaxWorkers-1 |-> IF th[t].pc = "unlock" THEN th[t].i + 1 ELSE th[t].i]

ThreadsTyped ==
    /\ th \in [0..MaxWorkers-1 -> ThreadRecord]
    /\ intArr \in [0..(Top \div interval)-1 -> Int]
    /\ tmain \in {"create", "join", "done"} /\ tk \in 0..workers /\ workers \in 0..MaxWorkers
    /\ overrun = FALSE
ThreadsPlaced ==
    /\ \A t \in 0..MaxWorkers-1 : th[t].pc = "none" <=> t >= Created
    /\ \A t \in 0..MaxWorkers-1 : PlaceRight(t, th[t])
    /\ tmain = "join" => \A t \in 0..MaxWorkers-1 : t < tk => th[t].pc = "returned"
    /\ tmain = "done" => \A t \in 0..MaxWorkers-1 : t < workers => th[t].pc = "returned"
Exclusion == \A t \in 0..MaxWorkers-1 : th[t].pc \in Within <=> mutex = t
LoadedRight ==
    \A t \in 0..MaxWorkers-1 : th[t].pc = "store" =>
        th[t].count = intArr[th[t].buffer \div interval]
ThreadsCounted ==
    \A b \in 0..(Top \div interval)-1 :
        intArr[b] = Cardinality(Tally(data, interval, workers, ThreadDone, b))
ThreadsPrinted == tmain = "done" => printed = intArr

ThreadsInv ==
    /\ InputsRight /\ ThreadsTyped /\ ThreadsPlaced /\ Exclusion /\ LoadedRight
    /\ ThreadsCounted /\ ThreadsPrinted

\* A thread that exists has a share, and its record is one of the file.
LEMMA ThreadsShare ==
    ASSUME ThreadsInv, NEW t \in 0..MaxWorkers-1, th[t].pc # "none"
    PROVE  LET l == LengthOf(Len(data), workers, t)
               f == FirstOf(Len(data), workers, t)
           IN  /\ t < workers /\ T!Length(t) = l /\ T!FirstRecord(t) = f
               /\ l \in 1..Len(data) /\ f \in Nat /\ f + l <= Len(data)
               /\ th[t].i < l => /\ f + th[t].i < Len(data)
                                 /\ f + th[t].i + 1 \in 1..Len(data)
                                 /\ th[t].i + 1 \in 0..Len(data)
               /\ Len(data) \in Nat /\ th[t].i \in 0..Len(data)
<1>1. t \in Nat /\ th[t].i \in 0..Len(data) /\ Created \in 0..workers /\ workers \in Nat
      /\ ~(t >= Created)
  BY Constants, SMT DEF ThreadsInv, ThreadsTyped, ThreadsPlaced, ThreadRecord, Created
<1>2. t < workers
  BY <1>1, SMT
<1>3. InputsRight
  BY DEF ThreadsInv
<1> DEFINE l == LengthOf(Len(data), workers, t)
           f == FirstOf(Len(data), workers, t)
<1>4. /\ T!Length(t) = l /\ T!FirstRecord(t) = f /\ l \in 1..Len(data) /\ f \in Nat
      /\ f + l <= Len(data) /\ Len(data) \in Nat
  BY <1>2, <1>3, SharesRight
<1> HIDE DEF l, f
<1>5. th[t].i < l => /\ f + th[t].i < Len(data)
                     /\ f + th[t].i + 1 \in 1..Len(data)
                     /\ th[t].i + 1 \in 0..Len(data)
  <2> DEFINE j == th[t].i
  <2>1. j \in 0..Len(data)
    BY <1>1
  <2> HIDE DEF j
  <2>2. j < l => f + j < Len(data) /\ f + j + 1 \in 1..Len(data) /\ j + 1 \in 0..Len(data)
    BY <1>4, <2>1, SMT
  <2> QED BY <2>2 DEF j
<1> QED BY <1>1, <1>2, <1>4, <1>5 DEF l, f

\* A step of one thread that does not end it disturbs the place of no other.
LEMMA OneThread ==
    ASSUME ThreadsInv, NEW t \in 0..MaxWorkers-1, th[t].pc \notin {"none", "returned"},
           UNCHANGED <<data, interval, workers, remainder, tmain, tk, overrun, printed>>,
           NEW r \in ThreadRecord, r.pc # "none", PlaceRight(t, r),
           th' = [th EXCEPT ![t] = r], intArr' \in [0..(Top \div interval)-1 -> Int]
    PROVE  /\ InputsRight' /\ ThreadsTyped' /\ ThreadsPlaced' /\ ThreadsPrinted'
           /\ th'[t] = r /\ \A u \in 0..MaxWorkers-1 : u # t => th'[u] = th[u]
<1>1. /\ th \in [0..MaxWorkers-1 -> ThreadRecord] /\ InputsRight /\ ThreadsTyped
      /\ ThreadsPlaced /\ ThreadsPrinted
  BY DEF ThreadsInv, ThreadsTyped
<1>2. th'[t] = r /\ \A u \in 0..MaxWorkers-1 : u # t => th'[u] = th[u]
  BY <1>1
<1>3. th' \in [0..MaxWorkers-1 -> ThreadRecord]
  BY <1>1
<1>4. t < workers
  BY ThreadsShare
<1>5. InputsRight' /\ ThreadsTyped'
  BY <1>1, <1>3, Zenon DEF InputsRight, ThreadsTyped, ThreadRecord
<1>6. tmain # "done" /\ (tmain = "join" => ~(t < tk))
  BY <1>1, <1>4 DEF ThreadsPlaced
<1>7. ThreadsPlaced'
  <2>1. Created' = Created
    BY DEF Created
  <2>2. \A u \in 0..MaxWorkers-1 : th'[u].pc = "none" <=> u >= Created'
    BY <1>1, <1>2, <2>1 DEF ThreadsPlaced
  <2>3. \A u \in 0..MaxWorkers-1 : PlaceRight(u, th[u])' <=> PlaceRight(u, th'[u])
    BY DEF PlaceRight
  <2>4. \A u \in 0..MaxWorkers-1 : PlaceRight(u, th'[u])
    BY <1>1, <1>2 DEF ThreadsPlaced
  <2> QED BY <1>1, <1>2, <1>6, <2>2, <2>3, <2>4, ZenonT(60) DEF ThreadsPlaced
<1>8. ThreadsPrinted'
  BY <1>6 DEF ThreadsPrinted
<1> QED BY <1>2, <1>5, <1>7, <1>8

\* A step that neither touches the array nor ends the counting of a record.
LEMMA StillCounted ==
    ASSUME ThreadsInv, UNCHANGED <<data, interval, workers, intArr>>,
           NEW t \in 0..MaxWorkers-1,
           \A u \in 0..MaxWorkers-1 : u # t => th'[u] = th[u],
           (IF th'[t].pc = "unlock" THEN th'[t].i + 1 ELSE th'[t].i) =
              (IF th[t].pc = "unlock" THEN th[t].i + 1 ELSE th[t].i)
    PROVE  ThreadsCounted'
<1>1. ThreadDone' = ThreadDone
  BY DEF ThreadDone
<1> QED BY <1>1 DEF ThreadsInv, ThreadsCounted

LEMMA ReadKeeps ==
    ASSUME ThreadsInv, NEW t \in 0..MaxWorkers-1, T!ReadRecord(t)
    PROVE  ThreadsInv'
<1> DEFINE l == LengthOf(Len(data), workers, t)
           f == FirstOf(Len(data), workers, t)
           v == data[f + th[t].i + 1]
           r == [th[t] EXCEPT !.pc = "lock", !.buffer = v]
<1>1. th[t].pc = "read" /\ th[t].i < T!Length(t)
  BY DEF T!ReadRecord
<1>2. /\ t < workers /\ T!Length(t) = l /\ T!FirstRecord(t) = f /\ f + th[t].i < Len(data)
      /\ f + th[t].i + 1 \in 1..Len(data) /\ th[t].i < l
  BY <1>1, ThreadsShare
<1>3. v \in 0..Top-1
  BY <1>2, BucketsFit DEF ThreadsInv
<1>4. /\ th' = [th EXCEPT ![t] = r]
      /\ UNCHANGED <<data, interval, workers, remainder, intArr, mutex, tmain, tk, overrun, printed>>
  BY <1>2 DEF T!ReadRecord, T!SIZE, T!input
<1>5. th[t] \in ThreadRecord
  BY DEF ThreadsInv, ThreadsTyped
<1>6. /\ r \in ThreadRecord /\ r.pc = "lock" /\ r.i = th[t].i /\ r.buffer = v
  BY <1>3, <1>5 DEF ThreadRecord
<1>7. PlaceRight(t, r)
  <2> HIDE DEF r
  <2> QED BY <1>2, <1>6 DEF PlaceRight, Within
<1> HIDE DEF r, v, l, f
<1>8. /\ InputsRight' /\ ThreadsTyped' /\ ThreadsPlaced' /\ ThreadsPrinted'
      /\ th'[t] = r /\ \A u \in 0..MaxWorkers-1 : u # t => th'[u] = th[u]
  <2>1. intArr' \in [0..(Top \div interval)-1 -> Int]
    BY <1>4 DEF ThreadsInv, ThreadsTyped
  <2> QED BY <1>1, <1>4, <1>6, <1>7, <2>1, OneThread
<1>9. Exclusion' /\ LoadedRight'
  BY <1>1, <1>4, <1>6, <1>8 DEF ThreadsInv, Exclusion, LoadedRight, Within
<1>10. ThreadsCounted'
  BY <1>1, <1>4, <1>6, <1>8, StillCounted
<1> QED BY <1>8, <1>9, <1>10 DEF ThreadsInv

LEMMA ReturnKeeps ==
    ASSUME ThreadsInv, NEW t \in 0..MaxWorkers-1, T!Return(t)
    PROVE  ThreadsInv'
<1> DEFINE l == LengthOf(Len(data), workers, t)
           r == [th[t] EXCEPT !.pc = "returned"]
<1>1. th[t].pc = "read" /\ th[t].i >= T!Length(t)
  BY DEF T!Return
<1>2. T!Length(t) = l /\ l \in 1..Len(data) /\ Len(data) \in Nat /\ th[t].i \in 0..Len(data)
  BY <1>1, ThreadsShare
<1>3. /\ th' = [th EXCEPT ![t] = r]
      /\ UNCHANGED <<data, interval, workers, remainder, intArr, mutex, tmain, tk, overrun, printed>>
  BY DEF T!Return, T!MoveTo, T!input
<1>4. th[t] \in ThreadRecord /\ PlaceRight(t, th[t])
  BY DEF ThreadsInv, ThreadsTyped, ThreadsPlaced
<1>5. r \in ThreadRecord /\ r.pc = "returned" /\ r.i = th[t].i
  BY <1>4 DEF ThreadRecord
<1>6. PlaceRight(t, r)
  <2>1. th[t].i = l
    <3> HIDE DEF l
    <3>1. th[t].i <= l
      BY <1>1, <1>4 DEF PlaceRight, l
    <3> QED BY <1>1, <1>2, <3>1, SMT
  <2> HIDE DEF r
  <2> QED BY <1>5, <2>1 DEF PlaceRight, Within
<1> HIDE DEF r, l
<1>7. /\ InputsRight' /\ ThreadsTyped' /\ ThreadsPlaced' /\ ThreadsPrinted'
      /\ th'[t] = r /\ \A u \in 0..MaxWorkers-1 : u # t => th'[u] = th[u]
  <2>1. intArr' \in [0..(Top \div interval)-1 -> Int]
    BY <1>3 DEF ThreadsInv, ThreadsTyped
  <2> QED BY <1>1, <1>3, <1>5, <1>6, <2>1, OneThread
<1>8. Exclusion' /\ LoadedRight'
  BY <1>1, <1>3, <1>5, <1>7 DEF ThreadsInv, Exclusion, LoadedRight, Within
<1>9. ThreadsCounted'
  BY <1>1, <1>3, <1>5, <1>7, StillCounted
<1> QED BY <1>7, <1>8, <1>9 DEF ThreadsInv

LEMMA LockKeeps ==
    ASSUME ThreadsInv, NEW t \in 0..MaxWorkers-1, T!Lock(t)
    PROVE  ThreadsInv'
<1> DEFINE r == [th[t] EXCEPT !.pc = "load"]
<1>1. th[t].pc = "lock" /\ mutex = -1
  BY DEF T!Lock, T!MutexFree, T!NoThread
<1>2. /\ th' = [th EXCEPT ![t] = r] /\ mutex' = t
      /\ UNCHANGED <<data, interval, workers, remainder, intArr, tmain, tk, overrun, printed>>
  BY DEF T!Lock, T!MoveTo, T!input
<1>3. th[t] \in ThreadRecord /\ PlaceRight(t, th[t])
  BY DEF ThreadsInv, ThreadsTyped, ThreadsPlaced
<1>4. r \in ThreadRecord /\ r.pc = "load" /\ r.i = th[t].i /\ r.buffer = th[t].buffer
  BY <1>3 DEF ThreadRecord, Within
<1>5. PlaceRight(t, r)
  <2> HIDE DEF r
  <2> QED BY <1>1, <1>3, <1>4 DEF PlaceRight, Within
<1> HIDE DEF r
<1>6. /\ InputsRight' /\ ThreadsTyped' /\ ThreadsPlaced' /\ ThreadsPrinted'
      /\ th'[t] = r /\ \A u \in 0..MaxWorkers-1 : u # t => th'[u] = th[u]
  <2>1. intArr' \in [0..(Top \div interval)-1 -> Int]
    BY <1>2 DEF ThreadsInv, ThreadsTyped
  <2> QED BY <1>1, <1>2, <1>4, <1>5, <2>1, OneThread
<1>7. \A u \in 0..MaxWorkers-1 : th[u].pc \notin Within
  BY <1>1, Constants DEF ThreadsInv, Exclusion
<1>8. Exclusion'
  BY <1>2, <1>4, <1>6, <1>7 DEF Exclusion, Within
<1>9. LoadedRight'
  BY <1>4, <1>6, <1>7 DEF LoadedRight, Within
<1>10. ThreadsCounted'
  BY <1>1, <1>2, <1>4, <1>6, StillCounted
<1> QED BY <1>6, <1>8, <1>9, <1>10 DEF ThreadsInv

\* The record a thread holds has a cell: the increment never leaves the array.
LEMMA HeldFits ==
    ASSUME ThreadsInv, NEW t \in 0..MaxWorkers-1, th[t].pc \in Within
    PROVE  /\ th[t].buffer = data[FirstOf(Len(data), workers, t) + th[t].i + 1]
           /\ th[t].buffer \div interval \in 0..(Top \div interval)-1
           /\ th[t].i < LengthOf(Len(data), workers, t)
           /\ th[t].i + 1 \in 0..Len(data) /\ th[t].i \in 0..Len(data)
           /\ DOMAIN intArr = 0..(Top \div interval)-1
<1>1. PlaceRight(t, th[t]) /\ th[t].pc \notin {"none", "returned", "read"}
  BY DEF ThreadsInv, ThreadsPlaced, Within
<1>2. /\ th[t].buffer = data[FirstOf(Len(data), workers, t) + th[t].i + 1]
      /\ th[t].i < LengthOf(Len(data), workers, t)
  BY <1>1 DEF PlaceRight
<1>3. /\ FirstOf(Len(data), workers, t) + th[t].i + 1 \in 1..Len(data)
      /\ th[t].i + 1 \in 0..Len(data) /\ th[t].i \in 0..Len(data)
  BY <1>1, <1>2, ThreadsShare
<1>4. th[t].buffer \div interval \in 0..(Top \div interval)-1
  BY <1>2, <1>3, BucketsFit DEF ThreadsInv
<1>5. DOMAIN intArr = 0..(Top \div interval)-1
  BY DEF ThreadsInv, ThreadsTyped
<1> QED BY <1>2, <1>3, <1>4, <1>5

LEMMA LoadKeeps ==
    ASSUME ThreadsInv, NEW t \in 0..MaxWorkers-1, T!Load(t)
    PROVE  ThreadsInv'
<1> DEFINE b == th[t].buffer \div interval
           r == [th[t] EXCEPT !.pc = "store", !.count = intArr[b]]
<1>1. th[t].pc = "load"
  BY DEF T!Load
<1>2. b \in DOMAIN intArr /\ intArr[b] \in Int
  BY <1>1, HeldFits DEF Within, ThreadsInv, ThreadsTyped
<1>3. /\ th' = [th EXCEPT ![t] = r]
      /\ UNCHANGED <<data, interval, workers, remainder, intArr, mutex, tmain, tk, overrun, printed>>
  <2> HIDE DEF r
  <2>1. T!Bucket(th[t].buffer) = b
    BY DEF T!Bucket
  <2>2. th' = [th EXCEPT ![t].pc = "store", ![t].count = intArr[b]]
    BY <1>2, <2>1 DEF T!Load
  <2>3. [th EXCEPT ![t].pc = "store", ![t].count = intArr[b]] = [th EXCEPT ![t] = r]
    BY DEF r
  <2> QED BY <1>2, <2>1, <2>2, <2>3 DEF T!Load, T!input
<1>4. th[t] \in ThreadRecord /\ PlaceRight(t, th[t])
  BY DEF ThreadsInv, ThreadsTyped, ThreadsPlaced
<1>5. /\ r \in ThreadRecord /\ r.pc = "store" /\ r.i = th[t].i /\ r.buffer = th[t].buffer
      /\ r.count = intArr[b]
  BY <1>2, <1>4 DEF ThreadRecord, Within
<1>6. PlaceRight(t, r)
  <2> HIDE DEF r
  <2> QED BY <1>1, <1>4, <1>5 DEF PlaceRight, Within
<1> HIDE DEF r
<1>7. /\ InputsRight' /\ ThreadsTyped' /\ ThreadsPlaced' /\ ThreadsPrinted'
      /\ th'[t] = r /\ \A u \in 0..MaxWorkers-1 : u # t => th'[u] = th[u]
  <2>1. intArr' \in [0..(Top \div interval)-1 -> Int]
    BY <1>3 DEF ThreadsInv, ThreadsTyped
  <2> QED BY <1>1, <1>3, <1>5, <1>6, <2>1, OneThread
<1>8. Exclusion'
  BY <1>1, <1>3, <1>5, <1>7 DEF ThreadsInv, Exclusion, Within
<1>9. LoadedRight'
  BY <1>3, <1>5, <1>7 DEF ThreadsInv, LoadedRight
<1>10. ThreadsCounted'
  BY <1>1, <1>3, <1>5, <1>7, StillCounted
<1> QED BY <1>7, <1>8, <1>9, <1>10 DEF ThreadsInv

\* The store is where a record is counted: under the mutex the cell still holds
\* what the thread loaded.
LEMMA StoreKeeps ==
    ASSUME ThreadsInv, NEW t \in 0..MaxWorkers-1, T!Store(t)
    PROVE  ThreadsInv'
<1> DEFINE c == th[t].buffer \div interval
           f == FirstOf(Len(data), workers, t)
           r == [th[t] EXCEPT !.pc = "unlock"]
<1>1. th[t].pc = "store"
  BY DEF T!Store
<1>2. /\ th[t].buffer = data[f + th[t].i + 1] /\ c \in 0..(Top \div interval)-1
      /\ th[t].i + 1 \in 0..Len(data) /\ th[t].i \in 0..Len(data)
  BY <1>1, HeldFits DEF Within
<1>3. /\ th' = [th EXCEPT ![t] = r]
      /\ intArr' = [intArr EXCEPT ![c] = th[t].count + 1]
      /\ UNCHANGED <<data, interval, workers, remainder, mutex, tmain, tk, overrun, printed>>
  BY DEF T!Store, T!MoveTo, T!input, T!Bucket
<1>4. /\ th[t] \in ThreadRecord /\ PlaceRight(t, th[t]) /\ th[t].count = intArr[c]
      /\ intArr \in [0..(Top \div interval)-1 -> Int]
  BY <1>1 DEF ThreadsInv, ThreadsTyped, ThreadsPlaced, LoadedRight
<1>5. r \in ThreadRecord /\ r.pc = "unlock" /\ r.i = th[t].i /\ r.buffer = th[t].buffer
  BY <1>4 DEF ThreadRecord, Within
<1>6. PlaceRight(t, r)
  <2> HIDE DEF r
  <2> QED BY <1>1, <1>4, <1>5 DEF PlaceRight, Within
<1> HIDE DEF r, c, f
<1>7. /\ intArr'[c] = intArr[c] + 1
      /\ \A b \in 0..(Top \div interval)-1 : b # c => intArr'[b] = intArr[b]
      /\ intArr' \in [0..(Top \div interval)-1 -> Int]
  <2>1. th[t].count + 1 \in Int
    BY <1>2, <1>4, SMT
  <2> QED BY <1>2, <1>3, <1>4, <2>1
<1>8. /\ InputsRight' /\ ThreadsTyped' /\ ThreadsPlaced' /\ ThreadsPrinted'
      /\ th'[t] = r /\ \A u \in 0..MaxWorkers-1 : u # t => th'[u] = th[u]
  BY <1>1, <1>3, <1>5, <1>6, <1>7, OneThread
<1>9. Exclusion'
  BY <1>1, <1>3, <1>5, <1>8 DEF ThreadsInv, Exclusion, Within
<1>10. \A u \in 0..MaxWorkers-1 : u # t => th[u].pc \notin Within
  BY <1>1 DEF ThreadsInv, Exclusion, Within
<1>11. LoadedRight'
  BY <1>3, <1>5, <1>8, <1>10 DEF LoadedRight, Within
<1>12. ThreadsCounted'
  <2>1. /\ ThreadDone \in [0..MaxWorkers-1 -> Nat] /\ ThreadDone' \in [0..MaxWorkers-1 -> Nat]
        /\ ThreadDone[t] = th[t].i /\ ThreadDone'[t] = th[t].i + 1
        /\ \A u \in 0..MaxWorkers-1 : u # t => ThreadDone'[u] = ThreadDone[u]
    <3>1. \A u \in 0..MaxWorkers-1 : th[u].i \in Nat /\ th'[u].i \in Nat
      <4>1. Len(data) \in Nat
        BY BucketsFit DEF ThreadsInv
      <4>2. \A j \in 0..Len(data) : j \in Nat
        BY <4>1, SMT
      <4>3. data' = data /\ th \in [0..MaxWorkers-1 -> ThreadRecord]
            /\ th' \in [0..MaxWorkers-1 -> ThreadRecord]
        BY <1>3, <1>8 DEF ThreadsInv, ThreadsTyped, ThreadRecord
      <4> QED BY <4>2, <4>3 DEF ThreadRecord
    <3>2. \A j \in Nat : j + 1 \in Nat
      BY SMT
    <3> QED BY <1>1, <1>5, <1>8, <3>1, <3>2 DEF ThreadDone
  <2>2. data \in Seq(Nat) /\ ThreadDone[t] <= 2 * Len(data)
    <3>1. data \in Seq(Nat) /\ Len(data) \in Nat
      BY BucketsFit DEF ThreadsInv
    <3> QED BY <1>2, <2>1, <3>1, SMT
  <2>3. data[f + ThreadDone[t] + 1] \div interval = c
    BY <1>2, <2>1 DEF c
  <2> SUFFICES ASSUME NEW b \in 0..(Top \div interval)-1
               PROVE  intArr'[b] = Cardinality(Tally(data, interval, workers, ThreadDone', b))
    BY <1>3 DEF ThreadsCounted
  <2>4. intArr[b] = Cardinality(Tally(data, interval, workers, ThreadDone, b))
    BY DEF ThreadsInv, ThreadsCounted
  <2>5. Cardinality(Tally(data, interval, workers, ThreadDone', b)) =
          IF data[f + ThreadDone[t] + 1] \div interval = b
          THEN Cardinality(Tally(data, interval, workers, ThreadDone, b)) + 1
          ELSE Cardinality(Tally(data, interval, workers, ThreadDone, b))
    <3> DEFINE old == ThreadDone
               new == ThreadDone'
               q == interval
               n == workers
               z == data
    <3>1. OneMore(z, t, old, new) /\ z \in Seq(Nat)
      BY <2>1, <2>2 DEF OneMore
    <3> HIDE DEF old, new, q, n, z
    <3>2. TallyMoves(Cardinality(Tally(z, q, n, old, b)), Cardinality(Tally(z, q, n, new, b)),
                     z[FirstOf(Len(z), n, t) + old[t] + 1] \div q = b)
      BY <3>1, TallyNext
    <3> QED BY <3>2 DEF old, new, q, n, z, f, TallyMoves
  <2> QED BY <1>7, <2>3, <2>4, <2>5
<1> QED BY <1>8, <1>9, <1>11, <1>12 DEF ThreadsInv

LEMMA UnlockKeeps ==
    ASSUME ThreadsInv, NEW t \in 0..MaxWorkers-1, T!Unlock(t)
    PROVE  ThreadsInv'
<1> DEFINE l == LengthOf(Len(data), workers, t)
           r == [th[t] EXCEPT !.pc = "read", !.i = th[t].i + 1]
<1>1. th[t].pc = "unlock"
  BY DEF T!Unlock
<1>2. /\ th[t].i < l /\ th[t].i + 1 \in 0..Len(data) /\ th[t].i \in 0..Len(data)
      /\ l \in 1..Len(data)
  BY <1>1, HeldFits, ThreadsShare DEF Within
<1>3. /\ th' = [th EXCEPT ![t] = r] /\ mutex' = -1
      /\ UNCHANGED <<data, interval, workers, remainder, intArr, tmain, tk, overrun, printed>>
  BY DEF T!Unlock, T!Released, T!NoThread, T!input
<1>4. th[t] \in ThreadRecord
  BY DEF ThreadsInv, ThreadsTyped
<1>5. r \in ThreadRecord /\ r.pc = "read" /\ r.i = th[t].i + 1
  BY <1>2, <1>4 DEF ThreadRecord
<1>6. PlaceRight(t, r)
  <2>1. th[t].i + 1 <= l
    <3> HIDE DEF l
    <3>1. Len(data) \in Nat
      BY BucketsFit DEF ThreadsInv
    <3> QED BY <1>2, <3>1, SMT
  <2> HIDE DEF r
  <2> QED BY <1>5, <2>1 DEF PlaceRight, Within
<1> HIDE DEF r, l
<1>7. /\ InputsRight' /\ ThreadsTyped' /\ ThreadsPlaced' /\ ThreadsPrinted'
      /\ th'[t] = r /\ \A u \in 0..MaxWorkers-1 : u # t => th'[u] = th[u]
  <2>1. intArr' \in [0..(Top \div interval)-1 -> Int]
    BY <1>3 DEF ThreadsInv, ThreadsTyped
  <2> QED BY <1>1, <1>3, <1>5, <1>6, <2>1, OneThread
<1>8. Exclusion'
  <2>1. \A u \in 0..MaxWorkers-1 : u # t => th[u].pc \notin Within
    BY <1>1 DEF ThreadsInv, Exclusion, Within
  <2> QED BY <1>3, <1>5, <1>7, <2>1, Constants DEF Exclusion, Within
<1>9. LoadedRight'
  BY <1>3, <1>5, <1>7 DEF ThreadsInv, LoadedRight
<1>10. ThreadsCounted'
  BY <1>1, <1>3, <1>5, <1>7, StillCounted
<1> QED BY <1>7, <1>8, <1>9, <1>10 DEF ThreadsInv

LEMMA CreateKeeps ==
    ASSUME ThreadsInv, T!Create
    PROVE  ThreadsInv'
<1> DEFINE l == LengthOf(Len(data), workers, tk)
           r == [th[tk] EXCEPT !.pc = "read"]
<1>1. /\ tmain = "create" /\ tk < workers /\ th' = [th EXCEPT ![tk] = r] /\ tk' = tk + 1
      /\ UNCHANGED <<data, interval, workers, remainder, intArr, mutex, tmain, overrun, printed>>
  BY DEF T!Create, T!MoveTo, T!input
<1>2. /\ InputsRight /\ ThreadsTyped /\ ThreadsPlaced /\ Exclusion /\ LoadedRight
      /\ th \in [0..MaxWorkers-1 -> ThreadRecord]
  BY DEF ThreadsInv, ThreadsTyped
<1>3. tk \in 0..MaxWorkers-1 /\ tk \in Nat /\ tk + 1 \in 0..workers /\ ~(tk + 1 <= tk)
  BY <1>1, <1>2, Constants, SMT DEF ThreadsTyped
<1>4. l \in 1..Len(data) /\ Len(data) \in Nat
  BY <1>1, <1>2, <1>3, SharesRight
<1>5. th[tk].pc = "none" /\ th[tk].i = 0 /\ th[tk] \in ThreadRecord
  <2>1. tk >= Created
    BY <1>1, <1>3, SMT DEF Created
  <2> QED BY <1>2, <1>3, <2>1 DEF ThreadsPlaced, PlaceRight
<1>6. r \in ThreadRecord /\ r.pc = "read" /\ r.i = 0
  BY <1>5 DEF ThreadRecord
<1>7. PlaceRight(tk, r)
  <2>1. 0 <= l
    <3> HIDE DEF l
    <3> QED BY <1>4, SMT
  <2> HIDE DEF r
  <2> QED BY <1>6, <2>1 DEF PlaceRight, Within
<1> HIDE DEF r, l
<1>8. /\ th'[tk] = r /\ \A u \in 0..MaxWorkers-1 : u # tk => th'[u] = th[u]
      /\ th' \in [0..MaxWorkers-1 -> ThreadRecord]
  BY <1>1, <1>2, <1>3, <1>6
<1>9. InputsRight' /\ ThreadsTyped'
  BY <1>1, <1>2, <1>3, <1>8, ZenonT(60) DEF InputsRight, ThreadsTyped, ThreadRecord
<1>10. ThreadsPlaced'
  <2>1. \A u \in 0..MaxWorkers-1 : u >= tk + 1 <=> u >= tk /\ u # tk
    BY <1>3, Constants, SMT
  <2>2. Created = tk /\ Created' = tk + 1
    BY <1>1 DEF Created
  <2>3. \A u \in 0..MaxWorkers-1 : th'[u].pc = "none" <=> u >= Created'
    BY <1>2, <1>6, <1>8, <2>1, <2>2 DEF ThreadsPlaced
  <2>4. \A u \in 0..MaxWorkers-1 : PlaceRight(u, th[u])' <=> PlaceRight(u, th'[u])
    BY <1>1 DEF PlaceRight
  <2>5. \A u \in 0..MaxWorkers-1 : PlaceRight(u, th'[u])
    BY <1>2, <1>7, <1>8 DEF ThreadsPlaced
  <2> QED BY <1>1, <2>3, <2>4, <2>5, ZenonT(60) DEF ThreadsPlaced
<1>11. Exclusion' /\ LoadedRight'
  BY <1>1, <1>2, <1>3, <1>5, <1>6, <1>8, ZenonT(60) DEF Exclusion, LoadedRight, Within
<1>12. ThreadsCounted'
  BY <1>1, <1>3, <1>5, <1>6, <1>8, StillCounted
<1>13. ThreadsPrinted'
  BY <1>1 DEF ThreadsPrinted
<1> QED BY <1>9, <1>10, <1>11, <1>12, <1>13 DEF ThreadsInv

\* Steps of main that change neither a thread nor the array.
LEMMA MainKeeps ==
    ASSUME ThreadsInv, T!AllCreated \/ T!Join \/ T!PrintFD
    PROVE  ThreadsInv'
<1>1. UNCHANGED <<data, interval, workers, remainder, intArr, mutex, th, overrun>>
  BY DEF T!AllCreated, T!Join, T!PrintFD, T!input
<1>2. /\ InputsRight /\ ThreadsTyped /\ ThreadsPlaced /\ Exclusion /\ LoadedRight
      /\ ThreadsCounted /\ ThreadsPrinted
  BY DEF ThreadsInv
<1>3. /\ tk \in 0..workers /\ workers \in Nat /\ 0 \in 0..workers
      /\ \A t \in 0..MaxWorkers-1 : ~(t < 0) /\ t \in Nat
  BY <1>2, Constants, SMT DEF ThreadsTyped
<1>4. InputsRight' /\ Exclusion' /\ LoadedRight'
  BY <1>1, <1>2, ZenonT(60) DEF InputsRight, Exclusion, LoadedRight
<1>5. ThreadsCounted'
  <2>1. ThreadDone' = ThreadDone
    BY <1>1 DEF ThreadDone
  <2> QED BY <1>1, <1>2, <2>1 DEF ThreadsCounted
<1>6. /\ tmain' \in {"join", "done"} /\ tk' \in 0..workers
      /\ tmain' = "join" => \A t \in 0..MaxWorkers-1 : t < tk' => th[t].pc = "returned"
      /\ tmain' = "done" => \A t \in 0..MaxWorkers-1 : t < workers => th[t].pc = "returned"
      /\ Created = workers /\ ThreadsPrinted'
  <2>1. CASE T!AllCreated
    BY <1>3, <2>1 DEF T!AllCreated, Created, ThreadsPrinted
  <2>2. CASE T!Join
    <3>1. tmain = "join" /\ tmain' = "join" /\ tk < workers /\ tk' = tk + 1
          /\ th[tk].pc = "returned"
      BY <2>2 DEF T!Join, T!Joinable
    <3>2. tk + 1 \in 0..workers /\ \A t \in 0..MaxWorkers-1 : t < tk + 1 <=> t < tk \/ t = tk
      BY <1>3, <3>1, SMT
    <3> QED BY <1>2, <3>1, <3>2 DEF ThreadsPlaced, Created, ThreadsPrinted
  <2>3. CASE T!PrintFD
    BY <1>1, <1>2, <1>3, <2>3 DEF T!PrintFD, Created, ThreadsPlaced, ThreadsPrinted
  <2> QED BY <2>1, <2>2, <2>3
<1>7. ThreadsTyped'
  BY <1>1, <1>2, <1>6, ZenonT(60) DEF ThreadsTyped, ThreadRecord
<1>8. ThreadsPlaced'
  <2>1. Created' = workers
    BY <1>1, <1>6 DEF Created
  <2>2. \A t \in 0..MaxWorkers-1 : PlaceRight(t, th[t])' <=> PlaceRight(t, th[t])
    BY <1>1 DEF PlaceRight
  <2> QED BY <1>1, <1>2, <1>6, <2>1, <2>2, ZenonT(60) DEF ThreadsPlaced
<1> QED BY <1>4, <1>5, <1>6, <1>7, <1>8 DEF ThreadsInv

\* At the start nothing is counted.
LEMMA TallyNone ==
    ASSUME NEW d, NEW q, NEW n, NEW done, \A t \in 0..MaxWorkers-1 : done[t] = 0, NEW b
    PROVE  Cardinality(Tally(d, q, n, done, b)) = 0
<1>1. \A j : j \notin 0..0-1
  BY SMT
<1>2. \A x \in (0..MaxWorkers-1) \X (0..2*Len(d)) : done[x[1]] = 0
  OBVIOUS
<1>3. Tally(d, q, n, done, b) = {}
  BY <1>1, <1>2 DEF Tally
<1> QED BY <1>3, FS_EmptySet

LEMMA ArrayStarts ==
    ASSUME Regular, intArr \in [0..(Top \div interval)-1 -> Garbage \cup {0}]
    PROVE  /\ intArr \in [0..(Top \div interval)-1 -> Int]
           /\ \A b \in 0..(Top \div interval)-1 : intArr[b] = 0
<1>1. Garbage \cup {0} = {0}
  BY DEF Regular, FreshStart
<1> QED BY <1>1

LEMMA ThreadsStart ==
    ASSUME Regular, T!Init
    PROVE  ThreadsInv
<1>1. PICK s \in Settings :
        /\ data = s.data /\ interval = s.interval
        /\ remainder = Len(s.data) % s.n
        /\ workers = IF s.n > Len(s.data) THEN Len(s.data) ELSE s.n
        /\ intArr \in [0..(Top \div s.interval)-1 -> Garbage \cup {0}]
  <2>1. PICK z \in {[numt |-> s.n, interval |-> s.interval, data |-> s.data] : s \in Settings} :
          /\ data = z.data /\ interval = z.interval
          /\ remainder = Len(z.data) % z.numt
          /\ workers = IF z.numt > Len(z.data) THEN Len(z.data) ELSE z.numt
          /\ intArr \in [T!Cells(z.interval) -> Garbage \cup {0}]
    BY DEF T!Init, T!Remainder, T!Clamp
  <2>2. PICK s \in Settings : z = [numt |-> s.n, interval |-> s.interval, data |-> s.data]
    OBVIOUS
  <2>3. z.numt = s.n /\ z.interval = s.interval /\ z.data = s.data
    BY <2>2
  <2> QED BY <2>1, <2>3, Constants
<1>2. InputsRight
  BY <1>1, InputsStartRight
<1>3. /\ intArr \in [0..(Top \div interval)-1 -> Int]
      /\ \A b \in 0..(Top \div interval)-1 : intArr[b] = 0
  BY <1>1, ArrayStarts
<1>4. /\ mutex = -1 /\ tmain = "create" /\ tk = 0 /\ overrun = FALSE
      /\ th = [t \in 0..MaxWorkers-1 |-> [pc |-> "none", i |-> 0, buffer |-> 0, count |-> 0]]
  BY Constants DEF T!Init, T!NoThread
<1>5. Len(data) \in Nat
  BY <1>2, BucketsFit
<1>6. workers \in 0..MaxWorkers /\ 0 \in 0..workers /\ 0 \in 0..Len(data)
      /\ \A t \in 0..MaxWorkers-1 : t >= 0
  BY <1>2, <1>5, Constants, SMT DEF InputsRight
<1>7. \A t \in 0..MaxWorkers-1 : th[t].pc = "none" /\ th[t].i = 0 /\ th[t] \in ThreadRecord
  BY <1>4, <1>6, Constants DEF ThreadRecord
<1>8. ThreadsTyped
  BY <1>3, <1>4, <1>6, <1>7 DEF ThreadsTyped
<1>9. ThreadsPlaced
  BY <1>4, <1>6, <1>7 DEF ThreadsPlaced, PlaceRight, Created, Within
<1>10. Exclusion /\ LoadedRight /\ ThreadsPrinted
  BY <1>4, <1>7, Constants DEF Exclusion, LoadedRight, ThreadsPrinted, Within
<1>11. ThreadsCounted
  <2>1. \A t \in 0..MaxWorkers-1 : ThreadDone[t] = 0
    BY <1>7 DEF ThreadDone
  <2> QED BY <1>3, <2>1, TallyNone DEF ThreadsCounted
<1> QED BY <1>2, <1>8, <1>9, <1>10, <1>11 DEF ThreadsInv

LEMMA ThreadsStutter ==
    ASSUME ThreadsInv, UNCHANGED <<data, interval, workers, remainder, intArr, mutex, th,
                                   tmain, tk, overrun, printed>>
    PROVE  ThreadsInv'
<1>1. ThreadDone' = ThreadDone /\ Created' = Created
  BY DEF ThreadDone, Created
<1>2. \A t \in 0..MaxWorkers-1 : PlaceRight(t, th[t])' <=> PlaceRight(t, th[t])
  BY DEF PlaceRight
<1>3. InputsRight' /\ ThreadsTyped' /\ Exclusion' /\ LoadedRight' /\ ThreadsPrinted'
  BY ZenonT(60) DEF ThreadsInv, InputsRight, ThreadsTyped, Exclusion, LoadedRight,
                         ThreadsPrinted, ThreadRecord
<1>4. ThreadsPlaced' /\ ThreadsCounted'
  BY <1>1, <1>2, ZenonT(60) DEF ThreadsInv, ThreadsPlaced, ThreadsCounted
<1> QED BY <1>3, <1>4 DEF ThreadsInv

LEMMA ThreadsKeep ==
    ASSUME ThreadsInv, T!Next
    PROVE  ThreadsInv'
<1>1. CASE T!MainStep
  BY <1>1, CreateKeeps, MainKeeps DEF T!MainStep
<1>2. ASSUME NEW t \in T!Threads, T!ThreadStep(t) PROVE ThreadsInv'
  BY <1>2, Constants, ReadKeeps, ReturnKeeps, LockKeeps, LoadKeeps, StoreKeeps, UnlockKeeps
     DEF T!ThreadStep
<1>3. CASE T!Finished
  BY <1>3, ThreadsStutter DEF T!Finished, T!vars
<1> QED BY <1>1, <1>2, <1>3 DEF T!Next

(***************************************************************************)
(* What the invariant says of the properties of ku_tfred.c                 *)
(***************************************************************************)
LEMMA ThreadsTypeOK ==
    ASSUME ThreadsInv
    PROVE  T!TypeOK
<1>1. /\ ThreadsTyped /\ Exclusion /\ Len(data) \in Nat
  BY BucketsFit DEF ThreadsInv
<1>2. \A j \in 0..Len(data) : j \in 0..2*Len(data)
  BY <1>1, SMT
<1>3. intArr \in [T!Cells(interval) -> Int] /\ tk \in 0..workers
      /\ tmain \in {"create", "join", "done"}
  BY <1>1, Constants DEF ThreadsTyped
<1>4. ASSUME NEW t \in T!Threads
      PROVE  /\ th[t].i \in 0..2*T!SIZE /\ th[t].buffer \in 0..Top-1 /\ th[t].count \in Int
             /\ th[t].pc \in {"none", "read", "lock", "returned", "load", "store", "unlock"}
             /\ th[t].pc \in {"load", "store", "unlock"} <=> mutex = t
  <2>1. t \in 0..MaxWorkers-1 /\ th[t] \in ThreadRecord
    BY <1>1, Constants DEF ThreadsTyped
  <2>2. th[t].i \in 0..Len(data) /\ th[t].buffer \in 0..Top-1 /\ th[t].count \in Int
        /\ th[t].pc \in {"none", "read", "lock", "returned"} \cup Within
    BY <2>1 DEF ThreadRecord
  <2> QED BY <1>1, <1>2, <2>1, <2>2 DEF Exclusion, Within, T!SIZE
<1> QED BY <1>3, <1>4 DEF T!TypeOK

LEMMA ThreadsLoseNothing ==
    ASSUME ThreadsInv
    PROVE  T!NoLostUpdate
<1> SUFFICES ASSUME NEW b \in DOMAIN intArr
    PROVE  intArr[b] = Cardinality({x \in T!Threads \X (0..2*T!SIZE) :
        x[2] \in T!Counted(x[1]) /\ T!Bucket(data[T!FirstRecord(x[1]) + x[2] + 1]) = b})
  BY Constants DEF T!NoLostUpdate
<1> DEFINE R == (0..MaxWorkers-1) \X (0..2*Len(data))
           A == {x \in R : /\ x[2] \in T!Counted(x[1])
                           /\ T!Bucket(data[T!FirstRecord(x[1]) + x[2] + 1]) = b}
           B == Tally(data, interval, workers, ThreadDone, b)
<1>1. b \in 0..(Top \div interval)-1 /\ intArr[b] = Cardinality(B)
  BY DEF ThreadsInv, ThreadsTyped, ThreadsCounted
<1>2. B = {x \in R : /\ x[2] \in 0..ThreadDone[x[1]]-1
                     /\ data[FirstOf(Len(data), workers, x[1]) + x[2] + 1] \div interval = b}
  BY DEF Tally
<1>3. ASSUME NEW t \in 0..MaxWorkers-1
      PROVE  T!Counted(t) = 0..ThreadDone[t]-1 /\ T!FirstRecord(t) = FirstOf(Len(data), workers, t)
  <2>1. th[t].i \in 0..Len(data) /\ Len(data) \in Nat
    BY BucketsFit DEF ThreadsInv, ThreadsTyped, ThreadRecord
  <2>2. T!Counted(t) = 0..ThreadDone[t]-1
    <3> DEFINE j == th[t].i
    <3>1. j - 0 = (j + 1) - 1
      BY <2>1, SMT
    <3> HIDE DEF j
    <3>2. CASE th[t].pc = "unlock"
      BY <3>1, <3>2 DEF T!Counted, ThreadDone, j
    <3>3. CASE th[t].pc # "unlock"
      BY <3>3 DEF T!Counted, ThreadDone
    <3> QED BY <3>2, <3>3
  <2> QED BY <2>2 DEF T!FirstRecord, T!Share, T!SIZE, FirstOf
<1>4. A = B
  <2>1. \A x \in R : x[1] \in 0..MaxWorkers-1
    OBVIOUS
  <2> HIDE DEF R
  <2> QED BY <1>2, <1>3, <2>1, ZenonT(60) DEF T!Bucket
<1>5. T!Threads \X (0..2*T!SIZE) = R
  BY Constants DEF T!SIZE
<1> HIDE DEF R, B
<1> QED BY <1>1, <1>4, <1>5

LEMMA ThreadsCountAll ==
    ASSUME ThreadsInv
    PROVE  T!FDCorrect
<1> SUFFICES ASSUME tmain = "done", NEW b \in 0..(Top \div interval)-1
             PROVE  printed[b] = Cardinality({p \in 1..Len(data) : data[p] \div interval = b})
  BY Constants DEF T!FDCorrect, T!SIZE
<1>1. printed[b] = Cardinality(Tally(data, interval, workers, ThreadDone, b))
  BY DEF ThreadsInv, ThreadsPrinted, ThreadsCounted
<1>2. data \in Seq(Nat) /\ Len(data) \in Nat /\ InputsRight
  BY BucketsFit DEF ThreadsInv
<1>3. \A t \in 0..MaxWorkers-1 :
        ThreadDone[t] = IF t < workers THEN LengthOf(Len(data), workers, t) ELSE 0
  <2>1. \A t \in 0..MaxWorkers-1 : t < workers => th[t].pc = "returned"
    BY DEF ThreadsInv, ThreadsPlaced
  <2>2. \A t \in 0..MaxWorkers-1 : ~(t < workers) => th[t].pc = "none"
    <3>1. Created = workers /\ workers \in Nat
      BY Constants, SMT DEF Created, ThreadsInv, ThreadsTyped
    <3>2. \A t \in 0..MaxWorkers-1 : ~(t < workers) => t >= workers
      BY <3>1, Constants, SMT
    <3> QED BY <3>1, <3>2 DEF ThreadsInv, ThreadsPlaced
  <2> QED BY <2>1, <2>2 DEF ThreadsInv, ThreadsPlaced, PlaceRight, ThreadDone
<1>4. CASE workers = 0
  <2>1. \A t \in 0..MaxWorkers-1 : ThreadDone[t] = 0
    <3>1. \A t \in 0..MaxWorkers-1 : ~(t < workers)
      BY <1>4, Constants, SMT
    <3> QED BY <1>3, <3>1
  <2>2. data = <<>> /\ 1..Len(data) = {}
    <3>1. data = <<>>
      BY <1>2, <1>4, Constants, SMT DEF InputsRight
    <3>2. Len(data) = 0
      BY <3>1
    <3> QED BY <3>1, <3>2, SMT
  <2> QED BY <1>1, <2>1, <2>2, TallyNone, FS_EmptySet
<1>5. CASE workers # 0
  <2>1. workers \in Nat \ {0} /\ workers <= Len(data) /\ workers <= MaxWorkers
    BY <1>2, <1>5, Constants, SMT DEF InputsRight
  <2>2. ThreadDone \in [0..MaxWorkers-1 -> Nat]
    <3>1. \A j \in 0..Len(data) : j \in Nat /\ j + 1 \in Nat
      BY <1>2, SMT
    <3> QED BY <3>1 DEF ThreadsInv, ThreadsTyped, ThreadRecord, ThreadDone
  <2>3. SharesDone(data, workers, ThreadDone)
    BY <1>3, <2>1, <2>2 DEF SharesDone
  <2> QED BY <1>1, <1>2, <2>3, TallyAll
<1> QED BY <1>4, <1>5

(***************************************************************************)
(* ku_pfred.c: the inductive invariant                                     *)
(***************************************************************************)
ChildRecord == [pc : {"none", "open", "read", "send", "exited"},
                i : 0..Len(data), at : 0..Len(data), value : 0..Top-1]
Forked == IF pmain = "fork" THEN i ELSE workers
At == IF pmain = "fork" THEN 0 ELSE i
Held(q, p) == IF p \in DOMAIN q THEN q[p] ELSE <<>>

\* A sender is within its share, and sends the next record of it.
SenderRight(p, r) ==
    LET l == LengthOf(Len(data), workers, p)
    IN  /\ r.at = r.i
        /\ r.pc \in {"none", "open"} => r.i = 0
        /\ r.pc # "none" => r.i <= l
        /\ r.pc = "send" =>
             r.i < l /\ r.value = data[FirstOf(Len(data), workers, p) + r.i + 1]

\* Of the n records that were sent, rec are received and h are in the queue.
FlowRight(p, n, rec, h) ==
    LET f == FirstOf(Len(data), workers, p)
    IN  /\ Len(rec) + Len(h) = n
        /\ \A j \in 1..Len(rec) : rec[j] = data[f + j]
        /\ \A j \in 1..Len(h) : h[j] = data[f + Len(rec) + j]

QueuesTyped ==
    /\ queues \in [DOMAIN queues -> Seq(0..Top-1)] /\ DOMAIN queues \subseteq 0..MaxWorkers-1
    /\ \A p \in DOMAIN queues : Len(queues[p]) <= 1
ProcessesTyped ==
    /\ child \in [0..MaxWorkers-1 -> ChildRecord]
    /\ received \in [0..MaxWorkers-1 -> Seq(0..Top-1)]
    /\ intArr \in [0..(Top \div interval)-1 -> Int]
    /\ pmain \in {"fork", "open", "receive", "done", "failed"}
    /\ i \in 0..workers /\ workers \in 0..MaxWorkers /\ overrun = FALSE
SendersRight ==
    /\ \A p \in 0..MaxWorkers-1 : child[p].pc = "none" <=> p >= Forked
    /\ \A p \in 0..MaxWorkers-1 : SenderRight(p, child[p])
MessagesFlow ==
    \A p \in 0..MaxWorkers-1 : FlowRight(p, child[p].i, received[p], Held(queues, p))
ReceiverRight ==
    /\ \A p \in 0..MaxWorkers-1 : p < At =>
         Len(received[p]) = LengthOf(Len(data), workers, p) /\ p \notin DOMAIN queues
    /\ \A p \in 0..MaxWorkers-1 : p >= At =>
         received[p] = <<>> \/ (p = At /\ pmain = "receive")
    /\ pmain = "receive" =>
         /\ i < workers /\ i \in DOMAIN queues
         /\ left = LengthOf(Len(data), workers, i) - Len(received[i]) /\ left >= 1
    /\ pmain = "done" => i = workers /\ printed = intArr
ReceivedDone == [p \in 0..MaxWorkers-1 |-> Len(received[p])]
ReceivedCounted ==
    \A b \in 0..(Top \div interval)-1 :
        intArr[b] = Cardinality(Tally(data, interval, workers, ReceivedDone, b))

ProcessesInv ==
    /\ InputsRight /\ QueuesTyped /\ ProcessesTyped /\ SendersRight /\ MessagesFlow
    /\ ReceiverRight /\ ReceivedCounted

LEMMA HeldTyped ==
    ASSUME QueuesTyped, NEW p
    PROVE  Held(queues, p) \in Seq(0..Top-1) /\ Len(Held(queues, p)) \in 0..1
<1>1. CASE p \in DOMAIN queues
  <2>1. queues[p] \in Seq(0..Top-1) /\ Len(queues[p]) <= 1
    BY <1>1 DEF QueuesTyped
  <2>2. Len(queues[p]) \in Nat
    BY <2>1, LenProperties
  <2>3. \A k \in Nat : k <= 1 => k \in 0..1
    BY SMT
  <2>4. Len(queues[p]) \in 0..1
    BY <2>1, <2>2, <2>3
  <2> QED BY <1>1, <2>1, <2>4 DEF Held
<1>2. CASE p \notin DOMAIN queues
  <2>1. <<>> \in Seq(0..Top-1) /\ Len(<<>>) = 0
    BY EmptySeq
  <2>2. 0 \in 0..1
    BY SMT
  <2> QED BY <1>2, <2>1, <2>2 DEF Held
<1> QED BY <1>1, <1>2

\* A process that exists has a share; it received and sent no more than that.
LEMMA ProcessesShare ==
    ASSUME ProcessesInv, NEW p \in 0..MaxWorkers-1, child[p].pc # "none"
    PROVE  LET l == LengthOf(Len(data), workers, p)
               f == FirstOf(Len(data), workers, p)
           IN  /\ p < workers /\ P!ToSend(p) = l /\ P!ToReceive(p) = l /\ P!FirstRecord(p) = f
               /\ l \in 1..Len(data) /\ f \in Nat /\ f + l <= Len(data) /\ Len(data) \in Nat
               /\ child[p].i \in 0..l
<1>1. /\ p \in Nat /\ child[p].i \in 0..Len(data) /\ Forked \in 0..workers /\ workers \in Nat
      /\ ~(p >= Forked)
  BY Constants, SMT DEF ProcessesInv, ProcessesTyped, SendersRight, ChildRecord, Forked
<1>2. p < workers
  BY <1>1, SMT
<1> DEFINE l == LengthOf(Len(data), workers, p)
           f == FirstOf(Len(data), workers, p)
<1>3. /\ P!ToSend(p) = l /\ P!ToReceive(p) = l /\ P!FirstRecord(p) = f
      /\ l \in 1..Len(data) /\ f \in Nat /\ f + l <= Len(data) /\ Len(data) \in Nat
  BY <1>2, SharesRight DEF ProcessesInv
<1>4. child[p].i <= l
  BY DEF ProcessesInv, SendersRight, SenderRight
<1> HIDE DEF l, f
<1>5. child[p].i \in 0..l
  BY <1>1, <1>3, <1>4, SMT
<1> QED BY <1>2, <1>3, <1>5 DEF l, f

\* A step of one sender that keeps the queues of the others.
LEMMA OneChild ==
    ASSUME ProcessesInv, NEW p \in 0..MaxWorkers-1, child[p].pc # "none",
           UNCHANGED <<data, interval, workers, remainder, intArr, pmain, i, left, received,
                       overrun, printed>>,
           NEW r \in ChildRecord, r.pc # "none", SenderRight(p, r),
           child' = [child EXCEPT ![p] = r],
           QueuesTyped', FlowRight(p, r.i, received[p], Held(queues', p)),
           \A u : u # p => Held(queues', u) = Held(queues, u),
           \A u : u # p => (u \in DOMAIN queues' <=> u \in DOMAIN queues),
           p \in DOMAIN queues => p \in DOMAIN queues',
           p \in DOMAIN queues' => p \in DOMAIN queues \/ child[p].i = 0
    PROVE  ProcessesInv'
<1>1. /\ child \in [0..MaxWorkers-1 -> ChildRecord] /\ InputsRight /\ ProcessesTyped
      /\ SendersRight /\ MessagesFlow /\ ReceiverRight /\ ReceivedCounted
  BY DEF ProcessesInv, ProcessesTyped
<1>2. /\ child'[p] = r /\ \A u \in 0..MaxWorkers-1 : u # p => child'[u] = child[u]
      /\ child' \in [0..MaxWorkers-1 -> ChildRecord]
  BY <1>1
<1>3. InputsRight' /\ ProcessesTyped'
  BY <1>1, <1>2, ZenonT(60) DEF InputsRight, ProcessesTyped, ChildRecord
<1>4. Forked' = Forked /\ At' = At /\ ReceivedDone' = ReceivedDone
  BY DEF Forked, At, ReceivedDone
<1>5. SendersRight'
  <2>1. \A u \in 0..MaxWorkers-1 : SenderRight(u, child[u])' <=> SenderRight(u, child'[u])
    BY DEF SenderRight
  <2>2. \A u \in 0..MaxWorkers-1 : SenderRight(u, child'[u])
    BY <1>1, <1>2 DEF SendersRight
  <2>3. \A u \in 0..MaxWorkers-1 : child'[u].pc = "none" <=> u >= Forked
    BY <1>1, <1>2 DEF SendersRight
  <2> QED BY <1>4, <2>1, <2>2, <2>3, ZenonT(60) DEF SendersRight
<1>6. MessagesFlow'
  <2>1. \A u \in 0..MaxWorkers-1 : FlowRight(u, child[u].i, received[u], Held(queues, u))' <=>
                                   FlowRight(u, child'[u].i, received[u], Held(queues', u))
    BY DEF FlowRight, Held
  <2>2. \A u \in 0..MaxWorkers-1 : FlowRight(u, child'[u].i, received[u], Held(queues', u))
    BY <1>1, <1>2 DEF MessagesFlow
  <2> QED BY <2>1, <2>2 DEF MessagesFlow
<1>7. ReceiverRight'
  <2>1. \A u \in 0..MaxWorkers-1 : u < At => u \notin DOMAIN queues'
    <3> SUFFICES ASSUME NEW u \in 0..MaxWorkers-1, u < At, u \in DOMAIN queues' PROVE FALSE
      OBVIOUS
    <3>1. Len(received[u]) = LengthOf(Len(data), workers, u) /\ u \notin DOMAIN queues
      BY <1>1 DEF ReceiverRight
    <3>2. u = p /\ child[p].i = 0
      BY <3>1
    <3>3. Len(received[p]) + Len(Held(queues, p)) = child[p].i
      BY <1>1 DEF MessagesFlow, FlowRight
    <3>4. Len(Held(queues, p)) \in 0..1
      BY HeldTyped DEF ProcessesInv
    <3>5. LengthOf(Len(data), workers, p) \in 1..Len(data) /\ Len(data) \in Nat
      BY ProcessesShare
    <3> QED BY <3>1, <3>2, <3>3, <3>4, <3>5, SMT
  <2>2. pmain = "receive" => i \in DOMAIN queues'
    BY <1>1 DEF ReceiverRight
  <2> QED BY <1>1, <1>4, <2>1, <2>2, ZenonT(60) DEF ReceiverRight
<1>8. ReceivedCounted'
  BY <1>1, <1>4 DEF ReceivedCounted
<1> QED BY <1>3, <1>5, <1>6, <1>7, <1>8 DEF ProcessesInv

\* Opening a queue that does not exist makes an empty one: nothing is lost.
LEMMA OpenKeepsQueues ==
    ASSUME QueuesTyped, NEW p \in 0..MaxWorkers-1, queues' = P!Open(p)
    PROVE  /\ QueuesTyped' /\ DOMAIN queues' = DOMAIN queues \cup {p}
           /\ \A u : Held(queues', u) = Held(queues, u)
<1> DEFINE o == [m \in DOMAIN queues \cup {p} |-> IF m \in DOMAIN queues THEN queues[m] ELSE <<>>]
<1>1. queues' = o
  BY DEF P!Open, P!Opened
<1>2. <<>> \in Seq(0..Top-1) /\ Len(<<>>) = 0 /\ 0 <= 1
  BY EmptySeq, SMT
<1>3. /\ DOMAIN o = DOMAIN queues \cup {p}
      /\ \A m \in DOMAIN queues : o[m] = queues[m]
      /\ \A m \in DOMAIN o : m \notin DOMAIN queues => o[m] = <<>>
  OBVIOUS
<1>4. o \in [DOMAIN o -> Seq(0..Top-1)]
  BY <1>2 DEF QueuesTyped
<1> HIDE DEF o
<1>5. \A m \in DOMAIN o : Len(o[m]) <= 1
  <2> SUFFICES ASSUME NEW m \in DOMAIN o PROVE Len(o[m]) <= 1
    OBVIOUS
  <2>1. CASE m \in DOMAIN queues
    BY <1>3, <2>1 DEF QueuesTyped
  <2>2. CASE m \notin DOMAIN queues
    <3>1. o[m] = <<>>
      BY <1>3, <2>2
    <3> QED BY <1>2, <3>1
  <2> QED BY <2>1, <2>2
<1>6. QueuesTyped'
  BY <1>1, <1>3, <1>4, <1>5 DEF QueuesTyped
<1>7. \A u : Held(o, u) = Held(queues, u)
  BY <1>3 DEF Held
<1> QED BY <1>1, <1>3, <1>6, <1>7

LEMMA OpenToSendKeeps ==
    ASSUME ProcessesInv, NEW p \in 0..MaxWorkers-1, P!OpenToSend(p)
    PROVE  ProcessesInv'
<1>1. /\ child[p].pc = "open" /\ child[p] \in ChildRecord /\ SenderRight(p, child[p])
      /\ FlowRight(p, child[p].i, received[p], Held(queues, p)) /\ QueuesTyped
      /\ UNCHANGED <<data, interval, workers, remainder, intArr, pmain, i, left, received,
                     overrun, printed>>
  BY DEF P!OpenToSend, P!input, ProcessesInv, ProcessesTyped, SendersRight, MessagesFlow
<1>2. child[p].i = 0 /\ LengthOf(Len(data), workers, p) \in 1..Len(data) /\ Len(data) \in Nat
      /\ 0 <= LengthOf(Len(data), workers, p)
  <2> DEFINE l == LengthOf(Len(data), workers, p)
  <2>1. child[p].i = 0 /\ l \in 1..Len(data) /\ Len(data) \in Nat
    BY <1>1, ProcessesShare DEF SenderRight
  <2> HIDE DEF l
  <2>2. 0 <= l
    BY <2>1, SMT
  <2> QED BY <2>1, <2>2 DEF l
<1>3. CASE P!CanOpen(P!QueueName(p))
  <2> DEFINE r == [child[p] EXCEPT !.pc = "read"]
  <2>1. queues' = P!Open(p) /\ child' = [child EXCEPT ![p] = r]
    BY <1>3 DEF P!OpenToSend, P!MoveTo, P!QueueName
  <2>2. r \in ChildRecord /\ r.pc = "read" /\ r.i = child[p].i /\ r.at = child[p].at
    BY <1>1 DEF ChildRecord
  <2> HIDE DEF r
  <2>3. SenderRight(p, r)
    BY <1>1, <1>2, <2>2 DEF SenderRight
  <2>4. /\ QueuesTyped' /\ DOMAIN queues' = DOMAIN queues \cup {p}
        /\ \A u : Held(queues', u) = Held(queues, u)
    BY <1>1, <2>1, OpenKeepsQueues
  <2> QED BY <1>1, <1>2, <2>1, <2>2, <2>3, <2>4, OneChild, ZenonT(60)
<1>4. CASE ~P!CanOpen(P!QueueName(p))
  <2> DEFINE r == [child[p] EXCEPT !.pc = "exited"]
  <2>1. queues' = queues /\ child' = [child EXCEPT ![p] = r]
    BY <1>4 DEF P!OpenToSend, P!MoveTo, P!QueueName
  <2>2. r \in ChildRecord /\ r.pc = "exited" /\ r.i = child[p].i /\ r.at = child[p].at
    BY <1>1 DEF ChildRecord
  <2> HIDE DEF r
  <2>3. SenderRight(p, r)
    BY <1>1, <1>2, <2>2 DEF SenderRight
  <2>4. QueuesTyped'
    BY <1>1, <2>1 DEF QueuesTyped
  <2> QED BY <1>1, <2>1, <2>2, <2>3, <2>4, OneChild, ZenonT(60)
<1> QED BY <1>3, <1>4

LEMMA PreadKeeps ==
    ASSUME ProcessesInv, NEW p \in 0..MaxWorkers-1, P!ReadRecord(p)
    PROVE  ProcessesInv'
<1> DEFINE l == LengthOf(Len(data), workers, p)
           f == FirstOf(Len(data), workers, p)
           v == data[f + child[p].i + 1]
           r == [child[p] EXCEPT !.pc = "send", !.value = v]
<1>1. /\ child[p].pc = "read" /\ child[p].i < P!ToSend(p)
      /\ child[p] \in ChildRecord /\ SenderRight(p, child[p])
      /\ FlowRight(p, child[p].i, received[p], Held(queues, p)) /\ QueuesTyped
      /\ UNCHANGED <<data, interval, workers, remainder, intArr, queues, pmain, i, left, received,
                     overrun, printed>>
  BY DEF P!ReadRecord, P!input, ProcessesInv, ProcessesTyped, SendersRight, MessagesFlow
<1>2. /\ child[p].i < l /\ P!FirstRecord(p) = f /\ f + child[p].i < Len(data)
      /\ f + child[p].i + 1 \in 1..Len(data) /\ child[p].at = child[p].i
  <2>1. /\ P!ToSend(p) = l /\ P!FirstRecord(p) = f /\ l \in 1..Len(data) /\ f \in Nat
        /\ f + l <= Len(data) /\ Len(data) \in Nat /\ child[p].i \in 0..l
        /\ child[p].at = child[p].i
    BY <1>1, ProcessesShare DEF SenderRight
  <2> DEFINE j == child[p].i
  <2> HIDE DEF j, l, f
  <2>2. j \in 0..l /\ j < l
    BY <1>1, <2>1 DEF j
  <2>3. f + j < Len(data) /\ f + j + 1 \in 1..Len(data)
    BY <2>1, <2>2, SMT
  <2> QED BY <2>1, <2>2, <2>3 DEF j
<1>3. v \in 0..Top-1
  BY <1>2, BucketsFit DEF ProcessesInv
<1>4. child' = [child EXCEPT ![p] = r]
  BY <1>2 DEF P!ReadRecord, P!size
<1>5. r \in ChildRecord /\ r.pc = "send" /\ r.i = child[p].i /\ r.at = child[p].at /\ r.value = v
  BY <1>1, <1>3 DEF ChildRecord
<1>6. SenderRight(p, r)
  <2> HIDE DEF r
  <2> QED BY <1>1, <1>2, <1>5 DEF SenderRight
<1> HIDE DEF r
<1>7. QueuesTyped'
  BY <1>1 DEF QueuesTyped
<1> QED BY <1>1, <1>4, <1>5, <1>6, <1>7, OneChild, ZenonT(60)

LEMMA ExitKeeps ==
    ASSUME ProcessesInv, NEW p \in 0..MaxWorkers-1, P!ExitChild(p)
    PROVE  ProcessesInv'
<1> DEFINE r == [child[p] EXCEPT !.pc = "exited"]
<1>1. /\ child[p].pc = "read" /\ child[p] \in ChildRecord /\ SenderRight(p, child[p])
      /\ FlowRight(p, child[p].i, received[p], Held(queues, p)) /\ QueuesTyped
      /\ child' = [child EXCEPT ![p] = r]
      /\ UNCHANGED <<data, interval, workers, remainder, intArr, queues, pmain, i, left, received,
                     overrun, printed>>
  BY DEF P!ExitChild, P!MoveTo, P!input, ProcessesInv, ProcessesTyped, SendersRight, MessagesFlow
<1>2. r \in ChildRecord /\ r.pc = "exited" /\ r.i = child[p].i /\ r.at = child[p].at
  BY <1>1 DEF ChildRecord
<1> HIDE DEF r
<1>3. SenderRight(p, r)
  BY <1>1, <1>2 DEF SenderRight
<1>4. QueuesTyped'
  BY <1>1 DEF QueuesTyped
<1> QED BY <1>1, <1>2, <1>3, <1>4, OneChild, ZenonT(60)

LEMMA SendKeeps ==
    ASSUME ProcessesInv, NEW p \in 0..MaxWorkers-1, P!Send(p)
    PROVE  ProcessesInv'
<1> DEFINE l == LengthOf(Len(data), workers, p)
           f == FirstOf(Len(data), workers, p)
           n == child[p].i
           v == child[p].value
           q == queues[p]
           a == Append(q, v)
           r == [child[p] EXCEPT !.pc = "read", !.i = n + 1, !.at = child[p].at + 1]
<1>1. /\ child[p].pc = "send" /\ p \in DOMAIN queues /\ Len(q) < 1
      /\ queues' = [queues EXCEPT ![p] = a] /\ child' = [child EXCEPT ![p] = r]
      /\ UNCHANGED <<data, interval, workers, remainder, intArr, pmain, i, left, received,
                     overrun, printed>>
  BY DEF P!Send, P!QueueName, P!Opened, P!HasSpace, P!input
<1>2. /\ child[p] \in ChildRecord /\ SenderRight(p, child[p]) /\ QueuesTyped
      /\ FlowRight(p, n, received[p], q) /\ received[p] \in Seq(0..Top-1)
  BY <1>1 DEF ProcessesInv, ProcessesTyped, SendersRight, MessagesFlow, Held
<1>3. /\ l \in 1..Len(data) /\ Len(data) \in Nat /\ n \in 0..l /\ n < l /\ f \in Nat
      /\ child[p].at = n /\ v = data[f + n + 1]
  BY <1>1, <1>2, ProcessesShare DEF SenderRight
<1>4. n + 1 \in 0..Len(data) /\ n + 1 <= l
  <2> HIDE DEF n, l
  <2> QED BY <1>3, SMT
<1>5. v \in 0..Top-1 /\ q \in Seq(0..Top-1) /\ Len(q) \in Nat /\ Len(received[p]) \in Nat
  BY <1>1, <1>2, LenProperties DEF ChildRecord, QueuesTyped
<1>6. r \in ChildRecord /\ r.pc = "read" /\ r.i = n + 1 /\ r.at = n + 1
  BY <1>2, <1>3, <1>4 DEF ChildRecord
<1>7. a \in Seq(0..Top-1) /\ Len(a) = Len(q) + 1 /\ a[Len(q) + 1] = v
  <2> HIDE DEF q, v
  <2> QED BY <1>5, AppendProperties
<1> HIDE DEF r, a
<1>8. SenderRight(p, r)
  BY <1>3, <1>4, <1>6 DEF SenderRight
<1>9. Len(a) = 1 /\ a[1] = data[f + Len(received[p]) + 1] /\ Len(received[p]) + 1 = n + 1
  <2> DEFINE c == Len(received[p])
             z == Len(q)
  <2>1. c + z = n
    BY <1>2 DEF FlowRight
  <2>2. c \in Nat /\ z \in Nat /\ z < 1 /\ n \in Nat
    <3>1. \A j \in 0..l : j \in Nat
      <4> HIDE DEF l
      <4> QED BY <1>3, SMT
    <3> QED BY <1>1, <1>3, <1>5, <3>1
  <2>3. z = 0 /\ c = n /\ z + 1 = 1 /\ c + 1 = n + 1
    <3> HIDE DEF c, z, n
    <3> QED BY <2>1, <2>2, SMT
  <2> QED BY <1>3, <1>7, <2>3
<1>10. FlowRight(p, n + 1, received[p], a)
  <2>1. \A j \in 1..Len(a) : j = 1
    BY <1>9, SMT
  <2>2. \A j \in 1..Len(a) : a[j] = data[f + Len(received[p]) + j]
    <3> SUFFICES ASSUME NEW j \in 1..Len(a) PROVE a[j] = data[f + Len(received[p]) + j]
      OBVIOUS
    <3> QED BY <1>9, <2>1
  <2> QED BY <1>2, <1>9, <2>2 DEF FlowRight
<1>11. /\ DOMAIN queues' = DOMAIN queues /\ queues'[p] = a
       /\ \A u \in DOMAIN queues : u # p => queues'[u] = queues[u]
       /\ queues' \in [DOMAIN queues -> Seq(0..Top-1)]
  BY <1>1, <1>2, <1>7 DEF QueuesTyped
<1>12. QueuesTyped'
  <2>1. \A u \in DOMAIN queues : Len(queues'[u]) <= 1
    <3>1. 1 <= 1
      BY SMT
    <3> QED BY <1>2, <1>9, <1>11, <3>1 DEF QueuesTyped
  <2> QED BY <1>2, <1>11, <2>1 DEF QueuesTyped
<1>13. Held(queues', p) = a /\ \A u : u # p => Held(queues', u) = Held(queues, u)
  BY <1>1, <1>11 DEF Held
<1> HIDE DEF n, q, v, l, f
<1>14. FlowRight(p, r.i, received[p], Held(queues', p))
  BY <1>6, <1>10, <1>13
<1> QED BY <1>1, <1>6, <1>8, <1>11, <1>12, <1>13, <1>14, OneChild, ZenonT(60)

LEMMA ForkKeeps ==
    ASSUME ProcessesInv, P!Fork
    PROVE  ProcessesInv'
<1> DEFINE r == [child[i] EXCEPT !.pc = "open"]
<1>1. /\ pmain = "fork" /\ i < workers /\ child' = [child EXCEPT ![i] = r] /\ i' = i + 1
      /\ UNCHANGED <<data, interval, workers, remainder, intArr, queues, pmain, left, received,
                     overrun, printed>>
  BY DEF P!Fork, P!MoveTo, P!input
<1>2. /\ InputsRight /\ QueuesTyped /\ ProcessesTyped /\ SendersRight /\ MessagesFlow
      /\ ReceiverRight /\ ReceivedCounted /\ child \in [0..MaxWorkers-1 -> ChildRecord]
  BY DEF ProcessesInv, ProcessesTyped
<1>3. i \in 0..MaxWorkers-1 /\ i \in Nat /\ i + 1 \in 0..workers /\ i >= i
  BY <1>1, <1>2, Constants, SMT DEF ProcessesTyped
<1>4. child[i].pc = "none" /\ child[i].i = 0 /\ child[i].at = 0 /\ child[i] \in ChildRecord
  <2>1. child[i].pc = "none"
    BY <1>1, <1>2, <1>3 DEF SendersRight, Forked
  <2> QED BY <1>2, <1>3, <2>1 DEF SendersRight, SenderRight
<1>5. 0 <= LengthOf(Len(data), workers, i)
  <2> DEFINE l == LengthOf(Len(data), workers, i)
  <2>1. l \in 1..Len(data) /\ Len(data) \in Nat
    BY <1>1, <1>2, <1>3, SharesRight
  <2> HIDE DEF l
  <2>2. 0 <= l
    BY <2>1, SMT
  <2> QED BY <2>2 DEF l
<1>6. r \in ChildRecord /\ r.pc = "open" /\ r.i = 0 /\ r.at = 0
  BY <1>4 DEF ChildRecord
<1> HIDE DEF r
<1>7. /\ child'[i] = r /\ \A u \in 0..MaxWorkers-1 : u # i => child'[u] = child[u]
      /\ child' \in [0..MaxWorkers-1 -> ChildRecord]
  BY <1>1, <1>2, <1>3, <1>6
<1>8. InputsRight' /\ ProcessesTyped' /\ QueuesTyped'
  BY <1>1, <1>2, <1>3, <1>7, ZenonT(60)
     DEF InputsRight, ProcessesTyped, QueuesTyped, ChildRecord
<1>9. SendersRight'
  <2>1. \A u \in 0..MaxWorkers-1 : SenderRight(u, child[u])' <=> SenderRight(u, child'[u])
    BY <1>1 DEF SenderRight
  <2>2. SenderRight(i, r)
    BY <1>5, <1>6 DEF SenderRight
  <2>3. \A u \in 0..MaxWorkers-1 : SenderRight(u, child'[u])
    BY <1>2, <1>7, <2>2 DEF SendersRight
  <2>4. Forked = i /\ Forked' = i + 1
    BY <1>1 DEF Forked
  <2>5. \A u \in 0..MaxWorkers-1 : u >= i + 1 <=> u >= i /\ u # i
    BY <1>3, Constants, SMT
  <2>6. \A u \in 0..MaxWorkers-1 : child'[u].pc = "none" <=> u >= Forked'
    BY <1>2, <1>6, <1>7, <2>4, <2>5 DEF SendersRight
  <2> QED BY <2>1, <2>3, <2>6, ZenonT(60) DEF SendersRight
<1>10. MessagesFlow'
  <2>1. \A u \in 0..MaxWorkers-1 : FlowRight(u, child[u].i, received[u], Held(queues, u))' <=>
                                   FlowRight(u, child'[u].i, received[u], Held(queues, u))
    BY <1>1 DEF FlowRight, Held
  <2>2. \A u \in 0..MaxWorkers-1 : child'[u].i = child[u].i
    BY <1>4, <1>6, <1>7
  <2> QED BY <1>2, <2>1, <2>2 DEF MessagesFlow
<1>11. ReceiverRight'
  <2>1. At = 0 /\ At' = 0
    BY <1>1 DEF At
  <2> QED BY <1>1, <1>2, <2>1, ZenonT(60) DEF ReceiverRight
<1>12. ReceivedCounted'
  <2>1. ReceivedDone' = ReceivedDone
    BY <1>1 DEF ReceivedDone
  <2> QED BY <1>1, <1>2, <2>1 DEF ReceivedCounted
<1> QED BY <1>8, <1>9, <1>10, <1>11, <1>12 DEF ProcessesInv

\* Steps of main that change neither a child nor the array, and no queue's content.
LEMMA ReceiverMoves ==
    ASSUME ProcessesInv, P!AllForked \/ P!OpenToReceive \/ P!PrintFD
    PROVE  ProcessesInv'
<1>1. UNCHANGED <<data, interval, workers, remainder, intArr, child, received, overrun>>
  BY DEF P!AllForked, P!OpenToReceive, P!PrintFD, P!input
<1>2. /\ InputsRight /\ QueuesTyped /\ ProcessesTyped /\ SendersRight /\ MessagesFlow
      /\ ReceiverRight /\ ReceivedCounted
  BY DEF ProcessesInv
<1>3. /\ i \in 0..workers /\ i \in Nat /\ workers \in Nat /\ 0 \in 0..workers
      /\ \A p \in 0..MaxWorkers-1 : ~(p < 0) /\ p >= 0
      /\ i < workers => i \in 0..MaxWorkers-1
      /\ \A p \in 0..MaxWorkers-1 : ~(p < i /\ p >= i)
  BY <1>2, Constants, SMT DEF ProcessesTyped
<1>4. InputsRight'
  BY <1>1, <1>2, ZenonT(60) DEF InputsRight
<1>5. ReceivedCounted'
  <2>1. ReceivedDone' = ReceivedDone
    BY <1>1 DEF ReceivedDone
  <2> QED BY <1>1, <1>2, <2>1 DEF ReceivedCounted
<1>6. /\ QueuesTyped' /\ \A u : Held(queues', u) = Held(queues, u)
      /\ pmain' \in {"open", "receive", "done", "failed"} /\ i' \in 0..workers
      /\ Forked = workers /\ ReceiverRight'
  <2>1. CASE P!AllForked
    <3>1. pmain = "fork" /\ pmain' = "open" /\ i' = 0 /\ i = workers /\ queues' = queues
      BY <2>1 DEF P!AllForked
    <3>2. At = 0 /\ At' = 0 /\ Forked = workers
      BY <3>1 DEF At, Forked
    <3> QED BY <1>1, <1>2, <1>3, <3>1, <3>2, ZenonT(60) DEF ReceiverRight, QueuesTyped
  <2>2. CASE P!OpenToReceive
    <3>1. /\ pmain = "open" /\ i < workers /\ left' = P!ToReceive(i) /\ i' = i
          /\ \/ queues' = P!Open(i) /\ pmain' = "receive"
             \/ queues' = queues /\ pmain' = "failed"
          /\ Forked = workers /\ At = i /\ At' = i
      BY <2>2 DEF P!OpenToReceive, P!QueueName, Forked, At
    <3>2. /\ left' = LengthOf(Len(data), workers, i) /\ left' \in 1..Len(data)
          /\ Len(data) \in Nat /\ received[i] = <<>> /\ i >= i
      <4>1. i >= i
        BY <1>3, SMT
      <4> QED BY <1>2, <1>3, <3>1, <4>1, SharesRight DEF ReceiverRight
    <3>3. left' = LengthOf(Len(data), workers, i) - Len(received[i]) /\ left' >= 1
      <4>1. Len(received[i]) = 0
        BY <3>2
      <4> DEFINE l == LengthOf(Len(data), workers, i)
      <4>2. l - 0 = l /\ l >= 1
        <5>1. l \in 1..Len(data)
          BY <3>2
        <5> HIDE DEF l
        <5> QED BY <3>2, <5>1, SMT
      <4> QED BY <3>2, <4>1, <4>2
    <3>4. CASE queues' = P!Open(i) /\ pmain' = "receive"
      <4>1. /\ QueuesTyped' /\ DOMAIN queues' = DOMAIN queues \cup {i}
            /\ \A u : Held(queues', u) = Held(queues, u)
        BY <1>2, <1>3, <3>1, <3>4, OpenKeepsQueues
      <4>2. \A p \in 0..MaxWorkers-1 : p < i => p \notin DOMAIN queues'
        <5>1. \A p \in 0..MaxWorkers-1 : p < i => p # i
          BY <1>3, SMT
        <5> QED BY <1>2, <3>1, <4>1, <5>1 DEF ReceiverRight
      <4>3. ReceiverRight'
        BY <1>1, <1>2, <3>1, <3>3, <3>4, <4>1, <4>2, ZenonT(60) DEF ReceiverRight
      <4> QED BY <1>3, <3>1, <3>4, <4>1, <4>3
    <3>5. CASE queues' = queues /\ pmain' = "failed"
      BY <1>1, <1>2, <1>3, <3>1, <3>5, ZenonT(60) DEF ReceiverRight, QueuesTyped
    <3> QED BY <3>1, <3>4, <3>5
  <2>3. CASE P!PrintFD
    <3>1. /\ pmain = "open" /\ i = workers /\ pmain' = "done" /\ i' = i /\ queues' = queues
          /\ printed' = intArr /\ Forked = workers /\ At = i /\ At' = i
      BY <2>3 DEF P!PrintFD, Forked, At
    <3> QED BY <1>1, <1>2, <1>3, <3>1, ZenonT(60) DEF ReceiverRight, QueuesTyped
  <2> QED BY <2>1, <2>2, <2>3
<1>7. ProcessesTyped'
  BY <1>1, <1>2, <1>6, ZenonT(60) DEF ProcessesTyped, ChildRecord
<1>8. SendersRight'
  <2>1. Forked' = workers
    BY <1>1, <1>6 DEF Forked
  <2>2. \A p \in 0..MaxWorkers-1 : SenderRight(p, child[p])' <=> SenderRight(p, child[p])
    BY <1>1 DEF SenderRight
  <2> QED BY <1>1, <1>2, <1>6, <2>1, <2>2, ZenonT(60) DEF SendersRight
<1>9. MessagesFlow'
  <2>1. \A u \in 0..MaxWorkers-1 : FlowRight(u, child[u].i, received[u], Held(queues, u))' <=>
                                   FlowRight(u, child[u].i, received[u], Held(queues', u))
    BY <1>1 DEF FlowRight, Held
  <2> QED BY <1>2, <1>6, <2>1 DEF MessagesFlow
<1> QED BY <1>4, <1>5, <1>6, <1>7, <1>8, <1>9 DEF ProcessesInv

\* A message main receives is the next record of the share, and is counted once.
LEMMA ReceiveKeeps ==
    ASSUME ProcessesInv, P!Receive
    PROVE  ProcessesInv'
<1> DEFINE l == LengthOf(Len(data), workers, i)
           f == FirstOf(Len(data), workers, i)
           h == queues[i]
           v == Head(h)
           b == v \div interval
           rec == received[i]
           n == Len(rec)
           a == Append(rec, v)
<1>1. /\ pmain = "receive" /\ h # <<>>
      /\ UNCHANGED <<data, interval, workers, remainder, child, printed>>
      /\ left' = left - 1 /\ received' = [received EXCEPT ![i] = a]
  BY DEF P!Receive, P!QueueName, P!input
<1>2. /\ InputsRight /\ QueuesTyped /\ ProcessesTyped /\ SendersRight /\ MessagesFlow
      /\ ReceiverRight /\ ReceivedCounted
  BY DEF ProcessesInv
<1>3. /\ i < workers /\ i \in DOMAIN queues /\ left = l - n /\ left >= 1
  BY <1>1, <1>2 DEF ReceiverRight
<1>4. /\ i \in 0..MaxWorkers-1 /\ i \in Nat /\ workers \in Nat /\ i \in 0..workers
      /\ i + 1 \in 0..workers
      /\ \A p \in 0..MaxWorkers-1 : p >= i + 1 => p >= i /\ p # i
      /\ \A p \in 0..MaxWorkers-1 : p < i + 1 <=> p < i \/ p = i
      /\ \A p \in 0..MaxWorkers-1 : p < i => p # i
  BY <1>2, <1>3, Constants, SMT DEF ProcessesTyped
<1>5. /\ l \in 1..Len(data) /\ f \in Nat /\ f + l <= Len(data) /\ Len(data) \in Nat
  BY <1>2, <1>3, <1>4, SharesRight
<1>6. /\ rec \in Seq(0..Top-1) /\ n \in Nat /\ h \in Seq(0..Top-1) /\ Held(queues, i) = h
      /\ FlowRight(i, child[i].i, rec, h) /\ child[i] \in ChildRecord
      /\ child[i].pc # "none" /\ child[i].i <= l
  <2>1. Forked = workers /\ ~(i >= workers)
    BY <1>1, <1>3, <1>4, SMT DEF Forked
  <2>2. child[i].pc # "none"
    BY <1>2, <1>4, <2>1 DEF SendersRight
  <2> QED BY <1>2, <1>3, <1>4, <2>2, LenProperties
          DEF ProcessesTyped, QueuesTyped, MessagesFlow, Held, SendersRight, SenderRight
<1>7. Len(h) = 1 /\ v = h[1] /\ 1 \in 1..Len(h) /\ Tail(h) = <<>>
  <2>1. Len(h) \in 0..1 /\ Len(h) # 0
    BY <1>1, <1>2, <1>6, HeldTyped, EmptySeq
  <2>2. \A k \in 0..1 : k # 0 => k = 1 /\ k - 1 = 0 /\ 1 \in 1..k
    BY SMT
  <2>3. Len(h) = 1 /\ Len(h) - 1 = 0 /\ 1 \in 1..Len(h)
    BY <2>1, <2>2
  <2>4. Tail(h) \in Seq(0..Top-1) /\ Len(Tail(h)) = 0
    <3> HIDE DEF h
    <3> QED BY <1>1, <1>6, <2>3, HeadTailProperties
  <2>5. Tail(h) = <<>>
    BY <2>4, EmptySeq
  <2> QED BY <2>3, <2>5
<1>8. v = data[f + n + 1] /\ child[i].i = n + 1 /\ v \in 0..Top-1
  <2>1. /\ \A j \in 1..Len(h) : h[j] = data[f + n + j]
        /\ n + Len(h) = child[i].i
    BY <1>6 DEF FlowRight
  <2>2. v \in 0..Top-1
    BY <1>6, <1>7, ElementOfSeq
  <2> QED BY <1>7, <2>1, <2>2
<1>9. n + 1 <= l /\ n + 1 \in Nat /\ f + n + 1 \in 1..Len(data) /\ n <= 2 * Len(data)
  <2> HIDE DEF n, l, f
  <2>1. n + 1 <= l
    BY <1>6, <1>8
  <2> QED BY <1>5, <1>6, <2>1, SMT
<1>10. b \in 0..(Top \div interval)-1
  BY <1>2, <1>8, BucketsFit
<1>11. /\ a \in Seq(0..Top-1) /\ Len(a) = n + 1 /\ a[n + 1] = v
       /\ \A j \in 1..n : a[j] = rec[j]
  <2> HIDE DEF rec, v
  <2> QED BY <1>6, <1>8, AppendProperties
<1>12. /\ intArr \in [0..(Top \div interval)-1 -> Int]
       /\ intArr' = [intArr EXCEPT ![b] = intArr[b] + 1] /\ overrun' = FALSE
  <2>1. intArr \in [0..(Top \div interval)-1 -> Int] /\ overrun = FALSE
    BY <1>2 DEF ProcessesTyped
  <2>2. DOMAIN intArr = 0..(Top \div interval)-1
    BY <2>1
  <2>3. P!Bucket(v) = b /\ P!Bucket(v) \in DOMAIN intArr
    BY <1>10, <2>2 DEF P!Bucket
  <2>4. intArr' = P!Counts(v) /\ overrun' = (overrun \/ P!Bucket(v) \notin DOMAIN intArr)
    BY DEF P!Receive, P!QueueName
  <2> HIDE DEF b, v
  <2>5. P!Counts(v) = [intArr EXCEPT ![b] = intArr[b] + 1]
    BY <2>3 DEF P!Counts
  <2> QED BY <2>1, <2>3, <2>4, <2>5
<1>13. /\ (IF left - 1 = 0 THEN pmain' = "open" /\ i' = i + 1 ELSE pmain' = "receive" /\ i' = i)
       /\ queues' = IF left - 1 = 0 THEN [m \in DOMAIN queues \ {i} |-> queues[m]]
                                    ELSE [queues EXCEPT ![i] = Tail(h)]
  BY <1>1 DEF P!Receive, P!QueueName, P!Unlink, P!Opened
<1> HIDE DEF a, v, b, h, rec, n, l, f
<1>14. /\ received'[i] = a /\ \A p \in 0..MaxWorkers-1 : p # i => received'[p] = received[p]
       /\ received' \in [0..MaxWorkers-1 -> Seq(0..Top-1)]
  BY <1>1, <1>2, <1>4, <1>11 DEF ProcessesTyped
<1>15. /\ intArr' \in [0..(Top \div interval)-1 -> Int] /\ intArr'[b] = intArr[b] + 1
       /\ \A c \in 0..(Top \div interval)-1 : c # b => intArr'[c] = intArr[c]
  <2>1. intArr[b] + 1 \in Int
    BY <1>10, <1>12
  <2> QED BY <1>10, <1>12, <2>1
<1>16. /\ QueuesTyped' /\ Held(queues', i) = <<>>
       /\ \A u : u # i => Held(queues', u) = Held(queues, u)
       /\ \A u : u # i => (u \in DOMAIN queues' <=> u \in DOMAIN queues)
       /\ i \in DOMAIN queues' <=> left - 1 # 0
  <2>1. queues \in [DOMAIN queues -> Seq(0..Top-1)]
    BY <1>2 DEF QueuesTyped
  <2>2. CASE left - 1 = 0
    <3>1. queues' = [m \in DOMAIN queues \ {i} |-> queues[m]]
      BY <1>13, <2>2
    <3>2. /\ DOMAIN queues' = DOMAIN queues \ {i}
          /\ \A m \in DOMAIN queues' : queues'[m] = queues[m]
          /\ queues' \in [DOMAIN queues' -> Seq(0..Top-1)]
      BY <2>1, <3>1
    <3> QED BY <1>2, <2>2, <3>2 DEF QueuesTyped, Held
  <2>3. CASE left - 1 # 0
    <3>1. queues' = [queues EXCEPT ![i] = <<>>]
      BY <1>7, <1>13, <2>3
    <3>2. <<>> \in Seq(0..Top-1) /\ Len(<<>>) <= 1
      <4>1. Len(<<>>) = 0 /\ 0 <= 1
        BY SMT
      <4> QED BY <4>1, EmptySeq
    <3>3. /\ DOMAIN queues' = DOMAIN queues /\ queues'[i] = <<>>
          /\ \A m \in DOMAIN queues : m # i => queues'[m] = queues[m]
          /\ queues' \in [DOMAIN queues' -> Seq(0..Top-1)]
      BY <1>3, <2>1, <3>1, <3>2
    <3>4. \A m \in DOMAIN queues' : Len(queues'[m]) <= 1
      BY <1>2, <3>2, <3>3 DEF QueuesTyped
    <3> QED BY <1>2, <1>3, <2>3, <3>3, <3>4 DEF QueuesTyped, Held
  <2> QED BY <2>2, <2>3
<1>17. InputsRight' /\ ProcessesTyped'
  <2>1. pmain' \in {"open", "receive"} /\ i' \in 0..workers
    BY <1>4, <1>13
  <2> QED BY <1>1, <1>2, <1>12, <1>14, <1>15, <2>1, ZenonT(60)
          DEF InputsRight, ProcessesTyped, ChildRecord
<1>18. SendersRight'
  <2>1. Forked = workers /\ Forked' = workers
    BY <1>1, <1>13 DEF Forked
  <2>2. \A p \in 0..MaxWorkers-1 : SenderRight(p, child[p])' <=> SenderRight(p, child[p])
    BY <1>1 DEF SenderRight
  <2> QED BY <1>1, <1>2, <2>1, <2>2, ZenonT(60) DEF SendersRight
<1>19. MessagesFlow'
  <2>1. \A u \in 0..MaxWorkers-1 : FlowRight(u, child[u].i, received[u], Held(queues, u))' <=>
                                   FlowRight(u, child[u].i, received'[u], Held(queues', u))
    BY <1>1 DEF FlowRight, Held
  <2>2. FlowRight(i, child[i].i, a, <<>>)
    <3>1. Len(<<>>) = 0 /\ \A j : j \notin 1..0
      BY SMT
    <3>2. \A j \in 1..n : rec[j] = data[f + j]
      BY <1>6 DEF FlowRight, f, n
    <3>3. \A j \in 1..n+1 : j \in 1..n \/ j = n + 1
      BY <1>6, SMT
    <3>4. f + (n + 1) = f + n + 1 /\ (n + 1) + 0 = n + 1
      BY <1>5, <1>6, SMT
    <3>5. \A j \in 1..n+1 : a[j] = data[f + j]
      BY <1>8, <1>11, <3>2, <3>3, <3>4
    <3> QED BY <1>8, <1>11, <3>1, <3>4, <3>5 DEF FlowRight, f
  <2>3. \A u \in 0..MaxWorkers-1 : FlowRight(u, child[u].i, received'[u], Held(queues', u))
    BY <1>2, <1>14, <1>16, <2>2 DEF MessagesFlow
  <2> QED BY <2>1, <2>3 DEF MessagesFlow
<1>20. ReceiverRight'
  <2>1. At = i /\ At' = i'
    BY <1>1, <1>13 DEF At
  <2>2. l - n - 1 = l - (n + 1) /\ (left - 1 = 0 => n + 1 = l) /\ (left - 1 # 0 => left - 1 >= 1)
        /\ left - 1 = l - (n + 1)
    BY <1>3, <1>5, <1>6, SMT
  <2>3. CASE left - 1 = 0
    <3>1. pmain' = "open" /\ i' = i + 1 /\ At' = i + 1 /\ i \notin DOMAIN queues'
      BY <1>13, <1>16, <2>1, <2>3
    <3>2. \A p \in 0..MaxWorkers-1 : p < i + 1 =>
            Len(received'[p]) = LengthOf(Len(data), workers, p) /\ p \notin DOMAIN queues'
      BY <1>2, <1>4, <1>11, <1>14, <1>16, <2>1, <2>2, <2>3, <3>1 DEF ReceiverRight, l
    <3>3. \A p \in 0..MaxWorkers-1 : p >= i + 1 => received'[p] = <<>>
      BY <1>2, <1>4, <1>14, <2>1 DEF ReceiverRight
    <3> QED BY <1>1, <3>1, <3>2, <3>3, ZenonT(60) DEF ReceiverRight
  <2>4. CASE left - 1 # 0
    <3>1. pmain' = "receive" /\ i' = i /\ At' = i /\ i \in DOMAIN queues'
      BY <1>13, <1>16, <2>1, <2>4
    <3>2. \A p \in 0..MaxWorkers-1 : p < i =>
            Len(received'[p]) = LengthOf(Len(data), workers, p) /\ p \notin DOMAIN queues'
      BY <1>2, <1>4, <1>14, <1>16, <2>1 DEF ReceiverRight
    <3>3. \A p \in 0..MaxWorkers-1 : p >= i => received'[p] = <<>> \/ p = i
      BY <1>2, <1>14, <2>1 DEF ReceiverRight
    <3>4. left' = LengthOf(Len(data), workers, i) - Len(received'[i]) /\ left' >= 1
      BY <1>1, <1>11, <1>14, <2>2, <2>4 DEF l
    <3> QED BY <1>1, <1>3, <3>1, <3>2, <3>3, <3>4, ZenonT(60) DEF ReceiverRight
  <2> QED BY <2>3, <2>4
<1>21. ReceivedCounted'
  <2> DEFINE old == ReceivedDone
             new == ReceivedDone'
             q == interval
             w == workers
             z == data
  <2>1. OneMore(z, i, old, new) /\ z \in Seq(Nat) /\ old[i] = n
    <3>1. \A p \in 0..MaxWorkers-1 : Len(received[p]) \in Nat /\ Len(received'[p]) \in Nat
      BY <1>2, <1>14, LenProperties DEF ProcessesTyped
    <3>2. old[i] = n /\ new[i] = n + 1
      BY <1>4, <1>11, <1>14 DEF ReceivedDone, n, rec
    <3> QED BY <1>2, <1>4, <1>9, <1>14, <3>1, <3>2, BucketsFit DEF OneMore, ReceivedDone
  <2> SUFFICES ASSUME NEW c \in 0..(Top \div interval)-1
               PROVE  intArr'[c] = Cardinality(Tally(data, interval, workers, ReceivedDone', c))
    BY <1>1 DEF ReceivedCounted
  <2>2. intArr[c] = Cardinality(Tally(data, interval, workers, ReceivedDone, c))
    BY <1>2 DEF ReceivedCounted
  <2>3. TallyMoves(Cardinality(Tally(data, interval, workers, ReceivedDone, c)),
                   Cardinality(Tally(data, interval, workers, ReceivedDone', c)), b = c)
    <3> HIDE DEF old, new, q, w, z
    <3>1. TallyMoves(Cardinality(Tally(z, q, w, old, c)), Cardinality(Tally(z, q, w, new, c)),
                     z[FirstOf(Len(z), w, i) + old[i] + 1] \div q = c)
      BY <1>4, <2>1, TallyNext
    <3>2. z[FirstOf(Len(z), w, i) + old[i] + 1] \div q = b
      BY <1>8, <2>1 DEF z, w, q, f, b
    <3> QED BY <3>1, <3>2 DEF old, new, q, w, z
  <2> QED BY <1>15, <2>2, <2>3 DEF TallyMoves
<1> QED BY <1>16, <1>17, <1>18, <1>19, <1>20, <1>21 DEF ProcessesInv

LEMMA ProcessesStart ==
    ASSUME Regular, P!Init
    PROVE  ProcessesInv
<1>1. PICK s \in Settings :
        /\ data = s.data /\ interval = s.interval
        /\ remainder = Len(s.data) % s.n
        /\ workers = IF s.n > Len(s.data) THEN Len(s.data) ELSE s.n
        /\ intArr \in [0..(Top \div s.interval)-1 -> Garbage \cup {0}]
  <2>1. PICK z \in {[nump |-> s.n, interval |-> s.interval, data |-> s.data] : s \in Settings} :
          /\ data = z.data /\ interval = z.interval
          /\ remainder = Len(z.data) % z.nump
          /\ workers = IF z.nump > Len(z.data) THEN Len(z.data) ELSE z.nump
          /\ intArr \in [P!Cells(z.interval) -> Garbage \cup {0}]
    BY DEF P!Init, P!Remainder, P!Clamp
  <2>2. PICK s \in Settings : z = [nump |-> s.n, interval |-> s.interval, data |-> s.data]
    OBVIOUS
  <2>3. z.nump = s.n /\ z.interval = s.interval /\ z.data = s.data
    BY <2>2
  <2> QED BY <2>1, <2>3, Constants
<1>2. InputsRight
  BY <1>1, InputsStartRight
<1>3. /\ intArr \in [0..(Top \div interval)-1 -> Int]
      /\ \A b \in 0..(Top \div interval)-1 : intArr[b] = 0
  BY <1>1, ArrayStarts
<1>4. /\ pmain = "fork" /\ i = 0 /\ overrun = FALSE
      /\ received = [p \in 0..MaxWorkers-1 |-> <<>>]
      /\ child = [p \in 0..MaxWorkers-1 |-> [pc |-> "none", i |-> 0, at |-> 0, value |-> 0]]
      /\ \/ queues = [n \in {} |-> <<>>]
         \/ \E q \in Leftovers : queues = [n \in {0} |-> q]
  BY Constants DEF P!Init, P!QueueName
<1>5. Len(data) \in Nat
  BY <1>2, BucketsFit
<1>6. workers \in 0..MaxWorkers /\ 0 \in 0..workers /\ 0 \in 0..Len(data)
      /\ \A p \in 0..MaxWorkers-1 : p >= 0 /\ ~(p < 0)
  BY <1>2, <1>5, Constants, SMT DEF InputsRight
<1>7. \A p \in 0..MaxWorkers-1 : /\ child[p].pc = "none" /\ child[p].i = 0 /\ child[p].at = 0
                                 /\ child[p] \in ChildRecord /\ received[p] = <<>>
  BY <1>4, <1>6, Constants DEF ChildRecord
<1>8. <<>> \in Seq(0..Top-1) /\ Len(<<>>) = 0 /\ 0 <= 1
  BY EmptySeq, SMT
<1>9. QueuesTyped /\ \A p : Held(queues, p) = <<>>
  <2>1. CASE queues = [n \in {} |-> <<>>]
    <3>1. DOMAIN queues = {}
      BY <2>1
    <3>2. queues \in [DOMAIN queues -> Seq(0..Top-1)]
      BY <2>1
    <3> QED BY <3>1, <3>2 DEF QueuesTyped, Held
  <2>2. CASE \E q \in Leftovers : queues = [n \in {0} |-> q]
    <3>1. queues = [n \in {0} |-> <<>>]
      BY <2>2 DEF Regular, FreshStart
    <3>2. DOMAIN queues = {0} /\ queues[0] = <<>>
      BY <3>1
    <3>3. 0 \in 0..MaxWorkers-1
      <4>1. s.n \in 1..MaxWorkers
        BY SettingsTyped
      <4> QED BY <4>1, Constants, SMT
    <3>4. queues \in [DOMAIN queues -> Seq(0..Top-1)]
      BY <1>8, <3>1
    <3> QED BY <1>8, <3>2, <3>3, <3>4 DEF QueuesTyped, Held
  <2> QED BY <1>4, <2>1, <2>2
<1>10. ProcessesTyped
  BY <1>3, <1>4, <1>6, <1>7, <1>8 DEF ProcessesTyped
<1>11. SendersRight
  BY <1>4, <1>6, <1>7 DEF SendersRight, SenderRight, Forked
<1>12. MessagesFlow
  <2>1. \A j : j \notin 1..0
    BY SMT
  <2>2. 0 + 0 = 0
    BY SMT
  <2>3. \A p : FlowRight(p, 0, <<>>, <<>>)
    BY <1>8, <2>1, <2>2 DEF FlowRight
  <2> QED BY <1>7, <1>9, <2>3 DEF MessagesFlow
<1>13. ReceiverRight
  BY <1>4, <1>6, <1>7 DEF ReceiverRight, At
<1>14. ReceivedCounted
  <2>1. \A p \in 0..MaxWorkers-1 : ReceivedDone[p] = 0
    BY <1>7, <1>8 DEF ReceivedDone
  <2> QED BY <1>3, <2>1, TallyNone DEF ReceivedCounted
<1> QED BY <1>2, <1>9, <1>10, <1>11, <1>12, <1>13, <1>14 DEF ProcessesInv

LEMMA ProcessesStutter ==
    ASSUME ProcessesInv, UNCHANGED <<data, interval, workers, remainder, intArr, queues, child,
                                     pmain, i, left, received, overrun, printed>>
    PROVE  ProcessesInv'
<1>1. Forked' = Forked /\ At' = At /\ ReceivedDone' = ReceivedDone
  BY DEF Forked, At, ReceivedDone
<1>2. /\ \A p \in 0..MaxWorkers-1 : SenderRight(p, child[p])' <=> SenderRight(p, child[p])
      /\ \A u \in 0..MaxWorkers-1 : FlowRight(u, child[u].i, received[u], Held(queues, u))' <=>
                                    FlowRight(u, child[u].i, received[u], Held(queues, u))
  BY DEF SenderRight, FlowRight, Held
<1>3. InputsRight' /\ QueuesTyped' /\ ProcessesTyped'
  BY ZenonT(60) DEF ProcessesInv, InputsRight, QueuesTyped, ProcessesTyped, ChildRecord
<1>4. SendersRight' /\ MessagesFlow' /\ ReceivedCounted'
  BY <1>1, <1>2, ZenonT(60) DEF ProcessesInv, SendersRight, MessagesFlow, ReceivedCounted
<1>5. ReceiverRight'
  BY <1>1, ZenonT(60) DEF ProcessesInv, ReceiverRight
<1> QED BY <1>3, <1>4, <1>5 DEF ProcessesInv

LEMMA ProcessesKeep ==
    ASSUME ProcessesInv, P!Next
    PROVE  ProcessesInv'
<1>1. CASE P!MainStep
  BY <1>1, ForkKeeps, ReceiverMoves, ReceiveKeeps DEF P!MainStep
<1>2. ASSUME NEW p \in P!Procs, P!ChildStep(p) PROVE ProcessesInv'
  BY <1>2, Constants, OpenToSendKeeps, PreadKeeps, SendKeeps, ExitKeeps DEF P!ChildStep
<1>3. CASE P!Finished
  BY <1>3, ProcessesStutter DEF P!Finished, P!vars
<1> QED BY <1>1, <1>2, <1>3 DEF P!Next

(***************************************************************************)
(* What the invariant says of the properties of ku_pfred.c                 *)
(***************************************************************************)
LEMMA ProcessesTypeOK ==
    ASSUME ProcessesInv
    PROVE  P!TypeOK
<1>1. /\ intArr \in [P!Cells(interval) -> Int] /\ i \in 0..workers
      /\ pmain \in {"fork", "open", "receive", "done", "failed"}
  BY Constants DEF ProcessesInv, ProcessesTyped
<1>2. \A p \in P!Procs : child[p].pc \in {"none", "open", "read", "send", "exited"}
  BY Constants DEF ProcessesInv, ProcessesTyped, ChildRecord
<1>3. \A n \in DOMAIN queues : n \in P!Procs /\ queues[n] \in Seq(0..Top-1) /\ Len(queues[n]) <= 1
  BY Constants DEF ProcessesInv, QueuesTyped
<1> QED BY <1>1, <1>2, <1>3 DEF P!TypeOK, P!Opened

LEMMA ProcessesInOrder ==
    ASSUME ProcessesInv
    PROVE  P!ShareInOrder
<1> SUFFICES ASSUME NEW p \in 0..workers-1
             PROVE  received[p] \o Held(queues, p) =
                      SubSeq(data, P!FirstRecord(p) + 1, P!FirstRecord(p) + child[p].i)
  BY DEF P!ShareInOrder, P!QueueName, P!Opened, Held
<1> DEFINE f == FirstOf(Len(data), workers, p)
           l == LengthOf(Len(data), workers, p)
           n == child[p].i
           rec == received[p]
           h == Held(queues, p)
           s == SubSeq(data, f + 1, f + n)
           c == rec \o h
<1>1. p \in 0..MaxWorkers-1 /\ p < workers
  BY Constants, SMT DEF ProcessesInv, ProcessesTyped
<1>2. /\ P!FirstRecord(p) = f /\ l \in 1..Len(data) /\ f \in Nat /\ f + l <= Len(data)
      /\ Len(data) \in Nat
  BY <1>1, SharesRight DEF ProcessesInv
<1>3. rec \in Seq(0..Top-1) /\ h \in Seq(0..Top-1) /\ FlowRight(p, n, rec, h)
  BY <1>1, HeldTyped DEF ProcessesInv, ProcessesTyped, MessagesFlow
<1>4. Len(rec) \in Nat /\ Len(h) \in Nat /\ Len(rec) + Len(h) = n
  BY <1>3, LenProperties DEF FlowRight
<1>5. n <= l
  <2>1. child[p].pc = "none" => n = 0
    BY <1>1 DEF ProcessesInv, SendersRight, SenderRight
  <2>2. child[p].pc # "none" => n <= l
    BY <1>1 DEF ProcessesInv, SendersRight, SenderRight
  <2>3. 0 <= l
    <3> HIDE DEF l
    <3> QED BY <1>2, SMT
  <2> QED BY <2>1, <2>2, <2>3
<1>6. \A k \in 1..Len(data) : data[k] \in 0..Top-1
  BY BucketsFit DEF ProcessesInv
<1>7. s \in Seq(0..Top-1) /\ Len(s) = n /\ \A j \in 1..n : s[j] = data[f + j]
  <2> HIDE DEF f, l, n
  <2>1. n \in Nat /\ f + 1 \in Int /\ f + n \in Int
    BY <1>2, <1>4, SMT
  <2>2. \A j \in f+1..f+n : j \in 1..Len(data)
    BY <1>2, <1>5, <2>1, SMT
  <2>3. /\ s \in Seq(0..Top-1) /\ Len(s) = IF f + 1 <= f + n THEN (f + n) - (f + 1) + 1 ELSE 0
        /\ \A j \in 1..(f + n)-(f + 1)+1 : s[j] = data[f + 1 + j - 1]
    <3>1. \A j \in f+1..f+n : data[j] \in 0..Top-1
      BY <1>6, <2>2
    <3> QED BY <2>1, <3>1, SubSeqProperties
  <2>4. /\ (IF f + 1 <= f + n THEN (f + n) - (f + 1) + 1 ELSE 0) = n
        /\ (f + n) - (f + 1) + 1 = n
        /\ \A j \in 1..n : f + 1 + j - 1 = f + j
    BY <1>2, <2>1, SMT
  <2> HIDE DEF s
  <2> QED BY <2>3, <2>4
<1> HIDE DEF s
<1>8. c \in Seq(0..Top-1) /\ Len(c) = n /\ \A j \in 1..n : c[j] = data[f + j]
  <2>1. /\ c \in Seq(0..Top-1) /\ Len(c) = Len(rec) + Len(h)
        /\ \A j \in 1..Len(rec)+Len(h) :
             c[j] = IF j <= Len(rec) THEN rec[j] ELSE h[j - Len(rec)]
    <3> HIDE DEF rec, h
    <3> QED BY <1>3, ConcatProperties
  <2>2. /\ \A j \in 1..Len(rec) : rec[j] = data[f + j]
        /\ \A j \in 1..Len(h) : h[j] = data[f + Len(rec) + j]
    BY <1>3 DEF FlowRight
  <2> DEFINE m == Len(rec)
             o == Len(h)
  <2> HIDE DEF c, n, f
  <2>3. ASSUME NEW j \in 1..n PROVE c[j] = data[f + j]
    <3> HIDE DEF rec, h, m, o
    <3>1. m \in Nat /\ o \in Nat /\ m + o = n
      BY <1>4 DEF m, o
    <3>2. CASE j <= m
      <4>1. j \in 1..m
        BY <3>1, <3>2, SMT
      <4> QED BY <1>4, <2>1, <2>2, <3>2, <4>1 DEF m
    <3>3. CASE ~(j <= m)
      <4>1. j - m \in 1..o /\ f + m + (j - m) = f + j
        BY <1>2, <3>1, <3>3, SMT
      <4>2. c[j] = h[j - m]
        BY <1>4, <2>1, <3>3 DEF m
      <4>3. h[j - m] = data[f + m + (j - m)]
        BY <2>2, <4>1 DEF m, o
      <4> QED BY <4>1, <4>2, <4>3
    <3> QED BY <3>2, <3>3
  <2> QED BY <1>4, <2>1, <2>3
<1> HIDE DEF c
<1>9. c = s
  BY <1>7, <1>8, SeqEqual
<1> QED BY <1>2, <1>9 DEF c, s

LEMMA ProcessesLeaveNothing ==
    ASSUME ProcessesInv
    PROVE  P!NoQueueLeft
<1> SUFFICES ASSUME pmain = "done", NEW p \in 0..workers-1 PROVE p \notin DOMAIN queues
  BY DEF P!NoQueueLeft, P!QueueName, P!Opened
<1>1. p \in 0..MaxWorkers-1 /\ p < workers
  BY Constants, SMT DEF ProcessesInv, ProcessesTyped
<1>2. At = workers
  BY DEF At, ProcessesInv, ReceiverRight
<1> QED BY <1>1, <1>2 DEF ProcessesInv, ReceiverRight

LEMMA ProcessesCountAll ==
    ASSUME ProcessesInv
    PROVE  P!FDCorrect
<1> SUFFICES ASSUME pmain = "done", NEW b \in 0..(Top \div interval)-1
             PROVE  printed[b] = Cardinality({p \in 1..Len(data) : data[p] \div interval = b})
  BY Constants DEF P!FDCorrect, P!size
<1>1. printed[b] = Cardinality(Tally(data, interval, workers, ReceivedDone, b)) /\ At = workers
  BY DEF ProcessesInv, ReceiverRight, ReceivedCounted, At
<1>2. data \in Seq(Nat) /\ Len(data) \in Nat /\ InputsRight /\ workers \in Nat
  BY BucketsFit, Constants, SMT DEF ProcessesInv, ProcessesTyped
<1>3. \A p \in 0..MaxWorkers-1 :
        ReceivedDone[p] = IF p < workers THEN LengthOf(Len(data), workers, p) ELSE 0
  <2>1. Len(<<>>) = 0 /\ \A p \in 0..MaxWorkers-1 : ~(p < workers) => p >= workers
    BY <1>2, Constants, SMT
  <2> QED BY <1>1, <2>1 DEF ProcessesInv, ReceiverRight, ReceivedDone
<1>4. CASE workers = 0
  <2>1. \A p \in 0..MaxWorkers-1 : ReceivedDone[p] = 0
    <3>1. \A p \in 0..MaxWorkers-1 : ~(p < workers)
      BY <1>4, Constants, SMT
    <3> QED BY <1>3, <3>1
  <2>2. 1..Len(data) = {}
    <3>1. data = <<>>
      BY <1>2, <1>4, Constants, SMT DEF InputsRight
    <3>2. Len(data) = 0
      BY <3>1
    <3> QED BY <3>2, SMT
  <2> QED BY <1>1, <2>1, <2>2, TallyNone, FS_EmptySet
<1>5. CASE workers # 0
  <2>1. workers \in Nat \ {0} /\ workers <= Len(data) /\ workers <= MaxWorkers
    BY <1>2, <1>5, Constants, SMT DEF InputsRight
  <2>2. ReceivedDone \in [0..MaxWorkers-1 -> Nat]
    BY LenProperties DEF ProcessesInv, ProcessesTyped, ReceivedDone
  <2>3. SharesDone(data, workers, ReceivedDone)
    BY <1>3, <2>1, <2>2 DEF SharesDone
  <2> QED BY <1>1, <1>2, <2>3, TallyAll
<1> QED BY <1>4, <1>5

(***************************************************************************)
(* The theorems                                                            *)
(***************************************************************************)
FredInv ==
    \/ program = "threads" /\ ThreadsInv
    \/ program = "processes" /\ ProcessesInv

LEMMA FredStarts ==
    ASSUME Regular, Init
    PROVE  FredInv
  BY ThreadsStart, ProcessesStart DEF Init, FredInv

LEMMA FredKeeps ==
    ASSUME FredInv, [Next]_allVars
    PROVE  FredInv'
<1>1. CASE program = "threads" /\ T!Next
  <2>1. ThreadsInv /\ program' = program
    BY <1>1 DEF FredInv, Next, allVars
  <2> QED BY <1>1, <2>1, ThreadsKeep DEF FredInv
<1>2. CASE program = "processes" /\ P!Next
  <2>1. ProcessesInv /\ program' = program
    BY <1>2 DEF FredInv, Next, allVars
  <2> QED BY <1>2, <2>1, ProcessesKeep DEF FredInv
<1>3. CASE UNCHANGED allVars
  <2>1. UNCHANGED <<program, data, interval, workers, remainder, intArr, overrun, printed,
                    mutex, th, tmain, tk, queues, child, pmain, i, left, received>>
    BY <1>3 DEF allVars, shared, threadVars, processVars
  <2>2. CASE program = "threads"
    <3>1. ThreadsInv
      BY <2>2 DEF FredInv
    <3>2. ThreadsInv'
      BY <2>1, <3>1, ThreadsStutter
    <3> QED BY <2>1, <2>2, <3>2 DEF FredInv
  <2>3. CASE program = "processes"
    <3>1. ProcessesInv
      BY <2>3 DEF FredInv
    <3>2. ProcessesInv'
      BY <2>1, <3>1, ProcessesStutter
    <3> QED BY <2>1, <2>3, <3>2 DEF FredInv
  <2> QED BY <2>2, <2>3 DEF FredInv
<1> QED BY <1>1, <1>2, <1>3 DEF Next

LEMMA FredInvariant ==
    ASSUME Regular
    PROVE  Spec => []FredInv
<1>1. Init => FredInv
  BY FredStarts
<1>2. FredInv /\ [Next]_allVars => FredInv'
  BY FredKeeps
<1> QED BY <1>1, <1>2, PTL DEF Spec

\* The variables of both programs keep their types; the mutex of ku_tfred.c is
\* held by exactly the thread that increments, and a queue of ku_pfred.c never
\* holds more than its one message.
THEOREM FredTypes ==
    ASSUME Regular
    PROVE  Spec => []TypeOK
<1>1. FredInv => TypeOK
  BY ThreadsTypeOK, ProcessesTypeOK DEF FredInv, TypeOK
<1> QED BY <1>1, FredInvariant, PTL

\* ku_tfred.c: at every moment the array holds exactly the increments that the
\* threads finished, however they interleave.
THEOREM NoIncrementLost ==
    ASSUME Regular
    PROVE  Spec => []NoLostUpdate
<1>1. FredInv => NoLostUpdate
  BY ThreadsLoseNothing DEF FredInv, NoLostUpdate
<1> QED BY <1>1, FredInvariant, PTL

\* ku_pfred.c: what main received from a queue, followed by what is in it, is the
\* part of its share that the sender has sent, in the order of the file.
THEOREM SharesArriveInOrder ==
    ASSUME Regular
    PROVE  Spec => []ShareInOrder
<1>1. FredInv => ShareInOrder
  BY ProcessesInOrder DEF FredInv, ShareInOrder
<1> QED BY <1>1, FredInvariant, PTL

\* ku_pfred.c: when main prints, every queue of the run is unlinked.
THEOREM QueuesUnlinked ==
    ASSUME Regular
    PROVE  Spec => []NoQueueLeft
<1>1. FredInv => NoQueueLeft
  BY ProcessesLeaveNothing DEF FredInv, NoQueueLeft
<1> QED BY <1>1, FredInvariant, PTL

\* Both programs: what is printed counts every number of the file, once, for any
\* file, any interval that divides the range and any number of workers up to the
\* number of numbers.
THEOREM PrintedIsRight ==
    ASSUME Regular
    PROVE  Spec => []FDCorrect
<1>1. FredInv => FDCorrect
  BY ThreadsCountAll, ProcessesCountAll DEF FredInv, FDCorrect
<1> QED BY <1>1, FredInvariant, PTL
=============================================================================
