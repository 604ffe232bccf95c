---------------------------- MODULE QueueLemmas ----------------------------
(***************************************************************************)
(* Facts about the operations on thread queues that the scheduler and the  *)
(* kernel objects use: inserting at a position and unlinking a thread.     *)
(***************************************************************************)
EXTENDS Integers, FiniteSets, Sequences, SequencesExt, SequenceTheorems,
        FiniteSetTheorems, WellFoundedInduction, TLAPS

\* No element occurs twice.
Distinct(q) == \A i, j \in 1..Len(q) : i # j => q[i] # q[j]

(***************************************************************************)
(* A set of positions that is not empty has a first one, where the loops   *)
(* over a queue stop.                                                      *)
(***************************************************************************)
LEMMA FirstExists ==
  ASSUME NEW I \in SUBSET Nat, I # {}
  PROVE  \E i \in I : \A j \in I : i <= j
<1> DEFINE R == OpToRel(<, Nat)
<1>1. \E x \in I : \A y \in I : ~(<<y, x>> \in R)
  BY NatLessThanWellFounded, WFMin
<1>2. ASSUME NEW x \in Nat, NEW y \in Nat, ~(<<y, x>> \in R)
      PROVE  x <= y
  BY <1>2 DEF OpToRel
<1>3. QED
  BY <1>1, <1>2, Zenon

(***************************************************************************)
(* A set of positions of a queue that is not empty has a last one.         *)
(***************************************************************************)
LEMMA LastExists ==
  ASSUME NEW n \in Nat, NEW I \in SUBSET (1..n), I # {}
  PROVE  \E i \in I : \A j \in I : j <= i
<1> DEFINE J == {n - i : i \in I}
<1>1. \A i \in I : n - i \in Nat
  OBVIOUS
<1>2. J \in SUBSET Nat /\ J # {}
  BY <1>1, Zenon
<1>3. PICK k \in J : \A j \in J : k <= j
  BY <1>2, FirstExists
<1>4. PICK i \in I : k = n - i
  BY <1>3
<1>5. \A j \in I : n - i <= n - j
  BY <1>3, <1>4
<1>6. QED
  BY <1>5

(***************************************************************************)
(* What InsertAt returns.                                                  *)
(***************************************************************************)
LEMMA InsertAtIs ==
  ASSUME NEW S, NEW q \in Seq(S), NEW i \in 1..(Len(q) + 1), NEW e \in S
  PROVE  /\ InsertAt(q, i, e) \in Seq(S)
         /\ Len(InsertAt(q, i, e)) = Len(q) + 1
         /\ \A j \in 1..(Len(q) + 1) :
              InsertAt(q, i, e)[j] = IF j < i THEN q[j] ELSE IF j = i THEN e ELSE q[j - 1]
<1> DEFINE a == SubSeq(q, 1, i - 1)
           b == SubSeq(q, i, Len(q))
<1>1. /\ a \in Seq(S) /\ Len(a) = i - 1
      /\ \A j \in 1..(i - 1) : a[j] = q[j]
  BY SubSeqProperties
<1>2. /\ b \in Seq(S) /\ Len(b) = Len(q) - i + 1
      /\ \A j \in 1..(Len(q) - i + 1) : b[j] = q[i + j - 1]
  BY SubSeqProperties
<1> HIDE DEF a, b
<1>3. /\ a \o <<e>> \in Seq(S) /\ Len(a \o <<e>>) = i
      /\ \A j \in 1..i : (a \o <<e>>)[j] = IF j < i THEN q[j] ELSE e
  BY <1>1
<1>4. /\ (a \o <<e>>) \o b \in Seq(S)
      /\ Len((a \o <<e>>) \o b) = Len(q) + 1
      /\ \A j \in 1..(Len(q) + 1) : ((a \o <<e>>) \o b)[j] =
           IF j < i THEN q[j] ELSE IF j = i THEN e ELSE q[j - 1]
  <2> DEFINE c == a \o <<e>>
  <2>1. c \in Seq(S) /\ Len(c) = i
    BY <1>3
  <2> HIDE DEF c
  <2>2. /\ c \o b \in Seq(S)
        /\ Len(c \o b) = Len(q) + 1
        /\ \A j \in 1..(Len(q) + 1) : (c \o b)[j] = IF j <= i THEN c[j] ELSE b[j - i]
    BY <1>2, <2>1, ConcatProperties
  <2>3. \A j \in 1..(Len(q) + 1) : (c \o b)[j] =
          IF j < i THEN q[j] ELSE IF j = i THEN e ELSE q[j - 1]
    BY <1>2, <1>3, <2>2 DEF c
  <2>4. QED
    BY <2>2, <2>3 DEF c
<1>5. InsertAt(q, i, e) = (a \o <<e>>) \o b
  BY DEF InsertAt, a, b
<1>6. QED
  BY <1>4, <1>5

(***************************************************************************)
(* What RemoveAt returns.                                                  *)
(***************************************************************************)
LEMMA RemoveAtIs ==
  ASSUME NEW S, NEW q \in Seq(S), NEW i \in 1..Len(q)
  PROVE  /\ RemoveAt(q, i) \in Seq(S)
         /\ Len(RemoveAt(q, i)) = Len(q) - 1
         /\ \A j \in 1..(Len(q) - 1) :
              RemoveAt(q, i)[j] = IF j < i THEN q[j] ELSE q[j + 1]
<1> DEFINE a == SubSeq(q, 1, i - 1)
           b == SubSeq(q, i + 1, Len(q))
<1>1. /\ a \in Seq(S) /\ Len(a) = i - 1
      /\ \A j \in 1..(i - 1) : a[j] = q[j]
  BY SubSeqProperties
<1>2. /\ b \in Seq(S) /\ Len(b) = Len(q) - i
      /\ \A j \in 1..(Len(q) - i) : b[j] = q[i + j]
  BY SubSeqProperties
<1> HIDE DEF a, b
<1>3. /\ a \o b \in Seq(S)
      /\ Len(a \o b) = Len(q) - 1
      /\ \A j \in 1..(Len(q) - 1) : (a \o b)[j] = IF j < i THEN q[j] ELSE q[j + 1]
  <2>1. /\ a \o b \in Seq(S)
        /\ Len(a \o b) = Len(q) - 1
        /\ \A j \in 1..(Len(q) - 1) :
             (a \o b)[j] = IF j <= i - 1 THEN a[j] ELSE b[j - (i - 1)]
    BY <1>1, <1>2, ConcatProperties
  <2>2. QED
    BY <1>1, <1>2, <2>1
<1>4. QED
  BY <1>3 DEF RemoveAt, a, b

(***************************************************************************)
(* Unlinking a thread from a queue without repetitions: RemoveFirst takes  *)
(* out the only position of the thread.                                    *)
(***************************************************************************)
LEMMA RemoveFirstIs ==
  ASSUME NEW S, NEW q \in Seq(S), Distinct(q), NEW i \in 1..Len(q)
  PROVE  RemoveFirst(q, q[i]) = RemoveAt(q, i)
<1> DEFINE I == {k \in 1..Len(q) : q[k] = q[i]}
<1>1. I = {i}
  BY DEF Distinct
<1>2. (CHOOSE x \in I : \A y \in I : x =< y) = i
  BY <1>1
<1>3. SelectInSeq(q, LAMBDA v : v = q[i]) = i
  BY <1>1, <1>2 DEF SelectInSeq, Min
<1>4. QED
  BY <1>3 DEF RemoveFirst

(***************************************************************************)
(* Who is in a queue after an insertion.                                   *)
(***************************************************************************)
LEMMA InsertAtHas ==
  ASSUME NEW S, NEW q \in Seq(S), NEW i \in 1..(Len(q) + 1), NEW e \in S, NEW x
  PROVE  Contains(InsertAt(q, i, e), x) <=> Contains(q, x) \/ x = e
<1> DEFINE r == InsertAt(q, i, e)
<1>1. /\ Len(q) \in Nat /\ Len(r) = Len(q) + 1
      /\ \A j \in 1..(Len(q) + 1) :
           r[j] = IF j < i THEN q[j] ELSE IF j = i THEN e ELSE q[j - 1]
  BY InsertAtIs
<1> HIDE DEF r
<1>2. ASSUME NEW j \in 1..Len(r), r[j] = x PROVE Contains(q, x) \/ x = e
  <2>1. CASE j < i
    BY <1>1, <1>2, <2>1 DEF Contains
  <2>2. CASE j > i
    <3>1. j - 1 \in 1..Len(q) /\ q[j - 1] = x
      BY <1>1, <1>2, <2>2
    <3>2. QED
      BY <3>1 DEF Contains
  <2>3. QED
    BY <1>1, <1>2, <2>1, <2>2
<1>3. ASSUME NEW j \in 1..Len(q), q[j] = x PROVE Contains(r, x)
  <2>1. CASE j < i
    <3>1. j \in 1..Len(r) /\ r[j] = x
      BY <1>1, <1>3, <2>1
    <3>2. QED
      BY <3>1 DEF Contains
  <2>2. CASE j >= i
    <3>1. j + 1 \in 1..Len(r) /\ r[j + 1] = x
      BY <1>1, <1>3, <2>2
    <3>2. QED
      BY <3>1 DEF Contains
  <2>3. QED
    BY <1>1, <2>1, <2>2
<1>4. i \in 1..Len(r) /\ r[i] = e
  BY <1>1
<1>5. QED
  BY <1>2, <1>3, <1>4 DEF Contains, r

(***************************************************************************)
(* Who is in a queue without repetitions after a removal.                  *)
(***************************************************************************)
LEMMA RemoveAtHas ==
  ASSUME NEW S, NEW q \in Seq(S), Distinct(q), NEW i \in 1..Len(q), NEW x
  PROVE  Contains(RemoveAt(q, i), x) <=> Contains(q, x) /\ x # q[i]
<1> DEFINE r == RemoveAt(q, i)
<1>1. /\ Len(q) \in Nat /\ Len(r) = Len(q) - 1
      /\ \A j \in 1..(Len(q) - 1) : r[j] = IF j < i THEN q[j] ELSE q[j + 1]
  BY RemoveAtIs
<1> HIDE DEF r
<1>2. ASSUME NEW j \in 1..Len(r), r[j] = x PROVE Contains(q, x) /\ x # q[i]
  <2>1. PICK k \in 1..Len(q) : k # i /\ q[k] = x
    <3>1. CASE j < i
      BY <1>1, <1>2, <3>1
    <3>2. CASE j >= i
      <4>1. j + 1 \in 1..Len(q) /\ q[j + 1] = x /\ j + 1 # i
        BY <1>1, <1>2, <3>2
      <4>2. QED
        BY <4>1
    <3>3. QED
      BY <1>1, <3>1, <3>2
  <2>2. QED
    BY <2>1 DEF Contains, Distinct
<1>3. ASSUME NEW j \in 1..Len(q), q[j] = x, x # q[i] PROVE Contains(r, x)
  <2>1. CASE j < i
    <3>1. j \in 1..Len(r) /\ r[j] = x
      BY <1>1, <1>3, <2>1
    <3>2. QED
      BY <3>1 DEF Contains
  <2>2. CASE j > i
    <3>1. j - 1 \in 1..Len(r) /\ r[j - 1] = x
      BY <1>1, <1>3, <2>2
    <3>2. QED
      BY <3>1 DEF Contains
  <2>3. QED
    BY <1>1, <1>3, <2>1, <2>2
<1>4. QED
  BY <1>2, <1>3 DEF Contains, r

(***************************************************************************)
(* Taking somebody out leaves nobody in the queue twice.                   *)
(***************************************************************************)
LEMMA RemoveAtDistinct ==
  ASSUME NEW S, NEW q \in Seq(S), Distinct(q), NEW i \in 1..Len(q)
  PROVE  Distinct(RemoveAt(q, i))
<1> DEFINE r == RemoveAt(q, i)
<1>1. /\ Len(q) \in Nat /\ Len(r) = Len(q) - 1
      /\ \A j \in 1..(Len(q) - 1) : r[j] = IF j < i THEN q[j] ELSE q[j + 1]
  BY RemoveAtIs
<1> SUFFICES Distinct(r)
  OBVIOUS
<1> HIDE DEF r
<1> SUFFICES ASSUME NEW j \in 1..Len(r), NEW k \in 1..Len(r), j < k PROVE r[j] # r[k]
  BY <1>1 DEF Distinct
<1>2. CASE k < i
  BY <1>1, <1>2 DEF Distinct
<1>3. CASE i <= j
  BY <1>1, <1>3 DEF Distinct
<1>4. CASE j < i /\ i <= k
  BY <1>1, <1>4 DEF Distinct
<1>5. QED
  BY <1>1, <1>2, <1>3, <1>4

(***************************************************************************)
(* What unlinking a node does, whether it is linked or not.                *)
(***************************************************************************)
LEMMA RemoveFirstHas ==
  ASSUME NEW S, NEW q \in Seq(S), Distinct(q), NEW e
  PROVE  /\ RemoveFirst(q, e) \in Seq(S)
         /\ Distinct(RemoveFirst(q, e))
         /\ \A x : Contains(RemoveFirst(q, e), x) <=> Contains(q, x) /\ x # e
<1>1. CASE Contains(q, e)
  <2>1. PICK i \in 1..Len(q) : q[i] = e
    BY <1>1 DEF Contains
  <2>2. RemoveFirst(q, e) = RemoveAt(q, i)
    BY <2>1, RemoveFirstIs
  <2>3. RemoveAt(q, i) \in Seq(S)
    BY RemoveAtIs
  <2>4. Distinct(RemoveAt(q, i))
    BY RemoveAtDistinct
  <2>5. \A x : Contains(RemoveAt(q, i), x) <=> Contains(q, x) /\ x # q[i]
    BY RemoveAtHas
  <2>6. QED
    BY <2>1, <2>2, <2>3, <2>4, <2>5
<1>2. CASE ~Contains(q, e)
  <2>1. RemoveFirst(q, e) = q
    BY <1>2 DEF RemoveFirst, Contains
  <2>2. QED
    BY <1>2, <2>1
<1>3. QED
  BY <1>1, <1>2

(***************************************************************************)
(* Taking the head off is taking the first element out.                    *)
(***************************************************************************)
LEMMA TailIs ==
  ASSUME NEW S, NEW q \in Seq(S), q # <<>>
  PROVE  Len(q) >= 1 /\ Head(q) = q[1] /\ Tail(q) = RemoveAt(q, 1)
<1> DEFINE r == RemoveAt(q, 1)
<1>1. Len(q) \in Nat /\ Len(q) >= 1 /\ Head(q) = q[1]
  OBVIOUS
<1>2. /\ r \in Seq(S) /\ Len(r) = Len(q) - 1
      /\ \A j \in 1..(Len(q) - 1) : r[j] = IF j < 1 THEN q[j] ELSE q[j + 1]
  BY <1>1, RemoveAtIs
<1> HIDE DEF r
<1>3. \A j \in 1..(Len(q) - 1) : r[j] = q[j + 1]
  BY <1>1, <1>2
<1>4. /\ Tail(q) \in Seq(S) /\ Len(Tail(q)) = Len(q) - 1
      /\ \A j \in 1..(Len(q) - 1) : Tail(q)[j] = q[j + 1]
  BY <1>1
<1>5. Tail(q) = r
  BY <1>1, <1>2, <1>3, <1>4, SeqEqual
<1>6. QED
  BY <1>1, <1>5 DEF r

(***************************************************************************)
(* Pushing somebody in front of a list.                                    *)
(***************************************************************************)
LEMMA PushIs ==
  ASSUME NEW S, NEW q \in Seq(S), NEW e \in S
  PROVE  /\ <<e>> \o q \in Seq(S)
         /\ Len(<<e>> \o q) = Len(q) + 1
         /\ (<<e>> \o q)[1] = e
         /\ \A i \in 1..Len(q) : (<<e>> \o q)[i + 1] = q[i]
         /\ \A x : Contains(<<e>> \o q, x) <=> Contains(q, x) \/ x = e
         /\ Distinct(q) /\ ~Contains(q, e) => Distinct(<<e>> \o q)
<1> DEFINE r == <<e>> \o q
<1>1. /\ r \in Seq(S) /\ Len(q) \in Nat /\ Len(r) = Len(q) + 1
      /\ \A i \in 1..(Len(q) + 1) : r[i] = IF i <= 1 THEN e ELSE q[i - 1]
  OBVIOUS
<1> HIDE DEF r
<1>2. r[1] = e /\ \A i \in 1..Len(q) : r[i + 1] = q[i]
  BY <1>1
<1>3. ASSUME NEW x PROVE Contains(r, x) <=> Contains(q, x) \/ x = e
  BY <1>1, <1>2 DEF Contains
<1>4. ASSUME Distinct(q), ~Contains(q, e) PROVE Distinct(r)
  <2> SUFFICES ASSUME NEW i \in 1..Len(r), NEW j \in 1..Len(r), i < j PROVE r[i] # r[j]
    BY <1>1 DEF Distinct
  <2>1. j - 1 \in 1..Len(q) /\ r[j] = q[j - 1] /\ i <= Len(q)
    BY <1>1
  <2>2. CASE i = 1
    BY <1>2, <1>4, <2>1, <2>2 DEF Contains
  <2>3. CASE i > 1
    <3>1. i - 1 \in 1..Len(q) /\ r[i] = q[i - 1] /\ i - 1 # j - 1
      BY <1>1, <2>1, <2>3
    <3>2. QED
      BY <1>4, <2>1, <3>1 DEF Distinct
  <2>4. QED
    BY <2>2, <2>3
<1>5. QED
  BY <1>1, <1>2, <1>3, <1>4 DEF r

(***************************************************************************)
(* Unlinking a queued thread shortens the queue by one.                    *)
(***************************************************************************)
LEMMA RemoveFirstLen ==
  ASSUME NEW S, NEW q \in Seq(S), Distinct(q), NEW e, Contains(q, e)
  PROVE  Len(RemoveFirst(q, e)) = Len(q) - 1
<1>1. PICK i \in 1..Len(q) : q[i] = e
  BY DEF Contains
<1>2. RemoveFirst(q, e) = RemoveAt(q, i)
  BY <1>1, RemoveFirstIs
<1>3. QED
  BY <1>2, RemoveAtIs

(***************************************************************************)
(* Two lists side by side.                                                 *)
(***************************************************************************)
LEMMA JoinIs ==
  ASSUME NEW S, NEW q \in Seq(S), NEW r \in Seq(S)
  PROVE  /\ q \o r \in Seq(S)
         /\ \A x : Contains(q \o r, x) <=> Contains(q, x) \/ Contains(r, x)
         /\ Distinct(q) /\ Distinct(r) /\ (\A x \in S : ~(Contains(q, x) /\ Contains(r, x)))
              => Distinct(q \o r)
<1> DEFINE s == q \o r
<1>1. /\ s \in Seq(S) /\ Len(s) = Len(q) + Len(r) /\ Len(q) \in Nat /\ Len(r) \in Nat
      /\ \A i \in 1..Len(s) : s[i] = IF i <= Len(q) THEN q[i] ELSE r[i - Len(q)]
  OBVIOUS
<1> HIDE DEF s
<1>2. ASSUME NEW i \in 1..Len(s)
      PROVE  \/ i \in 1..Len(q) /\ s[i] = q[i] /\ Contains(q, s[i])
             \/ i - Len(q) \in 1..Len(r) /\ s[i] = r[i - Len(q)] /\ i > Len(q) /\ Contains(r, s[i])
  <2>1. CASE i <= Len(q)
    BY <1>1, <2>1 DEF Contains
  <2>2. CASE i > Len(q)
    <3>1. i - Len(q) \in 1..Len(r) /\ s[i] = r[i - Len(q)]
      BY <1>1, <2>2
    <3>2. QED
      BY <2>2, <3>1 DEF Contains
  <2>3. QED
    BY <1>1, <2>1, <2>2
<1>3. ASSUME NEW x PROVE Contains(s, x) <=> Contains(q, x) \/ Contains(r, x)
  <2>1. ASSUME Contains(s, x) PROVE Contains(q, x) \/ Contains(r, x)
    <3>1. PICK i \in 1..Len(s) : s[i] = x
      BY <2>1 DEF Contains
    <3>2. QED
      BY <1>2, <3>1
  <2>2. ASSUME NEW i \in 1..Len(q), q[i] = x PROVE Contains(s, x)
    <3>1. i \in 1..Len(s) /\ s[i] = x
      BY <1>1, <2>2
    <3>2. QED
      BY <3>1 DEF Contains
  <2>3. ASSUME NEW i \in 1..Len(r), r[i] = x PROVE Contains(s, x)
    <3>1. PICK k \in 1..Len(s) : k > Len(q) /\ k - Len(q) = i
      <4>1. i + Len(q) \in 1..Len(s) /\ i + Len(q) > Len(q) /\ (i + Len(q)) - Len(q) = i
        BY <1>1
      <4>2. QED
        BY <4>1
    <3>2. s[k] = x
      BY <1>1, <2>3, <3>1
    <3>3. QED
      BY <3>2 DEF Contains
  <2>4. QED
    BY <2>1, <2>2, <2>3 DEF Contains
<1>4. ASSUME Distinct(q), Distinct(r), \A x \in S : ~(Contains(q, x) /\ Contains(r, x)),
             NEW i \in 1..Len(s), NEW j \in 1..Len(s), i # j
      PROVE  s[i] # s[j]
  <2>1. s[i] \in S
    BY <1>1
  <2>2. CASE i <= Len(q) /\ j <= Len(q)
    BY <1>1, <1>4, <2>2 DEF Distinct
  <2>3. CASE i > Len(q) /\ j > Len(q)
    <3>1. /\ i - Len(q) \in 1..Len(r) /\ s[i] = r[i - Len(q)]
          /\ j - Len(q) \in 1..Len(r) /\ s[j] = r[j - Len(q)]
          /\ i - Len(q) # j - Len(q)
      BY <1>1, <1>4, <2>3
    <3>2. QED
      BY <1>4, <3>1 DEF Distinct
  <2>4. CASE i <= Len(q) /\ j > Len(q)
    BY <1>1, <1>2, <1>4, <2>1, <2>4
  <2>5. CASE i > Len(q) /\ j <= Len(q)
    BY <1>1, <1>2, <1>4, <2>1, <2>5
  <2>6. QED
    BY <1>1, <2>2, <2>3, <2>4, <2>5
<1>5. Distinct(q) /\ Distinct(r) /\ (\A x \in S : ~(Contains(q, x) /\ Contains(r, x))) => Distinct(s)
  BY <1>4 DEF Distinct
<1>6. QED
  BY <1>1, <1>3, <1>5 DEF s

(***************************************************************************)
(* The length of a queue is the number of threads in it.                   *)
(***************************************************************************)
LEMMA DistinctLen ==
  ASSUME NEW S, NEW q \in Seq(S), Distinct(q)
  PROVE  /\ IsFiniteSet({x \in S : Contains(q, x)})
         /\ Cardinality({x \in S : Contains(q, x)}) = Len(q)
<1> DEFINE T == {x \in S : Contains(q, x)}
           f == [i \in 1..Len(q) |-> q[i]]
<1>1. Len(q) \in Nat /\ \A i \in 1..Len(q) : q[i] \in S
  OBVIOUS
<1>2. f \in [1..Len(q) -> T]
  BY <1>1 DEF Contains
<1>3. \A i, j \in 1..Len(q) : f[i] = f[j] => i = j
  BY DEF Distinct
<1>4. \A x \in T : \E i \in 1..Len(q) : f[i] = x
  BY DEF Contains
<1> HIDE DEF f, T
<1>5. f \in Surjection(1..Len(q), T) /\ f \in Injection(1..Len(q), T)
  BY <1>2, <1>3, <1>4 DEF Surjection, Injection, IsInjective
<1>6. IsFiniteSet(1..Len(q)) /\ Cardinality(1..Len(q)) = Len(q)
  <2>1. 1 \in Int /\ Len(q) \in Int
    BY <1>1
  <2>2. /\ IsFiniteSet(1..Len(q))
        /\ Cardinality(1..Len(q)) = IF 1 > Len(q) THEN 0 ELSE Len(q) - 1 + 1
    BY <2>1, FS_Interval
  <2>3. QED
    BY <1>1, <2>2
<1>7. IsFiniteSet(T) /\ Cardinality(T) = Len(q)
  BY <1>5, <1>6, FS_Surjection
<1>8. QED
  BY <1>7 DEF T

Ind(b) == IF b THEN 1 ELSE 0

(***************************************************************************)
(* How many members a set has when one of them comes or goes.              *)
(***************************************************************************)
LEMMA CardOne ==
  ASSUME NEW T, IsFiniteSet(T), NEW A \in SUBSET T, NEW B \in SUBSET T, NEW t \in T,
         \A u \in T : u # t => (u \in A <=> u \in B)
  PROVE  /\ Cardinality(A) \in Nat /\ Cardinality(B) \in Nat
         /\ Cardinality(B) = Cardinality(A) + Ind(t \in B) - Ind(t \in A)
<1>1. IsFiniteSet(A) /\ IsFiniteSet(B)
  BY FS_Subset
<1>2. Cardinality(A) \in Nat /\ Cardinality(B) \in Nat
  BY <1>1, FS_CardinalityType
<1>3. CASE t \in A <=> t \in B
  <2>1. A = B
    BY <1>3
  <2>2. Ind(t \in A) = Ind(t \in B) /\ Ind(t \in A) \in Int
    BY <1>3 DEF Ind
  <2>3. QED
    BY <1>2, <2>1, <2>2
<1>4. CASE t \in A /\ t \notin B
  <2>1. B = A \ {t}
    BY <1>4
  <2>2. Cardinality(B) = Cardinality(A) - 1
    BY <1>1, <1>4, <2>1, FS_RemoveElement
  <2>3. QED
    BY <1>2, <1>4, <2>2 DEF Ind
<1>5. CASE t \notin A /\ t \in B
  <2>1. B = A \union {t}
    BY <1>5
  <2>2. Cardinality(B) = Cardinality(A) + 1
    BY <1>1, <1>5, <2>1, FS_AddElement
  <2>3. QED
    BY <1>2, <1>5, <2>2 DEF Ind
<1>6. QED
  BY <1>3, <1>4, <1>5
=============================================================================
