------------------------ MODULE Lv2SchedulerProofs ------------------------
(***************************************************************************)
(* Proofs about Lv2Scheduler, for any finite set of threads, any number of *)
(* hardware threads and any priorities.                                    *)
(*                                                                         *)
(* The pieces of the scheduler are functions of the state under g_mutex.   *)
(* The inductive invariant is therefore stated of such a state S: Core     *)
(* holds between any two pieces, OnProcOnly and Saturated when g_mutex is  *)
(* free.  Local says what a thread may rely on, given where it is.         *)
(***************************************************************************)
EXTENDS Lv2Scheduler, QueueLemmas, FiniteSetTheorems

Ordered(q, pr) ==
  \A i, j \in 1..Len(q) : i < j => q[i] # q[j] /\ pr[q[i]] <= pr[q[j]]

\* What the pieces of the scheduler keep for one thread.
CoreOf(S, t) ==
  /\ S.ack[t] => "suspend" \in S.state[t]
  /\ InQueue(S.ppu, t) => S.waiting[t] = 0
  /\ S.waiting[t] <= 1
  /\ S.waiting[t] = 1 => "notify" \notin S.state[t]

Acks(S) == {t \in Threads : S.ack[t]}

Core(S, pr) ==
  /\ S \in Sched
  /\ Ordered(S.ppu, pr)
  /\ S.pending = Cardinality(Acks(S))
  /\ \A t \in Threads : CoreOf(S, t)

\* Who is not told to suspend is in g_ppu, except perhaps u.
CoveredBut(S, u) ==
  \A t \in Threads \ {u} : "suspend" \notin S.state[t] => InQueue(S.ppu, t)

OnProcOnly(S) == \A t \in Threads : "suspend" \notin S.state[t] => t \in OnProc(S.ppu)

Saturated(S) ==
  S.pending = 0 => \A t \in OnProc(S.ppu) : "suspend" \notin S.state[t]

\* A thread at l, in an object's queue or not, as q says.
Local(S, l, q, t) ==
  /\ l \in {"guest", "presleep"} =>
       /\ "signal" \notin S.state[t] /\ "notify" \notin S.state[t]
       /\ InQueue(S.ppu, t)
       /\ "suspend" \in S.state[t] => S.ack[t]
  /\ l = "presleep" =>
       /\ S.cancel[t] \in {1, 2}
       /\ ~q => S.cancel[t] = 2
  /\ l = "wait" /\ ~q => InQueue(S.ppu, t) \/ "signal" \in S.state[t]

Inv ==
  /\ Core(sch, prio) /\ OnProcOnly(sch) /\ Saturated(sch)
  /\ prio \in [Threads -> Prios]
  /\ pc \in [Threads -> PCs]
  /\ timed \in [Threads -> BOOLEAN]
  /\ queued \in [Threads -> BOOLEAN]
  /\ \A t \in Threads : Local(sch, pc[t], queued[t], t)

\* From S to T nothing happens that t relies on.
Kept(S, T, t) ==
  /\ InQueue(S.ppu, t) => InQueue(T.ppu, t)
  /\ \A f \in {"signal", "notify"} : f \in T.state[t] <=> f \in S.state[t]
  /\ ("suspend" \in S.state[t] => S.ack[t]) => ("suspend" \in T.state[t] => T.ack[t])
  /\ T.cancel[t] = S.cancel[t] \/ (S.cancel[t] = 1 /\ T.cancel[t] = 2)

-----------------------------------------------------------------------------
(* The run queue *)

(***************************************************************************)
(* A queue ordered by priority holds no thread twice.                      *)
(***************************************************************************)
LEMMA OrderedDistinct ==
  ASSUME NEW q \in Seq(Threads), NEW pr, Ordered(q, pr)
  PROVE  Distinct(q)
BY DEF Ordered, Distinct

(***************************************************************************)
(* InQueue is membership.                                                  *)
(***************************************************************************)
LEMMA QueuedIsContained ==
  ASSUME NEW q, NEW t
  PROVE  InQueue(q, t) <=> Contains(q, t)
BY DEF InQueue, Contains

(***************************************************************************)
(* emplace_thread finds a queued thread, and the place of another one.     *)
(***************************************************************************)
LEMMA PositionIs ==
  ASSUME NEW q \in Seq(Threads), NEW pr \in [Threads -> Nat], Ordered(q, pr),
         NEW t \in Threads
  PROVE  /\ Position(q, pr, t) \in 1..(Len(q) + 1)
         /\ \A j \in 1..Len(q) : j < Position(q, pr, t) => q[j] # t /\ pr[q[j]] <= pr[t]
         /\ Position(q, pr, t) <= Len(q) =>
              LET k == Position(q, pr, t) IN q[k] = t \/ pr[q[k]] > pr[t]
         /\ InQueue(q, t) <=>
              Position(q, pr, t) <= Len(q) /\ q[Position(q, pr, t)] = t
<1> DEFINE I == StopsAt(q, pr, t)
           k == Position(q, pr, t)
<1>0. \A i \in 1..Len(q) : q[i] \in Threads /\ pr[q[i]] \in Nat
  OBVIOUS
<1>1. CASE I = {}
  <2>1. k = Len(q) + 1
    BY <1>1 DEF Position
  <2>2. \A j \in 1..Len(q) : q[j] # t /\ ~(pr[q[j]] > pr[t])
    BY <1>1 DEF StopsAt
  <2>3. QED
    BY <1>0, <2>1, <2>2 DEF InQueue
<1>2. CASE I # {}
  <2>1. I \in SUBSET Nat /\ I \subseteq 1..Len(q)
    BY DEF StopsAt
  <2>2. \E i \in I : \A j \in I : i <= j
    BY <1>2, <2>1, FirstExists
  <2>3. k \in I /\ \A j \in I : k <= j
    BY <1>2, <2>2 DEF Position
  <2>4. k \in 1..Len(q) /\ (q[k] = t \/ pr[q[k]] > pr[t])
    BY <2>3 DEF StopsAt
  <2>5. \A j \in 1..Len(q) : j < k => q[j] # t /\ ~(pr[q[j]] > pr[t])
    BY <2>1, <2>3, <2>4 DEF StopsAt
  <2>6. ASSUME InQueue(q, t) PROVE q[k] = t
    <3>1. PICK i \in 1..Len(q) : q[i] = t
      BY <2>6 DEF InQueue
    <3>2. k <= i
      BY <2>4, <2>5, <3>1
    <3>3. CASE k < i
      <4>1. pr[q[k]] <= pr[t]
        BY <2>4, <3>1, <3>3 DEF Ordered
      <4>2. QED
        BY <1>0, <2>4, <4>1
    <3>4. QED
      BY <2>4, <3>1, <3>2, <3>3
  <2>7. QED
    BY <1>0, <2>4, <2>5, <2>6 DEF InQueue
<1>3. QED
  BY <1>1, <1>2

(***************************************************************************)
(* Inserted where emplace_thread stops, a new thread keeps the order.      *)
(***************************************************************************)
LEMMA InsertOrdered ==
  ASSUME NEW q \in Seq(Threads), NEW pr \in [Threads -> Nat], Ordered(q, pr),
         NEW t \in Threads, ~InQueue(q, t)
  PROVE  LET r == InsertAt(q, Position(q, pr, t), t)
         IN  /\ r \in Seq(Threads)
             /\ Ordered(r, pr)
             /\ \A u \in Threads : InQueue(r, u) <=> InQueue(q, u) \/ u = t
<1> DEFINE k == Position(q, pr, t)
           r == InsertAt(q, k, t)
<1>1. /\ k \in 1..(Len(q) + 1)
      /\ \A j \in 1..Len(q) : j < k => pr[q[j]] <= pr[t]
      /\ k <= Len(q) => pr[q[k]] > pr[t]
  BY PositionIs DEF InQueue
<1> HIDE DEF k
<1>p. k \in 1..(Len(q) + 1)
  BY <1>1
<1>2. /\ r \in Seq(Threads) /\ Len(r) = Len(q) + 1
      /\ \A j \in 1..(Len(q) + 1) :
           r[j] = IF j < k THEN q[j] ELSE IF j = k THEN t ELSE q[j - 1]
  BY <1>p, InsertAtIs, SMT
<1> HIDE DEF r
<1>3. \A i \in 1..Len(q) : q[i] \in Threads /\ q[i] # t /\ pr[q[i]] \in Nat
  BY DEF InQueue
<1>4. \A j \in 1..Len(q) : j >= k => pr[t] <= pr[q[j]]
  <2> SUFFICES ASSUME NEW j \in 1..Len(q), j >= k PROVE pr[t] <= pr[q[j]]
    OBVIOUS
  <2>1. pr[q[k]] <= pr[q[j]]
    BY <1>1, <1>3 DEF Ordered
  <2>2. QED
    BY <1>1, <1>3, <2>1
<1>5. Ordered(r, pr)
  <2> SUFFICES ASSUME NEW i \in 1..Len(r), NEW j \in 1..Len(r), i < j
               PROVE  r[i] # r[j] /\ pr[r[i]] <= pr[r[j]]
    BY DEF Ordered
  <2>1. CASE j < k
    <3>1. /\ i \in 1..Len(q) /\ j \in 1..Len(q)
          /\ r[i] = q[i] /\ r[j] = q[j]
      BY SMTT(30), <1>1, <1>2, <2>1
    <3>2. QED
      BY <3>1 DEF Ordered
  <2>2. CASE j = k
    <3>1. i \in 1..Len(q) /\ i < k /\ r[i] = q[i] /\ r[j] = t
      BY <1>1, <1>2, <2>2
    <3>2. QED
      BY <1>1, <1>3, <3>1
  <2>3. CASE j > k /\ i = k
    <3>1. j - 1 \in 1..Len(q) /\ j - 1 >= k /\ r[i] = t /\ r[j] = q[j - 1]
      BY <1>1, <1>2, <2>3
    <3>2. QED
      BY <1>3, <1>4, <3>1
  <2>4. CASE j > k /\ i < k
    <3>1. /\ i \in 1..Len(q) /\ j - 1 \in 1..Len(q) /\ i < j - 1
          /\ r[i] = q[i] /\ r[j] = q[j - 1]
      BY <1>1, <1>2, <2>4
    <3>2. QED
      BY <3>1 DEF Ordered
  <2>5. CASE j > k /\ i > k
    <3>1. /\ i - 1 \in 1..Len(q) /\ j - 1 \in 1..Len(q) /\ i - 1 < j - 1
          /\ r[i] = q[i - 1] /\ r[j] = q[j - 1]
      BY <1>1, <1>2, <2>5
    <3>2. QED
      BY <3>1 DEF Ordered
  <2>6. QED
    BY <1>1, <1>2, <2>1, <2>2, <2>3, <2>4, <2>5
<1>6. ASSUME NEW u \in Threads
      PROVE  InQueue(r, u) <=> InQueue(q, u) \/ u = t
  <2>1. Contains(r, u) <=> Contains(q, u) \/ u = t
    BY <1>1, InsertAtHas DEF r
  <2>2. QED
    BY <2>1, QueuedIsContained
<1>7. QED
  BY <1>2, <1>5, <1>6 DEF k, r

(***************************************************************************)
(* Unlinking a thread keeps the order, and moves nobody back.              *)
(***************************************************************************)
LEMMA RemoveOrdered ==
  ASSUME NEW q \in Seq(Threads), NEW pr, Ordered(q, pr),
         NEW t \in Threads, InQueue(q, t)
  PROVE  LET r == RemoveFirst(q, t)
         IN  /\ r \in Seq(Threads)
             /\ Ordered(r, pr)
             /\ Len(r) = Len(q) - 1
             /\ \A u \in Threads : InQueue(r, u) <=> InQueue(q, u) /\ u # t
             /\ \A u \in OnProc(q) : u # t => u \in OnProc(r)
<1> DEFINE r == RemoveFirst(q, t)
<1>1. PICK k \in 1..Len(q) : q[k] = t
  BY DEF InQueue
<1>2. r = RemoveAt(q, k)
  BY <1>1, OrderedDistinct, RemoveFirstIs
<1>3. /\ r \in Seq(Threads) /\ Len(r) = Len(q) - 1
      /\ \A j \in 1..(Len(q) - 1) : r[j] = IF j < k THEN q[j] ELSE q[j + 1]
  BY <1>2, RemoveAtIs
<1> HIDE DEF r
<1>4. Ordered(r, pr)
  <2>1. SUFFICES ASSUME NEW i \in 1..Len(r), NEW j \in 1..Len(r), i < j
                 PROVE  r[i] # r[j] /\ pr[r[i]] <= pr[r[j]]
    BY DEF Ordered
  <2>2. PICK a \in 1..Len(q), b \in 1..Len(q) : a < b /\ r[i] = q[a] /\ r[j] = q[b]
    <3>1. Len(q) \in Nat /\ i \in 1..(Len(q) - 1) /\ j \in 1..(Len(q) - 1)
      BY <1>3
    <3>2. /\ r[i] = IF i < k THEN q[i] ELSE q[i + 1]
          /\ r[j] = IF j < k THEN q[j] ELSE q[j + 1]
      BY <1>3, <3>1
    <3>3. /\ i \in 1..Len(q) /\ i + 1 \in 1..Len(q)
          /\ j \in 1..Len(q) /\ j + 1 \in 1..Len(q)
      BY <3>1
    <3>4. CASE j < k
      BY <2>1, <3>2, <3>3, <3>4
    <3>5. CASE ~(j < k) /\ i < k
      BY <2>1, <3>2, <3>3, <3>5
    <3>6. CASE ~(j < k) /\ ~(i < k)
      BY <2>1, <3>2, <3>3, <3>6
    <3>7. QED
      BY <3>4, <3>5, <3>6
  <2>3. QED
    BY <2>2 DEF Ordered
<1>5. \A i \in 1..Len(q) : i # k => q[i] # t
  BY <1>1, OrderedDistinct DEF Distinct
<1>6. \A i \in 1..Len(q) : /\ i < k => i \in 1..Len(r) /\ r[i] = q[i]
                           /\ i > k => i - 1 \in 1..Len(r) /\ r[i - 1] = q[i]
  BY <1>3
<1>7. ASSUME NEW u \in Threads
      PROVE  InQueue(r, u) <=> InQueue(q, u) /\ u # t
  <2>1. Contains(r, u) <=> Contains(q, u) /\ u # t
    BY <1>1, <1>2, OrderedDistinct, RemoveAtHas
  <2>2. QED
    BY <2>1, QueuedIsContained
<1>8. ASSUME NEW u \in OnProc(q), u # t
      PROVE  u \in OnProc(r)
  <2>1. PICK i \in 1..Len(q) : i <= HwThreads /\ u = q[i]
    BY HwAssumption DEF OnProc
  <2>2. i # k
    BY <1>1, <1>8, <2>1
  <2>3. PICK j \in 1..Len(r) : j <= HwThreads /\ u = r[j]
    BY <1>6, <2>1, <2>2, HwAssumption
  <2>4. QED
    BY <1>3, <2>3, HwAssumption DEF OnProc
<1>9. QED
  BY <1>3, <1>4, <1>7, <1>8 DEF r

(***************************************************************************)
(* yield_cmd moves a thread behind those of its priority: the order is     *)
(* kept, nobody leaves the queue, and no other thread moves back.          *)
(***************************************************************************)
LEMMA RotateOrdered ==
  ASSUME NEW q \in Seq(Threads), NEW pr \in [Threads -> Nat], Ordered(q, pr),
         NEW t \in Threads, InQueue(q, t)
  PROVE  LET r == Rotate(q, pr, t)
         IN  /\ r \in Seq(Threads)
             /\ Ordered(r, pr)
             /\ \A u \in Threads : InQueue(r, u) <=> InQueue(q, u)
             /\ \A u \in OnProc(q) : u # t => u \in OnProc(r)
<1> DEFINE I == SamePrio(q, pr, t)
           last == CHOOSE i \in I : \A j \in I : j <= i
           p == RemoveFirst(q, t)
           r == Rotate(q, pr, t)
<1>1. PICK k \in 1..Len(q) : q[k] = t
  BY DEF InQueue
<1>2. k \in I /\ I \in SUBSET (1..Len(q)) /\ Len(q) \in Nat
  BY <1>1 DEF SamePrio
<1>3. \E i \in I : \A j \in I : j <= i
  BY <1>2, LastExists
<1>4. last \in I /\ \A j \in I : j <= last
  BY <1>3
<1>5. r = InsertAt(p, last, t)
  BY DEF Rotate
<1> HIDE DEF I, last, r
<1>6. last \in k..Len(q) /\ pr[q[last]] = pr[t]
  BY <1>2, <1>4 DEF I, SamePrio
<1>7. p = RemoveAt(q, k)
  BY <1>1, OrderedDistinct, RemoveFirstIs
<1> HIDE DEF p
<1>8. /\ p \in Seq(Threads) /\ Len(p) = Len(q) - 1
      /\ \A j \in 1..(Len(q) - 1) : p[j] = IF j < k THEN q[j] ELSE q[j + 1]
  BY <1>7, RemoveAtIs
<1>9. last \in 1..(Len(p) + 1)
  BY <1>6, <1>8
<1>10. /\ r \in Seq(Threads) /\ Len(r) = Len(p) + 1
       /\ \A j \in 1..(Len(p) + 1) :
            r[j] = IF j < last THEN p[j] ELSE IF j = last THEN t ELSE p[j - 1]
  <2>1. p \in Seq(Threads)
    BY <1>8
  <2>2. /\ InsertAt(p, last, t) \in Seq(Threads)
        /\ Len(InsertAt(p, last, t)) = Len(p) + 1
        /\ \A j \in 1..(Len(p) + 1) : InsertAt(p, last, t)[j] =
             IF j < last THEN p[j] ELSE IF j = last THEN t ELSE p[j - 1]
    BY <1>9, <2>1, InsertAtIs
  <2>3. QED
    BY <1>5, <2>2
<1>11. Len(r) = Len(q) /\ Len(q) \in Nat
  BY <1>8, <1>10
<1> DEFINE f(j) == IF j < k \/ j > last THEN j ELSE IF j = last THEN k ELSE j + 1
<1>12. \A j \in 1..Len(q) : r[j] = q[f(j)] /\ f(j) \in 1..Len(q)
  <2> SUFFICES ASSUME NEW j \in 1..Len(q) PROVE r[j] = q[f(j)] /\ f(j) \in 1..Len(q)
    OBVIOUS
  <2>1. CASE j < k
    <3>1. j \in 1..(Len(q) - 1) /\ j < last
      BY <1>6, <2>1
    <3>2. r[j] = p[j] /\ p[j] = q[j]
      BY <1>8, <1>10, <2>1, <3>1
    <3>3. QED
      BY <2>1, <3>2
  <2>2. CASE j >= k /\ j < last
    <3>1. j \in 1..(Len(q) - 1) /\ ~(j < k) /\ j + 1 \in 1..Len(q)
      BY <1>6, <2>2
    <3>2. r[j] = p[j] /\ p[j] = q[j + 1]
      BY <1>8, <1>10, <2>2, <3>1
    <3>3. QED
      BY <1>6, <2>2, <3>1, <3>2
  <2>3. CASE j = last
    BY SMTT(30), <1>1, <1>6, <1>8, <1>10, <2>3
  <2>4. CASE j > last
    <3>1. j - 1 \in 1..(Len(q) - 1) /\ j - 1 >= k /\ (j - 1) + 1 = j
      BY <1>6, <2>4
    <3>2. r[j] = p[j - 1] /\ p[j - 1] = q[(j - 1) + 1]
      BY <1>6, <1>8, <1>10, <2>4, <3>1
    <3>3. QED
      BY <2>4, <3>1, <3>2
  <2>5. QED
    BY <1>6, <2>1, <2>2, <2>3, <2>4
<1>13. \A j \in 1..Len(q) : q[j] \in Threads /\ pr[q[j]] \in Nat
  OBVIOUS
<1>14. Ordered(r, pr)
  <2> SUFFICES ASSUME NEW i \in 1..Len(q), NEW j \in 1..Len(q), i < j
               PROVE  r[i] # r[j] /\ pr[r[i]] <= pr[r[j]]
    BY <1>11 DEF Ordered
  <2>1. CASE f(i) < f(j)
    <3>1. q[f(i)] # q[f(j)] /\ pr[q[f(i)]] <= pr[q[f(j)]]
      BY <1>12, <2>1 DEF Ordered
    <3>2. QED
      BY <1>12, <3>1
  <2>2. CASE ~(f(i) < f(j))
    <3>1. j = last /\ f(j) = k /\ f(i) > k /\ f(i) <= last
      BY <1>6, <2>2
    <3>2. q[f(i)] # q[k] /\ f(i) \in 1..Len(q)
      BY <1>12, <3>1 DEF Ordered
    <3>3. pr[q[f(i)]] <= pr[q[last]]
      <4>1. CASE f(i) = last
        BY SMTT(30), <1>13, <3>2, <4>1
      <4>2. CASE f(i) < last
        <5>1. last \in 1..Len(q)
          BY <1>6
        <5>2. QED
          BY <3>2, <4>2, <5>1 DEF Ordered
      <4>3. QED
        BY <1>6, <3>1, <3>2, <4>1, <4>2
    <3>4. QED
      BY <1>1, <1>6, <1>12, <3>1, <3>2, <3>3
  <2>3. QED
    BY <2>1, <2>2
<1>15. ASSUME NEW u \in Threads
       PROVE  InQueue(r, u) <=> InQueue(q, u)
  <2>1. Contains(p, u) <=> Contains(q, u) /\ u # t
    BY <1>1, <1>7, OrderedDistinct, RemoveAtHas
  <2>2. Contains(r, u) <=> Contains(p, u) \/ u = t
    BY <1>5, <1>8, <1>9, InsertAtHas
  <2>3. QED
    BY <2>1, <2>2, QueuedIsContained
<1>16. ASSUME NEW u \in OnProc(q), u # t
       PROVE  u \in OnProc(r)
  <2>1. PICK i \in 1..Len(q) : i <= HwThreads /\ u = q[i]
    BY HwAssumption DEF OnProc
  <2>2. i # k
    BY <1>1, <1>16, <2>1
  <2> DEFINE j == IF i > k /\ i <= last THEN i - 1 ELSE i
  <2>3. j \in 1..Len(q) /\ j <= i /\ f(j) = i
    BY <1>6, <2>2
  <2>4. r[j] = u
    BY <1>12, <2>1, <2>3
  <2>5. j \in 1..Len(r) /\ j <= HwThreads
    BY <1>11, <2>1, <2>3, HwAssumption
  <2>6. QED
    BY <1>11, <2>4, <2>5, HwAssumption DEF OnProc
<1>17. QED
  BY <1>10, <1>14, <1>15, <1>16 DEF r

(***************************************************************************)
(* A queued thread may proceed or is beyond the limit; who may proceed is  *)
(* queued.                                                                 *)
(***************************************************************************)
LEMMA OnProcOrExtra ==
  ASSUME NEW q \in Seq(Threads), NEW t
  PROVE  /\ InQueue(q, t) => t \in OnProc(q) \/ t \in Extra(q)
         /\ t \in OnProc(q) => InQueue(q, t)
<1>1. ASSUME NEW i \in 1..Len(q), q[i] = t
      PROVE  t \in OnProc(q) \/ t \in Extra(q)
  <2>1. CASE i <= HwThreads
    BY <1>1, <2>1, HwAssumption DEF OnProc
  <2>2. CASE i > HwThreads
    BY <1>1, <2>2, HwAssumption DEF Extra
  <2>3. QED
    BY <2>1, <2>2, HwAssumption
<1>2. ASSUME t \in OnProc(q) PROVE InQueue(q, t)
  BY <1>2, HwAssumption DEF OnProc, InQueue
<1>3. QED
  BY <1>1, <1>2 DEF InQueue

-----------------------------------------------------------------------------
(* The pieces of the scheduler *)

(***************************************************************************)
(* The fields of a scheduler state have their types.                       *)
(***************************************************************************)
LEMMA SchedFields ==
  ASSUME NEW S \in Sched
  PROVE  /\ S.ppu \in Seq(Threads)
         /\ S.state \in [Threads -> SUBSET Flags]
         /\ S.ack \in [Threads -> BOOLEAN]
         /\ S.pending \in Nat
         /\ S.waiting \in [Threads -> Nat]
         /\ S.cancel \in [Threads -> 0..2]
BY DEF Sched

(***************************************************************************)
(* What t relies on survives a change that keeps it.                       *)
(***************************************************************************)
LEMMA KeptLocal ==
  ASSUME NEW S, NEW T, NEW t \in Threads, Kept(S, T, t), NEW l, NEW q \in BOOLEAN,
         Local(S, l, q, t)
  PROVE  Local(T, l, q, t)
BY DEF Kept, Local

(***************************************************************************)
(* emplace_thread: u is in g_ppu afterwards, the suspensions stay as they  *)
(* are, and an announced sleep of u is cancelled.                          *)
(***************************************************************************)
LEMMA EmplaceCore ==
  ASSUME NEW S, NEW pr \in [Threads -> Nat], Core(S, pr), NEW u \in Threads,
         CoveredBut(S, u), NEW T, T = EmplaceThread(S, pr, u)
  PROVE  /\ Core(T, pr)
         /\ \A t \in Threads : "suspend" \notin T.state[t] => InQueue(T.ppu, t)
         /\ \A t \in Threads : Kept(S, T, t)
         /\ InQueue(T.ppu, u)
         /\ InQueue(S.ppu, u) /\ S.cancel[u] = 1 => T.cancel[u] = 2
<1> DEFINE k == Position(S.ppu, pr, u)
<1>1. /\ S \in Sched
      /\ S.ppu \in Seq(Threads) /\ S.cancel \in [Threads -> 0..2]
      /\ S.waiting \in [Threads -> Nat] /\ Ordered(S.ppu, pr)
      /\ \A t \in Threads : CoreOf(S, t)
  BY SchedFields DEF Core
<1>2. InQueue(S.ppu, u) <=> k <= Len(S.ppu) /\ S.ppu[k] = u
  BY <1>1, PositionIs
<1>3. CASE InQueue(S.ppu, u)
  <2>1. T = [S EXCEPT !.cancel[u] = IF @ = 1 THEN 2 ELSE @]
    BY <1>2, <1>3 DEF EmplaceThread
  <2>2. /\ T \in Sched
        /\ T.ppu = S.ppu /\ T.state = S.state /\ T.ack = S.ack
        /\ T.pending = S.pending /\ T.waiting = S.waiting
        /\ T.cancel = [S.cancel EXCEPT ![u] = IF @ = 1 THEN 2 ELSE @]
    <3> DEFINE c == [S.cancel EXCEPT ![u] = IF @ = 1 THEN 2 ELSE @]
    <3>1. c \in [Threads -> 0..2]
      BY <1>1
    <3>2. T = [S EXCEPT !.cancel = c]
      BY <1>1, <2>1 DEF Sched
    <3> HIDE DEF c
    <3>3. /\ T \in Sched
          /\ T.ppu = S.ppu /\ T.state = S.state /\ T.ack = S.ack
          /\ T.pending = S.pending /\ T.waiting = S.waiting /\ T.cancel = c
      BY <1>1, <3>1, <3>2 DEF Sched
    <3>4. QED
      BY <3>3 DEF c
  <2>3. Core(T, pr)
    BY <2>2 DEF Core, CoreOf, Acks
  <2>4. \A t \in Threads : "suspend" \notin T.state[t] => InQueue(T.ppu, t)
    BY <1>3, <2>2 DEF CoveredBut
  <2>5. \A t \in Threads : Kept(S, T, t)
    BY <1>1, <2>2 DEF Kept
  <2>6. QED
    BY <1>1, <1>3, <2>2, <2>3, <2>4, <2>5
<1>4. CASE ~InQueue(S.ppu, u)
  <2> DEFINE r == InsertAt(S.ppu, k, u)
  <2>1. T = [S EXCEPT !.ppu = InsertAt(@, k, u),
                      !.waiting[u] = IF @ > 0 THEN @ - 1 ELSE 0]
    BY <1>2, <1>4 DEF EmplaceThread
  <2>2. /\ r \in Seq(Threads)
        /\ Ordered(r, pr)
        /\ \A t \in Threads : InQueue(r, t) <=> InQueue(S.ppu, t) \/ t = u
    BY <1>1, <1>4, InsertOrdered
  <2> HIDE DEF k
  <2>3. T = [S EXCEPT !.ppu = r, !.waiting[u] = IF @ > 0 THEN @ - 1 ELSE 0]
    BY <1>1, <2>1
  <2> HIDE DEF r
  <2>4. /\ T \in Sched
        /\ T.ppu = r /\ T.state = S.state /\ T.ack = S.ack
        /\ T.pending = S.pending /\ T.cancel = S.cancel
        /\ T.waiting = [S.waiting EXCEPT ![u] = IF @ > 0 THEN @ - 1 ELSE 0]
    <3> DEFINE w == [S.waiting EXCEPT ![u] = IF @ > 0 THEN @ - 1 ELSE 0]
    <3>1. w \in [Threads -> Nat]
      BY <1>1
    <3>2. T = [S EXCEPT !.ppu = r, !.waiting = w]
      BY <1>1, <2>3 DEF Sched
    <3> HIDE DEF w
    <3>3. /\ T \in Sched
          /\ T.ppu = r /\ T.state = S.state /\ T.ack = S.ack
          /\ T.pending = S.pending /\ T.cancel = S.cancel /\ T.waiting = w
      BY <1>1, <2>2, <3>1, <3>2 DEF Sched
    <3>4. QED
      BY <3>3 DEF w
  <2>5. \A t \in Threads : CoreOf(T, t)
    BY <1>1, <2>2, <2>4 DEF CoreOf
  <2>6. Core(T, pr)
    BY <2>2, <2>4, <2>5 DEF Core, Acks
  <2>7. \A t \in Threads : "suspend" \notin T.state[t] => InQueue(T.ppu, t)
    BY <2>2, <2>4 DEF CoveredBut
  <2>8. \A t \in Threads : Kept(S, T, t)
    BY <2>2, <2>4 DEF Kept
  <2>9. QED
    BY <1>4, <2>2, <2>4, <2>6, <2>7, <2>8
<1>5. QED
  BY <1>3, <1>4

(***************************************************************************)
(* The suspending loop: afterwards only the threads at the head of g_ppu   *)
(* are not told to suspend, and g_pending counts the new suspensions.      *)
(***************************************************************************)
LEMMA SuspendExtraCore ==
  ASSUME NEW S, NEW pr, Core(S, pr), NEW T, T = SuspendExtra(S),
         \A t \in Threads : "suspend" \notin S.state[t] => InQueue(S.ppu, t)
  PROVE  /\ Core(T, pr)
         /\ OnProcOnly(T)
         /\ T.ppu = S.ppu /\ T.cancel = S.cancel
         /\ \A t \in Threads : Kept(S, T, t)
<1> DEFINE hit == {t \in Extra(S.ppu) : "suspend" \notin S.state[t]}
<1>1. /\ S \in Sched /\ S.ppu \in Seq(Threads) /\ S.pending \in Nat
      /\ S.state \in [Threads -> SUBSET Flags]
      /\ S.ack \in [Threads -> BOOLEAN]
      /\ S.pending = Cardinality(Acks(S))
      /\ \A t \in Threads : CoreOf(S, t)
  BY SchedFields DEF Core
<1>2. hit \subseteq Threads
  BY <1>1, HwAssumption DEF Extra
<1>3. IsFiniteSet(hit) /\ IsFiniteSet(Acks(S))
  BY <1>2, ThreadsAssumption, FS_Subset DEF Acks
<1>4. Cardinality(hit) \in Nat /\ Cardinality(Acks(S)) \in Nat
  BY <1>3, FS_CardinalityType
<1>5. T = [S EXCEPT
            !.state = [t \in Threads |->
                         IF t \in hit THEN @[t] \union {"suspend"} ELSE @[t]],
            !.ack = [t \in Threads |-> @[t] \/ t \in hit],
            !.pending = @ + Cardinality(hit)]
  BY DEF SuspendExtra
<1> HIDE DEF hit
<1>6. /\ T.ppu = S.ppu /\ T.cancel = S.cancel /\ T.waiting = S.waiting
      /\ T.state = [t \in Threads |->
                      IF t \in hit THEN S.state[t] \union {"suspend"} ELSE S.state[t]]
      /\ T.ack = [t \in Threads |-> S.ack[t] \/ t \in hit]
      /\ T.pending = S.pending + Cardinality(hit)
  BY <1>1, <1>5 DEF Sched
<1>7. T \in Sched
  <2>1. /\ T.state \in [Threads -> SUBSET Flags]
        /\ T.ack \in [Threads -> BOOLEAN]
        /\ T.pending \in Nat
    BY <1>1, <1>4, <1>6 DEF Flags
  <2>2. QED
    BY <1>1, <1>5, <1>6, <2>1 DEF Sched
<1>8. T.pending = Cardinality(Acks(T))
  <2>1. Acks(S) \cap hit = {}
    BY <1>1 DEF Acks, CoreOf, hit
  <2>2. Acks(T) = Acks(S) \union hit
    BY <1>2, <1>6 DEF Acks
  <2>3. Cardinality(Acks(S) \union hit) = Cardinality(Acks(S)) + Cardinality(hit)
    BY <1>3, <1>4, <2>1, FS_Union, FS_EmptySet
  <2>4. QED
    BY <1>1, <1>6, <2>2, <2>3
<1>9. \A t \in Threads : CoreOf(T, t)
  BY <1>1, <1>6 DEF CoreOf
<1>10. Core(T, pr)
  BY <1>6, <1>7, <1>8, <1>9 DEF Core
<1>11. OnProcOnly(T)
  <2> SUFFICES ASSUME NEW t \in Threads, "suspend" \notin T.state[t]
               PROVE  t \in OnProc(T.ppu)
    BY DEF OnProcOnly
  <2>1. t \notin hit /\ "suspend" \notin S.state[t]
    BY <1>6
  <2>2. t \notin Extra(S.ppu)
    BY <2>1 DEF hit
  <2>3. QED
    BY <1>1, <1>6, <2>1, <2>2, OnProcOrExtra
<1>12. ASSUME NEW t \in Threads PROVE Kept(S, T, t)
  <2>1. CASE t \in hit
    BY <1>6, <2>1 DEF Kept
  <2>2. CASE t \notin hit
    <3>1. T.state[t] = S.state[t] /\ (T.ack[t] <=> S.ack[t])
      BY <1>6, <2>2
    <3>2. QED
      BY <1>6, <3>1 DEF Kept
  <2>3. QED
    BY <2>1, <2>2
<1>13. QED
  BY <1>6, <1>10, <1>11, <1>12

(***************************************************************************)
(* The caller acknowledges its own suspension and nobody else's.           *)
(***************************************************************************)
LEMMA AckSelfCore ==
  ASSUME NEW S, NEW pr, Core(S, pr), NEW me, NEW T, T = AckSelf(S, me)
  PROVE  /\ Core(T, pr)
         /\ OnProcOnly(S) => OnProcOnly(T)
         /\ T.ppu = S.ppu /\ T.state = S.state /\ T.waiting = S.waiting
         /\ T.cancel = S.cancel
         /\ \A t \in Threads \ {me} : T.ack[t] <=> S.ack[t]
         /\ me \in Threads => ~T.ack[me]
<1>1. /\ S \in Sched /\ S.pending \in Nat
      /\ S.ack \in [Threads -> BOOLEAN]
      /\ S.pending = Cardinality(Acks(S))
      /\ \A t \in Threads : CoreOf(S, t)
  BY SchedFields DEF Core
<1>2. CASE me \in Threads /\ S.ack[me]
  <2> DEFINE a == [S.ack EXCEPT ![me] = FALSE]
  <2>1. IsFiniteSet(Acks(S)) /\ me \in Acks(S)
    BY <1>2, ThreadsAssumption, FS_Subset DEF Acks
  <2>2. /\ Cardinality(Acks(S) \ {me}) = Cardinality(Acks(S)) - 1
        /\ IsFiniteSet(Acks(S) \ {me})
    BY <2>1, FS_RemoveElement
  <2>3. S.pending - 1 \in Nat
    BY <1>1, <2>2, FS_CardinalityType
  <2>4. a \in [Threads -> BOOLEAN]
    BY <1>1
  <2>5. T = [S EXCEPT !.ack = a, !.pending = S.pending - 1]
    BY <1>1, <1>2 DEF AckSelf, Sched
  <2> HIDE DEF a
  <2>6. /\ T \in Sched
        /\ T.ppu = S.ppu /\ T.state = S.state /\ T.waiting = S.waiting
        /\ T.cancel = S.cancel /\ T.ack = a /\ T.pending = S.pending - 1
    BY <1>1, <2>3, <2>4, <2>5 DEF Sched
  <2>7. \A t \in Threads : T.ack[t] <=> S.ack[t] /\ t # me
    BY <1>1, <1>2, <2>6 DEF a
  <2>8. Acks(T) = Acks(S) \ {me}
    BY <2>7 DEF Acks
  <2>9. \A t \in Threads : CoreOf(T, t)
    BY <1>1, <2>6, <2>7 DEF CoreOf
  <2>10. T.pending = Cardinality(Acks(T))
    BY <1>1, <2>2, <2>6, <2>8
  <2>11. Core(T, pr)
    BY <2>6, <2>9, <2>10 DEF Core
  <2>12. QED
    BY <1>2, <2>6, <2>7, <2>11 DEF OnProcOnly
<1>3. CASE ~(me \in Threads /\ S.ack[me])
  <2>1. T = S
    BY <1>3 DEF AckSelf
  <2>2. QED
    BY <1>3, <2>1
<1>4. QED
  BY <1>2, <1>3

(***************************************************************************)
(* schedule_all: afterwards nobody at the head of g_ppu is held back       *)
(* without need, and nobody who runs or is about to sleep is signalled or  *)
(* notified: a running thread told to suspend has not acknowledged yet.    *)
(***************************************************************************)
LEMMA ScheduleAllCore ==
  ASSUME NEW S, NEW pr, Core(S, pr), OnProcOnly(S), NEW me,
         NEW e \in Expirable(S), NEW T, T = ScheduleAll(S, me, e)
  PROVE  /\ Core(T, pr)
         /\ OnProcOnly(T)
         /\ Saturated(T)
         /\ \A l : \A t \in Threads, q \in BOOLEAN :
              Local(S, l, q, t) => Local(T, l, q, t)
<1> DEFINE go == IF S.pending = 0
                 THEN {t \in OnProc(S.ppu) : "suspend" \in S.state[t]} ELSE {}
           f(t) == IF t \in go THEN (S.state[t] \ {"suspend"}) \union {"signal"}
                   ELSE S.state[t]
           st == [t \in Threads |->
                    IF t \in e /\ t # me THEN f(t) \union {"notify"} ELSE f(t)]
           w == [t \in Threads |-> IF t \in e THEN S.waiting[t] - 1 ELSE S.waiting[t]]
<1>1. /\ S \in Sched /\ S.pending \in Nat
      /\ S.ppu \in Seq(Threads)
      /\ S.state \in [Threads -> SUBSET Flags]
      /\ S.ack \in [Threads -> BOOLEAN]
      /\ S.waiting \in [Threads -> Nat]
      /\ S.pending = Cardinality(Acks(S))
      /\ \A t \in Threads : CoreOf(S, t)
  BY SchedFields DEF Core
<1>2. \A t \in e : t \in Threads /\ S.waiting[t] = 1
  BY <1>1 DEF Expirable, CoreOf
<1>3. ASSUME NEW t \in Threads, S.ack[t] PROVE S.pending # 0
  <2>1. IsFiniteSet(Acks(S)) /\ Acks(S) # {}
    BY <1>3, ThreadsAssumption, FS_Subset DEF Acks
  <2>2. QED
    BY <1>1, <2>1, FS_EmptySet
<1>4. \A t \in go : "suspend" \in S.state[t] /\ S.pending = 0 /\ t \in OnProc(S.ppu)
  OBVIOUS
<1>5. \A t \in OnProc(S.ppu) : S.pending = 0 /\ "suspend" \in S.state[t] => t \in go
  OBVIOUS
<1>6. T = [S EXCEPT !.state = st, !.waiting = w]
  BY <1>1 DEF ScheduleAll, Sched
<1> HIDE DEF go
<1>7. st \in [Threads -> SUBSET Flags] /\ w \in [Threads -> Nat]
  BY <1>1, <1>2 DEF Flags
<1> HIDE DEF st, w
<1>8. /\ T \in Sched
      /\ T.ppu = S.ppu /\ T.ack = S.ack /\ T.pending = S.pending
      /\ T.cancel = S.cancel /\ T.state = st /\ T.waiting = w
  BY <1>1, <1>6, <1>7 DEF Sched
<1>9. \A t \in Threads :
        /\ t \notin go => ("suspend" \in T.state[t] <=> "suspend" \in S.state[t])
        /\ t \notin go => ("signal" \in T.state[t] <=> "signal" \in S.state[t])
        /\ t \in go => "suspend" \notin T.state[t] /\ "signal" \in T.state[t]
        /\ t \notin e => ("notify" \in T.state[t] <=> "notify" \in S.state[t])
  BY <1>8 DEF st
<1>10. \A t \in Threads :
         T.waiting[t] = IF t \in e THEN S.waiting[t] - 1 ELSE S.waiting[t]
  BY <1>8 DEF w
<1>11. ASSUME NEW t \in Threads PROVE CoreOf(T, t)
  <2>1. T.ack[t] => "suspend" \in T.state[t]
    BY <1>1, <1>3, <1>4, <1>8, <1>9 DEF CoreOf
  <2>2. /\ InQueue(T.ppu, t) => T.waiting[t] = 0
        /\ T.waiting[t] <= 1
        /\ T.waiting[t] = 1 => t \notin e /\ S.waiting[t] = 1
    BY <1>1, <1>2, <1>8, <1>10 DEF CoreOf
  <2>3. T.waiting[t] = 1 => "notify" \notin T.state[t]
    BY <1>1, <1>9, <2>2 DEF CoreOf
  <2>4. QED
    BY <2>1, <2>2, <2>3 DEF CoreOf
<1>12. Core(T, pr)
  BY <1>8, <1>11 DEF Core, Acks
<1>13. OnProcOnly(T)
  BY <1>4, <1>8, <1>9 DEF OnProcOnly
<1>14. Saturated(T)
  <2> SUFFICES ASSUME T.pending = 0, NEW t \in OnProc(T.ppu)
               PROVE  "suspend" \notin T.state[t]
    BY DEF Saturated
  <2>1. t \in Threads
    BY <1>1, <1>8, HwAssumption DEF OnProc
  <2>2. QED
    BY <1>5, <1>8, <1>9, <2>1
<1>15. ASSUME NEW t \in Threads, NEW l, NEW q \in BOOLEAN, Local(S, l, q, t)
       PROVE  Local(T, l, q, t)
  <2>1. CASE l \in {"guest", "presleep"}
    <3>1. /\ "signal" \notin S.state[t] /\ "notify" \notin S.state[t]
          /\ InQueue(S.ppu, t)
          /\ "suspend" \in S.state[t] => S.ack[t]
      BY <1>15, <2>1 DEF Local
    <3>2. t \notin go
      BY <1>3, <1>4, <3>1
    <3>3. t \notin e
      BY <1>1, <1>2, <3>1 DEF CoreOf
    <3>4. QED
      BY <1>8, <1>9, <1>15, <2>1, <3>1, <3>2, <3>3 DEF Local
  <2>2. CASE l \notin {"guest", "presleep"}
    <3>1. "signal" \in S.state[t] => "signal" \in T.state[t]
      BY <1>9
    <3>2. QED
      BY <1>8, <1>15, <2>2, <3>1 DEF Local
  <2>3. QED
    BY <2>1, <2>2
<1>16. QED
  BY <1>12, <1>13, <1>14, <1>15

(***************************************************************************)
(* awake: u is in g_ppu, and nothing is lost for the other threads.        *)
(***************************************************************************)
LEMMA AwakeCore ==
  ASSUME NEW S, NEW pr \in [Threads -> Nat], Core(S, pr), NEW u \in Threads,
         CoveredBut(S, u), NEW me, NEW T, T = Awake(S, pr, me, u)
  PROVE  /\ Core(T, pr)
         /\ OnProcOnly(T)
         /\ \A t \in Threads \ {me} : Kept(S, T, t)
         /\ InQueue(T.ppu, u)
         /\ InQueue(S.ppu, u) /\ S.cancel[u] = 1 => T.cancel[u] = 2
<1> DEFINE E == EmplaceThread(S, pr, u)
           X == SuspendExtra(E)
<1>1. /\ Core(E, pr)
      /\ \A t \in Threads : "suspend" \notin E.state[t] => InQueue(E.ppu, t)
      /\ \A t \in Threads : Kept(S, E, t)
      /\ InQueue(E.ppu, u)
      /\ InQueue(S.ppu, u) /\ S.cancel[u] = 1 => E.cancel[u] = 2
  BY EmplaceCore
<1>2. T = AckSelf(X, me)
  BY DEF Awake
<1> HIDE DEF E
<1>3. /\ Core(X, pr) /\ OnProcOnly(X)
      /\ X.ppu = E.ppu /\ X.cancel = E.cancel
      /\ \A t \in Threads : Kept(E, X, t)
  BY <1>1, SuspendExtraCore
<1> HIDE DEF X
<1>4. /\ Core(T, pr) /\ OnProcOnly(T)
      /\ T.ppu = X.ppu /\ T.state = X.state /\ T.cancel = X.cancel
      /\ \A t \in Threads \ {me} : T.ack[t] <=> X.ack[t]
  BY <1>2, <1>3, AckSelfCore
<1>5. ASSUME NEW t \in Threads \ {me} PROVE Kept(S, T, t)
  <2>1. Kept(S, E, t) /\ Kept(E, X, t) /\ (T.ack[t] <=> X.ack[t])
    BY <1>1, <1>3, <1>4
  <2>2. QED
    BY <1>4, <2>1 DEF Kept
<1>6. QED
  BY <1>1, <1>3, <1>4, <1>5

(***************************************************************************)
(* sleep_unlocked: a thread that runs, or has announced its sleep, leaves  *)
(* g_ppu without a trace for the others.                                   *)
(***************************************************************************)
LEMMA SleepUnlockedCore ==
  ASSUME NEW S, NEW pr, Core(S, pr), OnProcOnly(S), NEW t \in Threads,
         "signal" \notin S.state[t], "notify" \notin S.state[t], InQueue(S.ppu, t),
         NEW to \in BOOLEAN, NEW T, T = SleepUnlocked(S, t, to)
  PROVE  /\ Core(T, pr)
         /\ OnProcOnly(T)
         /\ \A u \in Threads \ {t} : Kept(S, T, u)
<1> DEFINE K == AckSelf(S, t)
           c == [K.cancel EXCEPT ![t] = 0]
           st == [K.state EXCEPT ![t] = @ \union {"suspend"}]
           w == [K.waiting EXCEPT ![t] = IF to THEN @ + 1 ELSE @]
           r == RemoveFirst(K.ppu, t)
<1>1. /\ Core(K, pr) /\ OnProcOnly(K)
      /\ K.ppu = S.ppu /\ K.state = S.state /\ K.waiting = S.waiting
      /\ K.cancel = S.cancel
      /\ \A u \in Threads \ {t} : K.ack[u] <=> S.ack[u]
      /\ ~K.ack[t]
  BY AckSelfCore
<1> HIDE DEF K
<1>2. /\ K \in Sched /\ Ordered(K.ppu, pr)
      /\ K.pending = Cardinality(Acks(K))
      /\ \A u \in Threads : CoreOf(K, u)
  BY <1>1 DEF Core
<1>3. /\ K.ppu \in Seq(Threads)
      /\ K.state \in [Threads -> SUBSET Flags]
      /\ K.waiting \in [Threads -> Nat]
      /\ K.cancel \in [Threads -> 0..2]
  BY <1>2, SchedFields
<1>4. /\ r \in Seq(Threads)
      /\ Ordered(r, pr)
      /\ \A u \in Threads : InQueue(r, u) <=> InQueue(K.ppu, u) /\ u # t
      /\ \A u \in OnProc(K.ppu) : u # t => u \in OnProc(r)
  BY <1>1, <1>2, <1>3, RemoveOrdered
<1>5. T = [K EXCEPT !.ppu = r, !.cancel = c, !.state = st, !.waiting = w]
  <2> DEFINE A == [K EXCEPT !.cancel[t] = 0]
             B == [A EXCEPT !.state[t] = @ \union {"suspend"}]
  <2>1. A = [K EXCEPT !.cancel = c]
    BY <1>2 DEF Sched
  <2>2. A.ppu = K.ppu /\ A.state = K.state /\ A.waiting = K.waiting
    BY <1>2, <2>1 DEF Sched
  <2>3. T = [B EXCEPT !.ppu = RemoveFirst(@, t), !.waiting[t] = IF to THEN @ + 1 ELSE @]
    BY <1>1, <2>2 DEF SleepUnlocked, K
  <2>4. B = [K EXCEPT !.cancel = c, !.state = st]
    BY <1>2, <2>1, <2>2 DEF Sched
  <2> HIDE DEF A, B, c, st
  <2>5. B.ppu = K.ppu /\ B.waiting = K.waiting
    BY <1>2, <2>4 DEF Sched
  <2>6. QED
    BY <1>2, <2>3, <2>4, <2>5 DEF Sched
<1> HIDE DEF r
<1>6. /\ c \in [Threads -> 0..2]
      /\ st \in [Threads -> SUBSET Flags]
      /\ w \in [Threads -> Nat]
  BY <1>3 DEF Flags
<1>7. \A u \in Threads :
        /\ u # t => c[u] = K.cancel[u] /\ st[u] = K.state[u] /\ w[u] = K.waiting[u]
        /\ "suspend" \in st[t]
        /\ "notify" \notin st[t]
        /\ w[t] <= 1
  BY <1>1, <1>2, <1>3 DEF CoreOf
<1> HIDE DEF c, st, w
<1>8. /\ T \in Sched
      /\ T.ppu = r /\ T.cancel = c /\ T.state = st /\ T.waiting = w
      /\ T.ack = K.ack /\ T.pending = K.pending
  BY <1>2, <1>4, <1>5, <1>6 DEF Sched
<1>9. ASSUME NEW u \in Threads PROVE CoreOf(T, u)
  <2>1. CASE u = t
    BY <1>1, <1>4, <1>7, <1>8, <2>1 DEF CoreOf
  <2>2. CASE u # t
    BY <1>2, <1>4, <1>7, <1>8, <2>2 DEF CoreOf
  <2>3. QED
    BY <2>1, <2>2
<1>10. Core(T, pr)
  BY <1>2, <1>4, <1>8, <1>9 DEF Core, Acks
<1>11. OnProcOnly(T)
  BY <1>1, <1>4, <1>7, <1>8 DEF OnProcOnly
<1>12. ASSUME NEW u \in Threads \ {t} PROVE Kept(S, T, u)
  <2>1. /\ T.state[u] = S.state[u] /\ T.cancel[u] = S.cancel[u]
        /\ T.ack[u] <=> S.ack[u]
        /\ InQueue(T.ppu, u) <=> InQueue(S.ppu, u)
    BY <1>1, <1>4, <1>7, <1>8
  <2>2. QED
    BY <2>1 DEF Kept
<1>13. QED
  BY <1>10, <1>11, <1>12

(***************************************************************************)
(* yield_cmd: without a context switch the caller stays among the threads  *)
(* that may proceed; with one, who is pushed out is told to suspend.       *)
(***************************************************************************)
LEMMA YieldCore ==
  ASSUME NEW S, NEW pr \in [Threads -> Nat], Core(S, pr), OnProcOnly(S),
         NEW t \in Threads, InQueue(S.ppu, t), NEW T, T = YieldQueue(S, pr, t)
  PROVE  /\ Core(T, pr)
         /\ OnProcOnly(T)
         /\ \A u \in Threads \ {t} : Kept(S, T, u)
<1> DEFINE r == Rotate(S.ppu, pr, t)
           R == [S EXCEPT !.ppu = r]
           X == SuspendExtra(R)
<1>1. /\ S \in Sched /\ S.ppu \in Seq(Threads) /\ Ordered(S.ppu, pr)
      /\ S.pending = Cardinality(Acks(S))
      /\ \A u \in Threads : CoreOf(S, u)
  BY SchedFields DEF Core
<1>2. /\ r \in Seq(Threads)
      /\ Ordered(r, pr)
      /\ \A u \in Threads : InQueue(r, u) <=> InQueue(S.ppu, u)
      /\ \A u \in OnProc(S.ppu) : u # t => u \in OnProc(r)
  BY <1>1, RotateOrdered
<1>3. T = IF YieldTakes(S.ppu, pr, t) THEN AckSelf(X, t) ELSE R
  BY <1>1 DEF YieldQueue
<1>4. ~YieldTakes(S.ppu, pr, t) => S.ppu = r \/ t \in OnProc(r)
  BY DEF YieldTakes
<1> HIDE DEF r
<1>5. /\ R \in Sched
      /\ R.ppu = r /\ R.state = S.state /\ R.ack = S.ack /\ R.pending = S.pending
      /\ R.waiting = S.waiting /\ R.cancel = S.cancel
  BY <1>1, <1>2 DEF Sched
<1> HIDE DEF R
<1>6. \A u \in Threads : CoreOf(R, u)
  BY <1>1, <1>2, <1>5 DEF CoreOf
<1>7. Core(R, pr)
  BY <1>1, <1>2, <1>5, <1>6 DEF Core, Acks
<1>8. \A u \in Threads : Kept(S, R, u)
  BY <1>2, <1>5 DEF Kept
<1>9. CASE YieldTakes(S.ppu, pr, t)
  <2>1. \A u \in Threads : "suspend" \notin R.state[u] => InQueue(R.ppu, u)
    BY <1>1, <1>2, <1>5, OnProcOrExtra DEF OnProcOnly
  <2>2. /\ Core(X, pr) /\ OnProcOnly(X)
        /\ \A u \in Threads : Kept(R, X, u)
    BY <1>7, <2>1, SuspendExtraCore
  <2> HIDE DEF X
  <2>3. /\ Core(T, pr) /\ OnProcOnly(T)
        /\ T.ppu = X.ppu /\ T.state = X.state /\ T.cancel = X.cancel
        /\ \A u \in Threads \ {t} : T.ack[u] <=> X.ack[u]
    BY <1>3, <1>9, <2>2, AckSelfCore
  <2>4. ASSUME NEW u \in Threads \ {t} PROVE Kept(S, T, u)
    <3>1. Kept(S, R, u) /\ Kept(R, X, u) /\ (T.ack[u] <=> X.ack[u])
      BY <1>8, <2>2, <2>3
    <3>2. QED
      BY <2>3, <3>1 DEF Kept
  <2>5. QED
    BY <2>3, <2>4
<1>10. CASE ~YieldTakes(S.ppu, pr, t)
  <2>1. OnProcOnly(R)
    BY <1>2, <1>4, <1>5, <1>10 DEF OnProcOnly
  <2>2. QED
    BY <1>3, <1>7, <1>8, <1>10, <2>1
<1>11. QED
  BY <1>9, <1>10

(***************************************************************************)
(* set_priority: a queued thread is moved to the place of its new          *)
(* priority, and the order holds for the new priorities.                   *)
(***************************************************************************)
LEMMA ReprioritiseCore ==
  ASSUME NEW S, NEW pr \in [Threads -> Nat], Core(S, pr), OnProcOnly(S),
         NEW u \in Threads, NEW n \in Nat, NEW me,
         NEW pn, pn = [pr EXCEPT ![u] = n], NEW T, T = Reprioritise(S, pn, me, u)
  PROVE  /\ Core(T, pn)
         /\ OnProcOnly(T)
         /\ \A t \in Threads \ {me} : Kept(S, T, t)
<1>1. /\ S \in Sched /\ S.ppu \in Seq(Threads) /\ Ordered(S.ppu, pr)
      /\ S.pending = Cardinality(Acks(S))
      /\ \A t \in Threads : CoreOf(S, t)
  BY SchedFields DEF Core
<1>2. pn \in [Threads -> Nat] /\ \A t \in Threads : t # u => pn[t] = pr[t]
  OBVIOUS
<1>3. ASSUME NEW q \in Seq(Threads), Ordered(q, pr), ~InQueue(q, u)
      PROVE  Ordered(q, pn)
  <2>1. \A i \in 1..Len(q) : q[i] \in Threads /\ q[i] # u
    BY <1>3 DEF InQueue
  <2>2. QED
    BY <1>2, <1>3, <2>1 DEF Ordered
<1>4. CASE InQueue(S.ppu, u)
  <2> DEFINE r == RemoveFirst(S.ppu, u)
             R == [S EXCEPT !.ppu = r]
  <2>1. /\ r \in Seq(Threads)
        /\ Ordered(r, pr)
        /\ \A t \in Threads : InQueue(r, t) <=> InQueue(S.ppu, t) /\ t # u
    BY <1>1, <1>4, RemoveOrdered
  <2>2. T = Awake(R, pn, me, u)
    BY <1>1, <1>4 DEF Reprioritise
  <2> HIDE DEF r
  <2>3. /\ R \in Sched
        /\ R.ppu = r /\ R.state = S.state /\ R.ack = S.ack /\ R.pending = S.pending
        /\ R.waiting = S.waiting /\ R.cancel = S.cancel
    BY <1>1, <2>1 DEF Sched
  <2> HIDE DEF R
  <2>4. \A t \in Threads : CoreOf(R, t)
    BY <1>1, <2>1, <2>3 DEF CoreOf
  <2>5. Ordered(r, pn)
    BY <1>3, <2>1
  <2>6. Core(R, pn)
    BY <1>1, <2>3, <2>4, <2>5 DEF Core, Acks
  <2>7. CoveredBut(R, u)
    BY <1>1, <2>1, <2>3, OnProcOrExtra DEF OnProcOnly, CoveredBut
  <2>8. /\ Core(T, pn) /\ OnProcOnly(T)
        /\ \A t \in Threads \ {me} : Kept(R, T, t)
        /\ InQueue(T.ppu, u)
    BY ZenonT(30), <1>2, <2>2, <2>6, <2>7, AwakeCore
  <2>9. ASSUME NEW t \in Threads \ {me} PROVE Kept(S, T, t)
    <3>1. InQueue(S.ppu, t) => InQueue(T.ppu, t)
      BY <2>1, <2>3, <2>8 DEF Kept
    <3>2. Kept(R, T, t)
      BY <2>8
    <3>3. QED
      BY <2>3, <3>1, <3>2 DEF Kept
  <2>10. QED
    BY <2>8, <2>9
<1>5. CASE ~InQueue(S.ppu, u)
  <2>1. T = S
    BY <1>5 DEF Reprioritise
  <2>2. Core(T, pn)
    BY <1>1, <1>3, <1>5, <2>1 DEF Core
  <2>3. QED
    BY <2>1, <2>2 DEF Kept
<1>6. QED
  BY <1>4, <1>5

(***************************************************************************)
(* When g_mutex is free, whoever may run is in g_ppu.                      *)
(***************************************************************************)
LEMMA OnProcCovers ==
  ASSUME NEW S, NEW pr, Core(S, pr), OnProcOnly(S), NEW u
  PROVE  CoveredBut(S, u)
<1>1. S.ppu \in Seq(Threads)
  BY SchedFields DEF Core
<1>2. QED
  BY <1>1, OnProcOrExtra DEF OnProcOnly, CoveredBut

(***************************************************************************)
(* Every call ends with schedule_all, which gives the rest of the          *)
(* invariant.                                                              *)
(***************************************************************************)
LEMMA FinishInv ==
  ASSUME NEW S, NEW me, Core(S, prio'), OnProcOnly(S), Finish(S, me),
         prio' \in [Threads -> Prios], pc' \in [Threads -> PCs],
         timed' \in [Threads -> BOOLEAN], queued' \in [Threads -> BOOLEAN],
         \A t \in Threads : Local(S, pc'[t], queued'[t], t)
  PROVE  Inv'
<1>1. PICK e \in Expirable(S) : sch' = ScheduleAll(S, me, e)
  BY DEF Finish
<1>2. /\ Core(sch', prio') /\ OnProcOnly(sch') /\ Saturated(sch')
      /\ \A l : \A t \in Threads, q \in BOOLEAN :
           Local(S, l, q, t) => Local(sch', l, q, t)
  BY <1>1, ScheduleAllCore
<1>3. ASSUME NEW t \in Threads PROVE Local(sch', pc'[t], queued'[t], t)
  <2>1. queued'[t] \in BOOLEAN /\ Local(S, pc'[t], queued'[t], t)
    OBVIOUS
  <2>2. QED
    BY <1>2, <2>1
<1>4. QED
  BY <1>2, <1>3 DEF Inv

(***************************************************************************)
(* Who is awakened is in g_ppu, or its announced sleep is cancelled: it    *)
(* may be out of the object's queue.  The others notice nothing.           *)
(***************************************************************************)
LEMMA AwakeLocal ==
  ASSUME NEW S, NEW pr \in [Threads -> Nat], Core(S, pr), NEW u \in Threads,
         CoveredBut(S, u), NEW me, NEW v \in Threads, v # me,
         NEW l, NEW q \in BOOLEAN, Local(S, l, q, v)
  PROVE  /\ Local(Awake(S, pr, me, u), l, q, v)
         /\ v = u => Local(Awake(S, pr, me, u), l, FALSE, v)
<1> DEFINE W == Awake(S, pr, me, u)
<1>1. /\ Kept(S, W, v)
      /\ InQueue(W.ppu, u)
      /\ InQueue(S.ppu, u) /\ S.cancel[u] = 1 => W.cancel[u] = 2
  BY AwakeCore
<1> HIDE DEF W
<1>2. Local(W, l, q, v)
  BY <1>1, KeptLocal
<1>3. ASSUME v = u PROVE Local(W, l, FALSE, v)
  <2>1. l = "presleep" => W.cancel[u] = 2
    BY <1>1, <1>3 DEF Kept, Local
  <2>2. QED
    BY <1>1, <1>2, <1>3, <2>1 DEF Local
<1>4. QED
  BY <1>2, <1>3 DEF W

-----------------------------------------------------------------------------
(* The calls of a thread in guest code *)

(***************************************************************************)
(* Threads run only where they may: what the calls find in a state in      *)
(* which g_mutex is free.                                                  *)
(***************************************************************************)
LEMMA InvParts ==
  ASSUME Inv
  PROVE  /\ Core(sch, prio) /\ OnProcOnly(sch)
         /\ prio \in [Threads -> Nat]
         /\ \A u : CoveredBut(sch, u)
         /\ \A t \in Threads : pc[t] \in {"guest", "presleep"} =>
              /\ "signal" \notin sch.state[t] /\ "notify" \notin sch.state[t]
              /\ InQueue(sch.ppu, t)
<1>1. Core(sch, prio) /\ OnProcOnly(sch) /\ prio \in [Threads -> Prios]
  BY DEF Inv
<1>2. prio \in [Threads -> Nat]
  BY <1>1, PriosAssumption
<1>3. \A u : CoveredBut(sch, u)
  BY <1>1, OnProcCovers
<1>4. QED
  BY <1>1, <1>2, <1>3 DEF Inv, Local

(***************************************************************************)
(* A blocking call keeps the invariant, with and without a thread awakened *)
(* by it.                                                                  *)
(***************************************************************************)
LEMMA SleepInv ==
  ASSUME Inv, NEW t \in Threads, NEW to \in BOOLEAN, Sleep(t, to)
  PROVE  Inv'
<1> DEFINE S == SleepUnlocked(sch, t, to)
<1>1. /\ Core(S, prio) /\ OnProcOnly(S)
      /\ \A v \in Threads \ {t} : Kept(sch, S, v)
  BY InvParts, SleepUnlockedCore DEF Sleep
<1>2. /\ pc' \in [Threads -> PCs] /\ pc'[t] \in {"wait", "check"}
      /\ \A v \in Threads \ {t} : pc'[v] = pc[v]
      /\ timed' \in [Threads -> BOOLEAN]
      /\ prio' = prio /\ prio \in [Threads -> Prios]
  BY DEF Sleep, Goto, Inv, PCs, CheckPCs, SleepResult
<1>3. queued \in [Threads -> BOOLEAN] /\ \A v \in Threads : Local(sch, pc[v], queued[v], v)
  BY DEF Inv
<1>4. CASE Finish(S, t) /\ queued' = [queued EXCEPT ![t] = TRUE]
  <2>1. queued' \in [Threads -> BOOLEAN]
    BY <1>3, <1>4
  <2>2. ASSUME NEW v \in Threads PROVE Local(S, pc'[v], queued'[v], v)
    <3>1. CASE v = t
      BY <1>2, <1>3, <1>4, <3>1 DEF Local
    <3>2. CASE v # t
      <4>1. Local(S, pc[v], queued[v], v)
        BY <1>1, <1>3, <3>2, KeptLocal
      <4>2. QED
        BY <1>2, <1>3, <1>4, <3>2, <4>1
    <3>3. QED
      BY <3>1, <3>2
  <2>3. QED
    BY <1>1, <1>2, <1>4, <2>1, <2>2, FinishInv
<1>5. ASSUME NEW u \in Threads \ {t}, queued[u], Finish(Awake(S, prio, t, u), t),
             queued' = [queued EXCEPT ![t] = TRUE, ![u] = FALSE]
      PROVE  Inv'
  <2> DEFINE W == Awake(S, prio, t, u)
  <2>1. CoveredBut(S, u)
    BY <1>1, OnProcCovers
  <2>2. Core(W, prio) /\ OnProcOnly(W)
    BY <1>1, <2>1, InvParts, AwakeCore
  <2>3. queued' \in [Threads -> BOOLEAN]
    BY <1>3, <1>5
  <2>4. ASSUME NEW v \in Threads PROVE Local(W, pc'[v], queued'[v], v)
    <3>1. CASE v = t
      BY <1>2, <1>3, <1>5, <3>1 DEF Local
    <3>2. CASE v # t
      <4>1. Local(S, pc[v], queued[v], v) /\ queued[v] \in BOOLEAN
        BY <1>1, <1>3, <3>2, KeptLocal
      <4>2. /\ Local(W, pc[v], queued[v], v)
            /\ v = u => Local(W, pc[v], FALSE, v)
        <5>1. prio \in [Threads -> Nat] /\ v # t
          BY <3>2, InvParts
        <5>2. QED
          BY <1>1, <2>1, <4>1, <5>1, AwakeLocal, Zenon
      <4>3. QED
        BY <1>2, <1>3, <1>5, <3>2, <4>2
    <3>3. QED
      BY <3>1, <3>2
  <2>5. QED
    BY <1>2, <1>5, <2>2, <2>3, <2>4, FinishInv
<1>6. QED
  BY <1>4, <1>5 DEF Sleep

(***************************************************************************)
(* Announcing a sleep keeps the invariant.                                 *)
(***************************************************************************)
LEMMA PublishInv ==
  ASSUME Inv, NEW t \in Threads, NEW to \in BOOLEAN, Publish(t, to)
  PROVE  Inv'
<1> DEFINE c == [sch.cancel EXCEPT ![t] = 1]
<1>1. sch \in Sched /\ sch.cancel \in [Threads -> 0..2]
  BY SchedFields DEF Inv, Core
<1>2. c \in [Threads -> 0..2]
  BY <1>1
<1>3. sch' = [sch EXCEPT !.cancel = c]
  BY <1>1 DEF Publish, Sched
<1> HIDE DEF c
<1>4. /\ sch' \in Sched
      /\ sch'.ppu = sch.ppu /\ sch'.state = sch.state /\ sch'.ack = sch.ack
      /\ sch'.pending = sch.pending /\ sch'.waiting = sch.waiting /\ sch'.cancel = c
  BY <1>1, <1>2, <1>3 DEF Sched
<1>5. /\ pc' = [pc EXCEPT ![t] = "presleep"] /\ queued' = [queued EXCEPT ![t] = TRUE]
      /\ timed' = [timed EXCEPT ![t] = to] /\ prio' = prio /\ pc[t] = "guest"
  BY DEF Publish, Goto
<1>6. /\ prio' \in [Threads -> Prios] /\ pc' \in [Threads -> PCs]
      /\ timed' \in [Threads -> BOOLEAN] /\ queued' \in [Threads -> BOOLEAN]
  BY <1>5 DEF Inv, PCs
<1>7. Core(sch', prio') /\ OnProcOnly(sch') /\ Saturated(sch')
  BY <1>4, <1>5 DEF Inv, Core, CoreOf, Acks, OnProcOnly, Saturated
<1>8. ASSUME NEW v \in Threads PROVE Local(sch', pc'[v], queued'[v], v)
  <2>1. Local(sch, pc[v], queued[v], v)
    BY DEF Inv
  <2>2. CASE v = t
    BY <1>1, <1>4, <1>5, <2>1, <2>2 DEF Inv, Local, c
  <2>3. CASE v # t
    <3>1. pc'[v] = pc[v] /\ queued'[v] = queued[v] /\ sch'.cancel[v] = sch.cancel[v]
      BY <1>1, <1>4, <1>5, <2>3 DEF Inv, c
    <3>2. QED
      BY <1>4, <2>1, <3>1 DEF Local
  <2>4. QED
    BY <2>2, <2>3
<1>9. QED
  BY <1>6, <1>7, <1>8 DEF Inv

(***************************************************************************)
(* A sleep that was announced: who was awakened in between has its sleep   *)
(* cancelled and does not wait.                                            *)
(***************************************************************************)
LEMMA SleepPublishedInv ==
  ASSUME Inv, NEW t \in Threads, SleepPublished(t)
  PROVE  Inv'
<1> DEFINE S == SleepUnlocked(sch, t, timed[t])
<1>1. timed[t] \in BOOLEAN
  BY DEF Inv
<1>2. /\ Core(S, prio) /\ OnProcOnly(S)
      /\ \A v \in Threads \ {t} : Kept(sch, S, v)
  BY <1>1, InvParts, SleepUnlockedCore DEF SleepPublished
<1>3. /\ pc' \in [Threads -> PCs] /\ pc'[t] \in {"wait", "check"}
      /\ pc'[t] = "wait" => sch.cancel[t] # 2
      /\ \A v \in Threads \ {t} : pc'[v] = pc[v]
      /\ timed' \in [Threads -> BOOLEAN]
      /\ prio' = prio /\ prio \in [Threads -> Prios]
      /\ queued' = queued /\ queued \in [Threads -> BOOLEAN]
      /\ Finish(S, t)
  BY DEF SleepPublished, Goto, Inv, PCs, CheckPCs, SleepResult
<1>4. \A v \in Threads : Local(sch, pc[v], queued[v], v)
  BY DEF Inv
<1>5. ASSUME NEW v \in Threads PROVE Local(S, pc'[v], queued'[v], v)
  <2>1. CASE v = t
    <3>1. pc'[t] = "wait" => queued[t]
      BY <1>3, <1>4 DEF SleepPublished, Local
    <3>2. QED
      BY <1>3, <2>1, <3>1 DEF Local
  <2>2. CASE v # t
    <3>1. Local(S, pc[v], queued[v], v)
      BY <1>2, <1>3, <1>4, <2>2, KeptLocal
    <3>2. QED
      BY <1>3, <2>2, <3>1
  <2>3. QED
    BY <2>1, <2>2
<1>6. QED
  BY <1>2, <1>3, <1>5, FinishInv

(***************************************************************************)
(* Awakening: by another PPU thread, by a host thread, and by a suspended  *)
(* thread for itself in cpu_sleep.                                         *)
(***************************************************************************)
LEMMA AwakeInv ==
  ASSUME Inv, NEW u \in Threads, NEW me, Finish(Awake(sch, prio, me, u), me),
         prio' = prio, timed' \in [Threads -> BOOLEAN],
         pc' \in [Threads -> PCs], \A v \in Threads \ {me} : pc'[v] = pc[v],
         me \in Threads => pc'[me] \in {"check", "parked", "t_parked"},
         queued' \in [Threads -> BOOLEAN],
         \A v \in Threads \ {me} : \/ queued'[v] = queued[v]
                                   \/ v = u /\ queued'[v] = FALSE
  PROVE  Inv'
<1> DEFINE W == Awake(sch, prio, me, u)
<1>1. Core(W, prio) /\ OnProcOnly(W)
  BY InvParts, AwakeCore
<1>2. \A v \in Threads : Local(sch, pc[v], queued[v], v) /\ queued[v] \in BOOLEAN
  BY DEF Inv
<1>3. ASSUME NEW v \in Threads PROVE Local(W, pc'[v], queued'[v], v)
  <2>1. CASE v = me
    BY <2>1 DEF Local
  <2>2. CASE v # me
    <3>1. /\ Local(W, pc[v], queued[v], v)
          /\ v = u => Local(W, pc[v], FALSE, v)
      <4>1. /\ prio \in [Threads -> Nat] /\ v # me
            /\ Core(sch, prio) /\ CoveredBut(sch, u)
        BY <2>2, InvParts
      <4>2. QED
        BY <1>2, <4>1, AwakeLocal, Zenon
    <3>2. pc'[v] = pc[v] /\ (queued'[v] = queued[v] \/ (v = u /\ queued'[v] = FALSE))
      BY <2>2
    <3>3. QED
      BY <3>1, <3>2
  <2>3. QED
    BY <2>1, <2>2
<1>4. prio' \in [Threads -> Prios]
  BY DEF Inv
<1> HIDE DEF W
<1>5. Core(W, prio') /\ Finish(W, me)
  BY <1>1 DEF W
<1>6. QED
  BY <1>1, <1>3, <1>4, <1>5, FinishInv

(***************************************************************************)
(* yield keeps the invariant.                                              *)
(***************************************************************************)
LEMMA YieldInv ==
  ASSUME Inv, NEW t \in Threads, Yield(t)
  PROVE  Inv'
<1> DEFINE S == YieldQueue(sch, prio, t)
<1>1. /\ Core(S, prio) /\ OnProcOnly(S)
      /\ \A v \in Threads \ {t} : Kept(sch, S, v)
  BY InvParts, YieldCore DEF Yield
<1>2. /\ pc' \in [Threads -> PCs] /\ pc'[t] = "check"
      /\ \A v \in Threads \ {t} : pc'[v] = pc[v]
      /\ timed' \in [Threads -> BOOLEAN]
      /\ prio' = prio /\ prio \in [Threads -> Prios]
      /\ queued' = queued /\ queued \in [Threads -> BOOLEAN]
      /\ Finish(S, t)
  BY DEF Yield, Goto, Inv, PCs, CheckPCs
<1>3. ASSUME NEW v \in Threads PROVE Local(S, pc'[v], queued'[v], v)
  <2>1. CASE v = t
    BY <1>2, <2>1 DEF Local
  <2>2. CASE v # t
    <3>1. Local(sch, pc[v], queued[v], v) /\ Kept(sch, S, v) /\ queued[v] \in BOOLEAN
      BY <1>1, <1>2, <2>2 DEF Inv
    <3>2. QED
      BY <1>2, <2>2, <3>1, KeptLocal
  <2>3. QED
    BY <2>1, <2>2
<1>4. QED
  BY <1>1, <1>2, <1>3, FinishInv

(***************************************************************************)
(* set_priority keeps the invariant.                                       *)
(***************************************************************************)
LEMMA SetPriorityInv ==
  ASSUME Inv, NEW t \in Threads, NEW u \in Threads, NEW n \in Prios, SetPriority(t, u, n)
  PROVE  Inv'
<1> DEFINE S == IF u = t /\ n = prio[u] THEN sch ELSE Reprioritise(sch, prio', t, u)
<1>1. /\ pc' \in [Threads -> PCs] /\ pc'[t] = "check"
      /\ \A v \in Threads \ {t} : pc'[v] = pc[v]
      /\ timed' \in [Threads -> BOOLEAN]
      /\ prio' = [prio EXCEPT ![u] = n] /\ prio' \in [Threads -> Prios]
      /\ queued' = queued /\ queued \in [Threads -> BOOLEAN]
      /\ Finish(S, t)
  BY DEF SetPriority, Goto, Inv, PCs, CheckPCs
<1>2. /\ Core(S, prio') /\ OnProcOnly(S)
      /\ \A v \in Threads \ {t} : Kept(sch, S, v)
  <2>1. CASE u = t /\ n = prio[u]
    <3>1. prio' = prio
      BY <1>1, <2>1 DEF Inv
    <3>2. \A v \in Threads : Kept(sch, sch, v)
      BY DEF Kept
    <3>3. QED
      BY <2>1, <3>1, <3>2, InvParts
  <2>2. CASE ~(u = t /\ n = prio[u])
    <3>1. S = Reprioritise(sch, prio', t, u) /\ n \in Nat
      BY <2>2, PriosAssumption
    <3> HIDE DEF S
    <3>2. /\ Core(sch, prio) /\ OnProcOnly(sch) /\ prio \in [Threads -> Nat]
          /\ prio' = [prio EXCEPT ![u] = n]
      BY <1>1, InvParts
    <3>3. QED
      BY <3>1, <3>2, ReprioritiseCore
  <2>3. QED
    BY <2>1, <2>2
<1> HIDE DEF S
<1>3. ASSUME NEW v \in Threads PROVE Local(S, pc'[v], queued'[v], v)
  <2>1. CASE v = t
    BY <1>1, <2>1 DEF Local
  <2>2. CASE v # t
    <3>1. Local(sch, pc[v], queued[v], v) /\ Kept(sch, S, v) /\ queued[v] \in BOOLEAN
      BY <1>1, <1>2, <2>2 DEF Inv
    <3>2. QED
      BY <1>1, <2>2, <3>1, KeptLocal
  <2>3. QED
    BY <2>1, <2>2
<1>4. QED
  BY <1>1, <1>2, <1>3, FinishInv

-----------------------------------------------------------------------------
(* The steps that happen by themselves *)

(***************************************************************************)
(* A thread takes flags out of its own state word: the scheduler's view of *)
(* who is suspended does not change.                                       *)
(***************************************************************************)
LEMMA DropFlagsInv ==
  ASSUME Inv, NEW t \in Threads, NEW F \in SUBSET {"signal", "notify"},
         sch' = [sch EXCEPT !.state[t] = @ \ F], NEW l \in PCs,
         pc' = [pc EXCEPT ![t] = l], timed' \in [Threads -> BOOLEAN],
         prio' = prio, queued' = queued,
         l \notin {"wait", "presleep"},
         l = "guest" => F = {"signal", "notify"} /\ "suspend" \notin sch.state[t]
  PROVE  Inv'
<1> DEFINE st == [sch.state EXCEPT ![t] = @ \ F]
<1>1. sch \in Sched /\ sch.ppu \in Seq(Threads) /\ sch.state \in [Threads -> SUBSET Flags]
  BY SchedFields DEF Inv, Core
<1>2. st \in [Threads -> SUBSET Flags]
  BY <1>1
<1>3. sch' = [sch EXCEPT !.state = st]
  BY <1>1 DEF Sched
<1> HIDE DEF st
<1>4. /\ sch' \in Sched
      /\ sch'.ppu = sch.ppu /\ sch'.state = st /\ sch'.ack = sch.ack
      /\ sch'.pending = sch.pending /\ sch'.waiting = sch.waiting
      /\ sch'.cancel = sch.cancel
  BY <1>1, <1>2, <1>3 DEF Sched
<1>5. \A v \in Threads :
        /\ v # t => sch'.state[v] = sch.state[v]
        /\ "suspend" \in sch'.state[v] <=> "suspend" \in sch.state[v]
        /\ "notify" \in sch'.state[v] => "notify" \in sch.state[v]
  BY <1>1, <1>4 DEF st
<1>6. sch'.state[t] = sch.state[t] \ F
  BY <1>1, <1>4 DEF st
<1>7. /\ prio' \in [Threads -> Prios] /\ pc' \in [Threads -> PCs]
      /\ queued' \in [Threads -> BOOLEAN] /\ pc \in [Threads -> PCs]
  BY DEF Inv
<1>8. \A v \in Threads : CoreOf(sch', v)
  BY <1>4, <1>5 DEF Inv, Core, CoreOf
<1>9. Core(sch', prio')
  BY <1>4, <1>8 DEF Inv, Core, Acks
<1>10. OnProcOnly(sch')
  BY <1>4, <1>5 DEF Inv, OnProcOnly
<1>11. Saturated(sch')
  <2>1. OnProc(sch.ppu) \subseteq Threads
    BY <1>1, HwAssumption DEF OnProc
  <2>2. QED
    BY <1>4, <1>5, <2>1 DEF Inv, Saturated
<1>12. ASSUME NEW v \in Threads PROVE Local(sch', pc'[v], queued'[v], v)
  <2>1. CASE v = t /\ l # "guest"
    BY <1>7, <2>1 DEF Local
  <2>2. CASE v = t /\ l = "guest"
    <3>1. InQueue(sch'.ppu, t)
      BY <1>1, <1>4, <2>2, OnProcOrExtra DEF Inv, OnProcOnly
    <3>2. QED
      BY <1>5, <1>6, <1>7, <2>2, <3>1 DEF Local
  <2>3. CASE v # t
    <3>1. Local(sch, pc[v], queued[v], v) /\ pc'[v] = pc[v]
      BY <1>7, <2>3 DEF Inv
    <3>2. QED
      BY <1>4, <1>5, <2>3, <3>1 DEF Local
  <2>4. QED
    BY <2>1, <2>2, <2>3
<1>13. QED
  BY <1>7, <1>9, <1>10, <1>11, <1>12 DEF Inv

(***************************************************************************)
(* A thread moves on without touching what g_mutex protects, to a place    *)
(* where it relies on nothing.                                             *)
(***************************************************************************)
LEMMA MoveInv ==
  ASSUME Inv, NEW t \in Threads, NEW l \in {"check", "t_check"},
         pc' = [pc EXCEPT ![t] = l], timed' \in [Threads -> BOOLEAN],
         sch' = sch, prio' = prio, queued' \in [Threads -> BOOLEAN],
         \A v \in Threads \ {t} : queued'[v] = queued[v]
  PROVE  Inv'
<1>1. pc' \in [Threads -> PCs] /\ pc \in [Threads -> PCs]
  BY DEF Inv, PCs, CheckPCs, TimeoutPCs
<1>2. ASSUME NEW v \in Threads PROVE Local(sch', pc'[v], queued'[v], v)
  <2>1. CASE v = t
    BY <1>1, <2>1 DEF Local
  <2>2. CASE v # t
    BY <1>1, <2>2 DEF Inv
  <2>3. QED
    BY <2>1, <2>2
<1>3. QED
  BY <1>1, <1>2 DEF Inv

(***************************************************************************)
(* A round of check_state keeps the invariant: it ends in guest code only  *)
(* when the thread is not suspended, and with its flags cleared.           *)
(***************************************************************************)
LEMMA CheckRoundInv ==
  ASSUME Inv, NEW t \in Threads, CheckState(t) \/ CheckStateTimedOut(t)
  PROVE  Inv'
<1> DEFINE F == {"signal", "notify"}
<1>1. /\ sch' = [sch EXCEPT !.state[t] = @ \ F]
      /\ prio' = prio /\ timed' = timed /\ queued' = queued
  BY DEF CheckState, CheckStateTimedOut, CheckRound
<1>2. PICK l \in {"guest", "t_ret", "cpusleep", "t_cpusleep", "parked", "t_parked"} :
        pc' = [pc EXCEPT ![t] = l] /\ (l = "guest" => "suspend" \notin sch.state[t])
  BY DEF CheckState, CheckStateTimedOut, CheckRound, Goto
<1>3. l \in PCs /\ l \notin {"wait", "presleep"} /\ timed' \in [Threads -> BOOLEAN]
  BY <1>1 DEF PCs, CheckPCs, TimeoutPCs, Inv
<1>4. QED
  BY <1>1, <1>2, <1>3, DropFlagsInv

-----------------------------------------------------------------------------
(* The theorems *)

(***************************************************************************)
(* In the beginning only the main thread runs.                             *)
(***************************************************************************)
LEMMA InitInv == Init => Inv
<1> SUFFICES ASSUME Init PROVE Inv
  OBVIOUS
<1>1. /\ sch.ppu = <<Main>>
      /\ sch.state = [t \in Threads |-> IF t = Main THEN {} ELSE {"suspend"}]
      /\ sch.ack = [t \in Threads |-> FALSE] /\ sch.pending = 0
      /\ sch.waiting = [t \in Threads |-> 0] /\ sch.cancel = [t \in Threads |-> 0]
  BY DEF Init
<1>2. <<Main>> \in Seq(Threads) /\ Len(<<Main>>) = 1 /\ <<Main>>[1] = Main
  BY ThreadsAssumption
<1>3. sch \in Sched
  BY <1>2 DEF Init, Sched, Flags
<1>4. Acks(sch) = {}
  BY <1>1 DEF Acks
<1>5. sch.pending = Cardinality(Acks(sch))
  BY <1>1, <1>4, FS_EmptySet
<1>6. \A t \in Threads : CoreOf(sch, t)
  BY <1>1 DEF CoreOf
<1>7. Core(sch, prio)
  BY <1>1, <1>2, <1>3, <1>5, <1>6 DEF Core, Ordered
<1>8. OnProc(sch.ppu) = {Main}
  BY <1>1, <1>2, HwAssumption DEF OnProc
<1>9. OnProcOnly(sch) /\ Saturated(sch)
  BY <1>1, <1>8, ThreadsAssumption DEF OnProcOnly, Saturated
<1>10. InQueue(sch.ppu, Main)
  BY <1>1, <1>2 DEF InQueue
<1>11. \A t \in Threads : Local(sch, pc[t], queued[t], t)
  BY <1>1, <1>10 DEF Init, Local
<1>12. QED
  BY <1>7, <1>9, <1>11 DEF Init, Inv, PCs

(***************************************************************************)
(* Every step of the scheduler and of its threads keeps the invariant.     *)
(***************************************************************************)
LEMMA NextInv == Inv /\ [Next]_vars => Inv'
<1> SUFFICES ASSUME Inv, [Next]_vars PROVE Inv'
  OBVIOUS
<1>1. ASSUME NEW t \in Threads, NEW to \in BOOLEAN, Sleep(t, to) PROVE Inv'
  BY <1>1, SleepInv
<1>2. ASSUME NEW t \in Threads, NEW to \in BOOLEAN, Publish(t, to) PROVE Inv'
  BY <1>2, PublishInv
<1>3. ASSUME NEW t \in Threads, NEW u \in Threads \ {t}, AwakeOther(t, u) PROVE Inv'
  <2>1. /\ pc' \in [Threads -> PCs] /\ pc'[t] = "check"
        /\ \A v \in Threads \ {t} : pc'[v] = pc[v]
        /\ queued' \in [Threads -> BOOLEAN] /\ timed' \in [Threads -> BOOLEAN]
        /\ \A v \in Threads \ {t} : queued'[v] = queued[v] \/ (v = u /\ queued'[v] = FALSE)
        /\ prio' = prio
    BY <1>3 DEF AwakeOther, Goto, Inv, PCs, CheckPCs
  <2>2. QED
    BY <1>3, <2>1, AwakeInv DEF AwakeOther
<1>4. ASSUME NEW t \in Threads, Yield(t) PROVE Inv'
  BY <1>4, YieldInv
<1>5. ASSUME NEW t \in Threads, NEW u \in Threads, NEW n \in Prios, SetPriority(t, u, n)
      PROVE  Inv'
  BY <1>5, SetPriorityInv
<1>6. ASSUME NEW t \in Threads, SleepPublished(t) PROVE Inv'
  BY <1>6, SleepPublishedInv
<1>7. ASSUME NEW t \in Threads, TakeSignal(t) PROVE Inv'
  <2>1. /\ sch' = [sch EXCEPT !.state[t] = @ \ {"signal"}]
        /\ pc' = [pc EXCEPT ![t] = "check"]
        /\ timed' \in [Threads -> BOOLEAN] /\ prio' = prio /\ queued' = queued
    BY <1>7 DEF TakeSignal, Goto, Inv
  <2>2. "check" \in PCs
    BY DEF PCs, CheckPCs
  <2>3. QED
    BY <2>1, <2>2, DropFlagsInv
<1>8. ASSUME NEW t \in Threads, TimeOut(t) PROVE Inv'
  BY <1>8, MoveInv DEF TimeOut, Goto, Inv
<1>9. ASSUME NEW t \in Threads, Poll(t) PROVE Inv'
  BY <1>9, MoveInv DEF Poll, Goto, Inv
<1>10. ASSUME NEW t \in Threads, CheckState(t) \/ CheckStateTimedOut(t) PROVE Inv'
  BY <1>10, CheckRoundInv
<1>11. ASSUME NEW t \in Threads, CpuSleep(t) PROVE Inv'
  <2>1. /\ pc' \in [Threads -> PCs] /\ pc'[t] \in {"parked", "t_parked"}
        /\ \A v \in Threads \ {t} : pc'[v] = pc[v]
        /\ queued' \in [Threads -> BOOLEAN] /\ timed' \in [Threads -> BOOLEAN]
        /\ queued' = queued /\ prio' = prio
    BY <1>11 DEF CpuSleep, Goto, Inv, PCs, CheckPCs, TimeoutPCs
  <2>2. QED
    BY <1>11, <2>1, AwakeInv DEF CpuSleep
<1>12. ASSUME NEW t \in Threads, TimeoutReturn(t) PROVE Inv'
  BY <1>12, MoveInv DEF TimeoutReturn, Goto, Inv
<1>13. ASSUME NEW u \in Threads, HostAwake(u) PROVE Inv'
  <2>1. /\ pc' \in [Threads -> PCs] /\ pc' = pc
        /\ queued' \in [Threads -> BOOLEAN] /\ timed' \in [Threads -> BOOLEAN]
        /\ \A v \in Threads : queued'[v] = queued[v] \/ (v = u /\ queued'[v] = FALSE)
        /\ prio' = prio
    BY <1>13 DEF HostAwake, Inv
  <2>2. QED
    BY <1>13, <2>1, AwakeInv, ThreadsAssumption DEF HostAwake
<1>14. CASE UNCHANGED vars
  BY <1>14 DEF vars, Inv, Core, CoreOf, Acks, OnProcOnly, Saturated, Local
<1>15. QED
  BY <1>1, <1>2, <1>3, <1>4, <1>5, <1>6, <1>7, <1>8, <1>9, <1>10, <1>11, <1>12,
     <1>13, <1>14 DEF Next, Call, Step

(***************************************************************************)
(* The accounting of suspensions, the order of g_ppu and what every thread *)
(* relies on form an inductive invariant of the scheduler.                 *)
(***************************************************************************)
THEOREM Invariance == Spec => []Inv
BY InitInv, NextInv, PTL DEF Spec

(***************************************************************************)
(* The run queue stays well formed: no thread twice, and ordered by        *)
(* priority, whatever awakenings, yields and set_priority calls do.        *)
(***************************************************************************)
THEOREM RunQueueIsWellFormed == Spec => []RunQueueOK
<1>1. Inv => RunQueueOK
  BY DEF Inv, Core, Ordered, RunQueueOK, TypeOK, QueueOrdered
<1>2. QED
  BY <1>1, Invariance, PTL

(***************************************************************************)
(* g_pending is the number of suspensions that are not acknowledged.       *)
(***************************************************************************)
THEOREM SuspensionsAreCounted == Spec => []PendingIsExact
<1>1. Inv => PendingIsExact
  BY DEF Inv, Core, Acks, PendingIsExact
<1>2. QED
  BY <1>1, Invariance, PTL

(***************************************************************************)
(* At most the first HwThreads threads of g_ppu are not told to suspend.   *)
(***************************************************************************)
THEOREM LimitIsKept == Spec => []OnlyOnProcProceed
<1>1. Inv => OnlyOnProcProceed
  BY DEF Inv, OnProcOnly, OnlyOnProcProceed
<1>2. QED
  BY <1>1, Invariance, PTL

(***************************************************************************)
(* With every suspension acknowledged, all threads at the head of g_ppu    *)
(* have been released.                                                     *)
(***************************************************************************)
THEOREM NoHardwareThreadIdles == Spec => []WorkConserving
<1>1. Inv => WorkConserving
  BY DEF Inv, Saturated, WorkConserving
<1>2. QED
  BY <1>1, Invariance, PTL

(***************************************************************************)
(* The assertions of sleep_unlocked and schedule_all hold.                 *)
(***************************************************************************)
THEOREM AssertionsHold == Spec => []SleepsAndTimeouts
<1>1. Inv => SleepsAndTimeouts
  BY DEF Inv, Core, CoreOf, Local, SleepsAndTimeouts, SleepIsClean, TimeoutsOnce
<1>2. QED
  BY <1>1, Invariance, PTL

(***************************************************************************)
(* Nobody who was taken out of an object's queue is forgotten.             *)
(***************************************************************************)
THEOREM NobodyIsForgotten == Spec => []AwakenedIsScheduled
<1>1. Inv => AwakenedIsScheduled
  BY DEF Inv, Local, AwakenedIsScheduled
<1>2. QED
  BY <1>1, Invariance, PTL

(***************************************************************************)
(* What the scheduler is for: whenever no suspension is outstanding, at    *)
(* most HwThreads threads execute guest code or enter the kernel.  It      *)
(* holds because a thread there that was told to suspend still owes its    *)
(* acknowledgement.                                                        *)
(***************************************************************************)
THEOREM AtMostHwThreadsRun ==
  Spec => [](sch.pending = 0 =>
               Cardinality({t \in Threads : pc[t] \in {"guest", "presleep"}}) <= HwThreads)
<1> DEFINE A == {t \in Threads : pc[t] \in {"guest", "presleep"}}
<1>1. ASSUME Inv, sch.pending = 0 PROVE Cardinality(A) <= HwThreads
  <2> DEFINE n == IF Len(sch.ppu) < HwThreads THEN Len(sch.ppu) ELSE HwThreads
             B == {sch.ppu[i] : i \in 1..n}
  <2>1. /\ sch \in Sched /\ sch.ppu \in Seq(Threads)
        /\ 0 = Cardinality(Acks(sch))
    BY <1>1, SchedFields DEF Inv, Core
  <2>2. IsFiniteSet(Acks(sch))
    BY ThreadsAssumption, FS_Subset DEF Acks
  <2>3. Acks(sch) = {}
    BY <2>1, <2>2, FS_EmptySet
  <2>4. A \subseteq B
    <3> SUFFICES ASSUME NEW t \in A PROVE t \in OnProc(sch.ppu)
      BY DEF OnProc
    <3>1. ~sch.ack[t]
      BY <2>3 DEF Acks
    <3>2. "suspend" \notin sch.state[t]
      BY <1>1, <3>1 DEF Inv, Local
    <3>3. QED
      BY <1>1, <3>2 DEF Inv, OnProcOnly
  <2>5. n \in Nat /\ n <= HwThreads
    BY <2>1, HwAssumption
  <2> HIDE DEF n
  <2>6. IsFiniteSet(1..n) /\ Cardinality(1..n) = n
    BY <2>5, FS_Interval
  <2> DEFINE f == [i \in 1..n |-> sch.ppu[i]]
  <2>f. f \in Surjection(1..n, B)
    <3>1. f \in [1..n -> B] /\ \A b \in B : \E i \in 1..n : f[i] = b
      OBVIOUS
    <3> HIDE DEF f, B
    <3>2. QED
      BY <3>1 DEF Surjection
  <2>7. IsFiniteSet(B) /\ Cardinality(B) <= n
    <3> HIDE DEF f, B
    <3>1. QED
      BY <2>6, <2>f, FS_Surjection
  <2>8. Cardinality(A) <= Cardinality(B) /\ IsFiniteSet(A)
    BY <2>4, <2>7, FS_Subset
  <2>9. Cardinality(A) \in Nat /\ Cardinality(B) \in Nat
    BY <2>7, <2>8, FS_CardinalityType
  <2>10. QED
    BY <2>5, <2>7, <2>8, <2>9, HwAssumption
<1>2. Inv => (sch.pending = 0 => Cardinality(A) <= HwThreads)
  BY <1>1
<1>3. QED
  BY <1>2, Invariance, PTL
=============================================================================
