--------------------------- MODULE Lv2EventProofs ---------------------------
(***************************************************************************)
(* What is proved of the event queue and of the event flag, among the      *)
(* objects that MCLv2Objects puts side by side: an event that was reported *)
(* as sent is not lost and arrives once; nobody sleeps in front of its     *)
(* bits, although set works on a copy of them while they change.  At the   *)
(* end, what holds whatever the object is: every wake-up is exact, nothing *)
(* in use is destroyed, and loaded sleepers sleep again.                   *)
(*                                                                         *)
(* The loops of set are recursive functions of the position in the list.   *)
(***************************************************************************)
EXTENDS Lv2ObjectsProofs

-----------------------------------------------------------------------------
(* The event queue: its invariant *)

EvEvents == 1..MaxEvents

\* The labels of a receiver that has queued, of a thread that holds the internal
\* mutex, and of a sender that the port counts.
EvWaits == {"r_wait", "t_check", "t_test", "t_over", "t_lock"}
EvWakes == {"s_wake", "p_wake", "d_wake"}
EvBusies == {"p_wake", "p_wait"}

EvBusy == {t \in Threads : pc[t] \in EvBusies}

\* How often e is in a sequence, in the registers of receivers, anywhere.
EvIn(s, e) == Cardinality({i \in 1..Len(s) : s[i] = e})
EvWith(e) == Cardinality({t \in Threads : given[t] = e})
EvCopies(e) == taken[e] + EvIn(events, e) + EvWith(e)

EvTypes ==
  /\ ObjTypeOK(Queue!PCs)
  /\ alive \in BOOLEAN
  /\ events \in Seq(EvEvents) /\ Len(events) <= QueueSize
  /\ pq \in Seq(Threads)
  /\ given \in [Threads -> EvEvents \union {0}]
  /\ arg \in [Threads -> EvEvents \union {0}]
  /\ port \in [up : BOOLEAN, connected : BOOLEAN]
  /\ busy \in Nat
  /\ toAwake \subseteq Threads
  /\ made \in 0..MaxEvents
  /\ accepted \subseteq EvEvents
  /\ taken \in [EvEvents -> Nat]

EvGuardInv ==
  /\ \A t \in Threads : guard = t <=> pc[t] \in EvWakes
  /\ guard = NoThread => toAwake = {}

EvFaultInv ==
  /\ stopped # {} => "save" \in faults /\ saves < MaxSaves
  /\ \A t \in Threads : timed[t] \/ pc[t] \in EvWaits \ {"r_wait"} => "timeout" \in faults

\* Nobody waits while there are events.
EvListInv ==
  /\ Distinct(pq)
  /\ pq # <<>> => events = <<>> /\ exists

\* While loaded sleepers have not slept again nothing is sent.
EvLoadInv ==
  /\ toSleep # {} => events = <<>> /\ exists
  /\ \A t \in toSleep : pc[t] = "r_redo"

EvThreadInv(t) ==
  /\ Contains(pq, t) => /\ pc[t] \in (EvWaits \ {"t_over"}) \union {"a_recv"}
                        /\ t \notin toAwake /\ given[t] = 0
  /\ pc[t] = "a_recv" => Contains(pq, t)
  /\ given[t] # 0 => pc[t] \in EvWaits
  /\ pc[t] \in {"p_wake", "p_wait", "a_send", "a_sent", "s_redo"} => arg[t] # 0
  /\ sched[t] = "asleep" => pc[t] \in {"r_wait", "t_check", "a_recv"}
  /\ pc[t] = "r_wait" =>
       IF Contains(pq, t) \/ t \in toAwake THEN sched[t] = "asleep"
       ELSE sched[t] \in {"ready", "signal"}
  /\ pc[t] = "s_redo" => saves # 0
  /\ t \in toAwake => pc[t] \in EvWaits

EvPortInv ==
  /\ busy = Cardinality(EvBusy)
  /\ EvBusy # {} /\ alive => port.up /\ port.connected

EvCopiesInv ==
  /\ \A e \in accepted : EvCopies(e) > 0
  /\ saves = 0 => \A e \in EvEvents : EvCopies(e) <= Ind(e <= made)

EvInv ==
  /\ EvTypes /\ EvFaultInv /\ EvGuardInv /\ EvListInv /\ EvLoadInv /\ EvPortInv /\ EvCopiesInv
  /\ \A t \in Threads : EvThreadInv(t)

(***************************************************************************)
(* The module of the queue counts and looks into its list as this one.     *)
(***************************************************************************)
LEMMA EvSame ==
  ASSUME NEW S, NEW q, NEW x
  PROVE  /\ Queue!Cardinality(S) = Cardinality(S)
         /\ Queue!Contains(q, x) <=> Contains(q, x)
         /\ Queue!Range(q) = Range(q)
         /\ Queue!Without(q, x) = RemoveFirst(q, x)
<1>1. Queue!Cardinality(S) = Cardinality(S)
  BY DEF Queue!Cardinality, Cardinality
<1>2. Queue!Contains(q, x) <=> Contains(q, x)
  BY DEF Queue!Contains, Contains
<1>3. Queue!Range(q) = Range(q)
  BY DEF Queue!Range, Range
<1>4. Queue!Without(q, x) = RemoveFirst(q, x)
  BY DEF Queue!Without, Queue!RemoveFirst, Queue!RemoveAt, Queue!SelectInSeq, Queue!Min,
         RemoveFirst, RemoveAt, SelectInSeq, Min
<1>5. QED
  BY <1>1, <1>2, <1>3, <1>4

(***************************************************************************)
(* schedule chooses one of the list.                                       *)
(***************************************************************************)
LEMMA EvServed ==
  ASSUME NEW q \in Seq(Threads), q # <<>>, NEW u \in Queue!ServedFirst(q)
  PROVE  u \in Threads /\ Contains(q, u)
<1>1. Len(q) \in Nat /\ Len(q) \in 1..Len(q) /\ Queue!Last(q) = q[Len(q)]
  BY DEF Queue!Last
<1>2. \E i \in 1..Len(q) : u = q[i]
  BY <1>1 DEF Queue!ServedFirst
<1>3. QED
  BY <1>2 DEF Contains

(***************************************************************************)
(* How often an event is in two sequences, one after the other.            *)
(***************************************************************************)
LEMMA EvInConcat ==
  ASSUME NEW S, NEW a \in Seq(S), NEW b \in Seq(S), NEW e
  PROVE  /\ EvIn(a, e) \in Nat /\ EvIn(b, e) \in Nat
         /\ EvIn(a \o b, e) = EvIn(a, e) + EvIn(b, e)
<1> DEFINE A == {i \in 1..Len(a) : a[i] = e}
           B == {i \in 1..Len(b) : b[i] = e}
           C == {i \in 1..Len(a \o b) : (a \o b)[i] = e}
           D == {i \in 1..Len(a \o b) : i > Len(a) /\ (a \o b)[i] = e}
           f == [i \in B |-> i + Len(a)]
<1>1. /\ Len(a) \in Nat /\ Len(b) \in Nat /\ Len(a \o b) = Len(a) + Len(b)
      /\ \A i \in 1..Len(a) : (a \o b)[i] = a[i]
      /\ \A i \in 1..Len(b) : (a \o b)[i + Len(a)] = b[i]
  OBVIOUS
<1>2. IsFiniteSet(A) /\ IsFiniteSet(B)
  <2>1. IsFiniteSet(1..Len(a)) /\ IsFiniteSet(1..Len(b))
    BY <1>1, FS_Interval
  <2>2. QED
    BY <2>1, FS_Subset
<1>3. f \in [B -> D]
  <2>1. ASSUME NEW i \in B PROVE i + Len(a) \in D
    BY <1>1
  <2>2. QED
    BY <2>1
<1>4. \A i, j \in B : f[i] = f[j] => i = j
  BY <1>1
<1>5. ASSUME NEW k \in D PROVE \E i \in B : f[i] = k
  <2>1. k - Len(a) \in 1..Len(b) /\ (k - Len(a)) + Len(a) = k
    BY <1>1
  <2>2. b[k - Len(a)] = (a \o b)[k]
    BY <1>1, <2>1
  <2>3. k - Len(a) \in B /\ f[k - Len(a)] = k
    BY <2>1, <2>2
  <2>4. QED
    BY <2>3
<1>6. f \in Surjection(B, D) /\ f \in Injection(B, D)
  BY <1>3, <1>4, <1>5 DEF Surjection, Injection, IsInjective
<1>7. C = A \union D /\ A \cap D = {}
  BY <1>1
<1> HIDE DEF A, B, C, D, f
<1>8. IsFiniteSet(D) /\ Cardinality(D) = Cardinality(B)
  BY <1>2, <1>6, FS_Surjection
<1>9. Cardinality(C) = Cardinality(A) + Cardinality(D) - Cardinality(A \cap D)
  BY <1>2, <1>7, <1>8, FS_Union
<1>10. Cardinality(A) \in Nat /\ Cardinality(B) \in Nat /\ Cardinality(A \cap D) = 0
  BY <1>2, <1>7, FS_CardinalityType, FS_EmptySet
<1>11. Cardinality(C) = Cardinality(A) + Cardinality(B)
  BY <1>8, <1>9, <1>10
<1>12. QED
  BY <1>10, <1>11 DEF EvIn, A, B, C

(***************************************************************************)
(* A sequence of one event, or none.                                       *)
(***************************************************************************)
LEMMA EvInOne ==
  ASSUME NEW x, NEW e
  PROVE  EvIn(<<x>>, e) = Ind(x = e) /\ EvIn(<<>>, e) = 0
<1>1. {i \in 1..Len(<<x>>) : <<x>>[i] = e} = IF x = e THEN {1} ELSE {}
  <2>1. Len(<<x>>) = 1 /\ <<x>>[1] = x /\ 1..1 = {1}
    OBVIOUS
  <2>2. QED
    BY <2>1
<1>2. {i \in 1..Len(<<>>) : <<>>[i] = e} = {}
  <2>1. 1..Len(<<>>) = {}
    OBVIOUS
  <2>2. QED
    BY <2>1
<1>3. Cardinality({1}) = 1 /\ Cardinality({}) = 0
  BY FS_Singleton, FS_EmptySet
<1>4. QED
  BY <1>1, <1>2, <1>3 DEF EvIn, Ind

(***************************************************************************)
(* The registers of one thread change.                                     *)
(***************************************************************************)
LEMMA EvWithStep ==
  ASSUME EvTypes, NEW t \in Threads, NEW x \in EvEvents \union {0},
         given' = [given EXCEPT ![t] = x], NEW e \in EvEvents
  PROVE  /\ EvWith(e) \in Nat /\ EvWith(e)' \in Nat
         /\ EvWith(e)' = EvWith(e) + (IF x = e THEN 1 ELSE 0) - (IF given[t] = e THEN 1 ELSE 0)
<1> DEFINE A == {u \in Threads : given[u] = e}
           B == {u \in Threads : given'[u] = e}
<1>1. given \in [Threads -> EvEvents \union {0}]
  BY DEF EvTypes
<1>2. given'[t] = x /\ \A u \in Threads : u # t => given'[u] = given[u]
  BY <1>1
<1>3. A \in SUBSET Threads /\ B \in SUBSET Threads /\ \A u \in Threads : u # t => (u \in A <=> u \in B)
  BY <1>2
<1>4. Ind(t \in A) = Ind(given[t] = e) /\ Ind(t \in B) = Ind(x = e)
  BY <1>2 DEF Ind
<1>5. EvWith(e) = Cardinality(A) /\ EvWith(e)' = Cardinality(B)
  BY DEF EvWith
<1> HIDE DEF A, B
<1>6. /\ Cardinality(A) \in Nat /\ Cardinality(B) \in Nat
      /\ Cardinality(B) = Cardinality(A) + Ind(t \in B) - Ind(t \in A)
  BY <1>3, ThreadsAssumption, CardOne
<1>7. QED
  BY <1>4, <1>5, <1>6 DEF Ind

(***************************************************************************)
(* What is counted, as numbers.                                            *)
(***************************************************************************)
LEMMA EvNumbers ==
  ASSUME EvTypes, NEW e \in EvEvents
  PROVE  taken[e] \in Nat /\ EvIn(events, e) \in Nat /\ EvWith(e) \in Nat /\ EvCopies(e) \in Nat
<1>1. taken[e] \in Nat
  BY DEF EvTypes
<1>2. EvIn(events, e) \in Nat
  BY EvInConcat DEF EvTypes
<1>3. EvWith(e) \in Nat
  <2>1. {t \in Threads : given[t] = e} \in SUBSET Threads
    OBVIOUS
  <2>2. IsFiniteSet({t \in Threads : given[t] = e})
    BY <2>1, ThreadsAssumption, FS_Subset
  <2>3. QED
    BY <2>2, FS_CardinalityType DEF EvWith
<1>4. QED
  BY <1>1, <1>2, <1>3 DEF EvCopies

(***************************************************************************)
(* The events of a sequence reach the guest.                               *)
(***************************************************************************)
LEMMA EvTakeIs ==
  ASSUME EvTypes, NEW S, NEW s \in Seq(S), Queue!Take(s)
  PROVE  /\ taken' \in [EvEvents -> Nat]
         /\ \A e \in EvEvents : taken'[e] = taken[e] + EvIn(s, e)
<1>1. taken' = [e \in EvEvents |-> taken[e] + EvIn(s, e)]
  BY EvSame DEF Queue!Take, Queue!Events, EvEvents, EvIn
<1>2. \A e \in EvEvents : taken[e] \in Nat /\ EvIn(s, e) \in Nat
  BY EvNumbers, EvInConcat
<1>3. QED
  BY <1>1, <1>2

(***************************************************************************)
(* Events change their place, and none comes or goes.                      *)
(***************************************************************************)
LEMMA EvCopiesMove ==
  ASSUME EvInv, \A e \in EvEvents : EvCopies(e)' = EvCopies(e),
         accepted' = accepted, saves' = saves, made' \in Nat, made <= made'
  PROVE  EvCopiesInv'
<1>1. EvTypes /\ accepted \subseteq EvEvents /\ made \in Nat
  BY DEF EvInv, EvTypes
<1>2. \A e \in EvEvents : e \in Nat /\ EvCopies(e) \in Nat
  BY <1>1, EvNumbers DEF EvEvents
<1>3. \A e \in accepted' : EvCopies(e)' > 0
  BY <1>1 DEF EvInv, EvCopiesInv
<1>4. ASSUME saves = 0, NEW e \in EvEvents PROVE EvCopies(e)' <= Ind(e <= made')
  BY <1>1, <1>2, <1>4 DEF EvInv, EvCopiesInv, Ind
<1>5. QED
  BY <1>3, <1>4 DEF EvCopiesInv

(***************************************************************************)
(* An event is sent.                                                       *)
(***************************************************************************)
LEMMA EvCopiesAdd ==
  ASSUME EvInv, NEW x \in EvEvents,
         \A e \in EvEvents : EvCopies(e)' = EvCopies(e) + Ind(e = x),
         accepted' = accepted \union {x}, saves' = saves,
         saves = 0 => x = made + 1 /\ made' = x
  PROVE  EvCopiesInv'
<1>1. EvTypes /\ accepted \subseteq EvEvents /\ made \in Nat
  BY DEF EvInv, EvTypes
<1>2. \A e \in EvEvents : e \in Nat /\ EvCopies(e) \in Nat
  BY <1>1, EvNumbers DEF EvEvents
<1>3. ASSUME NEW e \in accepted' PROVE EvCopies(e)' > 0
  <2>1. e \in EvEvents
    BY <1>1
  <2>2. CASE e = x
    BY <1>2, <2>1, <2>2 DEF Ind
  <2>3. CASE e # x
    BY <1>2, <2>1, <2>3 DEF Ind, EvInv, EvCopiesInv
  <2>4. QED
    BY <2>2, <2>3
<1>4. ASSUME saves = 0, NEW e \in EvEvents PROVE EvCopies(e)' <= Ind(e <= made')
  <2>1. EvCopies(e) <= Ind(e <= made) /\ EvCopies(e)' = EvCopies(e) + Ind(e = x)
    BY <1>4 DEF EvInv, EvCopiesInv
  <2>2. CASE e = x
    BY <1>1, <1>2, <1>4, <2>1, <2>2 DEF Ind
  <2>3. CASE e # x
    BY <1>1, <1>2, <1>4, <2>1, <2>3 DEF Ind
  <2>4. QED
    BY <2>2, <2>3
<1>5. QED
  BY <1>3, <1>4 DEF EvCopiesInv

\* The other threads keep their state and their place in the list.
EvOthers(t) ==
  \A u \in Threads \ {t} :
    /\ pc'[u] = pc[u] /\ timed'[u] = timed[u] /\ sched'[u] = sched[u]
    /\ given'[u] = given[u] /\ arg'[u] = arg[u]
    /\ Contains(pq', u) <=> Contains(pq, u)

(***************************************************************************)
(* A thread outside the internal mutex goes on.                            *)
(***************************************************************************)
LEMMA EvStepInv ==
  ASSUME EvInv, NEW t \in Threads, NEW l \in Queue!PCs, pc'[t] = l, EvOthers(t), EvTypes',
         UNCHANGED <<fifo, exists, stopped, saves, faults, guard, toAwake, alive, port>>,
         pc[t] \notin EvWakes, l \notin EvWakes,
         timed'[t] \/ l \in EvWaits \ {"r_wait"} => "timeout" \in faults,
         toSleep' \subseteq toSleep, t \in toSleep' => l = "r_redo",
         toSleep' # {} => events' = <<>>,
         Distinct(pq'), pq' # <<>> => events' = <<>> /\ exists,
         l \in EvBusies => pc[t] \in EvBusies,
         busy' = busy + Ind(l \in EvBusies) - Ind(pc[t] \in EvBusies),
         EvCopiesInv', EvThreadInv(t)'
  PROVE  EvInv'
<1> USE ThreadsAssumption
<1>F. EvFaultInv'
  BY DEF EvInv, EvFaultInv, EvOthers
<1>G. EvGuardInv'
  BY DEF EvInv, EvGuardInv, EvOthers, EvTypes, ObjTypeOK
<1>L. EvListInv'
  BY DEF EvListInv
<1>D. EvLoadInv'
  <2>1. toSleep \subseteq Threads
    BY DEF EvInv, EvTypes, ObjTypeOK
  <2>2. QED
    BY <2>1 DEF EvInv, EvLoadInv, EvOthers
<1>H. ASSUME NEW u \in Threads PROVE EvThreadInv(u)'
  <2>1. CASE u # t
    <3>1. /\ pc'[u] = pc[u] /\ sched'[u] = sched[u] /\ given'[u] = given[u] /\ arg'[u] = arg[u]
          /\ Contains(pq', u) <=> Contains(pq, u)
      BY <1>H, <2>1 DEF EvOthers
    <3>2. EvThreadInv(u)
      BY <1>H DEF EvInv
    <3>3. QED
      BY <3>1, <3>2 DEF EvThreadInv
  <2>2. QED
    BY <2>1
<1>P. EvPortInv'
  <2> DEFINE A == EvBusy
             B == EvBusy'
  <2>1. A \in SUBSET Threads /\ B \in SUBSET Threads
    BY DEF EvBusy
  <2>2. \A u \in Threads : u # t => (u \in A <=> u \in B)
    BY DEF EvBusy, EvOthers
  <2>3. (t \in A <=> pc[t] \in EvBusies) /\ (t \in B <=> l \in EvBusies)
    BY DEF EvBusy
  <2>4. Ind(t \in A) = Ind(pc[t] \in EvBusies) /\ Ind(t \in B) = Ind(l \in EvBusies)
    BY <2>3 DEF Ind
  <2>5. B # {} => A # {}
    BY <2>1, <2>2, <2>3
  <2> HIDE DEF A, B
  <2>6. Cardinality(B) = Cardinality(A) + Ind(t \in B) - Ind(t \in A)
    BY <2>1, <2>2, CardOne
  <2>7. busy' = Cardinality(B)
    BY <2>4, <2>6 DEF EvInv, EvPortInv, A
  <2>8. B # {} /\ alive' => port'.up /\ port'.connected
    BY <2>5 DEF EvInv, EvPortInv, A
  <2>9. QED
    BY <2>7, <2>8 DEF EvPortInv, B
<1> QED
  BY <1>F, <1>G, <1>L, <1>D, <1>H, <1>P DEF EvInv

(***************************************************************************)
(* A thread goes on, and only its own state changes.                       *)
(***************************************************************************)
LEMMA EvLocalInv ==
  ASSUME EvInv, NEW t \in Threads, NEW l \in Queue!PCs, NEW to \in BOOLEAN,
         NEW a \in EvEvents \union {0},
         pc' = [pc EXCEPT ![t] = l], timed' = [timed EXCEPT ![t] = to],
         arg' = [arg EXCEPT ![t] = a],
         sched' \in [Threads -> SchedStates], \A u \in Threads \ {t} : sched'[u] = sched[u],
         UNCHANGED <<fifo, exists, stopped, toSleep, saves, faults, guard, toAwake, alive, port,
                     events, pq, given, accepted, taken>>,
         made' \in 0..MaxEvents, made <= made', busy' \in Nat,
         pc[t] \notin EvWakes, l \notin EvWakes, t \notin toSleep,
         to \/ l \in EvWaits \ {"r_wait"} => "timeout" \in faults,
         l \in EvBusies => pc[t] \in EvBusies,
         busy' = busy + Ind(l \in EvBusies) - Ind(pc[t] \in EvBusies),
         Contains(pq, t) => l \in (EvWaits \ {"t_over"}) \union {"a_recv"},
         l = "a_recv" => Contains(pq, t),
         given[t] # 0 => l \in EvWaits, t \in toAwake => l \in EvWaits,
         l \in {"p_wait", "a_send", "a_sent"} => a # 0,
         sched'[t] = "asleep" => l \in {"t_check", "a_recv"},
         l \notin {"r_wait", "s_redo"}
  PROVE  EvInv'
<1>1. EvTypes
  BY DEF EvInv
<1>2. /\ pc \in [Threads -> Queue!PCs] /\ timed \in [Threads -> BOOLEAN]
      /\ arg \in [Threads -> EvEvents \union {0}]
  BY <1>1 DEF EvTypes, ObjTypeOK
<1>3. pc'[t] = l /\ timed'[t] = to /\ arg'[t] = a
  BY <1>2
<1>4. EvOthers(t)
  BY <1>2 DEF EvOthers
<1>5. EvTypes'
  <2>1. /\ pc' \in [Threads -> Queue!PCs] /\ timed' \in [Threads -> BOOLEAN]
        /\ arg' \in [Threads -> EvEvents \union {0}]
    BY <1>2
  <2>2. QED
    BY <1>1, <2>1 DEF EvTypes, ObjTypeOK
<1>6. EvCopiesInv'
  <2>1. \A e \in EvEvents : EvCopies(e)' = EvCopies(e)
    BY DEF EvCopies, EvIn, EvWith
  <2>2. made' \in Nat
    OBVIOUS
  <2>3. QED
    BY <2>1, <2>2, EvCopiesMove
<1>7. EvThreadInv(t)'
  <2>1. EvThreadInv(t)
    BY DEF EvInv
  <2>2. QED
    BY <1>3, <2>1 DEF EvThreadInv, EvWakes, EvWaits
<1>8. /\ Distinct(pq') /\ (pq' # <<>> => events' = <<>> /\ exists) /\ (toSleep' # {} => events' = <<>>)
      /\ toSleep' \subseteq toSleep /\ t \notin toSleep'
  BY DEF EvInv, EvListInv, EvLoadInv
<1>9. QED
  BY <1>3, <1>4, <1>5, <1>6, <1>7, <1>8, EvStepInv

(***************************************************************************)
(* What the steps of a call read.                                          *)
(***************************************************************************)
LEMMA EvReads ==
  ASSUME EvInv, NEW t \in Threads
  PROVE  /\ EvTypes /\ EvThreadInv(t)
         /\ pc \in [Threads -> Queue!PCs] /\ timed \in [Threads -> BOOLEAN]
         /\ timed[t] \in BOOLEAN /\ (timed[t] => "timeout" \in faults)
         /\ arg[t] \in EvEvents \union {0} /\ arg = [arg EXCEPT ![t] = arg[t]]
         /\ given[t] \in EvEvents \union {0}
         /\ sched \in [Threads -> SchedStates]
         /\ made \in 0..MaxEvents /\ made <= made /\ busy \in Nat
         /\ guard = t <=> pc[t] \in EvWakes
         /\ t \in toSleep => pc[t] = "r_redo"
         /\ pc[t] \in EvWaits \ {"r_wait"} => "timeout" \in faults
<1>1. EvTypes /\ EvThreadInv(t) /\ EvFaultInv /\ EvGuardInv /\ EvLoadInv
  BY DEF EvInv
<1>2. /\ arg \in [Threads -> EvEvents \union {0}] /\ given \in [Threads -> EvEvents \union {0}]
      /\ timed \in [Threads -> BOOLEAN]
  BY <1>1 DEF EvTypes, ObjTypeOK
<1>3. arg = [arg EXCEPT ![t] = arg[t]]
  BY <1>2
<1>4. made \in 0..MaxEvents /\ made <= made /\ busy \in Nat
  BY <1>1 DEF EvTypes
<1>5. QED
  BY <1>1, <1>2, <1>3, <1>4 DEF EvTypes, ObjTypeOK, EvFaultInv, EvGuardInv, EvLoadInv

(***************************************************************************)
(* A timeout and a savestate do not meet.                                  *)
(***************************************************************************)
LEMMA EvNoSave ==
  ASSUME OneFault, EvInv, "timeout" \in faults
  PROVE  stopped = {}
<1>1. faults \in Faults
  BY DEF EvInv, EvTypes, ObjTypeOK
<1>2. "save" \notin faults
  BY <1>1 DEF OneFault
<1>3. QED
  BY <1>2 DEF EvInv, EvFaultInv

(***************************************************************************)
(* A receiver that is stopped while it is queued makes its call again.     *)
(***************************************************************************)
LEMMA EvStoppedInv ==
  ASSUME EvInv, NEW t \in Threads, Queue!WaitStopped(t), Contains(pq, t)
  PROVE  EvInv'
<1>l. PICK l \in Queue!PCs : l = "a_recv"
  BY DEF Queue!PCs
<1>1. /\ pc[t] = "r_wait" /\ pc' = [pc EXCEPT ![t] = l] /\ timed' = [timed EXCEPT ![t] = timed[t]]
      /\ UNCHANGED <<fifo, exists, stopped, toSleep, saves, faults, guard, sched, toAwake, alive, port,
                     events, pq, given, accepted, taken, arg, made, busy>>
  BY <1>l, EvSame DEF Queue!WaitStopped, Queue!Stopping, Queue!Goto, Queue!Enter, Queue!world
<1>2. given[t] = 0 /\ t \notin toSleep /\ t \notin toAwake
  BY <1>1, EvReads DEF EvThreadInv
<1>3. busy' = busy + Ind(l \in EvBusies) - Ind(pc[t] \in EvBusies)
  BY <1>l, <1>1, EvReads DEF Ind, EvBusies
<1>4. pc[t] \notin EvWakes /\ l \notin EvWakes /\ l \notin EvBusies /\ l \notin EvWaits
  BY <1>l, <1>1 DEF EvWakes, EvBusies, EvWaits
<1>5. QED
  BY <1>l, <1>1, <1>2, <1>3, <1>4, EvReads, EvLocalInv

(***************************************************************************)
(* The time is up.                                                         *)
(***************************************************************************)
LEMMA EvTimeOutInv ==
  ASSUME EvInv, NEW t \in Threads, Queue!TimeOut(t)
  PROVE  EvInv'
<1>l. PICK l \in Queue!PCs : l = "t_check"
  BY DEF Queue!PCs
<1>1. /\ pc[t] = "r_wait" /\ timed[t]
      /\ pc' = [pc EXCEPT ![t] = l] /\ timed' = [timed EXCEPT ![t] = timed[t]]
      /\ UNCHANGED <<fifo, exists, stopped, toSleep, saves, faults, guard, sched, toAwake, alive, port,
                     events, pq, given, accepted, taken, arg, made, busy>>
  BY <1>l DEF Queue!TimeOut, Queue!TimedOut, Queue!Goto, Queue!Enter, Queue!world, Queue!own
<1>3. busy' = busy + Ind(l \in EvBusies) - Ind(pc[t] \in EvBusies)
  BY <1>l, <1>1, EvReads DEF Ind, EvBusies
<1>4. /\ pc[t] \notin EvWakes /\ l \notin EvWakes /\ l \notin EvBusies /\ "timeout" \in faults
      /\ l \in (EvWaits \ {"t_over"}) \union {"a_recv"} /\ l \in EvWaits /\ t \notin toSleep
      /\ l \notin {"r_wait", "s_redo", "p_wait", "a_send", "a_sent", "a_recv"}
  BY <1>l, <1>1, EvReads DEF EvWakes, EvBusies, EvWaits
<1>5. /\ arg' = [arg EXCEPT ![t] = arg[t]] /\ arg[t] \in EvEvents \union {0}
      /\ sched' \in [Threads -> SchedStates] /\ \A u \in Threads \ {t} : sched'[u] = sched[u]
      /\ made' \in 0..MaxEvents /\ made <= made' /\ busy' \in Nat /\ timed[t] \in BOOLEAN
  BY <1>1, EvReads
<1>6. sched'[t] = "asleep" => l \in {"t_check", "a_recv"}
  BY <1>l
<1>7. QED
  BY <1>1, <1>3, <1>4, <1>5, <1>6, EvLocalInv

(***************************************************************************)
(* A thread whose time is up waits until the scheduler lets it run.        *)
(***************************************************************************)
LEMMA EvTimeOutCheckInv ==
  ASSUME OneFault, EvInv, NEW t \in Threads, Queue!TimeOutCheck(t)
  PROVE  EvInv'
<1>1. /\ pc[t] = "t_check" /\ Queue!CheckState(t, "r_wait", "t_test")
      /\ UNCHANGED <<fifo, exists, stopped, toSleep, saves, faults, guard, timed, toAwake, alive, port,
                     events, pq, given, accepted, taken, arg, made, busy>>
  BY DEF Queue!TimeOutCheck, Queue!world, Queue!own
<1>2. "timeout" \in faults /\ stopped = {} /\ t \notin toSleep
  BY <1>1, EvReads, EvNoSave DEF EvWaits
<1>3. pc = [pc EXCEPT ![t] = "t_check"] /\ timed = [timed EXCEPT ![t] = timed[t]]
  BY <1>1, EvReads
<1>4. PICK l \in Queue!PCs :
        /\ l \in {"t_check", "t_test"} /\ pc' = [pc EXCEPT ![t] = l]
        /\ sched' = [sched EXCEPT ![t] = "ready"] \/ sched' = [sched EXCEPT ![t] = "on"]
  <2>1. "t_check" \in Queue!PCs /\ "t_test" \in Queue!PCs
    BY DEF Queue!PCs
  <2>2. QED
    BY <1>1, <1>2, <1>3, <2>1 DEF Queue!CheckState
<1>5. /\ sched' \in [Threads -> SchedStates] /\ \A u \in Threads \ {t} : sched'[u] = sched[u]
      /\ sched'[t] # "asleep"
  BY <1>4, EvReads DEF SchedStates
<1>6. busy' = busy + Ind(l \in EvBusies) - Ind(pc[t] \in EvBusies)
  BY <1>1, <1>4, EvReads DEF Ind, EvBusies
<1>7. /\ pc[t] \notin EvWakes /\ l \notin EvWakes /\ l \notin EvBusies
      /\ l \in (EvWaits \ {"t_over"}) \union {"a_recv"} /\ l \in EvWaits
      /\ l \notin {"r_wait", "s_redo", "p_wait", "a_send", "a_sent", "a_recv"}
  BY <1>1, <1>4 DEF EvWakes, EvBusies, EvWaits
<1>8. /\ timed' = [timed EXCEPT ![t] = timed[t]] /\ timed[t] \in BOOLEAN
      /\ arg' = [arg EXCEPT ![t] = arg[t]] /\ arg[t] \in EvEvents \union {0}
      /\ made' \in 0..MaxEvents /\ made <= made' /\ busy' \in Nat
  BY <1>1, <1>3, EvReads
<1>9. QED
  BY <1>1, <1>2, <1>4, <1>5, <1>6, <1>7, <1>8, EvLocalInv

(***************************************************************************)
(* A receiver whose time is up looks at the list without a lock.           *)
(***************************************************************************)
LEMMA EvTimeOutTestInv ==
  ASSUME EvInv, NEW t \in Threads, Queue!TimeOutTest(t)
  PROVE  EvInv'
<1>1. PICK l \in Queue!PCs :
        /\ pc[t] = "t_test" /\ l = IF pq = <<>> THEN "t_over" ELSE "t_lock"
        /\ pc' = [pc EXCEPT ![t] = l] /\ timed' = [timed EXCEPT ![t] = timed[t]]
        /\ UNCHANGED <<fifo, exists, stopped, toSleep, saves, faults, guard, sched, toAwake, alive,
                       port, events, pq, given, accepted, taken, arg, made, busy>>
  <2>1. "t_over" \in Queue!PCs /\ "t_lock" \in Queue!PCs
    BY DEF Queue!PCs
  <2>2. QED
    BY <2>1 DEF Queue!TimeOutTest, Queue!Goto, Queue!Enter, Queue!world, Queue!own
<1>2. busy' = busy + Ind(l \in EvBusies) - Ind(pc[t] \in EvBusies)
  BY <1>1, EvReads DEF Ind, EvBusies
<1>3. /\ pc[t] \notin EvWakes /\ l \notin EvWakes /\ l \notin EvBusies
      /\ l \in EvWaits /\ "timeout" \in faults /\ t \notin toSleep /\ sched[t] # "asleep"
      /\ l \notin {"r_wait", "s_redo", "p_wait", "a_send", "a_sent", "a_recv"}
  BY <1>1, EvReads DEF EvWakes, EvBusies, EvWaits, EvThreadInv
<1>4. Contains(pq, t) => l \in EvWaits \ {"t_over"}
  BY <1>1, <1>3 DEF Contains
<1>5. QED
  BY <1>1, <1>2, <1>3, <1>4, EvReads, EvLocalInv

(***************************************************************************)
(* A call made again finds no queue.                                       *)
(***************************************************************************)
LEMMA EvRedoEsrchInv ==
  ASSUME EvInv, NEW t \in Threads, Queue!RedoEsrch(t)
  PROVE  EvInv'
<1>l. PICK l \in Queue!PCs : l = "idle"
  BY DEF Queue!PCs
<1>1. /\ pc[t] \in {"r_redo", "d_redo"} /\ ~exists
      /\ pc' = [pc EXCEPT ![t] = l] /\ timed' = [timed EXCEPT ![t] = FALSE]
      /\ UNCHANGED <<fifo, exists, stopped, toSleep, saves, faults, guard, sched, toAwake, alive, port,
                     events, pq, given, accepted, taken, arg, made, busy>>
  BY <1>l DEF Queue!RedoEsrch, Queue!Return, Queue!Enter, Queue!world, Queue!own
<1>2. toSleep = {}
  BY <1>1 DEF EvInv, EvLoadInv
<1>3. busy' = busy + Ind(l \in EvBusies) - Ind(pc[t] \in EvBusies)
  BY <1>l, <1>1, EvReads DEF Ind, EvBusies
<1>4. /\ pc[t] \notin EvWakes /\ l \notin EvWakes /\ l \notin EvBusies /\ l \notin EvWaits
      /\ ~Contains(pq, t) /\ given[t] = 0 /\ sched[t] # "asleep"
  BY <1>l, <1>1, EvReads DEF EvWakes, EvBusies, EvWaits, EvThreadInv
<1>w. t \notin toAwake
  BY <1>1, EvReads DEF EvWaits, EvThreadInv
<1>5. QED
  BY <1>l, <1>1, <1>2, <1>3, <1>4, <1>w, EvReads, EvLocalInv

(***************************************************************************)
(* A sender that has waited for its turn goes on.                          *)
(***************************************************************************)
LEMMA EvSendRequeuedInv ==
  ASSUME EvInv, NEW t \in Threads, Queue!SendRequeued(t)
  PROVE  EvInv'
<1>1. PICK l \in Queue!PCs, a \in EvEvents \union {0} :
        /\ pc[t] = "p_wait" /\ l \in {"a_sent", "idle"} /\ (l = "a_sent" => a = arg[t])
        /\ pc' = [pc EXCEPT ![t] = l] /\ timed' = [timed EXCEPT ![t] = timed[t]]
        /\ arg' = [arg EXCEPT ![t] = a] /\ busy' = busy - 1
        /\ UNCHANGED <<fifo, exists, stopped, toSleep, saves, faults, guard, sched, toAwake, alive,
                       port, events, pq, given, accepted, taken, made>>
  <2>1. "a_sent" \in Queue!PCs /\ "idle" \in Queue!PCs
    BY DEF Queue!PCs
  <2>2. CASE t \in stopped
    BY <2>1, <2>2, EvReads DEF Queue!SendRequeued, Queue!Goto, Queue!Enter, Queue!world
  <2>3. CASE t \notin stopped
    BY <2>1, <2>3, EvReads DEF Queue!SendRequeued, Queue!Goto, Queue!Enter, Queue!world, Queue!NoEvent
  <2>4. QED
    BY <2>2, <2>3
<1>2. busy > 0
  <2>1. EvBusy \in SUBSET Threads /\ EvBusy # {}
    BY <1>1 DEF EvBusy, EvBusies
  <2>2. Cardinality(EvBusy) # 0
    BY <2>1, ThreadsAssumption, FS_Subset, FS_EmptySet
  <2>3. QED
    BY <2>2, EvReads DEF EvInv, EvPortInv
<1>3. busy' = busy + Ind(l \in EvBusies) - Ind(pc[t] \in EvBusies) /\ busy' \in Nat
  BY <1>1, <1>2, EvReads DEF Ind, EvBusies
<1>4. /\ pc[t] \notin EvWakes /\ l \notin EvWakes /\ l \notin EvBusies /\ l \notin EvWaits
      /\ ~Contains(pq, t) /\ given[t] = 0 /\ sched[t] # "asleep" /\ t \notin toSleep /\ arg[t] # 0
      /\ l \notin {"r_wait", "s_redo", "p_wait", "a_send", "a_recv"}
  BY <1>1, EvReads DEF EvWakes, EvBusies, EvWaits, EvThreadInv
<1>w. t \notin toAwake
  BY <1>1, EvReads DEF EvWaits, EvThreadInv
<1>5. QED
  BY <1>1, <1>3, <1>4, <1>w, EvReads, EvLocalInv

(***************************************************************************)
(* A receiver returns with the event in its registers, if it has one.      *)
(***************************************************************************)
LEMMA EvReturnInv ==
  ASSUME EvInv, NEW t \in Threads, pc[t] \in EvWaits, t \notin toAwake, Queue!ReturnGiven(t),
         pq' \in Seq(Threads), Distinct(pq'),
         \A u : Contains(pq', u) <=> Contains(pq, u) /\ u # t,
         sched' \in [Threads -> SchedStates], \A u \in Threads \ {t} : sched'[u] = sched[u],
         sched'[t] # "asleep",
         UNCHANGED <<fifo, exists, stopped, toSleep, saves, faults, guard, toAwake, alive, port,
                     events, arg, made, busy, accepted>>
  PROVE  EvInv'
<1>l. PICK l \in Queue!PCs : l = "idle"
  BY DEF Queue!PCs
<1>1. /\ pc' = [pc EXCEPT ![t] = l] /\ timed' = [timed EXCEPT ![t] = FALSE]
      /\ given' = [given EXCEPT ![t] = 0] /\ Queue!Take(<<given[t]>>)
  BY <1>l DEF Queue!ReturnGiven, Queue!Return, Queue!Enter, Queue!NoEvent
<1>2. EvTypes /\ given \in [Threads -> EvEvents \union {0}]
  BY DEF EvInv, EvTypes
<1>3. pc'[t] = l /\ timed'[t] = FALSE /\ given'[t] = 0 /\ EvOthers(t)
  BY <1>1, <1>2, EvReads DEF EvOthers
<1>4. /\ taken' \in [EvEvents -> Nat]
      /\ \A e \in EvEvents : taken'[e] = taken[e] + EvIn(<<given[t]>>, e)
  <2>1. <<given[t]>> \in Seq(EvEvents \union {0})
    BY EvReads
  <2>2. QED
    BY <1>1, <1>2, <2>1, EvTakeIs
<1>5. EvTypes'
  <2>1. /\ pc' \in [Threads -> Queue!PCs] /\ timed' \in [Threads -> BOOLEAN]
        /\ given' \in [Threads -> EvEvents \union {0}]
    BY <1>1, <1>2, EvReads
  <2>2. QED
    BY <1>2, <1>4, <2>1 DEF EvTypes, ObjTypeOK
<1>6. EvCopiesInv'
  <2>1. ASSUME NEW e \in EvEvents PROVE EvCopies(e)' = EvCopies(e)
    <3>1. EvWith(e) \in Nat /\ EvWith(e)' = EvWith(e) + 0 - (IF given[t] = e THEN 1 ELSE 0)
      <4>1. 0 # e /\ 0 \in EvEvents \union {0}
        BY EventsAssumption DEF EvEvents
      <4>2. QED
        BY <1>1, <1>2, <4>1, EvWithStep
    <3>3. taken'[e] = taken[e] + Ind(given[t] = e)
      BY <1>4, EvInOne
    <3>4. EvIn(events, e)' = EvIn(events, e)
      BY DEF EvIn
    <3>5. taken[e] \in Nat /\ EvIn(events, e) \in Nat /\ Ind(given[t] = e) \in Int
      BY <1>2, EvNumbers DEF Ind
    <3>6. QED
      BY <3>1, <3>3, <3>4, <3>5 DEF EvCopies, Ind
  <2>2. made' \in Nat /\ made <= made'
    BY EvReads
  <2>3. QED
    BY <2>1, <2>2, EvCopiesMove
<1>7. EvThreadInv(t)'
  BY <1>l, <1>3 DEF EvThreadInv
<1>8. pq' # <<>> => events' = <<>> /\ exists
  <2>1. pq' # <<>> => pq # <<>>
    <3>1. ASSUME pq' # <<>> PROVE pq # <<>>
      <4>1. PICK u \in Threads : Contains(pq', u)
        BY <3>1, RwSomebody
      <4>2. Contains(pq, u)
        BY <4>1
      <4>3. QED
        BY <4>2 DEF Contains
    <3>2. QED
      BY <3>1
  <2>2. QED
    BY <2>1 DEF EvInv, EvListInv
<1>9. t \notin toSleep /\ pc[t] \notin EvWakes /\ l \notin EvWakes /\ l \notin EvBusies
      /\ pc[t] \notin EvBusies /\ l \notin EvWaits /\ (toSleep' # {} => events' = <<>>)
  BY <1>l, EvReads DEF EvWaits, EvWakes, EvBusies, EvInv, EvLoadInv
<1>10. busy' = busy + Ind(l \in EvBusies) - Ind(pc[t] \in EvBusies)
  BY <1>9, EvReads DEF Ind
<1>11. QED
  BY <1>3, <1>5, <1>6, <1>7, <1>8, <1>9, <1>10, EvStepInv

(***************************************************************************)
(* The signal ends a wait.                                                 *)
(***************************************************************************)
LEMMA EvTakeSignalInv ==
  ASSUME EvInv, NEW t \in Threads, Queue!TakeSignal(t)
  PROVE  EvInv'
<1>1. /\ pc[t] = "r_wait" /\ sched[t] = "signal" /\ sched' = [sched EXCEPT ![t] = "on"]
      /\ Queue!ReturnGiven(t)
      /\ UNCHANGED <<fifo, exists, stopped, toSleep, saves, faults, guard, toAwake, alive, port,
                     events, arg, made, busy, accepted, pq>>
  BY DEF Queue!TakeSignal, Queue!Signalled, Queue!world
<1>2. /\ sched' \in [Threads -> SchedStates] /\ \A u \in Threads \ {t} : sched'[u] = sched[u]
      /\ sched'[t] # "asleep"
  BY <1>1, EvReads DEF SchedStates
<1>3. ~Contains(pq, t) /\ pc[t] \in EvWaits /\ t \notin toAwake
  BY <1>1, EvReads DEF EvThreadInv, EvWaits
<1>4. /\ pq' \in Seq(Threads) /\ Distinct(pq')
      /\ \A u : Contains(pq', u) <=> Contains(pq, u) /\ u # t
  BY <1>1, <1>3 DEF EvInv, EvTypes, EvListInv
<1>5. QED
  BY <1>1, <1>2, <1>3, <1>4, EvReturnInv

(***************************************************************************)
(* A receiver that is stopped when it has its event returns with it.       *)
(***************************************************************************)
LEMMA EvStoppedServedInv ==
  ASSUME EvInv, NEW t \in Threads, Queue!WaitStopped(t), ~Contains(pq, t)
  PROVE  EvInv'
<1>1. /\ pc[t] = "r_wait" /\ guard = NoThread /\ Queue!ReturnGiven(t)
      /\ UNCHANGED <<fifo, exists, stopped, toSleep, saves, faults, guard, sched, toAwake, alive, port,
                     events, arg, made, busy, accepted, pq>>
  BY EvSame DEF Queue!WaitStopped, Queue!Stopping, Queue!world
<1>2. t \notin toAwake /\ pc[t] \in EvWaits
  BY <1>1 DEF EvInv, EvGuardInv, EvWaits
<1>3. /\ sched' \in [Threads -> SchedStates] /\ \A u \in Threads \ {t} : sched'[u] = sched[u]
      /\ sched'[t] # "asleep"
  BY <1>1, <1>2, EvReads DEF EvThreadInv
<1>4. /\ pq' \in Seq(Threads) /\ Distinct(pq')
      /\ \A u : Contains(pq', u) <=> Contains(pq, u) /\ u # t
  BY <1>1 DEF EvInv, EvTypes, EvListInv
<1>5. QED
  BY <1>1, <1>2, <1>3, <1>4, EvReturnInv

(***************************************************************************)
(* The end of a timed-out wait: the thread leaves the list, or finds that  *)
(* it is off it and has its event.                                         *)
(***************************************************************************)
LEMMA EvTimeOutEndInv ==
  ASSUME EvInv, NEW t \in Threads, Queue!TimeOutOver(t) \/ Queue!TimeOutLock(t)
  PROVE  EvInv'
<1>1. /\ pc[t] \in {"t_over", "t_lock"} /\ guard = NoThread /\ Queue!ReturnGiven(t)
      /\ UNCHANGED <<fifo, exists, stopped, toSleep, saves, faults, guard, sched, toAwake, alive, port,
                     events, arg, made, busy, accepted>>
      /\ pq' = RemoveFirst(pq, t) \/ (pc[t] = "t_over" /\ pq' = pq)
  BY EvSame DEF Queue!TimeOutOver, Queue!TimeOutLock, Queue!world
<1>2. /\ sched' \in [Threads -> SchedStates] /\ \A u \in Threads \ {t} : sched'[u] = sched[u]
      /\ sched'[t] # "asleep" /\ pc[t] \in EvWaits /\ t \notin toAwake
  BY <1>1, EvReads DEF EvInv, EvGuardInv, EvThreadInv, EvWaits
<1>3. pq \in Seq(Threads) /\ Distinct(pq) /\ (pc[t] = "t_over" => ~Contains(pq, t))
  BY EvReads DEF EvInv, EvTypes, EvListInv, EvThreadInv, EvWaits
<1>4. /\ pq' \in Seq(Threads) /\ Distinct(pq')
      /\ \A u : Contains(pq', u) <=> Contains(pq, u) /\ u # t
  <2>1. CASE pq' = RemoveFirst(pq, t)
    BY <1>3, <2>1, RemoveFirstHas
  <2>2. CASE pc[t] = "t_over" /\ pq' = pq
    BY <1>3, <2>2
  <2>3. QED
    BY <1>1, <2>1, <2>2
<1>5. QED
  BY <1>1, <1>2, <1>4, EvReturnInv

(***************************************************************************)
(* Events are taken from the front of the queue.                           *)
(***************************************************************************)
LEMMA EvTakeFront ==
  ASSUME EvInv, NEW a \in Seq(EvEvents), NEW b \in Seq(EvEvents), events = a \o b,
         Queue!Take(a), events' = b, UNCHANGED <<given, accepted, saves>>,
         made' = made
  PROVE  /\ taken' \in [EvEvents -> Nat] /\ Len(events') <= QueueSize
         /\ EvCopiesInv'
<1>1. EvTypes
  BY DEF EvInv
<1>2. taken' \in [EvEvents -> Nat] /\ \A e \in EvEvents : taken'[e] = taken[e] + EvIn(a, e)
  BY <1>1, EvTakeIs
<1>3. Len(events') <= QueueSize
  <2>1. Len(a) \in Nat /\ Len(b) \in Nat /\ Len(events) = Len(a) + Len(b) /\ Len(events) <= QueueSize
    BY <1>1 DEF EvTypes
  <2>2. QED
    BY <2>1, EventsAssumption
<1>4. ASSUME NEW e \in EvEvents PROVE EvCopies(e)' = EvCopies(e)
  <2>1. EvIn(a, e) \in Nat /\ EvIn(b, e) \in Nat /\ EvIn(events, e) = EvIn(a, e) + EvIn(b, e)
    BY EvInConcat
  <2>2. EvIn(events, e)' = EvIn(b, e) /\ EvWith(e)' = EvWith(e)
    BY DEF EvIn, EvWith
  <2>3. taken[e] \in Nat /\ EvWith(e) \in Nat
    BY <1>1, EvNumbers
  <2>4. QED
    BY <1>2, <2>1, <2>2, <2>3 DEF EvCopies
<1>5. made' \in Nat /\ made <= made'
  BY <1>1 DEF EvTypes
<1>6. QED
  BY <1>2, <1>3, <1>4, <1>5, EvCopiesMove

-----------------------------------------------------------------------------
(* The event queue: receiving *)

(***************************************************************************)
(* receive takes the oldest event.                                         *)
(***************************************************************************)
LEMMA EvReceiveTakes ==
  ASSUME EvInv, NEW t \in Threads, pc[t] \in {"idle", "r_redo"}, toSleep = {}, events # <<>>,
         Queue!Take(<<Head(events)>>), events' = Tail(events), Queue!Return(t),
         UNCHANGED <<fifo, exists, stopped, toSleep, saves, faults, guard, sched, toAwake, alive, port,
                     pq, given, arg, made, busy, accepted>>
  PROVE  EvInv'
<1>l. PICK l \in Queue!PCs : l = "idle"
  BY DEF Queue!PCs
<1>1. /\ pc' = [pc EXCEPT ![t] = l] /\ timed' = [timed EXCEPT ![t] = FALSE]
  BY <1>l DEF Queue!Return, Queue!Enter
<1>2. EvTypes /\ events \in Seq(EvEvents)
  BY DEF EvInv, EvTypes
<1>3. pc'[t] = l /\ timed'[t] = FALSE /\ EvOthers(t)
  BY <1>1, EvReads DEF EvOthers
<1>4. /\ <<Head(events)>> \in Seq(EvEvents) /\ Tail(events) \in Seq(EvEvents)
      /\ events = <<Head(events)>> \o Tail(events)
  BY <1>2
<1>5. taken' \in [EvEvents -> Nat] /\ Len(events') <= QueueSize /\ EvCopiesInv'
  BY <1>4, EvTakeFront
<1>6. EvTypes'
  <2>1. pc' \in [Threads -> Queue!PCs] /\ timed' \in [Threads -> BOOLEAN]
    BY <1>1, EvReads
  <2>2. QED
    BY <1>2, <1>4, <1>5, <2>1 DEF EvTypes, ObjTypeOK
<1>7. /\ pq = <<>> /\ ~Contains(pq, t) /\ given[t] = 0 /\ sched[t] # "asleep"
      /\ pc[t] \notin EvWakes /\ l \notin EvWakes /\ l \notin EvBusies /\ l \notin EvWaits
      /\ pc[t] \notin EvBusies
  BY <1>l, EvReads DEF EvInv, EvListInv, EvThreadInv, EvWaits, EvWakes, EvBusies
<1>w. t \notin toAwake
  BY EvReads DEF EvWaits, EvThreadInv
<1>8. EvThreadInv(t)'
  BY <1>l, <1>3, <1>7, <1>w DEF EvThreadInv
<1>9. busy' = busy + Ind(l \in EvBusies) - Ind(pc[t] \in EvBusies)
  BY <1>7, EvReads DEF Ind
<1>10. Distinct(pq') /\ pq' = <<>> /\ t \notin toSleep' /\ toSleep' = {}
  BY <1>7 DEF EvInv, EvListInv
<1>11. QED
  BY <1>3, <1>5, <1>6, <1>7, <1>8, <1>9, <1>10, EvStepInv

(***************************************************************************)
(* receive finds no event and sleeps.                                      *)
(***************************************************************************)
LEMMA EvReceiveSleeps ==
  ASSUME EvInv, NEW t \in Threads, pc[t] \in {"idle", "r_redo"}, NEW to \in BOOLEAN,
         to => "timeout" \in faults, exists, events = <<>>, guard = NoThread,
         sched' = [sched EXCEPT ![t] = "asleep"], toSleep' = toSleep \ {t},
         pq' = <<t>> \o pq, Queue!Enter(t, "r_wait", to),
         UNCHANGED <<fifo, exists, stopped, saves, faults, guard, toAwake, alive, port,
                     events, taken, given, arg, made, busy, accepted>>
  PROVE  EvInv'
<1>l. PICK l \in Queue!PCs : l = "r_wait"
  BY DEF Queue!PCs
<1>1. /\ pc' = [pc EXCEPT ![t] = l] /\ timed' = [timed EXCEPT ![t] = to]
  BY <1>l DEF Queue!Enter
<1>2. EvTypes /\ pq \in Seq(Threads) /\ Distinct(pq) /\ toSleep \subseteq Threads
  BY DEF EvInv, EvTypes, EvListInv, ObjTypeOK
<1>3. /\ ~Contains(pq, t) /\ given[t] = 0 /\ sched[t] # "asleep" /\ t \notin toAwake
      /\ pc[t] \notin EvWakes /\ l \notin EvWakes /\ l \notin EvBusies /\ l \in EvWaits
      /\ pc[t] \notin EvBusies
  BY <1>l, EvReads DEF EvInv, EvGuardInv, EvThreadInv, EvWaits, EvWakes, EvBusies
<1>4. /\ pq' \in Seq(Threads) /\ Distinct(pq')
      /\ \A x : Contains(pq', x) <=> Contains(pq, x) \/ x = t
  BY <1>2, <1>3, PushIs
<1>5. /\ sched' \in [Threads -> SchedStates] /\ sched'[t] = "asleep"
      /\ \A u \in Threads \ {t} : sched'[u] = sched[u]
  BY EvReads DEF SchedStates
<1>6. pc'[t] = l /\ timed'[t] = to /\ EvOthers(t)
  BY <1>1, <1>4, <1>5, EvReads DEF EvOthers
<1>7. EvTypes'
  <2>1. pc' \in [Threads -> Queue!PCs] /\ timed' \in [Threads -> BOOLEAN]
    BY <1>1, EvReads
  <2>2. QED
    BY <1>2, <1>4, <1>5, <2>1 DEF EvTypes, ObjTypeOK
<1>8. EvCopiesInv'
  <2>1. \A e \in EvEvents : EvCopies(e)' = EvCopies(e)
    BY DEF EvCopies, EvIn, EvWith
  <2>2. made' \in Nat /\ made <= made'
    BY EvReads
  <2>3. QED
    BY <2>1, <2>2, EvCopiesMove
<1>9. EvThreadInv(t)'
  BY <1>l, <1>3, <1>4, <1>5, <1>6 DEF EvThreadInv, EvWaits
<1>10. busy' = busy + Ind(l \in EvBusies) - Ind(pc[t] \in EvBusies)
  BY <1>3, EvReads DEF Ind
<1>11. /\ timed'[t] \/ l \in EvWaits \ {"r_wait"} => "timeout" \in faults
       /\ toSleep' \subseteq toSleep /\ t \notin toSleep'
  BY <1>l, <1>6
<1>12. QED
  BY <1>3, <1>4, <1>6, <1>7, <1>8, <1>9, <1>10, <1>11, EvStepInv

(***************************************************************************)
(* sys_event_queue_receive, made for the first time or again.              *)
(***************************************************************************)
LEMMA EvReceiveInv ==
  ASSUME EvInv, NEW t \in Threads, NEW from \in {"idle", "r_redo"}, NEW to \in BOOLEAN,
         to => "timeout" \in faults, Queue!Receive(t, from, to)
  PROVE  EvInv'
<1>1. /\ pc[t] \in {"idle", "r_redo"} /\ exists /\ guard = NoThread
      /\ UNCHANGED <<fifo, exists, stopped, saves, faults, guard, alive, given, arg, port, busy,
                     toAwake, made, accepted>>
      /\ toSleep = {} \/ t \in toSleep
  BY DEF Queue!Receive, Queue!Running, Queue!MayStep
<1>2. CASE events = <<>>
  <2>1. /\ sched' = [sched EXCEPT ![t] = "asleep"] /\ toSleep' = toSleep \ {t}
        /\ pq' = <<t>> \o pq /\ Queue!Enter(t, "r_wait", to) /\ UNCHANGED <<events, taken>>
    BY <1>2 DEF Queue!Receive, Queue!FallAsleep
  <2>2. QED
    BY <1>1, <1>2, <2>1, EvReceiveSleeps
<1>3. CASE events # <<>>
  <2>1. /\ Queue!Take(<<Head(events)>>) /\ events' = Tail(events) /\ Queue!Return(t)
        /\ UNCHANGED <<sched, toSleep, pq>>
    BY <1>3 DEF Queue!Receive
  <2>2. toSleep = {}
    BY <1>3 DEF EvInv, EvLoadInv
  <2>3. QED
    BY <1>1, <1>3, <2>1, <2>2, EvReceiveTakes
<1>4. QED
  BY <1>2, <1>3

(***************************************************************************)
(* tryreceive and drain take events off the front of the queue.            *)
(***************************************************************************)
LEMMA EvTryReceiveInv ==
  ASSUME EvInv, NEW t \in Threads, NEW a \in Seq(EvEvents), NEW b \in Seq(EvEvents),
         events = a \o b, events # <<>>, pc[t] = "idle", toSleep = {},
         Queue!Take(a), events' = b,
         UNCHANGED <<fifo, exists, stopped, toSleep, saves, faults, guard, pc, timed, sched, toAwake,
                     alive, port, pq, given, arg, made, busy, accepted>>
  PROVE  EvInv'
<1>l. PICK l \in Queue!PCs : l = "idle"
  BY DEF Queue!PCs
<1>1. EvTypes /\ pq = <<>> /\ pc'[t] = l /\ EvOthers(t)
  BY <1>l DEF EvInv, EvListInv, EvOthers
<1>2. taken' \in [EvEvents -> Nat] /\ Len(events') <= QueueSize /\ EvCopiesInv'
  BY EvTakeFront
<1>3. EvTypes'
  BY <1>1, <1>2 DEF EvTypes, ObjTypeOK
<1>4. EvThreadInv(t)'
  BY EvReads DEF EvThreadInv
<1>5. /\ pc[t] \notin EvWakes /\ l \notin EvWakes /\ l \notin EvBusies /\ l \notin EvWaits
      /\ pc[t] \notin EvBusies
  BY <1>l DEF EvWaits, EvWakes, EvBusies
<1>6. busy' = busy + Ind(l \in EvBusies) - Ind(pc[t] \in EvBusies)
  BY <1>5, EvReads DEF Ind
<1>7. /\ Distinct(pq') /\ pq' = <<>> /\ t \notin toSleep' /\ toSleep' = {}
      /\ timed'[t] => "timeout" \in faults
  BY <1>1, EvReads DEF EvInv, EvListInv
<1>8. QED
  BY <1>1, <1>2, <1>3, <1>4, <1>5, <1>6, <1>7, EvStepInv

(***************************************************************************)
(* tryreceive takes some, drain takes all.                                 *)
(***************************************************************************)
LEMMA EvTakeSomeInv ==
  ASSUME EvInv, NEW t \in Threads,
         Queue!Drain(t) \/ \E n \in 1..QueueSize : Queue!TryReceive(t, n)
  PROVE  EvInv'
<1>1. events \in Seq(EvEvents) /\ Len(events) \in Nat
  BY DEF EvInv, EvTypes
<1>2. CASE Queue!Drain(t)
  <2>1. /\ events # <<>> /\ pc[t] = "idle" /\ toSleep = {} /\ Queue!Take(events) /\ events' = <<>>
        /\ UNCHANGED <<fifo, exists, stopped, toSleep, saves, faults, guard, pc, timed, sched, toAwake,
                       alive, port, pq, given, arg, made, busy, accepted>>
    BY <1>2 DEF Queue!Drain, Queue!Running, Queue!MayStep, Queue!world
  <2>2. events = events \o <<>> /\ <<>> \in Seq(EvEvents)
    BY <1>1
  <2>3. QED
    BY <1>1, <2>1, <2>2, EvTryReceiveInv
<1>3. ASSUME NEW n \in 1..QueueSize, Queue!TryReceive(t, n) PROVE EvInv'
  <2>1. PICK k \in Nat : k = IF n < Len(events) THEN n ELSE Len(events)
    BY <1>1, EventsAssumption
  <2>2. /\ events # <<>> /\ pc[t] = "idle" /\ toSleep = {}
        /\ Queue!Take(SubSeq(events, 1, k)) /\ events' = SubSeq(events, k + 1, Len(events))
        /\ UNCHANGED <<fifo, exists, stopped, toSleep, saves, faults, guard, pc, timed, sched, toAwake,
                       alive, port, pq, given, arg, made, busy, accepted>>
    BY <1>3, <2>1 DEF Queue!TryReceive, Queue!Running, Queue!MayStep, Queue!world
  <2>3. k \in 0..Len(events)
    BY <1>1, <1>3, <2>1, EventsAssumption
  <2>4. SubSeq(events, 1, k) \in Seq(EvEvents) /\ SubSeq(events, k + 1, Len(events)) \in Seq(EvEvents)
    <3>1. \A i \in 1..Len(events) : events[i] \in EvEvents
      BY <1>1
    <3>2. QED
      BY <1>1, <2>3, <3>1, SubSeqProperties
  <2>5. events = SubSeq(events, 1, k) \o SubSeq(events, k + 1, Len(events))
    <3>1. SubSeq(events, 1, k) \o SubSeq(events, k + 1, Len(events)) = SubSeq(events, 1, Len(events))
      <4>1. 1 \in 1..Len(events) + 1 /\ k \in 1 - 1..Len(events) /\ Len(events) \in k..Len(events)
        BY <1>1, <2>3
      <4>2. QED
        BY <1>1, <4>1, ConcatAdjacentSubSeq
    <3>2. QED
      BY <1>1, <3>1, SubSeqFull
  <2>6. QED
    BY <2>2, <2>4, <2>5, EvTryReceiveInv
<1>4. QED
  BY <1>2, <1>3

-----------------------------------------------------------------------------
(* The event queue: sending *)

(***************************************************************************)
(* An event goes into the queue.                                           *)
(***************************************************************************)
LEMMA EvStoreIs ==
  ASSUME EvInv, NEW x \in EvEvents, Queue!Store(x), UNCHANGED <<given, taken, saves>>,
         saves = 0 => x = made + 1 /\ made' = x
  PROVE  /\ events' \in Seq(EvEvents) /\ Len(events') <= QueueSize /\ pq = <<>>
         /\ accepted' \subseteq EvEvents /\ EvCopiesInv'
<1>1. /\ pq = <<>> /\ Len(events) < QueueSize /\ events' = Append(events, x)
      /\ accepted' = accepted \union {x}
  BY DEF Queue!Store
<1>2. EvTypes /\ events \in Seq(EvEvents) /\ Len(events) \in Nat /\ accepted \subseteq EvEvents
  BY DEF EvInv, EvTypes
<1>3. /\ events' \in Seq(EvEvents) /\ Len(events') = Len(events) + 1
      /\ events' = events \o <<x>> /\ <<x>> \in Seq(EvEvents)
  BY <1>1, <1>2
<1>4. ASSUME NEW e \in EvEvents PROVE EvCopies(e)' = EvCopies(e) + Ind(e = x)
  <2>1. EvIn(events', e) = EvIn(events, e) + EvIn(<<x>>, e)
    BY <1>2, <1>3, EvInConcat
  <2>2. EvIn(<<x>>, e) = Ind(e = x)
    <3>1. EvIn(<<x>>, e) = Ind(x = e)
      BY EvInOne
    <3>2. QED
      BY <3>1 DEF Ind
  <2>3. EvIn(events, e)' = EvIn(events', e) /\ EvWith(e)' = EvWith(e) /\ taken'[e] = taken[e]
    BY DEF EvIn, EvWith
  <2>4. taken[e] \in Nat /\ EvIn(events, e) \in Nat /\ EvWith(e) \in Nat /\ Ind(e = x) \in Int
    BY <1>2, EvNumbers DEF Ind
  <2>5. QED
    BY <2>1, <2>2, <2>3, <2>4 DEF EvCopies
<1>5. EvCopiesInv'
  BY <1>1, <1>4, EvCopiesAdd
<1>6. QED
  BY <1>1, <1>2, <1>3, <1>5, EventsAssumption

(***************************************************************************)
(* An event goes to a receiver, who is taken off the list.                 *)
(***************************************************************************)
LEMMA EvGiveIs ==
  ASSUME EvInv, NEW x \in EvEvents, NEW u \in Threads, Contains(pq, u), Queue!Give(x, u),
         UNCHANGED <<events, taken, saves>>,
         saves = 0 => x = made + 1 /\ made' = x
  PROVE  /\ pq' \in Seq(Threads) /\ Distinct(pq')
         /\ \A v : Contains(pq', v) <=> Contains(pq, v) /\ v # u
         /\ given' \in [Threads -> EvEvents \union {0}] /\ given'[u] = x
         /\ \A v \in Threads \ {u} : given'[v] = given[v]
         /\ accepted' \subseteq EvEvents /\ EvCopiesInv'
<1>1. /\ pq' = RemoveFirst(pq, u) /\ given' = [given EXCEPT ![u] = x]
      /\ accepted' = accepted \union {x}
  BY EvSame DEF Queue!Give
<1>2. /\ EvTypes /\ pq \in Seq(Threads) /\ given \in [Threads -> EvEvents \union {0}]
      /\ accepted \subseteq EvEvents /\ Distinct(pq) /\ given[u] = 0
  BY EvReads DEF EvInv, EvTypes, EvListInv, EvThreadInv
<1>3. /\ pq' \in Seq(Threads) /\ Distinct(pq')
      /\ \A v : Contains(pq', v) <=> Contains(pq, v) /\ v # u
  BY <1>1, <1>2, RemoveFirstHas
<1>4. ASSUME NEW e \in EvEvents PROVE EvCopies(e)' = EvCopies(e) + Ind(e = x)
  <2>1. 0 # e
    BY EventsAssumption DEF EvEvents
  <2>2. EvWith(e) \in Nat /\ EvWith(e)' = EvWith(e) + (IF x = e THEN 1 ELSE 0) - 0
    BY <1>1, <1>2, <2>1, EvWithStep
  <2>3. EvIn(events, e)' = EvIn(events, e) /\ taken'[e] = taken[e]
    BY DEF EvIn
  <2>4. taken[e] \in Nat /\ EvIn(events, e) \in Nat
    BY <1>2, EvNumbers
  <2>5. QED
    BY <2>2, <2>3, <2>4 DEF EvCopies, Ind
<1>5. EvCopiesInv'
  BY <1>1, <1>4, EvCopiesAdd
<1>6. QED
  BY <1>1, <1>2, <1>3, <1>5

(***************************************************************************)
(* What holds when a send begins.                                          *)
(***************************************************************************)
LEMMA EvSender ==
  ASSUME EvInv, NEW t \in Threads, NEW from \in {"idle", "s_redo"}, Queue!MayStep(t, from),
         guard = NoThread
  PROVE  /\ pc[t] = from /\ toSleep = {} /\ toAwake = {} /\ ~Contains(pq, t) /\ given[t] = 0
         /\ sched[t] # "asleep" /\ (from = "s_redo" => saves # 0)
         /\ pc[t] \notin EvWakes /\ pc[t] \notin EvBusies /\ pc[t] \notin EvWaits
<1>1. pc[t] = from /\ (from = "idle" => toSleep = {}) /\ (toSleep = {} \/ t \in toSleep)
  BY DEF Queue!MayStep
<1>2. toSleep = {}
  BY <1>1, EvReads
<1>3. QED
  BY <1>1, <1>2, EvReads DEF EvInv, EvGuardInv, EvThreadInv, EvWaits, EvWakes, EvBusies

(***************************************************************************)
(* A send is refused, or put off because the receiver left for a savestate.*)
(***************************************************************************)
LEMMA EvSendNotInv ==
  ASSUME EvInv, NEW t \in Threads, NEW from \in {"idle", "s_redo"}, Queue!MayStep(t, from),
         guard = NoThread, NEW x \in EvEvents, NEW a \in EvEvents \union {0},
         NEW l \in Queue!PCs, (l = "idle" /\ a = 0) \/ (l = "a_send" /\ a = x),
         pc' = [pc EXCEPT ![t] = l], timed' = [timed EXCEPT ![t] = timed[t]],
         arg' = [arg EXCEPT ![t] = a], made' \in 0..MaxEvents, made <= made',
         UNCHANGED <<fifo, exists, stopped, toSleep, saves, faults, guard, sched, toAwake, alive, port,
                     events, pq, given, accepted, taken, busy>>
  PROVE  EvInv'
<1>1. /\ pc[t] = from /\ toSleep = {} /\ toAwake = {} /\ ~Contains(pq, t) /\ given[t] = 0 /\ sched[t] # "asleep"
      /\ pc[t] \notin EvWakes /\ pc[t] \notin EvBusies
  BY EvSender
<1>2. l \notin EvWakes /\ l \notin EvBusies /\ l \notin EvWaits /\ l \notin {"r_wait", "s_redo", "a_recv"}
  BY DEF EvWaits, EvWakes, EvBusies
<1>3. busy' = busy + Ind(l \in EvBusies) - Ind(pc[t] \in EvBusies)
  BY <1>1, <1>2, EvReads DEF Ind
<1>4. l \in {"p_wait", "a_send", "a_sent"} => a # 0
  BY EventsAssumption DEF EvEvents
<1>5. /\ timed[t] \in BOOLEAN /\ (timed[t] => "timeout" \in faults) /\ busy' \in Nat
      /\ sched' \in [Threads -> SchedStates] /\ \A u \in Threads \ {t} : sched'[u] = sched[u]
  BY EvReads
<1>6. QED
  BY <1>1, <1>2, <1>3, <1>4, <1>5, EvLocalInv

(***************************************************************************)
(* A send puts its event into the queue.                                   *)
(***************************************************************************)
LEMMA EvSendStoreInv ==
  ASSUME EvInv, NEW t \in Threads, NEW from \in {"idle", "s_redo"}, Queue!MayStep(t, from),
         guard = NoThread, NEW x \in EvEvents, Queue!Store(x),
         NEW l \in Queue!PCs, l = "idle",
         pc' = [pc EXCEPT ![t] = l], timed' = [timed EXCEPT ![t] = timed[t]],
         arg' = [arg EXCEPT ![t] = 0], made' \in 0..MaxEvents,
         saves = 0 => x = made + 1 /\ made' = x,
         UNCHANGED <<fifo, exists, stopped, toSleep, saves, faults, guard, sched, toAwake, alive, port,
                     pq, given, taken, busy>>
  PROVE  EvInv'
<1>1. /\ pc[t] = from /\ toSleep = {} /\ toAwake = {} /\ ~Contains(pq, t) /\ given[t] = 0 /\ sched[t] # "asleep"
      /\ pc[t] \notin EvWakes /\ pc[t] \notin EvBusies
  BY EvSender
<1>2. l \notin EvWakes /\ l \notin EvBusies /\ l \notin EvWaits
  BY DEF EvWaits, EvWakes, EvBusies
<1>3. busy' = busy + Ind(l \in EvBusies) - Ind(pc[t] \in EvBusies)
  BY <1>1, <1>2, EvReads DEF Ind
<1>4. /\ events' \in Seq(EvEvents) /\ Len(events') <= QueueSize /\ pq = <<>>
      /\ accepted' \subseteq EvEvents /\ EvCopiesInv'
  BY EvStoreIs
<1>5. EvTypes /\ arg \in [Threads -> EvEvents \union {0}]
  BY DEF EvInv, EvTypes
<1>6. pc'[t] = l /\ timed'[t] = timed[t] /\ EvOthers(t)
  BY <1>5, EvReads DEF EvOthers
<1>7. EvTypes'
  <2>1. /\ pc' \in [Threads -> Queue!PCs] /\ timed' \in [Threads -> BOOLEAN]
        /\ arg' \in [Threads -> EvEvents \union {0}]
    BY <1>5, EvReads
  <2>2. QED
    BY <1>4, <1>5, <2>1 DEF EvTypes, ObjTypeOK
<1>8. EvThreadInv(t)'
  BY <1>1, <1>6 DEF EvThreadInv
<1>9. /\ Distinct(pq') /\ pq' = <<>> /\ toSleep' = {} /\ toSleep' \subseteq toSleep /\ t \notin toSleep'
      /\ timed'[t] => "timeout" \in faults
  BY <1>1, <1>4, <1>6, EvReads DEF EvInv, EvListInv
<1>10. QED
  BY <1>1, <1>2, <1>3, <1>4, <1>6, <1>7, <1>8, <1>9, EvStepInv

(***************************************************************************)
(* A send gives its event to a receiver, and keeps the internal mutex.     *)
(***************************************************************************)
LEMMA EvSendGiveInv ==
  ASSUME EvInv, NEW t \in Threads, NEW from \in {"idle", "s_redo"}, Queue!MayStep(t, from),
         guard = NoThread, NEW x \in EvEvents, port.up /\ port.connected,
         NEW u \in Threads, Contains(pq, u), pc[u] # "a_recv", Queue!Give(x, u),
         NEW l \in Queue!PCs, NEW a \in EvEvents \union {0},
         \/ l = "s_wake" /\ busy' = busy
         \/ l = "p_wake" /\ busy' = busy + 1 /\ a = x,
         pc' = [pc EXCEPT ![t] = l], timed' = [timed EXCEPT ![t] = timed[t]],
         arg' = [arg EXCEPT ![t] = a], toAwake' = {u}, guard' = t, made' \in 0..MaxEvents,
         saves = 0 => x = made + 1 /\ made' = x,
         UNCHANGED <<fifo, exists, stopped, toSleep, saves, faults, sched, alive, port, events, taken>>
  PROVE  EvInv'
<1> USE ThreadsAssumption
<1>1. /\ pc[t] = from /\ toSleep = {} /\ ~Contains(pq, t) /\ given[t] = 0 /\ sched[t] # "asleep"
      /\ pc[t] \notin EvWakes /\ pc[t] \notin EvBusies /\ u # t /\ toAwake = {}
  BY EvSender
<1>2. /\ pq' \in Seq(Threads) /\ Distinct(pq')
      /\ \A v : Contains(pq', v) <=> Contains(pq, v) /\ v # u
      /\ given' \in [Threads -> EvEvents \union {0}] /\ given'[u] = x
      /\ \A v \in Threads \ {u} : given'[v] = given[v]
      /\ accepted' \subseteq EvEvents /\ EvCopiesInv'
  BY EvGiveIs
<1>3. EvTypes /\ arg \in [Threads -> EvEvents \union {0}]
  BY DEF EvInv, EvTypes
<1>4. /\ pc'[t] = l /\ timed'[t] = timed[t] /\ arg'[t] = a
      /\ \A v \in Threads \ {t} : pc'[v] = pc[v] /\ timed'[v] = timed[v] /\ arg'[v] = arg[v]
  BY <1>3, EvReads
<1>5. \A v \in Threads : pc[v] \notin EvWakes
  BY DEF EvInv, EvGuardInv
<1>T. EvTypes'
  <2>1. /\ pc' \in [Threads -> Queue!PCs] /\ timed' \in [Threads -> BOOLEAN]
        /\ arg' \in [Threads -> EvEvents \union {0}] /\ busy' \in Nat
    BY <1>3, EvReads
  <2>2. QED
    BY <1>2, <1>3, <2>1 DEF EvTypes, ObjTypeOK
<1>F. EvFaultInv'
  BY <1>4, EvReads DEF EvInv, EvFaultInv, EvWaits
<1>G. EvGuardInv'
  BY <1>4, <1>5 DEF EvGuardInv, EvWakes
<1>L. EvListInv'
  <2>1. pq # <<>>
    BY DEF Contains
  <2>2. QED
    BY <1>2, <2>1 DEF EvInv, EvListInv
<1>D. EvLoadInv'
  BY <1>1 DEF EvLoadInv
<1>P. EvPortInv'
  <2> DEFINE A == EvBusy
             B == EvBusy'
  <2>1. A \in SUBSET Threads /\ B \in SUBSET Threads
    BY DEF EvBusy
  <2>2. \A v \in Threads : v # t => (v \in A <=> v \in B)
    BY <1>4 DEF EvBusy
  <2>3. t \notin A /\ (t \in B <=> l \in EvBusies)
    BY <1>1, <1>4 DEF EvBusy
  <2>4. Ind(t \in A) = 0 /\ Ind(t \in B) = IF l = "p_wake" THEN 1 ELSE 0
    BY <2>3 DEF Ind, EvBusies
  <2> HIDE DEF A, B
  <2>5. Cardinality(A) \in Nat /\ Cardinality(B) = Cardinality(A) + Ind(t \in B) - Ind(t \in A)
    BY <2>1, <2>2, CardOne
  <2>6. busy = Cardinality(A)
    BY DEF EvInv, EvPortInv, A
  <2>7. busy' = Cardinality(B)
    BY <2>4, <2>5, <2>6
  <2>8. QED
    BY <2>7 DEF EvPortInv, B
<1>H. ASSUME NEW v \in Threads PROVE EvThreadInv(v)'
  <2>1. CASE v = t
    <3>1. a # 0 \/ l = "s_wake"
      BY EventsAssumption DEF EvEvents
    <3>2. QED
      BY <1>1, <1>2, <1>4, <2>1, <3>1 DEF EvThreadInv
  <2>2. CASE v = u
    <3>1. EvThreadInv(u) /\ pc'[u] = pc[u] /\ arg'[u] = arg[u]
      BY <1>1, <1>4, EvReads
    <3>2. pc[u] \in EvWaits \ {"t_over"}
      BY <3>1 DEF EvThreadInv
    <3>3. pc[u] = "r_wait" => sched[u] = "asleep"
      BY <3>1 DEF EvThreadInv
    <3>4. ~Contains(pq', u)
      BY <1>2
    <3>5. QED
      BY <2>2, <3>1, <3>2, <3>3, <3>4 DEF EvThreadInv, EvWaits
  <2>3. CASE v # t /\ v # u
    <3>1. /\ EvThreadInv(v) /\ pc'[v] = pc[v] /\ arg'[v] = arg[v] /\ given'[v] = given[v]
          /\ Contains(pq', v) <=> Contains(pq, v)
      BY <1>H, <1>2, <1>4, <2>3, EvReads
    <3>2. v \notin toAwake /\ v \notin toAwake'
      BY <1>1, <2>3
    <3>3. QED
      BY <3>1, <3>2 DEF EvThreadInv
  <2>4. QED
    BY <2>1, <2>2, <2>3
<1> QED
  BY <1>2, <1>T, <1>F, <1>G, <1>L, <1>D, <1>P, <1>H DEF EvInv

(***************************************************************************)
(* sys_event_port_send, made for the first time or again.                  *)
(***************************************************************************)
LEMMA EvSendInv ==
  ASSUME EvInv, NEW t \in Threads, NEW from \in {"idle", "s_redo"}, NEW x \in EvEvents,
         from = "idle" => x = made + 1, Queue!Send(t, from, x)
  PROVE  EvInv'
<1>1. /\ Queue!MayStep(t, from) /\ guard = NoThread
      /\ made' = IF from = "idle" THEN x ELSE made
      /\ UNCHANGED <<fifo, exists, stopped, toSleep, saves, faults, sched, alive, port, taken>>
  BY DEF Queue!Send, Queue!world
<1>2. from = "s_redo" => saves # 0
  BY <1>1, EvSender
<1>3. made' \in 0..MaxEvents /\ made <= made' /\ (saves = 0 => x = made + 1 /\ made' = x)
  BY <1>1, <1>2, EvReads, EventsAssumption DEF EvEvents
<1>4. {"idle", "a_send", "s_wake", "p_wake"} \subseteq Queue!PCs
  BY DEF Queue!PCs
<1>5. CASE Queue!SendRefused(t)
  <2>1. /\ pc' = [pc EXCEPT ![t] = "idle"] /\ timed' = [timed EXCEPT ![t] = timed[t]]
        /\ arg' = [arg EXCEPT ![t] = 0]
        /\ UNCHANGED <<guard, events, pq, given, busy, toAwake, accepted>>
    BY <1>5 DEF Queue!SendRefused, Queue!Goto, Queue!Enter, Queue!NoEvent
  <2>2. QED
    BY <1>1, <1>3, <1>4, <2>1, EvSendNotInv
<1>6. CASE port.up /\ port.connected /\ Queue!SendReceiver(t, x)
  <2>1. pq # <<>> /\ pq \in Seq(Threads)
    BY <1>6 DEF Queue!SendReceiver, EvInv, EvTypes
  <2>2. PICK u \in Queue!ServedFirst(pq) :
          IF Queue!Again(u)
          THEN Queue!Goto(t, "a_send") /\ UNCHANGED <<pq, given, accepted, toAwake, guard, busy>>
          ELSE /\ Queue!Give(x, u)
               /\ toAwake' = {u}
               /\ guard' = t
               /\ IF Prio[u] < Prio[t]
                  THEN Queue!Goto(t, "p_wake") /\ busy' = busy + 1
                  ELSE Queue!Goto(t, "s_wake") /\ UNCHANGED busy
    BY <1>6 DEF Queue!SendReceiver
  <2>3. u \in Threads /\ Contains(pq, u)
    BY <2>1, EvServed
  <2>4. /\ arg' = [arg EXCEPT ![t] = IF pc'[t] = "s_wake" THEN 0 ELSE x] /\ events' = events
    BY <1>6 DEF Queue!SendReceiver, Queue!NoEvent
  <2>5. CASE Queue!Again(u)
    <3>1. /\ pc' = [pc EXCEPT ![t] = "a_send"] /\ timed' = [timed EXCEPT ![t] = timed[t]]
          /\ UNCHANGED <<pq, given, accepted, toAwake, guard, busy>>
      BY <2>2, <2>5 DEF Queue!Goto, Queue!Enter
    <3>2. pc'[t] = "a_send" /\ arg' = [arg EXCEPT ![t] = x]
      BY <2>4, <3>1, EvReads
    <3>3. QED
      BY <1>1, <1>3, <1>4, <2>4, <3>1, <3>2, EvSendNotInv
  <2>6. CASE ~Queue!Again(u)
    <3>1. pc[u] # "a_recv"
      BY <2>6 DEF Queue!Again
    <3>2. PICK l \in Queue!PCs :
            /\ pc' = [pc EXCEPT ![t] = l] /\ timed' = [timed EXCEPT ![t] = timed[t]]
            /\ \/ l = "s_wake" /\ busy' = busy
               \/ l = "p_wake" /\ busy' = busy + 1
      BY <1>4, <2>2, <2>6 DEF Queue!Goto, Queue!Enter
    <3>3. pc'[t] = l
      BY <3>2, EvReads
    <3>4. PICK a \in EvEvents \union {0} : arg' = [arg EXCEPT ![t] = a] /\ (l = "p_wake" => a = x)
      BY <2>4, <3>3
    <3>5. Queue!Give(x, u) /\ toAwake' = {u} /\ guard' = t
      BY <2>2, <2>6
    <3>6. QED
      BY <1>1, <1>3, <1>6, <2>3, <2>4, <3>1, <3>2, <3>4, <3>5, EvSendGiveInv
  <2>7. QED
    BY <2>5, <2>6
<1>7. CASE /\ Queue!Store(x) /\ Queue!Goto(t, "idle") /\ arg' = [arg EXCEPT ![t] = 0]
           /\ UNCHANGED <<guard, pq, given, busy, toAwake>>
  <2>1. /\ pc' = [pc EXCEPT ![t] = "idle"] /\ timed' = [timed EXCEPT ![t] = timed[t]]
    BY <1>7 DEF Queue!Goto, Queue!Enter
  <2>2. QED
    BY <1>1, <1>3, <1>4, <1>7, <2>1, EvSendStoreInv
<1>8. QED
  BY <1>5, <1>6, <1>7 DEF Queue!Send, Queue!NoEvent

(***************************************************************************)
(* A host thread sends an event.                                           *)
(***************************************************************************)
LEMMA EvHostSendInv ==
  ASSUME EvInv, NEW x \in EvEvents, x = made + 1, Queue!HostSend(x)
  PROVE  EvInv'
<1>1. /\ guard = NoThread /\ toSleep = {} /\ made' = x
      /\ UNCHANGED <<fifo, exists, stopped, toSleep, saves, faults, guard, pc, timed, alive, arg, port,
                     busy, toAwake, taken>>
  BY DEF Queue!HostSend, Queue!world
<1>2. EvTypes /\ made' \in 0..MaxEvents /\ made <= made'
  BY <1>1, EventsAssumption DEF EvInv, EvTypes, EvEvents
<1>3. ASSUME NEW t \in Threads
      PROVE  /\ pc[t] \in Queue!PCs /\ pc[t] \notin EvWakes /\ pc'[t] = pc[t] /\ t \notin toSleep'
             /\ timed'[t] \/ pc[t] \in EvWaits \ {"r_wait"} => "timeout" \in faults
             /\ busy' = busy + Ind(pc[t] \in EvBusies) - Ind(pc[t] \in EvBusies)
  <2>1. Ind(pc[t] \in EvBusies) \in Int /\ busy \in Nat
    BY EvReads DEF Ind
  <2>2. busy' = busy + Ind(pc[t] \in EvBusies) - Ind(pc[t] \in EvBusies)
    BY <1>1, <2>1
  <2>3. QED
    BY <1>1, <1>3, <2>2, EvReads, ThreadsAssumption
<1>4. CASE Queue!Store(x) /\ UNCHANGED <<pq, given, sched>>
  <2>1. PICK t \in Threads : TRUE
    BY MainThreadAssumption
  <2>2. /\ events' \in Seq(EvEvents) /\ Len(events') <= QueueSize /\ pq = <<>>
        /\ accepted' \subseteq EvEvents /\ EvCopiesInv'
    BY <1>1, <1>4, EvStoreIs
  <2>3. EvTypes'
    BY <1>1, <1>2, <1>4, <2>2 DEF EvTypes, ObjTypeOK
  <2>4. EvOthers(t) /\ EvThreadInv(t)'
    <3>1. EvThreadInv(t)
      BY EvReads
    <3>2. QED
      BY <1>1, <1>4, <3>1 DEF EvOthers, EvThreadInv
  <2>5. Distinct(pq') /\ pq' = <<>> /\ toSleep' = {} /\ toSleep' \subseteq toSleep
    BY <1>1, <1>4, <2>2 DEF EvInv, EvListInv
  <2>6. QED
    BY <1>1, <1>3, <2>2, <2>3, <2>4, <2>5, EvStepInv
<1>5. CASE pq # <<>> /\ events' = events /\ \E u \in Queue!ServedFirst(pq) :
             IF Queue!Again(u) THEN UNCHANGED <<pq, given, sched, accepted>>
             ELSE Queue!Give(x, u) /\ Queue!Awaken({u})
  <2>1. PICK u \in Queue!ServedFirst(pq) :
             IF Queue!Again(u) THEN UNCHANGED <<pq, given, sched, accepted>>
             ELSE Queue!Give(x, u) /\ Queue!Awaken({u})
    BY <1>5
  <2>2. u \in Threads /\ Contains(pq, u)
    BY <1>5, <2>1, EvServed DEF EvInv, EvTypes
  <2>3. CASE Queue!Again(u)
    <3>1. UNCHANGED <<pq, given, sched, accepted>>
      BY <2>1, <2>3
    <3>2. EvTypes'
      BY <1>1, <1>2, <1>5, <3>1 DEF EvTypes, ObjTypeOK
    <3>3. EvOthers(u) /\ EvThreadInv(u)'
      <4>1. EvThreadInv(u)
        BY <2>2, EvReads
      <4>2. QED
        BY <1>1, <3>1, <4>1 DEF EvOthers, EvThreadInv
    <3>4. EvCopiesInv'
      <4>1. \A e \in EvEvents : EvCopies(e)' = EvCopies(e)
        BY <1>1, <1>5, <3>1 DEF EvCopies, EvIn, EvWith
      <4>2. made' \in Nat
        BY <1>2
      <4>3. QED
        BY <1>1, <1>2, <3>1, <4>1, <4>2, EvCopiesMove
    <3>5. /\ Distinct(pq') /\ (pq' # <<>> => events' = <<>> /\ exists) /\ toSleep' = {}
          /\ toSleep' \subseteq toSleep
      BY <1>1, <1>5, <3>1 DEF EvInv, EvListInv
    <3>6. QED
      BY <1>1, <1>3, <2>2, <3>2, <3>3, <3>4, <3>5, EvStepInv
  <2>4. CASE ~Queue!Again(u)
    <3>1. /\ Queue!Give(x, u) /\ pc[u] # "a_recv"
          /\ sched' = [v \in Threads |-> IF v \in {u} /\ sched[v] = "asleep" THEN "ready" ELSE sched[v]]
      BY <2>1, <2>4 DEF Queue!Awaken, Queue!Again
    <3>2. /\ pq' \in Seq(Threads) /\ Distinct(pq')
          /\ \A v : Contains(pq', v) <=> Contains(pq, v) /\ v # u
          /\ given' \in [Threads -> EvEvents \union {0}] /\ given'[u] = x
          /\ \A v \in Threads \ {u} : given'[v] = given[v]
          /\ accepted' \subseteq EvEvents /\ EvCopiesInv'
      BY <1>1, <1>5, <2>2, <3>1, EvGiveIs
    <3>3. /\ sched' \in [Threads -> SchedStates] /\ sched'[u] # "asleep"
          /\ (sched[u] = "asleep" => sched'[u] = "ready")
          /\ \A v \in Threads \ {u} : sched'[v] = sched[v]
      BY <2>2, <3>1, EvReads DEF SchedStates
    <3>4. EvTypes'
      BY <1>1, <1>2, <1>5, <3>2, <3>3 DEF EvTypes, ObjTypeOK
    <3>5. EvOthers(u)
      BY <1>1, <3>2, <3>3 DEF EvOthers
    <3>6. EvThreadInv(u)'
      <4>1. EvThreadInv(u)
        BY <2>2, EvReads
      <4>2. pc[u] \in EvWaits \ {"t_over"} /\ (pc[u] = "r_wait" => sched[u] = "asleep")
        BY <2>2, <3>1, <4>1 DEF EvThreadInv
      <4>3. ~Contains(pq', u) /\ toAwake' = {}
        BY <1>1, <3>2 DEF EvInv, EvGuardInv
      <4>4. QED
        BY <1>1, <3>2, <3>3, <4>1, <4>2, <4>3 DEF EvThreadInv, EvWaits
    <3>7. (pq' # <<>> => events' = <<>> /\ exists) /\ toSleep' = {} /\ toSleep' \subseteq toSleep
      BY <1>1, <1>5 DEF EvInv, EvListInv
    <3>8. QED
      BY <1>1, <1>3, <2>2, <3>2, <3>4, <3>5, <3>6, <3>7, EvStepInv
  <2>5. QED
    BY <2>3, <2>4
<1>6. QED
  BY <1>4, <1>5 DEF Queue!HostSend


-----------------------------------------------------------------------------
(* The event queue: awakening, destroying, the port, scheduling, savestates *)

(***************************************************************************)
(* The receivers that were served are awakened; the thread that did it     *)
(* leaves the internal mutex.                                              *)
(***************************************************************************)
LEMMA EvWakeInv ==
  ASSUME EvInv, NEW t \in Threads, Queue!Wake(t)
  PROVE  EvInv'
<1> USE ThreadsAssumption
<1>l. PICK l \in Queue!PCs : l = IF pc[t] = "p_wake" THEN "p_wait" ELSE "idle"
  BY DEF Queue!PCs
<1>1. /\ pc[t] \in EvWakes /\ toAwake' = {} /\ guard' = NoThread
      /\ pc' = [pc EXCEPT ![t] = l] /\ timed' = [timed EXCEPT ![t] = timed[t]]
      /\ sched' = [u \in Threads |-> IF u \in toAwake /\ sched[u] = "asleep" THEN "ready" ELSE sched[u]]
      /\ UNCHANGED <<fifo, exists, stopped, toSleep, saves, faults, alive, events, pq, given, arg, port,
                     busy, made, accepted, taken>>
  BY <1>l DEF Queue!Wake, Queue!Awaken, Queue!Goto, Queue!Enter, Queue!world, EvWakes
<1>2. /\ pc'[t] = l /\ timed' = timed /\ \A u \in Threads \ {t} : pc'[u] = pc[u]
      /\ pc' \in [Threads -> Queue!PCs]
  BY <1>1, EvReads
<1>3. /\ EvTypes /\ EvThreadInv(t) /\ toAwake \subseteq Threads /\ guard = t
      /\ sched \in [Threads -> SchedStates]
  BY <1>1, EvReads DEF EvTypes
<1>4. \A u \in Threads : u # t => guard # u /\ pc[u] \notin EvWakes
  BY <1>3 DEF EvInv, EvGuardInv
<1>5. /\ l \notin EvWakes /\ l \notin EvWaits /\ (l \in EvBusies <=> pc[t] \in EvBusies)
      /\ l \notin {"a_recv", "r_wait", "t_check", "s_redo", "r_redo"} /\ pc[t] # "r_redo"
      /\ (l \in {"p_wake", "p_wait", "a_send", "a_sent", "s_redo"} => pc[t] = "p_wake")
      /\ pc[t] \notin EvWaits /\ pc[t] \notin {"a_recv", "r_wait", "t_check", "s_redo"}
  BY <1>l, <1>1 DEF EvWakes, EvWaits, EvBusies
<1>6. /\ sched' \in [Threads -> SchedStates]
      /\ \A u \in Threads : u \notin toAwake => sched'[u] = sched[u]
      /\ \A u \in toAwake : sched'[u] = IF sched[u] = "asleep" THEN "ready" ELSE sched[u]
  BY <1>1, <1>3 DEF SchedStates
<1>7. ~Contains(pq, t) /\ given[t] = 0 /\ sched[t] # "asleep" /\ sched'[t] # "asleep"
  <2>1. ~Contains(pq, t) /\ given[t] = 0 /\ sched[t] # "asleep"
    BY <1>3, <1>5 DEF EvThreadInv
  <2>2. QED
    BY <1>1, <2>1
<1>T. EvTypes'
  BY <1>1, <1>2, <1>3, <1>6 DEF EvTypes, ObjTypeOK
<1>F. EvFaultInv'
  BY <1>1, <1>2, <1>5 DEF EvInv, EvFaultInv
<1>G. EvGuardInv'
  BY <1>1, <1>2, <1>4, <1>5 DEF EvGuardInv
<1>L. EvListInv'
  BY <1>1 DEF EvInv, EvListInv
<1>D. EvLoadInv'
  BY <1>1, <1>2, <1>3, <1>5 DEF EvInv, EvLoadInv, EvTypes, ObjTypeOK
<1>P. EvPortInv'
  <2>1. EvBusy' = EvBusy
    BY <1>2, <1>5 DEF EvBusy
  <2>2. QED
    BY <1>1, <2>1 DEF EvInv, EvPortInv
<1>C. EvCopiesInv'
  BY <1>1 DEF EvInv, EvCopiesInv, EvCopies, EvIn, EvWith
<1>H. ASSUME NEW u \in Threads PROVE EvThreadInv(u)'
  <2>1. CASE u = t
    BY <1>1, <1>2, <1>3, <1>5, <1>7, <2>1 DEF EvThreadInv
  <2>2. CASE u # t /\ u \in toAwake
    <3>1. EvThreadInv(u) /\ ~Contains(pq, u) /\ pc'[u] = pc[u]
      BY <1>H, <1>2, <2>2 DEF EvInv, EvThreadInv
    <3>2. sched'[u] # "asleep" /\ (pc[u] = "r_wait" => sched'[u] = "ready")
      BY <1>6, <2>2, <3>1 DEF EvThreadInv
    <3>3. QED
      BY <1>1, <3>1, <3>2 DEF EvThreadInv
  <2>3. CASE u # t /\ u \notin toAwake
    <3>1. EvThreadInv(u) /\ pc'[u] = pc[u] /\ sched'[u] = sched[u]
      BY <1>H, <1>2, <1>6, <2>3 DEF EvInv
    <3>2. QED
      BY <1>1, <2>3, <3>1 DEF EvThreadInv
  <2>4. QED
    BY <2>1, <2>2, <2>3
<1> QED
  BY <1>T, <1>F, <1>G, <1>L, <1>D, <1>P, <1>C, <1>H DEF EvInv

(***************************************************************************)
(* The queue is destroyed, or its destruction is put off.                  *)
(***************************************************************************)
LEMMA EvDestroyInv ==
  ASSUME EvInv, NEW t \in Threads, NEW from \in {"idle", "d_redo"}, NEW force \in BOOLEAN,
         Queue!Destroy(t, from, force)
  PROVE  EvInv'
<1> USE ThreadsAssumption
<1>1. /\ pc[t] = from /\ guard = NoThread /\ alive' = FALSE
      /\ toSleep = {} \/ t \in toSleep
      /\ UNCHANGED <<fifo, stopped, toSleep, saves, faults, sched, events, given, arg, port, busy,
                     made, accepted, taken>>
  BY DEF Queue!Destroy, Queue!Running, Queue!MayStep
<1>2. /\ EvTypes /\ EvThreadInv(t) /\ toAwake = {} /\ pq \in Seq(Threads)
      /\ sched \in [Threads -> SchedStates] /\ \A u \in Threads : guard # u /\ pc[u] \notin EvWakes
  BY <1>1, EvReads DEF EvInv, EvGuardInv, EvTypes
<1>3. /\ toSleep = {} /\ ~Contains(pq, t) /\ given[t] = 0 /\ sched[t] # "asleep"
      /\ pc[t] \notin EvBusies
  BY <1>1, <1>2, EvReads DEF EvThreadInv, EvWaits, EvBusies
<1>C. EvCopiesInv'
  BY <1>1 DEF EvInv, EvCopiesInv, EvCopies, EvIn, EvWith
<1>4. CASE \E i \in 1..Len(pq) : Queue!Again(pq[i])
  <2>l. PICK l \in Queue!PCs : l = "a_destroy"
    BY DEF Queue!PCs
  <2>1. /\ pc' = [pc EXCEPT ![t] = l] /\ timed' = [timed EXCEPT ![t] = timed[t]]
        /\ UNCHANGED <<exists, guard, pq, toAwake>>
    BY <1>4, <2>l DEF Queue!Destroy, Queue!Goto, Queue!Enter
  <2>2. /\ pc'[t] = l /\ timed' = timed /\ \A u \in Threads \ {t} : pc'[u] = pc[u]
        /\ pc' \in [Threads -> Queue!PCs]
    BY <2>1, EvReads
  <2>3. l \notin EvWakes /\ l \notin EvWaits /\ l \notin EvBusies
    BY <2>l DEF EvWakes, EvWaits, EvBusies
  <2>T. EvTypes'
    BY <1>1, <1>2, <2>1, <2>2 DEF EvTypes, ObjTypeOK
  <2>F. EvFaultInv'
    BY <1>1, <2>2, <2>3 DEF EvInv, EvFaultInv
  <2>G. EvGuardInv'
    BY <1>2, <2>1, <2>2, <2>3 DEF EvGuardInv
  <2>L. EvListInv' /\ EvLoadInv'
    BY <1>1, <1>3, <2>1 DEF EvInv, EvListInv, EvLoadInv
  <2>P. EvPortInv'
    <3>1. EvBusy' = EvBusy
      BY <1>3, <2>2, <2>3 DEF EvBusy
    <3>2. QED
      BY <1>1, <3>1 DEF EvInv, EvPortInv
  <2>H. ASSUME NEW u \in Threads PROVE EvThreadInv(u)'
    <3>1. CASE u = t
      BY <1>1, <1>2, <1>3, <2>l, <2>1, <2>2, <3>1 DEF EvThreadInv
    <3>2. CASE u # t
      <4>1. EvThreadInv(u) /\ pc'[u] = pc[u]
        BY <2>H, <2>2, <3>2 DEF EvInv
      <4>2. QED
        BY <1>1, <2>1, <4>1 DEF EvThreadInv
    <3>3. QED
      BY <3>1, <3>2
  <2> QED
    BY <1>C, <2>T, <2>F, <2>G, <2>L, <2>P, <2>H DEF EvInv
<1>5. CASE ~\E i \in 1..Len(pq) : Queue!Again(pq[i])
  <2>l. PICK l \in Queue!PCs : l = "d_wake"
    BY DEF Queue!PCs
  <2>1. /\ pc' = [pc EXCEPT ![t] = l] /\ timed' = [timed EXCEPT ![t] = timed[t]]
        /\ exists' = FALSE /\ toAwake' = Range(pq) /\ pq' = <<>> /\ guard' = t
    BY <1>5, <2>l, EvSame DEF Queue!Destroy, Queue!Goto, Queue!Enter
  <2>2. /\ pc'[t] = l /\ timed' = timed /\ \A u \in Threads \ {t} : pc'[u] = pc[u]
        /\ pc' \in [Threads -> Queue!PCs]
    BY <2>1, EvReads
  <2>3. l \in EvWakes /\ l \notin EvWaits /\ l \notin EvBusies
    BY <2>l DEF EvWakes, EvWaits, EvBusies
  <2>4. toAwake' \subseteq Threads /\ \A u \in Threads : u \in toAwake' <=> Contains(pq, u)
    BY <1>2, <2>1 DEF Range, Contains
  <2>5. \A u \in Threads : pc[u] # "a_recv" /\ ~Contains(pq', u)
    <3>1. \A u \in Threads : ~Contains(pq', u)
      BY <2>1 DEF Contains
    <3>2. \A u \in Threads : pc[u] = "a_recv" => \E i \in 1..Len(pq) : pq[i] = u
      BY DEF EvInv, EvThreadInv, Contains
    <3>3. QED
      BY <1>5, <3>1, <3>2 DEF Queue!Again
  <2>T. EvTypes'
    <3>1. <<>> \in Seq(Threads)
      OBVIOUS
    <3>2. QED
      BY <1>1, <1>2, <2>1, <2>2, <2>4, <3>1 DEF EvTypes, ObjTypeOK
  <2>F. EvFaultInv'
    BY <1>1, <2>2, <2>3 DEF EvInv, EvFaultInv
  <2>G. EvGuardInv'
    BY <1>2, <2>1, <2>2, <2>3 DEF EvGuardInv
  <2>L. EvListInv' /\ EvLoadInv'
    BY <1>1, <1>3, <2>1 DEF EvListInv, EvLoadInv, Distinct
  <2>P. EvPortInv'
    <3>1. EvBusy' = EvBusy
      BY <1>3, <2>2, <2>3 DEF EvBusy
    <3>2. QED
      BY <1>1, <3>1 DEF EvInv, EvPortInv
  <2>H. ASSUME NEW u \in Threads PROVE EvThreadInv(u)'
    <3>1. CASE u = t
      BY <1>1, <1>3, <2>l, <2>1, <2>2, <2>4, <2>5, <3>1 DEF EvThreadInv
    <3>2. CASE u # t
      <4>1. EvThreadInv(u) /\ pc'[u] = pc[u] /\ u \notin toAwake
        BY <1>2, <2>H, <2>2, <3>2 DEF EvInv
      <4>2. QED
        BY <1>1, <2>4, <2>5, <4>1 DEF EvThreadInv
    <3>3. QED
      BY <3>1, <3>2
  <2> QED
    BY <1>C, <2>T, <2>F, <2>G, <2>L, <2>P, <2>H DEF EvInv
<1>6. QED
  BY <1>4, <1>5

(***************************************************************************)
(* The port is connected, disconnected or destroyed.                       *)
(***************************************************************************)
LEMMA EvPortStepInv ==
  ASSUME EvInv, NEW t \in Threads, Queue!Disconnect(t) \/ Queue!Connect(t) \/ Queue!PortDestroy(t)
  PROVE  EvInv'
<1>1. UNCHANGED <<fifo, exists, stopped, toSleep, saves, faults, guard, pc, timed, sched, alive, events,
                  pq, given, arg, busy, toAwake, made, accepted, taken>>
  BY DEF Queue!Disconnect, Queue!Connect, Queue!PortDestroy, Queue!world
<1>2. port \in [up : BOOLEAN, connected : BOOLEAN]
  BY DEF EvInv, EvTypes
<1>3. port' \in [up : BOOLEAN, connected : BOOLEAN]
  BY <1>2 DEF Queue!Disconnect, Queue!Connect, Queue!PortDestroy
<1>T. EvTypes'
  BY <1>1, <1>3 DEF EvInv, EvTypes, ObjTypeOK
<1>P. EvPortInv'
  <2>1. EvBusy' = EvBusy /\ EvBusy \in SUBSET Threads
    BY <1>1 DEF EvBusy
  <2>2. IsFiniteSet(EvBusy)
    BY <2>1, ThreadsAssumption, FS_Subset
  <2>3. busy = 0 => EvBusy = {}
    BY <2>2, FS_EmptySet DEF EvInv, EvPortInv
  <2>4. CASE Queue!Disconnect(t)
    BY <1>1, <2>1, <2>3, <2>4 DEF EvInv, EvPortInv, Queue!Disconnect
  <2>5. CASE Queue!Connect(t)
    BY <1>1, <1>2, <2>1, <2>5 DEF EvInv, EvPortInv, Queue!Connect
  <2>6. CASE Queue!PortDestroy(t)
    BY <1>1, <2>1, <2>6 DEF EvInv, EvPortInv, Queue!PortDestroy
  <2>7. QED
    BY <2>4, <2>5, <2>6
<1>W. EvFaultInv' /\ EvGuardInv' /\ EvListInv' /\ EvLoadInv'
  BY <1>1 DEF EvInv, EvFaultInv, EvGuardInv, EvListInv, EvLoadInv
<1>C. EvCopiesInv'
  BY <1>1 DEF EvInv, EvCopiesInv, EvCopies, EvIn, EvWith
<1>H. \A u \in Threads : EvThreadInv(u)'
  BY <1>1 DEF EvInv, EvThreadInv
<1> QED
  BY <1>T, <1>P, <1>W, <1>C, <1>H DEF EvInv

(***************************************************************************)
(* The scheduler lets a thread run, or a thread is told to stop.           *)
(***************************************************************************)
LEMMA EvScheduleInv ==
  ASSUME EvInv, NEW t \in Threads, Queue!Schedule(t) \/ Queue!StopThread(t)
  PROVE  EvInv'
<1>1. /\ UNCHANGED <<fifo, exists, guard, pc, timed, toSleep, saves, faults, alive, events, pq, given,
                     arg, port, busy, toAwake, made, accepted, taken>>
      /\ \/ sched[t] = "ready" /\ sched' = [sched EXCEPT ![t] = "signal"] /\ stopped' = stopped
         \/ /\ "save" \in faults /\ saves < MaxSaves /\ stopped' = stopped \union {t}
            /\ sched' = sched
  BY DEF Queue!Schedule, Queue!ObjSchedule, Queue!StopThread, Queue!ObjStop, Queue!own, Queue!world
<1>2. sched \in [Threads -> SchedStates] /\ sched' \in [Threads -> SchedStates]
  BY <1>1 DEF EvInv, EvTypes, ObjTypeOK, SchedStates
<1>T. EvTypes'
  BY <1>1, <1>2 DEF EvInv, EvTypes, ObjTypeOK
<1>F. EvFaultInv'
  BY <1>1 DEF EvInv, EvFaultInv
<1>W. EvGuardInv' /\ EvListInv' /\ EvLoadInv' /\ EvPortInv'
  BY <1>1 DEF EvInv, EvGuardInv, EvListInv, EvLoadInv, EvPortInv, EvBusy
<1>C. EvCopiesInv'
  BY <1>1 DEF EvInv, EvCopiesInv, EvCopies, EvIn, EvWith
<1>H. ASSUME NEW u \in Threads PROVE EvThreadInv(u)'
  BY <1>1, <1>2, <1>H DEF EvInv, EvThreadInv
<1> QED
  BY <1>T, <1>F, <1>W, <1>C, <1>H DEF EvInv

(***************************************************************************)
(* The state is saved and loaded: events stay, the list goes, and who was  *)
(* in it is to sleep again.                                                *)
(***************************************************************************)
LEMMA EvSaveAndLoadInv ==
  ASSUME EvInv, Queue!SaveAndLoad
  PROVE  EvInv'
<1> USE ThreadsAssumption
<1>1. /\ stopped = Threads /\ saves' = saves + 1 /\ stopped' = {}
      /\ \A t \in Threads : pc[t] = "idle" \/ pc[t] \in {"a_recv", "a_send", "a_sent", "a_destroy"}
      /\ toSleep' = {t \in Threads : pc[t] # "idle" /\ sched[t] = "asleep"}
      /\ pc' = [t \in Threads |-> IF pc[t] = "idle" THEN "idle" ELSE Queue!Redo[pc[t]]]
      /\ sched' = [t \in Threads |-> "on"]
      /\ pq' = <<>> /\ alive' = exists /\ port' = [port EXCEPT !.connected = @ /\ alive] /\ busy' = 0
      /\ UNCHANGED <<fifo, exists, guard, timed, faults, events, given, arg, toAwake, made, accepted, taken>>
  BY DEF Queue!SaveAndLoad, Queue!ObjSaveAndLoad, Queue!Redo
<1>2. /\ Queue!Redo["a_recv"] = "r_redo" /\ Queue!Redo["a_send"] = "s_redo"
      /\ Queue!Redo["a_sent"] = "s_redo" /\ Queue!Redo["a_destroy"] = "d_redo"
  BY DEF Queue!Redo
<1>3. \A t \in Threads :
        \/ pc[t] = "idle" /\ pc'[t] = "idle"
        \/ pc[t] = "a_recv" /\ pc'[t] = "r_redo"
        \/ pc[t] \in {"a_send", "a_sent"} /\ pc'[t] = "s_redo"
        \/ pc[t] = "a_destroy" /\ pc'[t] = "d_redo"
  BY <1>1, <1>2
<1>4. \A t \in Threads : sched'[t] = "on"
  BY <1>1
<1>5. \A t \in Threads : t \in toSleep' => pc[t] = "a_recv"
  BY <1>1, <1>3 DEF EvInv, EvThreadInv
<1>6. EvTypes /\ guard = NoThread /\ toAwake = {}
  <2>1. EvTypes /\ \A t \in Threads : guard # t
    BY <1>3 DEF EvInv, EvGuardInv, EvWakes
  <2>2. guard = NoThread
    BY <2>1 DEF EvTypes, ObjTypeOK
  <2>3. QED
    BY <2>1, <2>2 DEF EvInv, EvGuardInv
<1>7. \A t \in Threads : ~Contains(pq', t)
  BY <1>1 DEF Contains
<1>8. saves \in 0..MaxSaves /\ saves' \in 0..MaxSaves /\ saves' # 0
  <2>1. Threads # {} /\ saves \in 0..MaxSaves
    BY <1>6, MainThreadAssumption DEF EvTypes, ObjTypeOK
  <2>2. saves < MaxSaves
    BY <1>1, <2>1 DEF EvInv, EvFaultInv
  <2>3. QED
    BY <1>1, <2>1, <2>2, SavesAssumption
<1>T. EvTypes'
  <2>1. pc' \in [Threads -> Queue!PCs]
    <3>1. \A t \in Threads : pc'[t] \in Queue!PCs
      BY <1>3 DEF Queue!PCs
    <3>2. QED
      BY <1>1, <3>1
  <2>2. sched' \in [Threads -> SchedStates] /\ pq' \in Seq(Threads) /\ busy' \in Nat
    BY <1>1 DEF SchedStates
  <2>3. toSleep' \subseteq Threads /\ stopped' \subseteq Threads
    BY <1>1
  <2>4. port \in [up : BOOLEAN, connected : BOOLEAN] /\ alive \in BOOLEAN /\ exists \in BOOLEAN
    BY <1>6 DEF EvTypes, ObjTypeOK
  <2>5. port' \in [up : BOOLEAN, connected : BOOLEAN] /\ alive' \in BOOLEAN
    BY <1>1, <2>4
  <2>6. ObjTypeOK(Queue!PCs)'
    BY <1>1, <1>6, <1>8, <2>1, <2>2, <2>3 DEF EvTypes, ObjTypeOK
  <2>7. QED
    BY <1>1, <1>6, <2>2, <2>5, <2>6 DEF EvTypes
<1>F. EvFaultInv'
  BY <1>1, <1>3 DEF EvInv, EvFaultInv, EvWaits
<1>G. EvGuardInv'
  BY <1>1, <1>3, <1>6 DEF EvGuardInv, EvWakes
<1>L. EvListInv'
  BY <1>1 DEF EvListInv, Distinct
<1>D. EvLoadInv'
  <2>1. ASSUME NEW t \in toSleep' PROVE t \in Threads /\ events' = <<>> /\ exists' /\ pc'[t] = "r_redo"
    <3>1. t \in Threads /\ pc[t] = "a_recv"
      BY <1>1, <1>5, <2>1
    <3>2. Contains(pq, t)
      BY <3>1 DEF EvInv, EvThreadInv
    <3>3. pq # <<>>
      BY <3>1, <3>2, RwSomebody DEF EvInv, EvTypes
    <3>4. QED
      BY <1>1, <1>3, <3>1, <3>3 DEF EvInv, EvListInv
  <2>2. QED
    BY <2>1 DEF EvLoadInv
<1>P. EvPortInv'
  <2>1. EvBusy' = {}
    BY <1>3 DEF EvBusy, EvBusies
  <2>2. QED
    BY <1>1, <2>1, FS_EmptySet DEF EvPortInv
<1>C. EvCopiesInv'
  <2>1. \A e : EvCopies(e)' = EvCopies(e)
    BY <1>1 DEF EvCopies, EvIn, EvWith
  <2>2. QED
    BY <1>1, <1>8, <2>1 DEF EvInv, EvCopiesInv
<1>H. ASSUME NEW t \in Threads PROVE EvThreadInv(t)'
  <2>1. EvThreadInv(t) /\ t \notin toAwake
    BY <1>6, <1>H DEF EvInv
  <2>2. given[t] = 0
    BY <1>3, <2>1 DEF EvThreadInv, EvWaits
  <2>3. QED
    BY <1>1, <1>3, <1>4, <1>7, <1>8, <2>1, <2>2 DEF EvThreadInv
<1> QED
  BY <1>T, <1>F, <1>G, <1>L, <1>D, <1>P, <1>C, <1>H DEF EvInv

-----------------------------------------------------------------------------
(* The event queue: every step, and the theorems *)

(***************************************************************************)
(* A call, or a step of a call.                                            *)
(***************************************************************************)
LEMMA EvCallInv ==
  ASSUME OneFault, EvInv, NEW t \in Threads, Queue!Call(t) \/ Queue!Step(t)
  PROVE  EvInv'
<1>1. /\ timed[t] \in BOOLEAN /\ (timed[t] => "timeout" \in faults) /\ made \in 0..MaxEvents
      /\ arg[t] \in EvEvents \union {0} /\ EvThreadInv(t)
  BY EvReads
<1>2. ASSUME NEW to \in Queue!Timeouts, Queue!Receive(t, "idle", to) PROVE EvInv'
  <2>1. to \in BOOLEAN /\ (to => "timeout" \in faults)
    BY <1>2 DEF Queue!Timeouts
  <2>2. QED
    BY <1>2, <2>1, EvReceiveInv
<1>3. ASSUME Queue!Receive(t, "r_redo", timed[t]) PROVE EvInv'
  BY <1>1, <1>3, EvReceiveInv
<1>4. ASSUME made < MaxEvents, Queue!Send(t, "idle", made + 1) PROVE EvInv'
  <2>1. made + 1 \in EvEvents
    BY <1>1, <1>4, EventsAssumption DEF EvEvents
  <2>2. QED
    BY <1>4, <2>1, EvSendInv
<1>5. ASSUME Queue!Send(t, "s_redo", arg[t]) PROVE EvInv'
  <2>1. pc[t] = "s_redo"
    BY <1>5 DEF Queue!Send, Queue!MayStep
  <2>2. arg[t] \in EvEvents
    BY <1>1, <2>1 DEF EvThreadInv
  <2>3. "s_redo" \in {"idle", "s_redo"} /\ ("s_redo" = "idle" => arg[t] = made + 1)
    OBVIOUS
  <2>4. QED
    BY <1>5, <2>2, <2>3, EvSendInv
<1>6. ASSUME NEW force \in BOOLEAN, Queue!Destroy(t, "idle", force) PROVE EvInv'
  BY <1>6, EvDestroyInv
<1>7. ASSUME Queue!Destroy(t, "d_redo", TRUE) PROVE EvInv'
  BY <1>7, EvDestroyInv
<1>8. ASSUME Queue!WaitStopped(t) PROVE EvInv'
  BY <1>8, EvStoppedInv, EvStoppedServedInv
<1>9. CASE Queue!Call(t)
  BY <1>2, <1>4, <1>6, <1>9, EvTakeSomeInv, EvPortStepInv DEF Queue!Call
<1>10. CASE Queue!Step(t)
  BY <1>3, <1>5, <1>7, <1>8, <1>10, EvTakeSignalInv, EvTimeOutCheckInv, EvTimeOutTestInv,
     EvTimeOutEndInv, EvWakeInv, EvSendRequeuedInv, EvRedoEsrchInv DEF Queue!Step
<1>11. QED
  BY <1>9, <1>10

(***************************************************************************)
(* Every step of the queue keeps its invariant.                            *)
(***************************************************************************)
LEMMA EvNextInv ==
  ASSUME OneFault, EvInv, [Queue!Next]_Queue!vars
  PROVE  EvInv'
<1>1. ASSUME NEW t \in Threads,
             \/ Queue!Call(t) \/ Queue!Step(t) \/ Queue!TimeOut(t) \/ Queue!Schedule(t)
             \/ Queue!StopThread(t)
      PROVE  EvInv'
  BY <1>1, EvCallInv, EvTimeOutInv, EvScheduleInv
<1>2. ASSUME made < MaxEvents, Queue!HostSend(made + 1) PROVE EvInv'
  <2>1. made \in 0..MaxEvents
    BY DEF EvInv, EvTypes
  <2>2. made + 1 \in EvEvents
    BY <1>2, <2>1, EventsAssumption DEF EvEvents
  <2>3. QED
    BY <1>2, <2>2, EvHostSendInv
<1>3. CASE UNCHANGED Queue!vars
  <2>1. UNCHANGED <<fifo, exists, guard, pc, timed, sched, stopped, toSleep, saves, faults, alive, events,
                    pq, given, arg, port, busy, toAwake, made, accepted, taken>>
    BY <1>3 DEF Queue!vars, Queue!objVars, Queue!own
  <2>2. EvTypes' /\ EvFaultInv' /\ EvGuardInv' /\ EvListInv' /\ EvLoadInv' /\ EvPortInv'
    BY <2>1 DEF EvInv, EvTypes, ObjTypeOK, EvFaultInv, EvGuardInv, EvListInv, EvLoadInv, EvPortInv, EvBusy
  <2>3. EvCopiesInv' /\ \A t \in Threads : EvThreadInv(t)'
    BY <2>1 DEF EvInv, EvCopiesInv, EvCopies, EvIn, EvWith, EvThreadInv
  <2>4. QED
    BY <2>2, <2>3 DEF EvInv
<1>4. QED
  BY <1>1, <1>2, <1>3, EvSaveAndLoadInv DEF Queue!Next

(***************************************************************************)
(* A new queue is empty.                                                   *)
(***************************************************************************)
LEMMA EvInitInv ==
  ASSUME Queue!Init
  PROVE  EvInv
<1> USE ThreadsAssumption
<1>1. /\ fifo \in BOOLEAN /\ exists = TRUE /\ guard = NoThread
      /\ pc = [t \in Threads |-> "idle"] /\ timed = [t \in Threads |-> FALSE]
      /\ sched = [t \in Threads |-> "on"] /\ stopped = {} /\ toSleep = {} /\ saves = 0
      /\ faults \in Faults
      /\ alive = TRUE /\ events = <<>> /\ pq = <<>>
      /\ given = [t \in Threads |-> 0] /\ arg = [t \in Threads |-> 0]
      /\ port = [up |-> TRUE, connected |-> TRUE] /\ busy = 0 /\ toAwake = {} /\ made = 0
      /\ accepted = {} /\ taken = [e \in EvEvents |-> 0]
  BY DEF Queue!Init, Queue!ObjInit, Queue!NoEvent, Queue!Events, EvEvents
<1>2. \A t \in Threads : /\ pc[t] = "idle" /\ ~timed[t] /\ sched[t] = "on" /\ given[t] = 0 /\ arg[t] = 0
                         /\ ~Contains(pq, t)
  BY <1>1 DEF Contains
<1>T. EvTypes
  <2>1. /\ pc \in [Threads -> Queue!PCs] /\ timed \in [Threads -> BOOLEAN]
        /\ sched \in [Threads -> SchedStates] /\ saves \in 0..MaxSaves
        /\ given \in [Threads -> EvEvents \union {0}] /\ arg \in [Threads -> EvEvents \union {0}]
    BY <1>1, SavesAssumption DEF Queue!PCs, SchedStates
  <2>2. /\ events \in Seq(EvEvents) /\ Len(events) <= QueueSize /\ pq \in Seq(Threads)
        /\ made \in 0..MaxEvents /\ taken \in [EvEvents -> Nat]
        /\ port \in [up : BOOLEAN, connected : BOOLEAN]
    BY <1>1, EventsAssumption
  <2>3. QED
    BY <1>1, <2>1, <2>2 DEF EvTypes, ObjTypeOK
<1>F. EvFaultInv /\ EvGuardInv
  BY <1>1, <1>2 DEF EvFaultInv, EvGuardInv, EvWaits, EvWakes
<1>L. EvListInv /\ EvLoadInv
  BY <1>1 DEF EvListInv, EvLoadInv, Distinct
<1>P. EvPortInv
  <2>1. EvBusy = {}
    BY <1>2 DEF EvBusy, EvBusies
  <2>2. QED
    BY <1>1, <2>1, FS_EmptySet DEF EvPortInv
<1>C. EvCopiesInv
  <2>1. ASSUME NEW e \in EvEvents PROVE EvCopies(e) <= Ind(e <= made)
    <3>1. e \in 1..MaxEvents /\ 0 # e
      BY EventsAssumption DEF EvEvents
    <3>2. {t \in Threads : given[t] = e} = {}
      BY <1>2, <3>1
    <3>3. EvWith(e) = 0 /\ EvIn(events, e) = 0 /\ taken[e] = 0
      BY <1>1, <3>2, FS_EmptySet, EvInOne DEF EvWith
    <3>4. QED
      BY <3>3 DEF EvCopies, Ind
  <2>2. QED
    BY <1>1, <2>1 DEF EvCopiesInv
<1>H. \A t \in Threads : EvThreadInv(t)
  BY <1>1, <1>2 DEF EvThreadInv
<1> QED
  BY <1>T, <1>F, <1>L, <1>P, <1>C, <1>H DEF EvInv

EventsInv == kind = "queue" => EvInv

(***************************************************************************)
(* The invariant of the event queue holds in the composed specification.   *)
(***************************************************************************)
THEOREM QueueAmongObjects ==
  ASSUME OneFault
  PROVE  ObjectsSpec => []EventsInv
<1>1. ObjectsInit => EventsInv
  BY EvInitInv DEF ObjectsInit, EventsInv
<1>2. ASSUME EventsInv, [ObjectsNext]_objectsVars PROVE EventsInv'
  <2>1. kind' = kind
    BY <1>2 DEF ObjectsNext, objectsVars
  <2>2. kind = "queue" => Queue!Next \/ UNCHANGED objectsVars
    BY <1>2 DEF ObjectsNext
  <2>3. UNCHANGED objectsVars => UNCHANGED Queue!vars
    BY DEF objectsVars, vars, objVars, queueVars, Queue!vars, Queue!objVars, Queue!own
  <2>4. QED
    BY <1>2, <2>1, <2>2, <2>3, EvNextInv DEF EventsInv
<1>3. QED
  BY <1>1, <1>2, PTL DEF ObjectsSpec, objectsVars

(***************************************************************************)
(* sys_event: an event whose send was reported as done is in the queue,    *)
(* with a receiver or was received, and arrives once unless a savestate    *)
(* came between, for any number of threads and events and any size of the  *)
(* queue, as long as timeouts and savestates do not meet.                  *)
(***************************************************************************)
THEOREM QueueLosesNothing ==
  ASSUME OneFault
  PROVE  ObjectsSpec => []QueueNothingLost
<1>1. ASSUME EvInv PROVE Queue!TypeOK
  <2>1. busy \in 0..Queue!Cardinality(Threads)
    <3>1. EvBusy \in SUBSET Threads
      BY DEF EvBusy
    <3>2. Cardinality(EvBusy) <= Cardinality(Threads) /\ Cardinality(Threads) \in Nat
      BY <3>1, ThreadsAssumption, FS_Subset, FS_CardinalityType
    <3>3. busy \in Nat /\ busy <= Cardinality(Threads)
      BY <1>1, <3>2 DEF EvInv, EvPortInv, EvTypes
    <3>4. Queue!Cardinality(Threads) = Cardinality(Threads)
      BY EvSame
    <3>5. QED
      BY <3>2, <3>3, <3>4
  <2>2. Queue!ObjTypeOK(Queue!PCs)
    BY <1>1 DEF EvInv, EvTypes, ObjTypeOK, Queue!ObjTypeOK, SchedStates, Queue!SchedStates
  <2>3. QED
    BY <1>1, <2>1, <2>2 DEF Queue!TypeOK, EvInv, EvTypes, Queue!NoEvent, Queue!Events, EvEvents
<1>2. \A e : Queue!Copies(e) = EvCopies(e)
  BY EvSame DEF Queue!Copies, EvCopies, EvIn, EvWith
<1>3. ASSUME EvInv PROVE Queue!NothingLost /\ Queue!OnceWithoutSave
  <2>1. EvTypes
    BY <1>3 DEF EvInv
  <2>2. \A e \in EvEvents : EvCopies(e) \in Nat
    BY <2>1, EvNumbers
  <2>3. ASSUME saves = 0, NEW e \in EvEvents PROVE EvCopies(e) <= 1
    <3>1. EvCopies(e) <= Ind(e <= made) /\ EvCopies(e) \in Nat
      BY <1>3, <2>2, <2>3 DEF EvInv, EvCopiesInv
    <3>2. QED
      BY <3>1 DEF Ind
  <2>4. \A e \in accepted : EvCopies(e) > 0
    BY <1>3 DEF EvInv, EvCopiesInv
  <2>5. QED
    BY <1>2, <2>3, <2>4 DEF Queue!NothingLost, Queue!OnceWithoutSave, Queue!Events, EvEvents
<1>4. EventsInv => QueueNothingLost
  BY <1>1, <1>3 DEF EventsInv, QueueNothingLost
<1>5. QED
  BY <1>4, QueueAmongObjects, PTL

(***************************************************************************)
(* sys_event: who was taken off the list gets to know, awake comes while   *)
(* it is still in its receive, a port with senders inside stays connected  *)
(* while its queue exists, and loaded receivers sleep again.               *)
(***************************************************************************)
THEOREM QueueWakeups ==
  ASSUME OneFault
  PROVE  ObjectsSpec =>
           [](kind = "queue" => /\ Queue!ServedIsSeen /\ Queue!AwakeIsOnTime
                                /\ Queue!PortOutlivesSend /\ RedoSleeps)
<1>1. ASSUME EvInv PROVE Queue!ServedIsSeen
  BY <1>1, EvSame DEF Queue!ServedIsSeen, EvInv, EvThreadInv
<1>2. ASSUME EvInv PROVE Queue!PortOutlivesSend
  BY <1>2 DEF Queue!PortOutlivesSend, EvInv, EvPortInv, EvBusy, EvBusies
<1>3. ASSUME EvInv PROVE RedoSleeps
  BY <1>3 DEF RedoSleeps, EvInv, EvLoadInv
<1>4. ASSUME EvInv PROVE Queue!AwakeIsOnTime
  <2>1. toAwake \subseteq Threads
    BY <1>4 DEF EvInv, EvTypes
  <2>2. QED
    BY <1>4, <2>1 DEF Queue!AwakeIsOnTime, EvInv, EvThreadInv, EvWaits
<1>5. EventsInv => (kind = "queue" => /\ Queue!ServedIsSeen /\ Queue!AwakeIsOnTime
                                      /\ Queue!PortOutlivesSend /\ RedoSleeps)
  BY <1>1, <1>2, <1>3, <1>4 DEF EventsInv
<1>6. QED
  BY <1>5, QueueAmongObjects, PTL

-----------------------------------------------------------------------------
(* Loops over a list, as recursive functions of the position *)

(***************************************************************************)
(* What holds before a loop and is kept by each turn holds after it.       *)
(***************************************************************************)
LEMMA LoopReaches ==
  ASSUME NEW n \in Nat, NEW K, 0 \in K, \A k \in 1..n : k - 1 \in K => k \in K
  PROVE  \A k \in 0..n : k \in K
<1> DEFINE I == {k \in 0..n : k \notin K}
<1>1. SUFFICES ASSUME I # {} PROVE FALSE
  OBVIOUS
<1>2. I \in SUBSET Nat
  OBVIOUS
<1>3. PICK i \in I : \A j \in I : i <= j
  BY <1>1, <1>2, FirstExists
<1>4. i \in 1..n /\ i - 1 \in 0..n /\ ~(i <= i - 1)
  BY <1>3
<1>5. i - 1 \in K
  BY <1>3, <1>4
<1>6. QED
  BY <1>3, <1>4, <1>5

\* f are the states of the loop of n turns that starts with a; turn k is F[k].
IsLoop(f, n, A, a, F) ==
  f \in [0..n -> A] /\ f[0] = a /\ \A k \in 1..n : f[k] = F[k][f[k - 1]]

Turns(n, A) == [1..n -> [A -> A]]

(***************************************************************************)
(* A loop has a sequence of states.                                        *)
(***************************************************************************)
LEMMA LoopExists ==
  ASSUME NEW n, n \in Nat, NEW A, NEW a, a \in A, NEW F, F \in Turns(n, A)
  PROVE  \E f : IsLoop(f, n, A, a, F)
<1> DEFINE Upto(m) == \E f \in [0..m -> A] : f[0] = a /\ \A k \in 1..m : f[k] = F[k][f[k - 1]]
           K == {m \in 0..n : Upto(m)}
<1> F \in [1..n -> [A -> A]]
  BY DEF Turns
<1>1. 0 \in K
  <2>1. [k \in 0..0 |-> a] \in [0..0 -> A] /\ [k \in 0..0 |-> a][0] = a /\ 1..0 = {}
    OBVIOUS
  <2>2. Upto(0)
    BY <2>1
  <2>3. QED
    BY <2>2
<1>2. ASSUME NEW m \in 1..n, m - 1 \in K PROVE m \in K
  <2>1. PICK f \in [0..(m - 1) -> A] : f[0] = a /\ \A k \in 1..(m - 1) : f[k] = F[k][f[k - 1]]
    BY <1>2
  <2> DEFINE g == [k \in 0..m |-> IF k = m THEN F[m][f[m - 1]] ELSE f[k]]
  <2>2. f[m - 1] \in A /\ F[m] \in [A -> A] /\ F[m][f[m - 1]] \in A
    BY <1>2, <2>1
  <2>3. g \in [0..m -> A]
    <3>1. \A k \in 0..m : k # m => k \in 0..(m - 1)
      BY <1>2
    <3>2. QED
      BY <2>1, <2>2, <3>1
  <2>4. g[0] = a
    BY <1>2, <2>1
  <2>5. ASSUME NEW k \in 1..m PROVE g[k] = F[k][g[k - 1]]
    <3>1. k - 1 \in 0..m /\ k - 1 # m /\ k \in 0..m
      BY <1>2, <2>5
    <3>2. g[k - 1] = f[k - 1]
      BY <3>1
    <3>3. CASE k = m
      BY <3>1, <3>2, <3>3
    <3>4. CASE k # m
      <4>1. k \in 1..(m - 1)
        BY <1>2, <2>5, <3>4
      <4>2. QED
        BY <2>1, <3>1, <3>2, <3>4, <4>1
    <3>5. QED
      BY <3>3, <3>4
  <2> HIDE DEF g
  <2>6. Upto(m)
    BY <2>3, <2>4, <2>5
  <2>7. m \in 0..n
    BY <1>2
  <2> HIDE DEF Upto
  <2>8. QED
    BY <2>6, <2>7
<1>3. n \in K
  <2> HIDE DEF K
  <2>1. \A k \in 1..n : k - 1 \in K => k \in K
    BY <1>2
  <2>2. \A k \in 0..n : k \in K
    BY <1>1, <2>1, LoopReaches
  <2>3. QED
    BY <2>2
<1>4. QED
  BY <1>3 DEF IsLoop

(***************************************************************************)
(* A position for each rank, where ranks differ.                           *)
(***************************************************************************)
LEMMA RankExists ==
  ASSUME NEW n \in Nat, NEW r \in [1..n -> 0..(n - 1)], \A i, j \in 1..n : r[i] = r[j] => i = j
  PROVE  \A k \in 1..n : \E i \in 1..n : r[i] = k - 1
<1>1. CASE n = 0
  BY <1>1
<1>2. CASE n # 0
  <2>1. r \in Injection(1..n, 0..(n - 1))
    BY DEF Injection, IsInjective
  <2>2. /\ IsFiniteSet(0..(n - 1)) /\ Cardinality(0..(n - 1)) = n /\ Cardinality(1..n) = n
    <3>1. 0 \in Int /\ n - 1 \in Int /\ 1 \in Int /\ n \in Int /\ ~(0 > n - 1) /\ ~(1 > n)
      BY <1>2
    <3>2. IsFiniteSet(0..(n - 1)) /\ Cardinality(0..(n - 1)) = (n - 1) - 0 + 1
      BY <3>1, FS_Interval
    <3>3. Cardinality(1..n) = n - 1 + 1
      BY <3>1, FS_Interval
    <3>4. QED
      BY <3>2, <3>3
  <2>3. r \in Surjection(1..n, 0..(n - 1))
    BY <2>1, <2>2, FS_Injection
  <2>4. QED
    BY <2>3 DEF Surjection
<1>3. QED
  BY <1>1, <1>2

-----------------------------------------------------------------------------
(* The event flag: its invariant *)

\* The labels of a waiter that has queued, and of a thread that holds the
\* internal mutex.
FlWaits == {"w_wait", "t_check", "t_test", "t_over", "t_lock"}
FlGuards == {"s_try", "wake"}

FlAsk == Flag!Request \union {Flag!NoRequest}

FlTypes ==
  /\ ObjTypeOK(Flag!PCs)
  /\ pattern \subseteq Bits /\ view \subseteq Bits
  /\ single \in BOOLEAN
  /\ sq \in Seq(Threads)
  /\ req \in [Threads -> FlAsk]
  /\ bitptn \in [Threads -> SUBSET Bits]
  /\ ok \subseteq Threads /\ toAwake \subseteq Threads

FlFaultInv ==
  /\ stopped # {} => "save" \in faults /\ saves < MaxSaves
  /\ \A t \in Threads : timed[t] \/ pc[t] \in FlWaits \ {"w_wait"} => "timeout" \in faults

FlGuardInv ==
  /\ \A t \in Threads : guard = t <=> pc[t] \in FlGuards
  /\ guard = NoThread => toAwake = {}

\* Who is to be in the list: it is, or it was when the state was saved.
FlWants(t) == Contains(sq, t) \/ t \in toSleep

FlListInv ==
  /\ Distinct(sq)
  /\ sq # <<>> => exists
  /\ single => \A t, u \in Threads : FlWants(t) /\ FlWants(u) => t = u

\* Nobody waits whose request is satisfied.
FlBitsInv == \A t \in Threads : FlWants(t) => ~Flag!Satisfied(pattern, req[t])

\* While set works on its copy bits may go, but none come.
FlCopyInv ==
  /\ ok # {} => \E t \in Threads : pc[t] = "s_try"
  /\ (\E t \in Threads : pc[t] = "s_try") =>
       /\ toAwake = {} /\ pattern \subseteq view
       /\ \A t \in ok : Contains(sq, t)
       /\ \A t \in Threads : Contains(sq, t) => pc[t] # "a_wait" /\ ~Flag!Satisfied(view, req[t])

\* While loaded sleepers have not slept again nobody else works on the list.
FlLoadInv ==
  /\ \A t \in toSleep : pc[t] \in {"w_redo", "w_lock"}
  /\ toSleep # {} => exists /\ \A t \in Threads : pc[t] \notin {"s_lock", "c_lock", "s_try", "wake"}
                            /\ (pc[t] = "w_lock" => t \in toSleep)

FlThreadInv(t) ==
  /\ Contains(sq, t) => pc[t] \in (FlWaits \ {"t_over"}) \union {"a_wait"} /\ t \notin toAwake
  /\ pc[t] = "a_wait" => Contains(sq, t)
  /\ sched[t] = "asleep" => pc[t] \in {"w_wait", "t_check", "a_wait"}
  /\ pc[t] = "w_wait" =>
       IF Contains(sq, t) \/ t \in toAwake THEN sched[t] = "asleep"
       ELSE sched[t] \in {"ready", "signal"}
  /\ t \in toAwake => pc[t] \in FlWaits
  /\ pc[t] = "w_lock" => exists

FlInv ==
  /\ FlTypes /\ FlFaultInv /\ FlGuardInv /\ FlListInv /\ FlBitsInv /\ FlCopyInv /\ FlLoadInv
  /\ \A t \in Threads : FlThreadInv(t)

(***************************************************************************)
(* The module of the flag looks into its list as this one.                 *)
(***************************************************************************)
LEMMA FlSame ==
  ASSUME NEW S, NEW q, NEW x
  PROVE  /\ Flag!Cardinality(S) = Cardinality(S)
         /\ Flag!Contains(q, x) <=> Contains(q, x)
         /\ Flag!Range(q) = Range(q)
         /\ Flag!Without(q, x) = RemoveFirst(q, x)
<1>1. Flag!Cardinality(S) = Cardinality(S)
  BY DEF Flag!Cardinality, Cardinality
<1>2. Flag!Contains(q, x) <=> Contains(q, x)
  BY DEF Flag!Contains, Contains
<1>3. Flag!Range(q) = Range(q)
  BY DEF Flag!Range, Range
<1>4. Flag!Without(q, x) = RemoveFirst(q, x)
  BY DEF Flag!Without, Flag!RemoveFirst, Flag!RemoveAt, Flag!SelectInSeq, Flag!Min,
         RemoveFirst, RemoveAt, SelectInSeq, Min
<1>5. QED
  BY <1>1, <1>2, <1>3, <1>4

(***************************************************************************)
(* With fewer bits no more is satisfied, and a wait that is satisfied      *)
(* leaves fewer bits.                                                      *)
(***************************************************************************)
LEMMA FlFewer ==
  ASSUME NEW r \in FlAsk, NEW p, NEW s \in SUBSET p
  PROVE  /\ Flag!Satisfied(s, r) => Flag!Satisfied(p, r)
         /\ Flag!Rest(p, r) \subseteq p
<1>1. r.clear \in {"none", "bits", "all"}
  BY DEF FlAsk, Flag!Request, Flag!NoRequest
<1>2. Flag!Satisfied(s, r) => Flag!Satisfied(p, r)
  BY DEF Flag!Satisfied
<1>3. Flag!Rest(p, r) \subseteq p
  BY <1>1 DEF Flag!Rest
<1>4. QED
  BY <1>2, <1>3

\* The other threads keep their state and their place in the list.
FlOthers(t) ==
  \A u \in Threads \ {t} :
    /\ pc'[u] = pc[u] /\ timed'[u] = timed[u] /\ sched'[u] = sched[u] /\ req'[u] = req[u]
    /\ Contains(sq', u) <=> Contains(sq, u)

(***************************************************************************)
(* A thread outside the internal mutex goes on, and no bits are set.       *)
(***************************************************************************)
LEMMA FlStepInv ==
  ASSUME FlInv, NEW t \in Threads, NEW l \in Flag!PCs, pc'[t] = l, FlOthers(t), FlTypes',
         UNCHANGED <<fifo, exists, stopped, saves, faults, guard, single, view, ok, toAwake>>,
         pc[t] \notin FlGuards, l \notin FlGuards, pattern' \subseteq pattern,
         timed'[t] \/ l \in FlWaits \ {"w_wait"} => "timeout" \in faults,
         toSleep' \subseteq toSleep, toSleep \ {t} \subseteq toSleep',
         t \in toSleep' => l \in {"w_redo", "w_lock"},
         toSleep' # {} => l \notin {"s_lock", "c_lock"} /\ (l = "w_lock" => t \in toSleep'),
         Distinct(sq'), sq' # <<>> => exists,
         FlWants(t)' => ~Flag!Satisfied(pattern', req'[t]),
         single /\ FlWants(t)' => \A u \in Threads : FlWants(u) => u = t,
         \/ guard = NoThread
         \/ /\ Contains(sq', t) <=> Contains(sq, t)
            /\ l # "a_wait" /\ (Contains(sq, t) => req'[t] = req[t]),
         FlThreadInv(t)'
  PROVE  FlInv'
<1> USE ThreadsAssumption
<1>1. /\ FlTypes /\ toSleep \subseteq Threads /\ req \in [Threads -> FlAsk]
  BY DEF FlInv, FlTypes, ObjTypeOK
<1>2. \A u \in Threads : u # t => (FlWants(u)' <=> FlWants(u))
  BY DEF FlWants, FlOthers
<1>F. FlFaultInv'
  BY DEF FlInv, FlFaultInv, FlOthers
<1>G. FlGuardInv'
  BY DEF FlInv, FlGuardInv, FlOthers
<1>L. FlListInv'
  <2>1. ASSUME single, NEW u \in Threads, NEW v \in Threads, FlWants(u)', FlWants(v)' PROVE u = v
    BY <1>2, <2>1 DEF FlInv, FlListInv
  <2>2. QED
    BY <2>1 DEF FlListInv
<1>B. FlBitsInv'
  <2>1. ASSUME NEW u \in Threads, FlWants(u)', u # t PROVE ~Flag!Satisfied(pattern', req'[u])
    <3>1. ~Flag!Satisfied(pattern, req[u]) /\ req'[u] = req[u] /\ req[u] \in FlAsk
      BY <1>1, <1>2, <2>1 DEF FlInv, FlBitsInv, FlOthers
    <3>2. QED
      BY <3>1, FlFewer
  <2>2. QED
    BY <2>1 DEF FlBitsInv
<1>C. FlCopyInv'
  <2>1. \A u \in Threads : pc'[u] = "s_try" <=> pc[u] = "s_try"
    BY DEF FlOthers, FlGuards
  <2>2. CASE guard = NoThread
    <3>1. \A u \in Threads : pc[u] # "s_try"
      BY <2>2 DEF FlInv, FlGuardInv, FlGuards
    <3>2. QED
      BY <2>1, <3>1 DEF FlInv, FlCopyInv
  <2>3. CASE guard # NoThread
    <3>1. /\ \A u \in Threads : Contains(sq', u) <=> Contains(sq, u)
          /\ \A u \in Threads : Contains(sq, u) => req'[u] = req[u]
          /\ \A u \in Threads : pc'[u] = "a_wait" => pc[u] = "a_wait"
      BY <2>3 DEF FlOthers
    <3>2. ok \subseteq Threads
      BY <1>1 DEF FlTypes
    <3>3. QED
      BY <2>1, <3>1, <3>2 DEF FlInv, FlCopyInv
  <2>4. QED
    BY <2>2, <2>3
<1>D. FlLoadInv'
  <2>1. \A u \in Threads : u # t => pc'[u] = pc[u] /\ (u \in toSleep' <=> u \in toSleep)
    BY DEF FlOthers
  <2>2. \A u \in toSleep' : pc'[u] \in {"w_redo", "w_lock"}
    BY <1>1, <2>1 DEF FlInv, FlLoadInv
  <2>3. ASSUME toSleep' # {}, NEW u \in Threads
        PROVE  /\ exists' /\ pc'[u] \notin {"s_lock", "c_lock", "s_try", "wake"}
               /\ pc'[u] = "w_lock" => u \in toSleep'
    <3>1. toSleep # {}
      BY <2>3
    <3>2. QED
      BY <2>1, <2>3, <3>1 DEF FlInv, FlLoadInv, FlGuards
  <2>4. toSleep' # {} => exists'
    BY DEF FlInv, FlLoadInv
  <2>5. QED
    BY <2>2, <2>3, <2>4 DEF FlLoadInv
<1>H. ASSUME NEW u \in Threads PROVE FlThreadInv(u)'
  <2>1. CASE u # t
    <3>1. /\ pc'[u] = pc[u] /\ sched'[u] = sched[u] /\ (Contains(sq', u) <=> Contains(sq, u))
      BY <1>H, <2>1 DEF FlOthers
    <3>2. FlThreadInv(u)
      BY <1>H DEF FlInv
    <3>3. QED
      BY <3>1, <3>2 DEF FlThreadInv
  <2>2. QED
    BY <2>1
<1> QED
  BY <1>F, <1>G, <1>L, <1>B, <1>C, <1>D, <1>H DEF FlInv

(***************************************************************************)
(* A step of one thread that leaves the list alone.                        *)
(***************************************************************************)
LEMMA FlMoveInv ==
  ASSUME FlInv, NEW t \in Threads, NEW l \in Flag!PCs, NEW to \in BOOLEAN, NEW r \in FlAsk,
         NEW b \in SUBSET Bits,
         pc' = [pc EXCEPT ![t] = l], timed' = [timed EXCEPT ![t] = to],
         req' = [req EXCEPT ![t] = r], bitptn' = [bitptn EXCEPT ![t] = b],
         sched' \in [Threads -> SchedStates], \A u \in Threads \ {t} : sched'[u] = sched[u],
         UNCHANGED <<fifo, exists, stopped, toSleep, saves, faults, guard, single, sq, view, ok, toAwake>>,
         pattern' \subseteq pattern, pc[t] \notin FlGuards, l \notin FlGuards,
         to \/ l \in FlWaits \ {"w_wait"} => "timeout" \in faults,
         t \in toSleep => l \in {"w_redo", "w_lock"},
         toSleep # {} => l \notin {"s_lock", "c_lock"} /\ (l = "w_lock" => t \in toSleep),
         FlWants(t) => r = req[t],
         Contains(sq, t) => l \in (FlWaits \ {"t_over"}) \union {"a_wait"},
         l = "a_wait" => Contains(sq, t) /\ guard = NoThread,
         sched'[t] = "asleep" => l \in {"w_wait", "t_check", "a_wait"},
         l = "w_wait" => IF Contains(sq, t) \/ t \in toAwake THEN sched'[t] = "asleep"
                         ELSE sched'[t] \in {"ready", "signal"},
         t \in toAwake => l \in FlWaits, l = "w_lock" => exists
  PROVE  FlInv'
<1>1. /\ FlTypes /\ pc \in [Threads -> Flag!PCs] /\ timed \in [Threads -> BOOLEAN]
      /\ req \in [Threads -> FlAsk] /\ bitptn \in [Threads -> SUBSET Bits] /\ FlThreadInv(t)
  BY DEF FlInv, FlTypes, ObjTypeOK
<1>2. /\ pc'[t] = l /\ timed'[t] = to /\ req'[t] = r
      /\ \A u \in Threads \ {t} : pc'[u] = pc[u] /\ timed'[u] = timed[u] /\ req'[u] = req[u]
  BY <1>1
<1>3. FlOthers(t)
  BY <1>2 DEF FlOthers
<1>4. FlTypes'
  <2>1. /\ pc' \in [Threads -> Flag!PCs] /\ timed' \in [Threads -> BOOLEAN]
        /\ req' \in [Threads -> FlAsk] /\ bitptn' \in [Threads -> SUBSET Bits]
    BY <1>1
  <2>2. pattern' \subseteq Bits
    BY <1>1 DEF FlTypes
  <2>3. QED
    BY <1>1, <2>1, <2>2 DEF FlTypes, ObjTypeOK
<1>5. FlThreadInv(t)'
  BY <1>1, <1>2 DEF FlThreadInv
<1>6. FlWants(t)' <=> FlWants(t)
  BY DEF FlWants
<1>7. FlWants(t)' => ~Flag!Satisfied(pattern', req'[t])
  <2>1. ASSUME FlWants(t) PROVE ~Flag!Satisfied(pattern', req'[t])
    <3>1. ~Flag!Satisfied(pattern, r)
      BY <2>1 DEF FlInv, FlBitsInv
    <3>2. QED
      BY <1>2, <3>1, FlFewer
  <2>2. QED
    BY <1>6, <2>1
<1>8. single /\ FlWants(t)' => \A u \in Threads : FlWants(u) => u = t
  BY <1>6 DEF FlInv, FlListInv
<1>9. /\ Distinct(sq') /\ (sq' # <<>> => exists)
      /\ Contains(sq', t) <=> Contains(sq, t)
      /\ Contains(sq, t) => req'[t] = req[t]
  BY <1>2 DEF FlInv, FlListInv, FlWants
<1>10. QED
  BY <1>2, <1>3, <1>4, <1>5, <1>7, <1>8, <1>9, FlStepInv

(***************************************************************************)
(* What the invariant says of a thread.                                    *)
(***************************************************************************)
LEMMA FlReads ==
  ASSUME FlInv, NEW t \in Threads
  PROVE  /\ FlTypes /\ FlThreadInv(t)
         /\ pc \in [Threads -> Flag!PCs] /\ timed \in [Threads -> BOOLEAN]
         /\ timed[t] \in BOOLEAN /\ (timed[t] => "timeout" \in faults)
         /\ req[t] \in FlAsk /\ req = [req EXCEPT ![t] = req[t]]
         /\ bitptn[t] \in SUBSET Bits /\ bitptn = [bitptn EXCEPT ![t] = bitptn[t]]
         /\ sched \in [Threads -> SchedStates]
         /\ guard = t <=> pc[t] \in FlGuards
         /\ guard = NoThread => toAwake = {}
         /\ t \in toSleep => pc[t] \in {"w_redo", "w_lock"}
         /\ pc[t] \in FlWaits \ {"w_wait"} => "timeout" \in faults
<1>1. FlTypes /\ FlThreadInv(t) /\ FlFaultInv /\ FlGuardInv /\ FlLoadInv
  BY DEF FlInv
<1>2. /\ req \in [Threads -> FlAsk] /\ bitptn \in [Threads -> SUBSET Bits]
      /\ pc \in [Threads -> Flag!PCs] /\ timed \in [Threads -> BOOLEAN]
      /\ sched \in [Threads -> SchedStates]
  BY <1>1 DEF FlTypes, ObjTypeOK
<1>3. /\ timed[t] \in BOOLEAN /\ (timed[t] => "timeout" \in faults)
      /\ pc[t] \in FlWaits \ {"w_wait"} => "timeout" \in faults
  BY <1>1, <1>2 DEF FlFaultInv
<1>4. /\ guard = t <=> pc[t] \in FlGuards
      /\ guard = NoThread => toAwake = {}
      /\ t \in toSleep => pc[t] \in {"w_redo", "w_lock"}
  BY <1>1 DEF FlGuardInv, FlLoadInv
<1>5. req = [req EXCEPT ![t] = req[t]] /\ bitptn = [bitptn EXCEPT ![t] = bitptn[t]]
  BY <1>2
<1>6. QED
  BY <1>1, <1>2, <1>3, <1>4, <1>5

(***************************************************************************)
(* Where a thread may time out nobody is stopped.                          *)
(***************************************************************************)
LEMMA FlNoSave ==
  ASSUME OneFault, FlInv, "timeout" \in faults
  PROVE  stopped = {}
<1>1. faults \in Faults
  BY DEF FlInv, FlTypes, ObjTypeOK
<1>2. "save" \notin faults
  BY <1>1 DEF OneFault
<1>3. QED
  BY <1>2 DEF FlInv, FlFaultInv

(***************************************************************************)
(* A call returns.                                                         *)
(***************************************************************************)
LEMMA FlReturnInv ==
  ASSUME FlInv, NEW t \in Threads, Flag!Return(t), pc[t] \notin FlGuards,
         ~FlWants(t), t \notin toAwake, pattern' \subseteq pattern,
         sched' \in [Threads -> SchedStates], \A u \in Threads \ {t} : sched'[u] = sched[u],
         sched'[t] # "asleep",
         UNCHANGED <<fifo, exists, stopped, toSleep, saves, faults, guard, single, sq, view, ok, toAwake>>
  PROVE  FlInv'
<1>l. PICK l \in Flag!PCs : l = "idle"
  BY DEF Flag!PCs
<1>1. /\ pc' = [pc EXCEPT ![t] = l] /\ timed' = [timed EXCEPT ![t] = FALSE]
      /\ req' = [req EXCEPT ![t] = Flag!NoRequest] /\ bitptn' = [bitptn EXCEPT ![t] = {}]
  BY <1>l DEF Flag!Return, Flag!Enter
<1>2. Flag!NoRequest \in FlAsk /\ {} \in SUBSET Bits
  BY DEF FlAsk
<1>3. l \notin FlGuards /\ l \notin FlWaits /\ ~Contains(sq, t) /\ t \notin toSleep
  BY <1>l DEF FlGuards, FlWaits, FlWants
<1>4. QED
  BY <1>l, <1>1, <1>2, <1>3, FlMoveInv

-----------------------------------------------------------------------------
(* The event flag: waiting *)

(***************************************************************************)
(* wait, made for the first time or again: its bits are there, or it goes  *)
(* on to the internal mutex.                                               *)
(***************************************************************************)
LEMMA FlWaitInv ==
  ASSUME FlInv, NEW t \in Threads, NEW from \in {"idle", "w_redo"}, NEW r \in FlAsk,
         NEW to \in BOOLEAN, to => "timeout" \in faults, from = "w_redo" => r = req[t],
         Flag!Wait(t, from, r, to)
  PROVE  FlInv'
<1>1. /\ pc[t] = from /\ exists /\ (toSleep = {} \/ t \in toSleep) /\ (from = "idle" => toSleep = {})
      /\ UNCHANGED <<fifo, exists, stopped, toSleep, saves, faults, guard, sched, single, sq, view, ok,
                     toAwake>>
  BY DEF Flag!Wait, Flag!Running, Flag!MayStep, Flag!world
<1>2. /\ ~Contains(sq, t) /\ sched[t] # "asleep" /\ t \notin toAwake /\ pc[t] \notin FlGuards
      /\ t \in toSleep => from = "w_redo"
  BY <1>1, FlReads DEF FlThreadInv, FlWaits, FlGuards
<1>3. CASE Flag!Satisfied(pattern, r)
  <2>1. pattern' = Flag!Rest(pattern, r) /\ Flag!Return(t)
    BY <1>3 DEF Flag!Wait
  <2>2. ~FlWants(t)
    BY <1>2, <1>3 DEF FlInv, FlBitsInv, FlWants
  <2>3. pattern \in SUBSET pattern
    OBVIOUS
  <2>4. pattern' \subseteq pattern
    BY <2>1, <2>3, FlFewer
  <2>5. sched' \in [Threads -> SchedStates] /\ sched'[t] # "asleep" /\ \A u \in Threads \ {t} : sched'[u] = sched[u]
    BY <1>1, <1>2, FlReads
  <2>6. QED
    BY <1>1, <1>2, <2>1, <2>2, <2>4, <2>5, FlReturnInv
<1>4. CASE ~Flag!Satisfied(pattern, r)
  <2>l. PICK l \in Flag!PCs : l = "w_lock"
    BY DEF Flag!PCs
  <2>1. /\ pc' = [pc EXCEPT ![t] = l] /\ timed' = [timed EXCEPT ![t] = to]
        /\ req' = [req EXCEPT ![t] = r] /\ pattern' = pattern /\ bitptn' = bitptn
    BY <1>4, <2>l DEF Flag!Wait, Flag!Enter
  <2>2. /\ bitptn[t] \in SUBSET Bits /\ bitptn' = [bitptn EXCEPT ![t] = bitptn[t]]
        /\ sched' \in [Threads -> SchedStates] /\ sched'[t] # "asleep"
        /\ \A u \in Threads \ {t} : sched'[u] = sched[u]
    BY <1>1, <1>2, <2>1, FlReads
  <2>3. l \notin FlGuards /\ l \notin FlWaits /\ (FlWants(t) => r = req[t])
    BY <1>2, <2>l DEF FlGuards, FlWaits, FlWants
  <2>4. toSleep # {} => l \notin {"s_lock", "c_lock"} /\ (l = "w_lock" => t \in toSleep)
    BY <1>1, <2>l
  <2>5. QED
    BY <1>1, <1>2, <2>l, <2>1, <2>2, <2>3, <2>4, FlMoveInv
<1>5. QED
  BY <1>3, <1>4

(***************************************************************************)
(* trywait takes its bits, and clear takes bits away.                      *)
(***************************************************************************)
LEMMA FlFewerInv ==
  ASSUME FlInv, NEW t \in Threads,
         \/ \E r \in FlAsk : Flag!TryWait(t, r)
         \/ \E b : Flag!Clear(t, b)
  PROVE  FlInv'
<1>1. /\ pc[t] = "idle"
      /\ UNCHANGED <<fifo, exists, stopped, toSleep, saves, faults, guard, pc, timed, sched, single, sq,
                     req, bitptn, view, ok, toAwake>>
  BY DEF Flag!TryWait, Flag!Clear, Flag!Running, Flag!MayStep, Flag!world
<1>2. pattern' \subseteq pattern
  <2>1. ASSUME NEW r \in FlAsk, Flag!TryWait(t, r) PROVE pattern' \subseteq pattern
    <3>1. pattern \in SUBSET pattern
      OBVIOUS
    <3>2. Flag!Rest(pattern, r) \subseteq pattern
      BY <3>1, FlFewer
    <3>3. QED
      BY <2>1, <3>2 DEF Flag!TryWait
  <2>2. ASSUME NEW b, Flag!Clear(t, b) PROVE pattern' \subseteq pattern
    BY <2>2 DEF Flag!Clear
  <2>3. QED
    BY <2>1, <2>2
<1>l. PICK l \in Flag!PCs : l = "idle"
  BY DEF Flag!PCs
<1>3. /\ pc' = [pc EXCEPT ![t] = l] /\ timed' = [timed EXCEPT ![t] = timed[t]]
      /\ req' = [req EXCEPT ![t] = req[t]] /\ bitptn' = [bitptn EXCEPT ![t] = bitptn[t]]
      /\ timed[t] \in BOOLEAN /\ req[t] \in FlAsk /\ bitptn[t] \in SUBSET Bits
      /\ timed[t] => "timeout" \in faults
  BY <1>1, <1>l, FlReads
<1>4. /\ l \notin FlGuards /\ l \notin FlWaits /\ pc[t] \notin FlGuards /\ ~Contains(sq, t)
      /\ t \notin toSleep /\ t \notin toAwake /\ sched[t] # "asleep" /\ l \notin {"w_wait", "w_lock", "a_wait"}
      /\ l \notin {"s_lock", "c_lock"}
  BY <1>1, <1>l, FlReads DEF FlThreadInv, FlGuards, FlWaits
<1>5. sched' \in [Threads -> SchedStates] /\ sched'[t] # "asleep" /\ \A u \in Threads \ {t} : sched'[u] = sched[u]
  BY <1>1, <1>4, FlReads
<1>6. ~FlWants(t)
  BY <1>4 DEF FlWants
<1>7. UNCHANGED <<fifo, exists, stopped, toSleep, saves, faults, guard, single, sq, view, ok, toAwake>>
  BY <1>1
<1>8. QED
  BY <1>2, <1>3, <1>4, <1>5, <1>6, <1>7, FlMoveInv

(***************************************************************************)
(* wait under the internal mutex: its bits have come, the flag has a       *)
(* waiter already and is for one only, or the thread sleeps.               *)
(***************************************************************************)
LEMMA FlWaitSleepInv ==
  ASSUME FlInv, NEW t \in Threads, Flag!WaitSleep(t)
  PROVE  FlInv'
<1>1. /\ pc[t] = "w_lock" /\ guard = NoThread
      /\ UNCHANGED <<fifo, exists, stopped, saves, faults, guard, single, view, ok, toAwake>>
  BY DEF Flag!WaitSleep
<1>2. /\ ~Contains(sq, t) /\ sched[t] # "asleep" /\ t \notin toAwake /\ pc[t] \notin FlGuards
      /\ exists /\ req[t] \in FlAsk /\ (toSleep # {} => t \in toSleep)
      /\ sched \in [Threads -> SchedStates] /\ FlTypes /\ bitptn[t] \in SUBSET Bits
      /\ sq \in Seq(Threads) /\ Distinct(sq) /\ toSleep \subseteq Threads
      /\ timed \in [Threads -> BOOLEAN] /\ pc \in [Threads -> Flag!PCs]
      /\ timed[t] => "timeout" \in faults
  <2>1. (toSleep # {} => t \in toSleep) /\ Distinct(sq)
    BY <1>1 DEF FlInv, FlLoadInv, FlListInv
  <2>2. sq \in Seq(Threads) /\ toSleep \subseteq Threads
    BY DEF FlInv, FlTypes, ObjTypeOK
  <2>3. QED
    BY <1>1, <2>1, <2>2, FlReads DEF FlThreadInv, FlWaits, FlGuards
<1>3. CASE Flag!Satisfied(pattern, req[t])
  <2>1. pattern' = Flag!Rest(pattern, req[t]) /\ Flag!Return(t) /\ UNCHANGED <<sched, toSleep, sq>>
    BY <1>3 DEF Flag!WaitSleep
  <2>2. ~FlWants(t)
    BY <1>3 DEF FlInv, FlBitsInv
  <2>3. pattern \in SUBSET pattern
    OBVIOUS
  <2>4. pattern' \subseteq pattern
    BY <1>2, <2>1, <2>3, FlFewer
  <2>5. sched' \in [Threads -> SchedStates] /\ sched'[t] # "asleep" /\ \A u \in Threads \ {t} : sched'[u] = sched[u]
    BY <1>2, <2>1
  <2>6. QED
    BY <1>1, <1>2, <2>1, <2>2, <2>4, <2>5, FlReturnInv
<1>4. CASE ~Flag!Satisfied(pattern, req[t]) /\ single /\ sq # <<>>
  <2>1. pattern' = pattern /\ Flag!Return(t) /\ UNCHANGED <<sched, toSleep, sq>>
    BY <1>4 DEF Flag!WaitSleep
  <2>2. t \notin toSleep
    <3>1. PICK u \in Threads : Contains(sq, u)
      BY <1>2, <1>4, RwSomebody
    <3>2. t \in toSleep => u = t
      BY <1>4, <3>1 DEF FlInv, FlListInv, FlWants
    <3>3. QED
      BY <1>2, <3>1, <3>2
  <2>3. ~FlWants(t) /\ pattern' \subseteq pattern
    BY <1>2, <2>1, <2>2 DEF FlWants
  <2>4. sched' \in [Threads -> SchedStates] /\ sched'[t] # "asleep" /\ \A u \in Threads \ {t} : sched'[u] = sched[u]
    BY <1>2, <2>1
  <2>5. QED
    BY <1>1, <1>2, <2>1, <2>3, <2>4, FlReturnInv
<1>5. CASE ~Flag!Satisfied(pattern, req[t]) /\ ~(single /\ sq # <<>>)
  <2>l. PICK l \in Flag!PCs : l = "w_wait"
    BY DEF Flag!PCs
  <2>1. /\ pattern' = pattern /\ sched' = [sched EXCEPT ![t] = "asleep"] /\ toSleep' = toSleep \ {t}
        /\ sq' = <<t>> \o sq /\ pc' = [pc EXCEPT ![t] = l] /\ timed' = [timed EXCEPT ![t] = timed[t]]
        /\ UNCHANGED <<req, bitptn>>
    BY <1>5, <2>l DEF Flag!WaitSleep, Flag!FallAsleep, Flag!Goto, Flag!Enter
  <2>2. /\ sq' \in Seq(Threads) /\ Distinct(sq')
        /\ \A x : Contains(sq', x) <=> Contains(sq, x) \/ x = t
    BY <1>2, <2>1, PushIs
  <2>3. /\ sched' \in [Threads -> SchedStates] /\ sched'[t] = "asleep"
        /\ \A u \in Threads \ {t} : sched'[u] = sched[u]
    BY <1>2, <2>1 DEF SchedStates
  <2>4. pc'[t] = l /\ timed'[t] = timed[t] /\ FlOthers(t)
    BY <1>2, <2>1, <2>2, <2>3 DEF FlOthers
  <2>5. FlTypes'
    <3>1. pc' \in [Threads -> Flag!PCs] /\ timed' \in [Threads -> BOOLEAN] /\ toSleep' \subseteq Threads
      BY <1>2, <2>1
    <3>2. QED
      BY <1>1, <1>2, <2>1, <2>2, <2>3, <3>1 DEF FlTypes, ObjTypeOK
  <2>6. FlThreadInv(t)'
    BY <1>1, <1>2, <2>l, <2>2, <2>3, <2>4 DEF FlThreadInv, FlWaits
  <2>7. ASSUME single, NEW u \in Threads, FlWants(u) PROVE u = t
    <3>1. ~Contains(sq, u)
      <4>1. sq = <<>>
        BY <1>5, <2>7
      <4>2. QED
        BY <1>2, <2>7, <4>1, RwSomebody
    <3>2. u \in toSleep /\ t \in toSleep
      BY <1>2, <2>7, <3>1 DEF FlWants
    <3>3. QED
      BY <2>7, <3>2 DEF FlInv, FlListInv, FlWants
  <2>8. /\ pattern' \subseteq pattern /\ ~Flag!Satisfied(pattern', req'[t])
        /\ l \notin FlGuards /\ l \in FlWaits /\ t \notin toSleep' /\ toSleep' \subseteq toSleep
        /\ toSleep \ {t} \subseteq toSleep'
    BY <1>5, <2>l, <2>1 DEF FlGuards, FlWaits
  <2>9. QED
    BY <1>1, <1>2, <2>l, <2>2, <2>4, <2>5, <2>6, <2>7, <2>8, FlStepInv
<1>6. QED
  BY <1>3, <1>4, <1>5

(***************************************************************************)
(* A waiter sees its signal, or finds itself off the list when it stops.   *)
(***************************************************************************)
LEMMA FlServedInv ==
  ASSUME FlInv, NEW t \in Threads,
         Flag!TakeSignal(t) \/ (Flag!WaitStopped(t) /\ ~Contains(sq, t))
  PROVE  FlInv'
<1>1. /\ pc[t] = "w_wait" /\ Flag!Return(t) /\ pattern' = pattern
      /\ \/ sched[t] = "signal" /\ sched' = [sched EXCEPT ![t] = "on"]
         \/ guard = NoThread /\ ~Contains(sq, t) /\ sched' = sched
      /\ UNCHANGED <<fifo, exists, stopped, toSleep, saves, faults, guard, single, sq, view, ok, toAwake>>
  BY FlSame DEF Flag!TakeSignal, Flag!WaitStopped, Flag!Signalled, Flag!Stopping, Flag!world
<1>2. ~FlWants(t) /\ t \notin toAwake /\ pc[t] \notin FlGuards /\ sched[t] # "asleep"
  BY <1>1, FlReads DEF FlThreadInv, FlWants, FlGuards
<1>3. sched' \in [Threads -> SchedStates] /\ sched'[t] # "asleep" /\ \A u \in Threads \ {t} : sched'[u] = sched[u]
  BY <1>1, <1>2, FlReads DEF SchedStates
<1>4. QED
  BY <1>1, <1>2, <1>3, FlReturnInv

(***************************************************************************)
(* A waiter that is stopped while it is queued makes its call again.       *)
(***************************************************************************)
LEMMA FlStoppedInv ==
  ASSUME FlInv, NEW t \in Threads, Flag!WaitStopped(t), Contains(sq, t)
  PROVE  FlInv'
<1>l. PICK l \in Flag!PCs : l = "a_wait"
  BY DEF Flag!PCs
<1>1. /\ pc[t] = "w_wait" /\ guard = NoThread /\ pattern' \subseteq pattern
      /\ pc' = [pc EXCEPT ![t] = l] /\ timed' = [timed EXCEPT ![t] = timed[t]]
      /\ UNCHANGED <<fifo, exists, stopped, toSleep, saves, faults, guard, sched, single, sq, view, ok,
                     toAwake, req, bitptn>>
  BY <1>l, FlSame DEF Flag!WaitStopped, Flag!Stopping, Flag!Goto, Flag!Enter, Flag!world
<1>2. /\ req' = [req EXCEPT ![t] = req[t]] /\ bitptn' = [bitptn EXCEPT ![t] = bitptn[t]]
      /\ timed[t] \in BOOLEAN /\ req[t] \in FlAsk /\ bitptn[t] \in SUBSET Bits
      /\ timed[t] => "timeout" \in faults
      /\ sched' \in [Threads -> SchedStates] /\ \A u \in Threads \ {t} : sched'[u] = sched[u]
  BY <1>1, FlReads
<1>3. /\ l \notin FlGuards /\ l \notin FlWaits /\ pc[t] \notin FlGuards /\ t \notin toSleep /\ t \notin toAwake
  BY <1>1, <1>l, FlReads DEF FlThreadInv, FlGuards, FlWaits
<1>4. QED
  BY <1>1, <1>l, <1>2, <1>3, FlMoveInv

(***************************************************************************)
(* A thread only goes on to another label.                                 *)
(***************************************************************************)
LEMMA FlGoInv ==
  ASSUME FlInv, NEW t \in Threads, NEW l \in Flag!PCs,
         pc' = [pc EXCEPT ![t] = l], timed' = [timed EXCEPT ![t] = timed[t]],
         UNCHANGED <<fifo, exists, stopped, toSleep, saves, faults, guard, sched, single, sq, view, ok,
                     toAwake, req, pattern>>,
         NEW b \in SUBSET Bits, bitptn' = [bitptn EXCEPT ![t] = b],
         pc[t] \notin FlGuards, l \notin FlGuards, t \notin toSleep,
         l \in FlWaits \ {"w_wait"} => "timeout" \in faults,
         toSleep # {} => l \notin {"s_lock", "c_lock"}, l \notin {"w_lock", "w_wait", "a_wait"},
         Contains(sq, t) => l \in FlWaits \ {"t_over"},
         sched[t] = "asleep" => l = "t_check",
         t \in toAwake => l \in FlWaits
  PROVE  FlInv'
<1>1. /\ req' = [req EXCEPT ![t] = req[t]]
      /\ timed[t] \in BOOLEAN /\ req[t] \in FlAsk
      /\ timed[t] => "timeout" \in faults
      /\ sched' \in [Threads -> SchedStates] /\ \A u \in Threads \ {t} : sched'[u] = sched[u]
      /\ pattern' \subseteq pattern /\ sched'[t] = sched[t]
  BY FlReads
<1>2. timed[t] \/ l \in FlWaits \ {"w_wait"} => "timeout" \in faults
  BY <1>1
<1>3. QED
  BY <1>1, <1>2, FlMoveInv

-----------------------------------------------------------------------------
(* The event flag: timeouts *)

(***************************************************************************)
(* The timeout of a waiter expires.                                        *)
(***************************************************************************)
LEMMA FlTimeOutInv ==
  ASSUME FlInv, NEW t \in Threads, Flag!TimeOut(t)
  PROVE  FlInv'
<1>l. PICK l \in Flag!PCs : l = "t_check"
  BY DEF Flag!PCs
<1>1. /\ pc[t] = "w_wait" /\ timed[t]
      /\ pc' = [pc EXCEPT ![t] = l] /\ timed' = [timed EXCEPT ![t] = timed[t]]
      /\ UNCHANGED <<fifo, exists, stopped, toSleep, saves, faults, guard, sched, single, sq, view, ok,
                     toAwake, req, pattern, bitptn>>
  BY <1>l DEF Flag!TimeOut, Flag!TimedOut, Flag!Goto, Flag!Enter, Flag!world, Flag!own
<1>2. /\ l \notin FlGuards /\ pc[t] \notin FlGuards /\ l \in FlWaits \ {"t_over"} /\ "timeout" \in faults
      /\ t \notin toSleep /\ l \notin {"w_lock", "w_wait", "a_wait", "s_lock", "c_lock"} /\ l \in FlWaits
  BY <1>l, <1>1, FlReads DEF FlGuards, FlWaits
<1>3. bitptn[t] \in SUBSET Bits /\ bitptn' = [bitptn EXCEPT ![t] = bitptn[t]]
  BY <1>1, FlReads
<1>4. QED
  BY <1>l, <1>1, <1>2, <1>3, FlGoInv

(***************************************************************************)
(* It makes itself runnable, or goes on.                                   *)
(***************************************************************************)
LEMMA FlTimeOutCheckInv ==
  ASSUME OneFault, FlInv, NEW t \in Threads, Flag!TimeOutCheck(t)
  PROVE  FlInv'
<1>1. /\ pc[t] = "t_check" /\ UNCHANGED <<fifo, exists, stopped, toSleep, saves, faults, guard, timed,
                                          single, sq, view, ok, toAwake, req, pattern, bitptn>>
  BY DEF Flag!TimeOutCheck, Flag!world, Flag!own
<1>2. "timeout" \in faults /\ t \notin toSleep /\ pc[t] \notin FlGuards
  BY <1>1, FlReads DEF FlWaits, FlGuards
<1>3. t \notin stopped
  BY <1>2, FlNoSave
<1>4. PICK l \in Flag!PCs, s \in SchedStates :
        /\ pc' = [pc EXCEPT ![t] = l] /\ sched' = [sched EXCEPT ![t] = s]
        /\ l \in {"t_check", "t_test"} /\ s \in {"on", "ready"}
  <2>1. {"t_check", "t_test"} \subseteq Flag!PCs /\ {"on", "ready"} \subseteq SchedStates
    BY DEF Flag!PCs, SchedStates
  <2>2. CASE sched' = [sched EXCEPT ![t] = "ready"] /\ pc' = pc
    <3>1. pc' = [pc EXCEPT ![t] = "t_check"]
      BY <1>1, <2>2, FlReads
    <3>2. QED
      BY <2>1, <2>2, <3>1
  <2>3. CASE sched' = [sched EXCEPT ![t] = "on"] /\ pc' = [pc EXCEPT ![t] = "t_test"]
    BY <2>1, <2>3
  <2>4. QED
    BY <1>3, <2>2, <2>3 DEF Flag!TimeOutCheck, Flag!CheckState
<1>5. /\ timed' = [timed EXCEPT ![t] = timed[t]] /\ timed[t] \in BOOLEAN
      /\ req[t] \in FlAsk /\ req' = [req EXCEPT ![t] = req[t]]
      /\ bitptn[t] \in SUBSET Bits /\ bitptn' = [bitptn EXCEPT ![t] = bitptn[t]]
      /\ pattern' \subseteq pattern
  BY <1>1, FlReads
<1>6. /\ sched' \in [Threads -> SchedStates] /\ \A u \in Threads \ {t} : sched'[u] = sched[u]
      /\ sched'[t] # "asleep"
  BY <1>4, FlReads
<1>7. /\ l \notin FlGuards /\ l \in FlWaits /\ l \in (FlWaits \ {"t_over"}) \union {"a_wait"}
      /\ l \notin {"w_lock", "w_wait", "a_wait", "s_lock", "c_lock"}
  BY <1>4 DEF FlGuards, FlWaits
<1>8. UNCHANGED <<fifo, exists, stopped, toSleep, saves, faults, guard, single, sq, view, ok, toAwake>>
  BY <1>1
<1>9. /\ timed[t] \/ l \in FlWaits \ {"w_wait"} => "timeout" \in faults
      /\ t \in toSleep => l \in {"w_redo", "w_lock"}
      /\ toSleep # {} => l \notin {"s_lock", "c_lock"} /\ (l = "w_lock" => t \in toSleep)
      /\ FlWants(t) => req[t] = req[t]
      /\ Contains(sq, t) => l \in (FlWaits \ {"t_over"}) \union {"a_wait"}
      /\ l = "a_wait" => Contains(sq, t) /\ guard = NoThread
      /\ sched'[t] = "asleep" => l \in {"w_wait", "t_check", "a_wait"}
      /\ l = "w_wait" => IF Contains(sq, t) \/ t \in toAwake THEN sched'[t] = "asleep"
                         ELSE sched'[t] \in {"ready", "signal"}
      /\ t \in toAwake => l \in FlWaits
      /\ l = "w_lock" => exists
  BY <1>2, <1>6, <1>7
<1>10. QED
  BY <1>2, <1>4, <1>5, <1>6, <1>7, <1>8, <1>9, FlMoveInv

(***************************************************************************)
(* It looks whether the list is empty.                                     *)
(***************************************************************************)
LEMMA FlTimeOutTestInv ==
  ASSUME FlInv, NEW t \in Threads, Flag!TimeOutTest(t)
  PROVE  FlInv'
<1>l. PICK l \in Flag!PCs : l = IF sq = <<>> THEN "t_over" ELSE "t_lock"
  BY DEF Flag!PCs
<1>1. /\ pc[t] = "t_test"
      /\ pc' = [pc EXCEPT ![t] = l] /\ timed' = [timed EXCEPT ![t] = timed[t]]
      /\ UNCHANGED <<fifo, exists, stopped, toSleep, saves, faults, guard, sched, single, sq, view, ok,
                     toAwake, req, pattern, bitptn>>
  BY <1>l DEF Flag!TimeOutTest, Flag!Goto, Flag!Enter, Flag!world, Flag!own
<1>2. Contains(sq, t) => l = "t_lock"
  BY <1>l DEF Contains
<1>3. /\ l \notin FlGuards /\ pc[t] \notin FlGuards /\ l \in FlWaits /\ "timeout" \in faults
      /\ (Contains(sq, t) => l \in FlWaits \ {"t_over"}) /\ sched[t] # "asleep"
      /\ t \notin toSleep /\ l \notin {"w_lock", "w_wait", "a_wait", "s_lock", "c_lock"}
  BY <1>l, <1>1, <1>2, FlReads DEF FlGuards, FlWaits, FlThreadInv
<1>4. bitptn[t] \in SUBSET Bits /\ bitptn' = [bitptn EXCEPT ![t] = bitptn[t]]
  BY <1>1, FlReads
<1>5. QED
  BY <1>1, <1>3, <1>4, FlGoInv

(***************************************************************************)
(* It returns, or unlinks itself if it is still queued.                    *)
(***************************************************************************)
LEMMA FlTimeOutEndInv ==
  ASSUME FlInv, NEW t \in Threads, Flag!TimeOutOver(t) \/ Flag!TimeOutLock(t)
  PROVE  FlInv'
<1>1. /\ pc[t] \in {"t_over", "t_lock"} /\ guard = NoThread /\ Flag!Return(t)
      /\ UNCHANGED <<fifo, exists, stopped, toSleep, saves, faults, guard, sched, pattern, single, view,
                     ok, toAwake>>
      /\ \/ pc[t] = "t_over" /\ sq' = sq
         \/ sq' = RemoveFirst(sq, t)
  BY FlSame DEF Flag!TimeOutOver, Flag!TimeOutLock, Flag!world
<1>2. /\ FlTypes /\ sq \in Seq(Threads) /\ Distinct(sq) /\ (sq # <<>> => exists) /\ toAwake = {}
      /\ sched \in [Threads -> SchedStates] /\ pc \in [Threads -> Flag!PCs]
      /\ timed \in [Threads -> BOOLEAN] /\ req \in [Threads -> FlAsk]
      /\ bitptn \in [Threads -> SUBSET Bits] /\ FlThreadInv(t)
  BY <1>1 DEF FlInv, FlTypes, ObjTypeOK, FlListInv, FlGuardInv
<1>3. /\ sq' \in Seq(Threads) /\ Distinct(sq') /\ ~Contains(sq', t)
      /\ \A u \in Threads \ {t} : Contains(sq', u) <=> Contains(sq, u)
  <2>1. CASE pc[t] = "t_over" /\ sq' = sq
    BY <1>2, <2>1 DEF FlThreadInv, FlWaits
  <2>2. CASE sq' = RemoveFirst(sq, t)
    BY <1>2, <2>2, RemoveFirstHas
  <2>3. QED
    BY <1>1, <2>1, <2>2
<1>l. PICK l \in Flag!PCs : l = "idle"
  BY DEF Flag!PCs
<1>4. /\ pc' = [pc EXCEPT ![t] = l] /\ timed' = [timed EXCEPT ![t] = FALSE]
      /\ req' = [req EXCEPT ![t] = Flag!NoRequest] /\ bitptn' = [bitptn EXCEPT ![t] = {}]
  BY <1>1, <1>l DEF Flag!Return, Flag!Enter
<1>5. pc'[t] = l /\ timed'[t] = FALSE /\ FlOthers(t)
  BY <1>1, <1>2, <1>3, <1>4 DEF FlOthers
<1>6. FlTypes'
  <2>1. /\ pc' \in [Threads -> Flag!PCs] /\ timed' \in [Threads -> BOOLEAN]
        /\ req' \in [Threads -> FlAsk] /\ bitptn' \in [Threads -> SUBSET Bits]
    BY <1>2, <1>4 DEF FlAsk
  <2>2. QED
    BY <1>1, <1>2, <1>3, <2>1 DEF FlTypes, ObjTypeOK
<1>7. /\ l \notin FlGuards /\ pc[t] \notin FlGuards /\ l \notin FlWaits /\ sched[t] # "asleep"
      /\ t \notin toSleep /\ l \notin {"s_lock", "c_lock", "w_lock"}
  BY <1>l, <1>1, FlReads DEF FlGuards, FlWaits, FlThreadInv
<1>8. FlThreadInv(t)' /\ ~FlWants(t)'
  BY <1>l, <1>1, <1>2, <1>3, <1>5, <1>7 DEF FlThreadInv, FlWants
<1>9. sq' # <<>> => exists
  <2>1. ASSUME sq' # <<>> PROVE exists
    <3>1. PICK u \in Threads : Contains(sq', u)
      BY <1>3, <2>1, RwSomebody
    <3>2. Contains(sq, u)
      BY <1>3, <3>1
    <3>3. QED
      BY <1>2, <3>2, RwSomebody
  <2>2. QED
    BY <2>1
<1>10. pattern' \subseteq pattern /\ toSleep' = toSleep /\ t \notin toSleep'
  BY <1>1, <1>7
<1>11. QED
  BY <1>1, <1>3, <1>5, <1>6, <1>7, <1>8, <1>9, <1>10, FlStepInv

-----------------------------------------------------------------------------
(* The event flag: set and cancel, up to the internal mutex *)

(***************************************************************************)
(* set finds its bits set already, or goes on to the internal mutex.       *)
(***************************************************************************)
LEMMA FlSetInv ==
  ASSUME FlInv, NEW t \in Threads, NEW from \in {"idle", "s_redo"}, NEW b \in SUBSET Bits,
         Flag!Set(t, from, b)
  PROVE  FlInv'
<1>1. /\ pc[t] = from /\ (toSleep = {} \/ t \in toSleep)
      /\ UNCHANGED <<fifo, exists, stopped, toSleep, saves, faults, guard, sched, pattern, single, sq, view,
                     ok, toAwake>>
  BY DEF Flag!Set, Flag!Running, Flag!MayStep, Flag!world
<1>2. /\ ~Contains(sq, t) /\ sched[t] # "asleep" /\ t \notin toAwake /\ pc[t] \notin FlGuards
      /\ t \notin toSleep /\ toSleep = {} /\ ~FlWants(t)
  BY <1>1, FlReads DEF FlThreadInv, FlWaits, FlGuards, FlWants
<1>3. CASE b \subseteq pattern
  <2>1. Flag!Return(t) /\ pattern' \subseteq pattern
    BY <1>1, <1>3 DEF Flag!Set
  <2>2. sched' \in [Threads -> SchedStates] /\ sched'[t] # "asleep" /\ \A u \in Threads \ {t} : sched'[u] = sched[u]
    BY <1>1, <1>2, FlReads
  <2>3. QED
    BY <1>1, <1>2, <2>1, <2>2, FlReturnInv
<1>4. CASE ~(b \subseteq pattern)
  <2>l. PICK l \in Flag!PCs : l = "s_lock"
    BY DEF Flag!PCs
  <2>1. /\ pc' = [pc EXCEPT ![t] = l] /\ timed' = [timed EXCEPT ![t] = timed[t]]
        /\ bitptn' = [bitptn EXCEPT ![t] = b] /\ req' = req
    BY <1>4, <2>l DEF Flag!Set, Flag!Goto, Flag!Enter
  <2>2. l \notin FlGuards /\ l \notin FlWaits /\ l \notin {"w_lock", "w_wait", "a_wait"}
    BY <2>l DEF FlGuards, FlWaits
  <2>3. QED
    BY <1>1, <1>2, <2>1, <2>2, FlGoInv
<1>5. QED
  BY <1>3, <1>4

(***************************************************************************)
(* cancel goes on to the internal mutex, and set and cancel leave it again *)
(* if a waiter has left for a savestate.                                   *)
(***************************************************************************)
LEMMA FlPutOffInv ==
  ASSUME FlInv, NEW t \in Threads,
         \/ Flag!Cancel(t, "idle") \/ Flag!Cancel(t, "c_redo")
         \/ Flag!SetLock(t) /\ \E i \in 1..Len(sq) : Flag!Again(sq[i])
         \/ Flag!CancelLock(t) /\ \E i \in 1..Len(sq) : Flag!Again(sq[i])
  PROVE  FlInv'
<1>1. PICK l \in Flag!PCs :
        /\ \/ pc[t] \in {"idle", "c_redo"} /\ l = "c_lock" /\ (toSleep = {} \/ t \in toSleep)
           \/ pc[t] \in {"s_lock", "c_lock"} /\ l \in {"a_set", "a_cancel"}
        /\ pc' = [pc EXCEPT ![t] = l] /\ timed' = [timed EXCEPT ![t] = timed[t]]
        /\ UNCHANGED <<fifo, exists, stopped, toSleep, saves, faults, guard, sched, single, sq, view, ok,
                       toAwake, req, pattern, bitptn>>
  <2>1. {"c_lock", "a_set", "a_cancel"} \subseteq Flag!PCs
    BY DEF Flag!PCs
  <2>2. CASE Flag!Cancel(t, "idle") \/ Flag!Cancel(t, "c_redo")
    BY <2>1, <2>2 DEF Flag!Cancel, Flag!Running, Flag!MayStep, Flag!Goto, Flag!Enter, Flag!world, Flag!own
  <2>3. CASE Flag!SetLock(t) /\ \E i \in 1..Len(sq) : Flag!Again(sq[i])
    BY <2>1, <2>3 DEF Flag!SetLock, Flag!Goto, Flag!Enter, Flag!world, Flag!own
  <2>4. CASE Flag!CancelLock(t) /\ \E i \in 1..Len(sq) : Flag!Again(sq[i])
    BY <2>1, <2>4 DEF Flag!CancelLock, Flag!Goto, Flag!Enter, Flag!world, Flag!own
  <2>5. QED
    BY <2>2, <2>3, <2>4
<1>2. /\ ~Contains(sq, t) /\ sched[t] # "asleep" /\ t \notin toAwake /\ pc[t] \notin FlGuards
      /\ t \notin toSleep /\ l \notin FlGuards /\ l \notin FlWaits /\ l \notin {"w_lock", "w_wait", "a_wait"}
  BY <1>1, FlReads DEF FlThreadInv, FlWaits, FlGuards
<1>3. toSleep # {} => l \notin {"s_lock", "c_lock"}
  BY <1>1, <1>2
<1>4. bitptn[t] \in SUBSET Bits /\ bitptn' = [bitptn EXCEPT ![t] = bitptn[t]]
  BY <1>1, FlReads
<1>5. QED
  BY <1>1, <1>2, <1>3, <1>4, FlGoInv

(***************************************************************************)
(* A call that is made again finds the flag gone.                          *)
(***************************************************************************)
LEMMA FlRedoEsrchInv ==
  ASSUME FlInv, NEW t \in Threads, Flag!RedoEsrch(t)
  PROVE  FlInv'
<1>1. /\ pc[t] \in {"w_redo", "s_redo", "c_redo"} /\ ~exists /\ Flag!Return(t)
      /\ UNCHANGED <<fifo, exists, stopped, toSleep, saves, faults, guard, sched, pattern, single, sq, view,
                     ok, toAwake>>
  BY DEF Flag!RedoEsrch, Flag!world
<1>2. /\ ~Contains(sq, t) /\ sched[t] # "asleep" /\ t \notin toAwake /\ pc[t] \notin FlGuards
  BY <1>1, FlReads DEF FlThreadInv, FlWaits, FlGuards
<1>3. toSleep = {}
  BY <1>1 DEF FlInv, FlLoadInv
<1>4. ~FlWants(t) /\ pattern' \subseteq pattern
  BY <1>1, <1>2, <1>3 DEF FlWants
<1>5. sched' \in [Threads -> SchedStates] /\ sched'[t] # "asleep" /\ \A u \in Threads \ {t} : sched'[u] = sched[u]
  BY <1>1, <1>2, FlReads
<1>6. QED
  BY <1>1, <1>2, <1>4, <1>5, FlReturnInv

-----------------------------------------------------------------------------
(* The event flag: the order in which set processes the waiters *)

(***************************************************************************)
(* get_next gives every waiter once, and nobody else.                      *)
(***************************************************************************)
LEMMA FlRanks ==
  ASSUME NEW q \in Seq(Threads)
  PROVE  /\ \A k \in 1..Len(q) : \E i \in 1..Len(q) : Flag!InOrder(q)[k] = q[i]
         /\ \A i \in 1..Len(q) : \E k \in 1..Len(q) : Flag!InOrder(q)[k] = q[i]
         /\ Distinct(q) => \A k, m \in 1..Len(q) : Flag!InOrder(q)[k] = Flag!InOrder(q)[m] => k = m
<1> DEFINE n == Len(q)
           ah(i, j) == Flag!Ahead(q, i, j)
           Before(i) == {j \in 1..n \ {i} : ah(j, i)}
           r == [i \in 1..n |-> Cardinality(Before(i))]
<1>1. n \in Nat /\ \A i \in 1..n : q[i] \in Threads /\ Prio[q[i]] \in Nat
  BY PrioAssumption
<1>2. \A i, j \in 1..n : i # j => ah(i, j) \/ ah(j, i)
  BY <1>1 DEF Flag!Ahead, Flag!Better
<1>3. \A i, j, k \in 1..n : ah(i, j) /\ ah(j, k) => ah(i, k)
  BY <1>1 DEF Flag!Ahead, Flag!Better
<1>4. \A i \in 1..n : ~ah(i, i)
  BY <1>1 DEF Flag!Ahead, Flag!Better
<1>5. IsFiniteSet(1..n) /\ Cardinality(1..n) = n
  <2>1. 1 \in Int /\ n \in Int
    BY <1>1
  <2>2. IsFiniteSet(1..n) /\ Cardinality(1..n) = IF 1 > n THEN 0 ELSE n - 1 + 1
    BY <2>1, FS_Interval
  <2>3. QED
    BY <1>1, <2>2
<1>6. ASSUME NEW i \in 1..n PROVE IsFiniteSet(Before(i)) /\ r[i] = Cardinality(Before(i)) /\ r[i] \in 0..(n - 1)
  <2>1. Before(i) \in SUBSET (1..n) /\ Before(i) # 1..n
    OBVIOUS
  <2> DEFINE B == Before(i)
  <2>2. r[i] = Cardinality(B)
    BY <1>6
  <2>3. B \in SUBSET (1..n) /\ B # 1..n
    BY <2>1
  <2> HIDE DEF B
  <2>4. IsFiniteSet(B) /\ Cardinality(B) <= n /\ Cardinality(B) # n /\ Cardinality(B) \in Nat
    BY <1>5, <2>3, FS_Subset, FS_CardinalityType
  <2>5. QED
    BY <1>1, <2>2, <2>4 DEF B
<1>7. ASSUME NEW i \in 1..n, NEW j \in 1..n, ah(i, j), i # j PROVE r[i] # r[j]
  <2> DEFINE A == Before(i)
             B == Before(j)
  <2>1. A \in SUBSET B
    <3>1. ASSUME NEW k \in A PROVE k \in B
      <4>1. k \in 1..n /\ ah(k, j)
        BY <1>3, <1>7, <3>1
      <4>2. k # j
        BY <1>4, <1>7, <4>1
      <4>3. QED
        BY <4>1, <4>2
    <3>2. QED
      BY <3>1
  <2>2. i \in B /\ i \notin A
    BY <1>4, <1>7
  <2>3. r[i] = Cardinality(A) /\ r[j] = Cardinality(B) /\ IsFiniteSet(B)
    BY <1>6
  <2> HIDE DEF A, B
  <2>4. QED
    BY <2>1, <2>2, <2>3, FS_Subset
<1>8. r \in [1..n -> 0..(n - 1)]
  BY <1>6
<1>9. \A i, j \in 1..n : r[i] = r[j] => i = j
  <2>1. ASSUME NEW i \in 1..n, NEW j \in 1..n, r[i] = r[j], i # j PROVE FALSE
    <3>1. ah(i, j) \/ ah(j, i)
      BY <1>2, <2>1
    <3>2. QED
      BY <1>7, <2>1, <3>1
  <2>2. QED
    BY <2>1
<1>10. ASSUME NEW k \in 1..n
       PROVE  Flag!InOrder(q)[k] = q[CHOOSE i \in 1..n : r[i] = k - 1]
  <2>1. \A i \in 1..n : Flag!Cardinality({j \in 1..n \ {i} : Flag!Ahead(q, j, i)}) = r[i]
    BY FlSame, <1>6
  <2>2. Flag!InOrder(q)[k]
          = q[CHOOSE i \in 1..n : Flag!Cardinality({j \in 1..n \ {i} : Flag!Ahead(q, j, i)}) = k - 1]
    BY <1>10 DEF Flag!InOrder
  <2> HIDE DEF r
  <2>3. \A i : i \in 1..n /\ Flag!Cardinality({j \in 1..n \ {i} : Flag!Ahead(q, j, i)}) = k - 1
                 <=> i \in 1..n /\ r[i] = k - 1
    BY <2>1
  <2>4. QED
    BY <2>2, <2>3
<1> HIDE DEF r, ah
<1>11. \A k \in 1..n : \E i \in 1..n : r[i] = k - 1
  BY <1>1, <1>8, <1>9, RankExists
<1>12. ASSUME NEW k \in 1..n PROVE \E i \in 1..n : Flag!InOrder(q)[k] = q[i]
  <2>1. (CHOOSE i \in 1..n : r[i] = k - 1) \in 1..n
    BY <1>11, <1>12
  <2>2. QED
    BY <1>10, <1>12, <2>1
<1>13. ASSUME NEW i \in 1..n PROVE \E k \in 1..n : Flag!InOrder(q)[k] = q[i]
  <2> DEFINE k == r[i] + 1
             m == CHOOSE h \in 1..n : r[h] = k - 1
  <2>1. k \in 1..n /\ r[i] = k - 1
    BY <1>1, <1>8, <1>13
  <2>2. m \in 1..n /\ r[m] = k - 1
    BY <1>13, <2>1
  <2>3. m = i
    BY <1>9, <1>13, <2>1, <2>2
  <2>4. Flag!InOrder(q)[k] = q[m]
    BY <1>10, <2>1
  <2>5. QED
    BY <2>1, <2>3, <2>4
<1>14. ASSUME Distinct(q), NEW k \in 1..n, NEW m \in 1..n, Flag!InOrder(q)[k] = Flag!InOrder(q)[m]
       PROVE  k = m
  <2> DEFINE i == CHOOSE h \in 1..n : r[h] = k - 1
             j == CHOOSE h \in 1..n : r[h] = m - 1
  <2>1. i \in 1..n /\ r[i] = k - 1 /\ j \in 1..n /\ r[j] = m - 1
    BY <1>11, <1>14
  <2>2. q[i] = q[j]
    BY <1>10, <1>14
  <2> HIDE DEF i, j
  <2>3. i = j
    BY <1>14, <2>1, <2>2 DEF Distinct
  <2>4. QED
    BY <1>1, <1>14, <2>1, <2>3
<1>15. QED
  BY <1>12, <1>13, <1>14

LEMMA FlOrder ==
  ASSUME NEW q \in Seq(Threads)
  PROVE  /\ \A k \in 1..Len(q) : \E i \in 1..Len(q) : Flag!InOrder(q)[k] = q[i]
         /\ \A i \in 1..Len(q) : \E k \in 1..Len(q) : Flag!InOrder(q)[k] = q[i]
BY FlRanks

LEMMA FlOrderOnce ==
  ASSUME NEW q \in Seq(Threads), Distinct(q), NEW k \in 1..Len(q), NEW m \in 1..Len(q),
         Flag!InOrder(q)[k] = Flag!InOrder(q)[m]
  PROVE  k = m
BY FlRanks

-----------------------------------------------------------------------------
(* The event flag: the loops of set *)

FlState == [p : SUBSET Bits, ok : SUBSET Threads, n : Nat, dep : SUBSET Bits]

\* The state before the first waiter.
FlStart(v, b, before) == [p |-> v \union b, ok |-> before, n |-> 0, dep |-> {}]

(***************************************************************************)
(* What processing one waiter may do.                                      *)
(***************************************************************************)
LEMMA FlProcessOne ==
  ASSUME FlTypes, NEW x \in FlState, NEW u \in Threads, NEW b \in SUBSET Bits
  PROVE  LET y == Flag!Process(x, u, b)
         IN  /\ y \in FlState /\ y.p \subseteq x.p
             /\ \/ x.p = {} /\ y = x
                \/ ~Flag!Satisfied(x.p, req[u]) /\ y.p = x.p /\ y.n = x.n /\ y.ok = x.ok \ {u}
                \/ Flag!Satisfied(x.p, req[u]) /\ y.n = x.n + 1 /\ y.ok = x.ok \union {u}
<1> DEFINE y == Flag!Process(x, u, b)
           r == req[u]
<1>1. /\ r \in FlAsk /\ r.bits \in SUBSET Bits /\ x.p \in SUBSET Bits /\ x.ok \in SUBSET Threads
      /\ x.n \in Nat /\ x.dep \in SUBSET Bits
  BY DEF FlTypes, FlAsk, Flag!Request, Flag!NoRequest, FlState
<1>2. CASE x.p = {}
  BY <1>2 DEF Flag!Process
<1>3. CASE x.p # {} /\ ~Flag!Satisfied(x.p, r)
  <2>1. y = [x EXCEPT !.ok = x.ok \ {u}]
    BY <1>3 DEF Flag!Process
  <2>2. y \in FlState /\ y.p = x.p /\ y.n = x.n /\ y.ok = x.ok \ {u}
    BY <1>1, <2>1 DEF FlState
  <2>3. QED
    BY <1>3, <2>2
<1>4. CASE x.p # {} /\ Flag!Satisfied(x.p, r)
  <2>1. PICK d \in SUBSET Bits :
          y = [x EXCEPT !.p = Flag!Rest(x.p, r), !.ok = x.ok \union {u}, !.n = x.n + 1, !.dep = d]
    <3>1. (IF ~r.all \/ r.bits \subseteq b \cap x.p THEN x.dep ELSE x.dep \union r.bits) \in SUBSET Bits
      BY <1>1
    <3>2. QED
      BY <1>4, <3>1 DEF Flag!Process
  <2>2. Flag!Rest(x.p, r) \subseteq x.p
    <3>1. x.p \in SUBSET x.p
      OBVIOUS
    <3>2. QED
      BY <1>1, <3>1, FlFewer
  <2> DEFINE z == Flag!Rest(x.p, r)
  <2>3. y = [p |-> z, ok |-> x.ok \union {u}, n |-> x.n + 1, dep |-> d]
    BY <2>1 DEF FlState
  <2> HIDE DEF y, z
  <2>4. y.p = z /\ y.n = x.n + 1 /\ y.ok = x.ok \union {u}
    BY <2>3
  <2>5. z \in SUBSET Bits /\ x.ok \union {u} \in SUBSET Threads /\ x.n + 1 \in Nat
    BY <1>1, <2>2 DEF z
  <2>6. y \in FlState
    BY <2>3, <2>5 DEF FlState
  <2>7. z \subseteq x.p
    BY <2>2 DEF z
  <2>8. y.p \subseteq x.p
    BY <2>4, <2>7
  <2>9. QED
    BY <1>4, <2>4, <2>6, <2>8 DEF y
<1>5. QED
  BY <1>2, <1>3, <1>4

(***************************************************************************)
(* The states of the loop over the waiters.                                *)
(***************************************************************************)
LEMMA FlProcessLoop ==
  ASSUME FlTypes, NEW v \in SUBSET Bits, NEW b \in SUBSET Bits, NEW before \in SUBSET Threads
  PROVE  \E st \in [0..Len(sq) -> FlState] :
           /\ st[0] = FlStart(v, b, before)
           /\ \A k \in 1..Len(sq) : st[k] = Flag!Process(st[k - 1], Flag!InOrder(sq)[k], b)
           /\ Flag!ProcessAll(v, b, before) = st[Len(sq)]
<1> DEFINE n == Len(sq)
           w(k) == Flag!InOrder(sq)[k]
           a == FlStart(v, b, before)
           F == [k \in 1..n |-> [x \in FlState |-> Flag!Process(x, w(k), b)]]
           Is(f) == f = [k \in 0..n |-> IF k = 0 THEN a ELSE Flag!Process(f[k - 1], w(k), b)]
           st == CHOOSE f : Is(f)
<1>1. n \in Nat /\ sq \in Seq(Threads) /\ \A i \in 1..n : sq[i] \in Threads
  BY DEF FlTypes
<1>2. \A k \in 1..n : w(k) \in Threads
  BY <1>1, FlOrder
<1>3. a \in FlState
  BY DEF FlStart, FlState
<1>4. F \in [1..n -> [FlState -> FlState]]
  <2>1. \A k \in 1..n, x \in FlState : Flag!Process(x, w(k), b) \in FlState
    BY <1>2, FlProcessOne
  <2>2. QED
    BY <2>1
<1>5. PICK f : f \in [0..n -> FlState] /\ f[0] = a /\ \A k \in 1..n : f[k] = F[k][f[k - 1]]
  <2> HIDE DEF F, a, n
  <2>1. n \in Nat /\ a \in FlState /\ F \in Turns(n, FlState)
    BY <1>1, <1>3, <1>4 DEF Turns
  <2>2. PICK f : IsLoop(f, n, FlState, a, F)
    BY <2>1, LoopExists
  <2>3. QED
    BY <2>2 DEF IsLoop
<1>6. \A k \in 1..n : k - 1 \in 0..n
  BY <1>1
<1>7. \A k \in 1..n : f[k] = Flag!Process(f[k - 1], w(k), b)
  BY <1>5, <1>6
<1>8. Is(f)
  <2>1. \A k \in 0..n : f[k] = IF k = 0 THEN a ELSE Flag!Process(f[k - 1], w(k), b)
    <3>1. \A k \in 0..n : k # 0 => k \in 1..n
      BY <1>1
    <3>2. QED
      BY <1>5, <1>7, <3>1
  <2> HIDE DEF a, w
  <2>2. f = [k \in 0..n |-> f[k]]
    BY <1>5
  <2>3. QED
    BY <2>1, <2>2
<1>9. Is(st)
  <2> HIDE DEF Is
  <2>1. QED
    BY <1>8
<1>10. Flag!ProcessAll(v, b, before) = st[n]
  BY DEF Flag!ProcessAll, FlStart
<1> HIDE DEF st
<1>11. st[0] = a /\ \A k \in 1..n : st[k] = Flag!Process(st[k - 1], w(k), b)
  <2> HIDE DEF a, w
  <2>1. \A k \in 0..n : st[k] = IF k = 0 THEN a ELSE Flag!Process(st[k - 1], w(k), b)
    BY <1>9
  <2>2. 0 \in 0..n /\ \A k \in 1..n : k \in 0..n /\ k # 0
    BY <1>1
  <2>3. QED
    BY <2>1, <2>2
<1>12. st \in [0..n -> FlState]
  <2> DEFINE K == {k \in 0..n : st[k] \in FlState}
  <2>1. 0 \in K
    BY <1>1, <1>3, <1>11
  <2>2. \A k \in 1..n : k - 1 \in K => k \in K
    BY <1>1, <1>2, <1>11, FlProcessOne
  <2>3. \A k \in 0..n : k \in K
    <3> HIDE DEF K
    <3>1. QED
      BY <1>1, <2>1, <2>2, LoopReaches
  <2>4. \A k \in 0..n : st[k] \in FlState
    BY <2>3
  <2>5. DOMAIN st = 0..n /\ st = [k \in 0..n |-> st[k]]
    BY <1>9
  <2>6. QED
    BY <2>4, <2>5
<1>13. QED
  BY <1>10, <1>11, <1>12

(***************************************************************************)
(* Whom the loop does not serve is not satisfied by the bits it leaves.    *)
(***************************************************************************)
LEMMA FlOutcome ==
  ASSUME FlTypes, NEW v \in SUBSET Bits, NEW b \in SUBSET Bits, NEW before \in SUBSET Threads,
         \A u \in Threads : Contains(sq, u) => ~Flag!Satisfied(v, req[u])
  PROVE  LET out == Flag!ProcessAll(v, b, before)
         IN  /\ out \in FlState /\ out.p \subseteq v \union b
             /\ \A u \in out.ok : u \in before \/ Contains(sq, u)
             /\ \A u \in Threads : Contains(sq, u) => u \in out.ok \/ ~Flag!Satisfied(out.p, req[u])
             /\ out.n = 0 => \A u \in Threads : Contains(sq, u) => ~Flag!Satisfied(out.p, req[u])
             /\ out.n = 0 => out.ok \subseteq before
<1> DEFINE n == Len(sq)
           w(k) == Flag!InOrder(sq)[k]
<1>1. PICK st \in [0..n -> FlState] :
        /\ st[0] = FlStart(v, b, before)
        /\ \A k \in 1..n : st[k] = Flag!Process(st[k - 1], w(k), b)
        /\ Flag!ProcessAll(v, b, before) = st[n]
  BY FlProcessLoop
<1>2. n \in Nat /\ sq \in Seq(Threads) /\ \A i \in 1..n : sq[i] \in Threads
  BY DEF FlTypes
<1>3. \A k \in 1..n : w(k) \in Threads /\ Contains(sq, w(k))
  BY <1>2, FlOrder DEF Contains
<1>4. ASSUME NEW u, Contains(sq, u) PROVE \E k \in 1..n : w(k) = u
  <2>1. PICK i \in 1..n : sq[i] = u
    BY <1>4 DEF Contains
  <2>2. PICK k \in 1..n : w(k) = sq[i]
    BY <1>2, FlOrder
  <2>3. QED
    BY <2>1, <2>2
<1>5. \A u \in Threads : req[u] \in FlAsk
  BY DEF FlTypes
<1>6. \A k \in 1..n : ~Flag!Satisfied({}, req[w(k)])
  <2>1. {} \in SUBSET v
    OBVIOUS
  <2>2. QED
    BY <1>3, <1>5, <2>1, FlFewer
<1> HIDE DEF w
<1> DEFINE Good(k) ==
             /\ st[k].p \subseteq v \union b
             /\ \A u \in st[k].ok : u \in before \/ Contains(sq, u)
             /\ \A j \in 1..k : w(j) \in st[k].ok \/ ~Flag!Satisfied(st[k].p, req[w(j)])
             /\ st[k].n = 0 => \A j \in 1..k : ~Flag!Satisfied(st[k].p, req[w(j)])
             /\ st[k].n = 0 => st[k].ok \subseteq before
           K == {k \in 0..n : Good(k)}
<1>7. Good(0)
  <2>1. st[0].p = v \union b /\ st[0].ok = before /\ 1..0 = {}
    BY <1>1 DEF FlStart
  <2>2. QED
    BY <2>1
<1>8. ASSUME NEW k \in 1..n, Good(k - 1) PROVE Good(k)
  <2> DEFINE x == st[k - 1]
             y == st[k]
             u == w(k)
  <2>1. x \in FlState /\ y = Flag!Process(x, u, b) /\ u \in Threads /\ x.n \in Nat
    BY <1>1, <1>2, <1>3, <1>8 DEF FlState
  <2>2. \A j \in 1..k : j = k \/ j \in 1..(k - 1)
    BY <1>2, <1>8
  <2>3. \A j \in 1..k : j \in 1..n
    BY <1>2, <1>8
  <2>4. /\ y.p \subseteq x.p
        /\ \/ x.p = {} /\ y = x
           \/ ~Flag!Satisfied(x.p, req[u]) /\ y.p = x.p /\ y.n = x.n /\ y.ok = x.ok \ {u}
           \/ Flag!Satisfied(x.p, req[u]) /\ y.n = x.n + 1 /\ y.ok = x.ok \union {u}
    BY <2>1, FlProcessOne
  <2>5. \A j \in 1..n : Flag!Satisfied(y.p, req[w(j)]) => Flag!Satisfied(x.p, req[w(j)])
    BY <1>3, <1>5, <2>4, FlFewer
  <2>6. /\ x.p \subseteq v \union b
        /\ \A z \in x.ok : z \in before \/ Contains(sq, z)
        /\ \A j \in 1..(k - 1) : w(j) \in x.ok \/ ~Flag!Satisfied(x.p, req[w(j)])
        /\ x.n = 0 => \A j \in 1..(k - 1) : ~Flag!Satisfied(x.p, req[w(j)])
        /\ x.n = 0 => x.ok \subseteq before
    BY <1>8
  <2>7. Contains(sq, u) /\ ~Flag!Satisfied({}, req[u])
    BY <1>3, <1>6, <1>8
  <2> HIDE DEF x, y, u
  <2>8. CASE x.p = {} /\ y = x
    <3>1. \A j \in 1..n : ~Flag!Satisfied({}, req[w(j)])
      BY <1>6
    <3>2. \A j \in 1..k : ~Flag!Satisfied(y.p, req[w(j)])
      BY <2>3, <2>8, <3>1
    <3>3. QED
      BY <2>4, <2>6, <2>8, <3>2 DEF y
  <2>9. CASE ~Flag!Satisfied(x.p, req[u]) /\ y.p = x.p /\ y.n = x.n /\ y.ok = x.ok \ {u}
    <3>1. ASSUME NEW j \in 1..k PROVE w(j) \in y.ok \/ ~Flag!Satisfied(y.p, req[w(j)])
      <4>1. CASE w(j) = u
        BY <2>9, <4>1
      <4>2. CASE w(j) # u
        <5>1. j \in 1..(k - 1)
          BY <2>2, <3>1, <4>2 DEF u
        <5>2. QED
          BY <2>6, <2>9, <4>2, <5>1
      <4>3. QED
        BY <4>1, <4>2
    <3>2. ASSUME y.n = 0, NEW j \in 1..k PROVE ~Flag!Satisfied(y.p, req[w(j)])
      BY <2>2, <2>6, <2>9, <3>2 DEF u
    <3>3. QED
      BY <2>6, <2>9, <3>1, <3>2 DEF y
  <2>10. CASE Flag!Satisfied(x.p, req[u]) /\ y.n = x.n + 1 /\ y.ok = x.ok \union {u}
    <3>1. ASSUME NEW j \in 1..k PROVE w(j) \in y.ok \/ ~Flag!Satisfied(y.p, req[w(j)])
      <4>1. CASE j = k
        BY <2>10, <4>1 DEF u
      <4>2. CASE j # k
        <5>1. j \in 1..(k - 1) /\ j \in 1..n
          BY <2>2, <2>3, <3>1, <4>2
        <5>2. QED
          BY <2>5, <2>6, <2>10, <5>1
      <4>3. QED
        BY <4>1, <4>2
    <3>2. y.n # 0
      BY <2>1, <2>10
    <3>3. \A z \in y.ok : z \in before \/ Contains(sq, z)
      BY <2>6, <2>7, <2>10
    <3>4. QED
      BY <2>4, <2>6, <3>1, <3>2, <3>3 DEF y
  <2>11. QED
    BY <2>4, <2>8, <2>9, <2>10
<1>9. Good(n)
  <2>1. 0 \in K
    BY <1>2, <1>7
  <2>2. \A k \in 1..n : k - 1 \in K => k \in K
    <3>1. ASSUME NEW k \in 1..n, k - 1 \in K PROVE k \in K
      <4>1. Good(k - 1) /\ k \in 0..n
        BY <1>2, <3>1
      <4>2. Good(k)
        BY <1>8, <4>1
      <4>3. QED
        BY <4>1, <4>2
    <3>2. QED
      BY <3>1
  <2>3. \A k \in 0..n : k \in K
    <3> HIDE DEF K
    <3>1. QED
      BY <1>2, <2>1, <2>2, LoopReaches
  <2>4. n \in K
    BY <1>2, <2>3
  <2>5. QED
    BY <2>4
<1>10. st[n] \in FlState
  BY <1>1, <1>2
<1> HIDE DEF K
<1>11. QED
  BY <1>1, <1>4, <1>9, <1>10

(***************************************************************************)
(* Who is taken off the list is gone from it, and nobody else is.          *)
(***************************************************************************)
LEMMA FlUnserved ==
  ASSUME NEW q \in Seq(Threads), Distinct(q), NEW S
  PROVE  LET r == Flag!Unserved(q, S)
         IN  /\ r \in Seq(Threads) /\ Distinct(r)
             /\ \A u : Contains(r, u) <=> Contains(q, u) /\ u \notin S
<1> DEFINE n == Len(q)
           A == Seq(Threads)
           Turn(k, x) == IF q[k] \in S THEN x ELSE Append(x, q[k])
           F == [k \in 1..n |-> [x \in A |-> Turn(k, x)]]
           Is(f) == f = [k \in 0..n |-> IF k = 0 THEN <<>>
                                        ELSE IF q[k] \in S THEN f[k - 1] ELSE Append(f[k - 1], q[k])]
           st == CHOOSE f : Is(f)
<1>1. n \in Nat /\ \A i \in 1..n : q[i] \in Threads
  OBVIOUS
<1>2. Flag!Unserved(q, S) = st[n]
  BY DEF Flag!Unserved
<1>3. <<>> \in A /\ \A k \in 1..n, x \in A : Turn(k, x) \in A
  BY <1>1
<1>4. PICK f : f \in [0..n -> A] /\ f[0] = <<>> /\ \A k \in 1..n : f[k] = F[k][f[k - 1]]
  <2>1. F \in Turns(n, A)
    <3> HIDE DEF Turn
    <3>1. QED
      BY <1>3 DEF Turns
  <2> HIDE DEF F, n, A
  <2>2. PICK f : IsLoop(f, n, A, <<>>, F)
    BY <1>1, <1>3, <2>1, LoopExists
  <2>3. QED
    BY <2>2 DEF IsLoop
<1>5. \A k \in 1..n : k - 1 \in 0..n /\ k \in 0..n /\ k # 0
  BY <1>1
<1>6. \A k \in 1..n : f[k] = Turn(k, f[k - 1])
  <2> HIDE DEF Turn, A
  <2>1. QED
    BY <1>4, <1>5
<1>7. Is(f)
  <2>1. \A k \in 0..n : f[k] = IF k = 0 THEN <<>> ELSE Turn(k, f[k - 1])
    <3>1. \A k \in 0..n : k # 0 => k \in 1..n
      BY <1>1
    <3> HIDE DEF Turn
    <3>2. QED
      BY <1>4, <1>6, <3>1
  <2>2. f = [k \in 0..n |-> f[k]]
    <3> HIDE DEF A
    <3>1. QED
      BY <1>4
  <2>3. [k \in 0..n |-> f[k]] = [k \in 0..n |-> IF k = 0 THEN <<>> ELSE Turn(k, f[k - 1])]
    <3> HIDE DEF Turn
    <3>1. QED
      BY <2>1
  <2>4. QED
    BY <2>2, <2>3
<1>8. Is(st)
  <2> HIDE DEF Is
  <2>1. QED
    BY <1>7
<1> HIDE DEF st
<1>9. st[0] = <<>> /\ \A k \in 1..n : st[k] = Turn(k, st[k - 1])
  <2>1. \A k \in 0..n : st[k] = IF k = 0 THEN <<>> ELSE Turn(k, st[k - 1])
    BY <1>8
  <2> HIDE DEF Turn
  <2>2. 0 \in 0..n
    BY <1>1
  <2>3. QED
    BY <1>5, <2>1, <2>2
<1> DEFINE Good(k) ==
             /\ st[k] \in Seq(Threads) /\ Distinct(st[k])
             /\ \A u : Contains(st[k], u) <=> u \notin S /\ \E j \in 1..k : q[j] = u
           K == {k \in 0..n : Good(k)}
<1>10. Good(0)
  <2>1. st[0] = <<>> /\ <<>> \in Seq(Threads) /\ 1..0 = {}
    BY <1>9
  <2>2. QED
    BY <2>1 DEF Distinct, Contains
<1>11. ASSUME NEW k \in 1..n, Good(k - 1) PROVE Good(k)
  <2>1. \A j : j \in 1..k <=> j = k \/ j \in 1..(k - 1)
    BY <1>1, <1>11
  <2>2. CASE q[k] \in S
    <3>1. st[k] = st[k - 1]
      BY <1>9, <1>11, <2>2
    <3>2. QED
      BY <1>11, <2>1, <2>2, <3>1
  <2>3. CASE q[k] \notin S
    <3> DEFINE x == st[k - 1]
               y == st[k]
               e == q[k]
    <3>1. y = Append(x, e) /\ e \in Threads /\ x \in Seq(Threads)
      BY <1>1, <1>9, <1>11, <2>3
    <3>2. ~Contains(x, e) /\ Distinct(x)
      <4>1. \A j \in 1..(k - 1) : q[j] # e
        <5>1. \A j \in 1..(k - 1) : j \in 1..n /\ j # k
          BY <1>1, <1>11
        <5>2. QED
          BY <1>11, <5>1 DEF Distinct
      <4>2. QED
        BY <1>11, <4>1
    <3> HIDE DEF x, y, e
    <3>3. /\ y \in Seq(Threads) /\ Len(y) = Len(x) + 1 /\ y[Len(x) + 1] = e
          /\ Len(x) \in Nat /\ \A i \in 1..Len(x) : y[i] = x[i]
      BY <3>1
    <3>4. \A i : i \in 1..Len(y) <=> i \in 1..Len(x) \/ i = Len(x) + 1
      BY <3>3
    <3>5. \A u : Contains(y, u) <=> Contains(x, u) \/ u = e
      BY <3>3, <3>4 DEF Contains
    <3>6. Distinct(y)
      <4>1. ASSUME NEW i \in 1..Len(y), NEW j \in 1..Len(y), y[i] = y[j] PROVE i = j
        BY <3>2, <3>3, <3>4, <4>1 DEF Distinct, Contains
      <4>2. QED
        BY <4>1 DEF Distinct
    <3>7. \A u : Contains(x, u) <=> u \notin S /\ \E j \in 1..(k - 1) : q[j] = u
      BY <1>11 DEF x
    <3>8. ASSUME NEW u PROVE Contains(y, u) <=> u \notin S /\ \E j \in 1..k : q[j] = u
      BY <2>1, <2>3, <3>5, <3>7 DEF e
    <3>9. QED
      BY <3>3, <3>6, <3>8 DEF y
  <2>4. QED
    BY <2>2, <2>3
<1>12. Good(n)
  <2>1. 0 \in K
    BY <1>1, <1>10
  <2>2. ASSUME NEW k \in 1..n, k - 1 \in K PROVE k \in K
    <3>1. Good(k - 1)
      BY <2>2
    <3>2. Good(k)
      BY <1>11, <3>1
    <3> HIDE DEF Good
    <3>3. QED
      BY <1>5, <3>2
  <2>3. n \in K
    <3> HIDE DEF K
    <3>1. \A k \in 1..n : k - 1 \in K => k \in K
      BY <2>2
    <3>2. \A k \in 0..n : k \in K
      BY <1>1, <2>1, <3>1, LoopReaches
    <3>3. QED
      BY <1>1, <3>2
  <2>4. QED
    BY <2>3
<1>13. \A u : Contains(q, u) <=> \E j \in 1..n : q[j] = u
  BY DEF Contains
<1>14. QED
  BY <1>2, <1>12, <1>13

-----------------------------------------------------------------------------
(* The event flag: under the internal mutex *)

(***************************************************************************)
(* The thread that has the internal mutex goes on: whom it takes off the   *)
(* list it will awaken.                                                    *)
(***************************************************************************)
LEMMA FlHolderInv ==
  ASSUME FlInv, NEW t \in Threads, NEW l \in FlGuards,
         guard \in {NoThread, t}, pc[t] \in {"s_lock", "c_lock", "s_try"}, toAwake = {},
         guard' = t, pc' = [pc EXCEPT ![t] = l], timed' = timed,
         UNCHANGED <<fifo, exists, stopped, toSleep, saves, faults, sched, single, req, bitptn>>,
         pattern' \subseteq Bits, view' \subseteq Bits, ok' \subseteq Threads,
         sq' \in Seq(Threads), Distinct(sq'), sq' # <<>> => sq # <<>>,
         toAwake' \subseteq Threads, \A u \in toAwake' : Contains(sq, u) /\ pc[u] # "a_wait",
         \A u \in Threads : Contains(sq', u) <=> Contains(sq, u) /\ u \notin toAwake',
         \A u \in Threads : Contains(sq', u) => ~Flag!Satisfied(pattern', req[u]),
         ok' # {} => l = "s_try", \A u \in ok' : Contains(sq', u),
         l = "s_try" =>
           /\ toAwake' = {} /\ pattern' \subseteq view'
           /\ \A u \in Threads : Contains(sq', u) => pc[u] # "a_wait" /\ ~Flag!Satisfied(view', req[u])
  PROVE  FlInv'
<1> USE ThreadsAssumption
<1>1. /\ FlTypes /\ pc \in [Threads -> Flag!PCs] /\ toSleep \subseteq Threads
  BY DEF FlInv, FlTypes, ObjTypeOK
<1>2. l \in Flag!PCs /\ l \in {"s_try", "wake"}
  BY DEF FlGuards, Flag!PCs
<1>3. /\ pc' \in [Threads -> Flag!PCs] /\ pc'[t] = l
      /\ \A u \in Threads \ {t} : pc'[u] = pc[u]
  BY <1>1, <1>2
<1>4. toSleep = {}
  BY DEF FlInv, FlLoadInv
<1>5. \A u \in Threads : u # t => pc[u] \notin FlGuards
  BY DEF FlInv, FlGuardInv
<1>6. \A u \in Threads : FlWants(u) <=> Contains(sq, u)
  BY <1>4 DEF FlWants
<1>7. \A u \in Threads : FlWants(u)' <=> Contains(sq', u)
  BY <1>4 DEF FlWants
<1>8. ~Contains(sq, t) /\ sched[t] # "asleep" /\ t \notin toAwake'
  BY DEF FlInv, FlThreadInv, FlWaits
<1>T. FlTypes'
  <2>1. ObjTypeOK(Flag!PCs)'
    BY <1>1, <1>3 DEF FlTypes, ObjTypeOK
  <2>2. QED
    BY <1>1, <2>1 DEF FlTypes
<1>F. FlFaultInv'
  BY <1>2, <1>3 DEF FlInv, FlFaultInv, FlWaits
<1>G. FlGuardInv'
  BY <1>3, <1>5 DEF FlGuardInv
<1>L. FlListInv'
  <2>1. ASSUME single, NEW u \in Threads, NEW v \in Threads, FlWants(u)', FlWants(v)' PROVE u = v
    BY <1>6, <1>7, <2>1 DEF FlInv, FlListInv
  <2>2. sq # <<>> => exists
    BY DEF FlInv, FlListInv
  <2>3. QED
    BY <2>1, <2>2 DEF FlListInv
<1>B. FlBitsInv'
  BY <1>7 DEF FlBitsInv
<1>C. FlCopyInv'
  <2>1. ASSUME NEW u \in Threads, Contains(sq', u), l = "s_try"
        PROVE  pc'[u] # "a_wait" /\ ~Flag!Satisfied(view', req'[u])
    BY <1>3, <2>1
  <2>2. \A u \in Threads : pc'[u] = "s_try" => l = "s_try"
    BY <1>3, <1>5 DEF FlGuards
  <2>3. QED
    BY <1>3, <2>1, <2>2 DEF FlCopyInv
<1>D. FlLoadInv'
  BY <1>4 DEF FlLoadInv
<1>H. ASSUME NEW u \in Threads PROVE FlThreadInv(u)'
  <2>1. CASE u = t
    BY <1>2, <1>3, <1>8, <2>1 DEF FlThreadInv
  <2>2. CASE u # t
    <3>1. FlThreadInv(u) /\ pc'[u] = pc[u] /\ sched'[u] = sched[u] /\ u \notin toAwake
      BY <1>H, <1>3, <2>2 DEF FlInv
    <3>2. u \in toAwake' => pc[u] \in FlWaits
      BY <3>1 DEF FlThreadInv
    <3>3. pc[u] = "a_wait" => Contains(sq', u)
      BY <1>H, <3>1 DEF FlThreadInv
    <3>4. pc[u] = "w_wait" => IF Contains(sq', u) \/ u \in toAwake' THEN sched[u] = "asleep"
                              ELSE sched[u] \in {"ready", "signal"}
      BY <1>H, <3>1 DEF FlThreadInv
    <3>5. Contains(sq', u) => Contains(sq, u) /\ u \notin toAwake'
      BY <1>H
    <3>6. QED
      BY <3>1, <3>2, <3>3, <3>4, <3>5 DEF FlThreadInv
  <2>3. QED
    BY <2>1, <2>2
<1> QED
  BY <1>T, <1>F, <1>G, <1>L, <1>B, <1>C, <1>D, <1>H DEF FlInv

(***************************************************************************)
(* set takes the internal mutex and a copy of the bits.                    *)
(***************************************************************************)
LEMMA FlSetLockInv ==
  ASSUME FlInv, NEW t \in Threads, Flag!SetLock(t), ~\E i \in 1..Len(sq) : Flag!Again(sq[i])
  PROVE  FlInv'
<1>l. PICK l \in FlGuards : l = "s_try"
  BY DEF FlGuards
<1>1. /\ pc[t] = "s_lock" /\ guard = NoThread /\ guard' = t /\ view' = pattern
      /\ pc' = [pc EXCEPT ![t] = l] /\ timed' = [timed EXCEPT ![t] = timed[t]]
      /\ UNCHANGED <<fifo, exists, stopped, toSleep, saves, faults, sched, pattern, single, sq, req, bitptn,
                     ok, toAwake>>
  BY <1>l DEF Flag!SetLock, Flag!Goto, Flag!Enter, Flag!world
<1>2. /\ toAwake = {} /\ timed' = timed /\ FlTypes /\ sq \in Seq(Threads) /\ Distinct(sq)
      /\ pattern \subseteq Bits
  BY <1>1, FlReads DEF FlInv, FlListInv, FlTypes
<1>3. \A u \in Threads : Contains(sq, u) => pc[u] # "a_wait" /\ ~Flag!Satisfied(pattern, req[u])
  <2>1. \A u \in Threads : Contains(sq, u) => pc[u] # "a_wait"
    BY DEF Contains, Flag!Again
  <2>2. QED
    BY <2>1 DEF FlInv, FlBitsInv, FlWants
<1>4. ok = {}
  <2>1. \A u \in Threads : pc[u] # "s_try"
    BY <1>1, ThreadsAssumption DEF FlInv, FlGuardInv, FlGuards
  <2>2. QED
    BY <2>1 DEF FlInv, FlCopyInv
<1>5. /\ toAwake' = {} /\ ok' = {} /\ sq' = sq /\ view' \subseteq Bits /\ pattern' = pattern
      /\ guard \in {NoThread, t} /\ pc[t] \in {"s_lock", "c_lock", "s_try"}
  BY <1>1, <1>2, <1>4
<1>6. UNCHANGED <<fifo, exists, stopped, toSleep, saves, faults, sched, single, req, bitptn>>
  BY <1>1
<1>7. QED
  BY <1>l, <1>1, <1>2, <1>3, <1>5, <1>6, FlHolderInv

(***************************************************************************)
(* cancel takes all waiters off the list.                                  *)
(***************************************************************************)
LEMMA FlCancelLockInv ==
  ASSUME FlInv, NEW t \in Threads, Flag!CancelLock(t), ~\E i \in 1..Len(sq) : Flag!Again(sq[i])
  PROVE  FlInv'
<1>l. PICK l \in FlGuards : l = "wake"
  BY DEF FlGuards
<1>1. /\ pc[t] = "c_lock" /\ guard = NoThread /\ guard' = t /\ sq' = <<>> /\ toAwake' = Flag!Range(sq)
      /\ pc' = [pc EXCEPT ![t] = l] /\ timed' = [timed EXCEPT ![t] = timed[t]]
      /\ UNCHANGED <<fifo, exists, stopped, toSleep, saves, faults, sched, pattern, single, req, bitptn,
                     view, ok>>
  BY <1>l DEF Flag!CancelLock, Flag!Goto, Flag!Enter, Flag!world
<1>2. /\ toAwake = {} /\ timed' = timed /\ FlTypes /\ sq \in Seq(Threads)
      /\ pattern \subseteq Bits /\ view \subseteq Bits
  BY <1>1, FlReads DEF FlInv, FlTypes
<1>3. \A u : u \in toAwake' <=> Contains(sq, u)
  <2>1. DOMAIN sq = 1..Len(sq) /\ toAwake' = Range(sq)
    BY <1>1, <1>2, FlSame
  <2>2. QED
    BY <2>1 DEF Contains, Range
<1>4. \A u \in toAwake' : Contains(sq, u) /\ pc[u] # "a_wait"
  BY <1>3 DEF Contains, Flag!Again
<1>5. toAwake' \subseteq Threads
  BY <1>2, <1>3 DEF Contains
<1>6. ok = {}
  <2>1. \A u \in Threads : pc[u] # "s_try"
    BY <1>1, ThreadsAssumption DEF FlInv, FlGuardInv, FlGuards
  <2>2. QED
    BY <2>1 DEF FlInv, FlCopyInv
<1>7. \A u : ~Contains(sq', u)
  BY <1>1 DEF Contains
<1>8. /\ ok' = {} /\ sq' = <<>> /\ sq' \in Seq(Threads) /\ Distinct(sq') /\ view' \subseteq Bits
      /\ pattern' \subseteq Bits
      /\ guard \in {NoThread, t} /\ pc[t] \in {"s_lock", "c_lock", "s_try"}
  BY <1>1, <1>2, <1>6 DEF Distinct
<1>9. UNCHANGED <<fifo, exists, stopped, toSleep, saves, faults, sched, single, req, bitptn>>
  BY <1>1
<1>10. QED
  BY <1>l, <1>1, <1>2, <1>3, <1>4, <1>5, <1>7, <1>8, <1>9, FlHolderInv

(***************************************************************************)
(* set commits, or starts anew with the bits as they have become.  What it *)
(* leaves of the bits is no more than its copy left, because meanwhile     *)
(* none were set.                                                          *)
(***************************************************************************)
LEMMA FlSetTryInv ==
  ASSUME FlInv, NEW t \in Threads, Flag!SetTry(t)
  PROVE  FlInv'
<1> DEFINE b == bitptn[t]
           out == Flag!ProcessAll(view, b, ok)
           retry == Flag!SymDiff(pattern, view) \cap (out.dep \ b) # {}
<1>1. /\ pc[t] = "s_try" /\ UNCHANGED <<fifo, exists, stopped, toSleep, saves, faults, guard, sched,
                                        single, req, bitptn>>
  BY DEF Flag!SetTry, Flag!world
<1>2. /\ FlTypes /\ FlCopyInv /\ guard = t /\ b \in SUBSET Bits /\ view \in SUBSET Bits
      /\ ok \in SUBSET Threads /\ sq \in Seq(Threads) /\ Distinct(sq) /\ pattern \subseteq Bits
      /\ pc \in [Threads -> Flag!PCs] /\ timed \in [Threads -> BOOLEAN]
  BY <1>1, FlReads DEF FlInv, FlListInv, FlTypes, FlGuards
<1>3. /\ toAwake = {} /\ pattern \subseteq view
      /\ \A u \in ok : Contains(sq, u)
      /\ \A u \in Threads : Contains(sq, u) => pc[u] # "a_wait" /\ ~Flag!Satisfied(view, req[u])
  BY <1>1, <1>2 DEF FlCopyInv
<1>4. /\ out \in FlState /\ out.p \subseteq view \union b
      /\ \A u \in out.ok : u \in ok \/ Contains(sq, u)
      /\ \A u \in Threads : Contains(sq, u) => u \in out.ok \/ ~Flag!Satisfied(out.p, req[u])
      /\ out.n = 0 => \A u \in Threads : Contains(sq, u) => ~Flag!Satisfied(out.p, req[u])
  BY <1>2, <1>3, FlOutcome
<1>5. out.ok \subseteq Threads /\ out.p \subseteq Bits /\ \A u \in out.ok : Contains(sq, u)
  BY <1>3, <1>4 DEF FlState
<1>6. \A u \in Threads : req[u] \in FlAsk
  BY <1>2 DEF FlTypes
<1>7. CASE retry
  <2>l. PICK l \in FlGuards : l = "s_try"
    BY DEF FlGuards
  <2>1. view' = pattern /\ ok' = out.ok /\ UNCHANGED <<pc, timed, pattern, sq, toAwake>>
    BY <1>7 DEF Flag!SetTry
  <2>2. pc' = [pc EXCEPT ![t] = l] /\ guard' = t
    BY <1>1, <1>2, <2>l, <2>1
  <2> HIDE DEF out
  <2>3. \A u \in Threads : Contains(sq, u) => ~Flag!Satisfied(pattern, req[u])
    BY DEF FlInv, FlBitsInv, FlWants
  <2>4. /\ toAwake' = {} /\ ok' \subseteq Threads /\ \A u \in ok' : Contains(sq', u)
        /\ sq' = sq /\ pattern' = pattern /\ view' \subseteq Bits /\ pattern' \subseteq view'
        /\ guard \in {NoThread, t} /\ pc[t] \in {"s_lock", "c_lock", "s_try"} /\ timed' = timed
    BY <1>1, <1>2, <1>3, <1>5, <2>1
  <2>5. UNCHANGED <<fifo, exists, stopped, toSleep, saves, faults, sched, single, req, bitptn>>
    BY <1>1
  <2>6. /\ sq' \in Seq(Threads) /\ Distinct(sq') /\ (sq' # <<>> => sq # <<>>) /\ pattern' \subseteq Bits
        /\ toAwake' \subseteq Threads /\ \A u \in toAwake' : Contains(sq, u) /\ pc[u] # "a_wait"
        /\ \A u \in Threads : Contains(sq', u) <=> Contains(sq, u) /\ u \notin toAwake'
        /\ \A u \in Threads : Contains(sq', u) => ~Flag!Satisfied(pattern', req[u])
        /\ \A u \in Threads : Contains(sq', u) => pc[u] # "a_wait" /\ ~Flag!Satisfied(view', req[u])
    BY <1>2, <1>3, <2>1, <2>3, <2>4
  <2>7. QED
    BY <1>3, <2>l, <2>2, <2>4, <2>5, <2>6, FlHolderInv
<1>8. CASE ~retry
  <2>l. PICK l \in FlGuards : l = "wake"
    BY DEF FlGuards
  <2>1. /\ pattern' = (pattern \union b) \ ((view \union b) \ out.p)
        /\ sq' = IF out.n = 0 THEN sq ELSE Flag!Unserved(sq, out.ok)
        /\ toAwake' = IF out.n = 0 THEN {} ELSE out.ok
        /\ ok' = {} /\ view' = {}
        /\ pc' = [pc EXCEPT ![t] = l] /\ timed' = [timed EXCEPT ![t] = timed[t]]
    BY <1>8, <2>l DEF Flag!SetTry, Flag!Goto, Flag!Enter
  <2> HIDE DEF out
  <2>2. pattern' \subseteq out.p
    BY <1>3, <2>1
  <2>3. /\ sq' \in Seq(Threads) /\ Distinct(sq')
        /\ \A u : Contains(sq', u) <=> Contains(sq, u) /\ u \notin toAwake'
    <3>1. CASE out.n = 0
      BY <1>2, <2>1, <3>1
    <3>2. CASE out.n # 0
      <4>1. sq' = Flag!Unserved(sq, out.ok) /\ toAwake' = out.ok
        BY <2>1, <3>2
      <4>2. QED
        BY <1>2, <4>1, FlUnserved
    <3>3. QED
      BY <3>1, <3>2
  <2>4. ASSUME NEW u \in Threads, Contains(sq', u) PROVE ~Flag!Satisfied(pattern', req[u])
    <3>1. ~Flag!Satisfied(out.p, req[u])
      BY <1>4, <2>1, <2>3, <2>4
    <3>2. QED
      BY <1>6, <2>2, <3>1, FlFewer
  <2>5. sq' # <<>> => sq # <<>>
    BY <1>2, <2>3, RwSomebody
  <2>6. toAwake' \subseteq Threads /\ \A u \in toAwake' : Contains(sq, u) /\ pc[u] # "a_wait"
    BY <1>3, <1>5, <2>1
  <2>7. /\ ok' = {} /\ view' \subseteq Bits /\ pattern' \subseteq Bits /\ timed' = timed /\ guard' = t
        /\ guard \in {NoThread, t} /\ pc[t] \in {"s_lock", "c_lock", "s_try"}
    BY <1>1, <1>2, <1>5, <2>1, <2>2
  <2>8. UNCHANGED <<fifo, exists, stopped, toSleep, saves, faults, sched, single, req, bitptn>>
    BY <1>1
  <2>9. QED
    BY <1>3, <2>l, <2>1, <2>3, <2>4, <2>5, <2>6, <2>7, <2>8, FlHolderInv
<1>9. QED
  BY <1>7, <1>8

(***************************************************************************)
(* Who was taken off the list is awakened, and the internal mutex is free. *)
(***************************************************************************)
LEMMA FlWakeInv ==
  ASSUME FlInv, NEW t \in Threads, Flag!Wake(t)
  PROVE  FlInv'
<1> USE ThreadsAssumption
<1>l. PICK l \in Flag!PCs : l = "idle"
  BY DEF Flag!PCs
<1>1. /\ pc[t] = "wake" /\ toAwake' = {} /\ guard' = NoThread
      /\ pc' = [pc EXCEPT ![t] = l] /\ timed' = [timed EXCEPT ![t] = FALSE]
      /\ req' = [req EXCEPT ![t] = Flag!NoRequest] /\ bitptn' = [bitptn EXCEPT ![t] = {}]
      /\ sched' = [u \in Threads |-> IF u \in toAwake /\ sched[u] = "asleep" THEN "ready" ELSE sched[u]]
      /\ UNCHANGED <<fifo, exists, stopped, toSleep, saves, faults, pattern, single, sq, view, ok>>
  BY <1>l DEF Flag!Wake, Flag!Awaken, Flag!Return, Flag!Enter, Flag!world
<1>2. /\ FlTypes /\ FlThreadInv(t) /\ toAwake \subseteq Threads /\ guard = t
      /\ pc \in [Threads -> Flag!PCs] /\ timed \in [Threads -> BOOLEAN]
      /\ sched \in [Threads -> SchedStates] /\ req \in [Threads -> FlAsk]
      /\ bitptn \in [Threads -> SUBSET Bits]
  BY <1>1, FlReads DEF FlTypes, FlGuards
<1>3. /\ pc'[t] = "idle" /\ ~timed'[t]
      /\ \A u \in Threads \ {t} : pc'[u] = pc[u] /\ timed'[u] = timed[u] /\ req'[u] = req[u]
      /\ pc' \in [Threads -> Flag!PCs] /\ timed' \in [Threads -> BOOLEAN]
      /\ req' \in [Threads -> FlAsk] /\ bitptn' \in [Threads -> SUBSET Bits]
  <2>1. Flag!NoRequest \in FlAsk /\ {} \in SUBSET Bits
    BY DEF FlAsk
  <2>2. QED
    BY <1>l, <1>1, <1>2, <2>1
<1>4. \A u \in Threads : u # t => guard # u /\ pc[u] \notin FlGuards
  BY <1>2 DEF FlInv, FlGuardInv
<1>5. /\ sched' \in [Threads -> SchedStates]
      /\ \A u \in Threads : u \notin toAwake => sched'[u] = sched[u]
      /\ \A u \in toAwake : sched'[u] = IF sched[u] = "asleep" THEN "ready" ELSE sched[u]
  BY <1>1, <1>2 DEF SchedStates
<1>6. /\ ~Contains(sq, t) /\ sched[t] # "asleep" /\ t \notin toSleep /\ t \notin toAwake
  BY <1>1, <1>2, FlReads DEF FlThreadInv, FlWaits
<1>7. sched'[t] # "asleep"
  BY <1>5, <1>6
<1>8. ok = {} /\ \A u \in Threads : pc'[u] # "s_try"
  <2>1. \A u \in Threads : pc[u] # "s_try"
    BY <1>1, <1>4 DEF FlGuards
  <2>2. QED
    BY <1>3, <2>1 DEF FlInv, FlCopyInv
<1>T. FlTypes'
  <2>1. ObjTypeOK(Flag!PCs)'
    BY <1>1, <1>2, <1>3, <1>5 DEF FlTypes, ObjTypeOK
  <2>2. QED
    BY <1>1, <1>2, <1>3, <2>1 DEF FlTypes
<1>F. FlFaultInv'
  BY <1>1, <1>3 DEF FlInv, FlFaultInv, FlWaits
<1>G. FlGuardInv'
  BY <1>1, <1>3, <1>4 DEF FlGuardInv, FlGuards
<1>L. FlListInv'
  BY <1>1 DEF FlInv, FlListInv, FlWants
<1>B. FlBitsInv'
  BY <1>1, <1>3, <1>6 DEF FlInv, FlBitsInv, FlWants
<1>C. FlCopyInv'
  BY <1>1, <1>8 DEF FlCopyInv
<1>D. FlLoadInv'
  <2>1. toSleep = {}
    BY <1>1 DEF FlInv, FlLoadInv
  <2>2. QED
    BY <1>1, <2>1 DEF FlLoadInv
<1>H. ASSUME NEW u \in Threads PROVE FlThreadInv(u)'
  <2>1. CASE u = t
    BY <1>1, <1>3, <1>6, <1>7, <2>1 DEF FlThreadInv
  <2>2. CASE u # t /\ u \in toAwake
    <3>1. FlThreadInv(u) /\ ~Contains(sq, u) /\ pc'[u] = pc[u]
      BY <1>H, <1>3, <2>2 DEF FlInv, FlThreadInv
    <3>2. sched'[u] # "asleep" /\ (pc[u] = "w_wait" => sched'[u] = "ready")
      BY <1>5, <2>2, <3>1 DEF FlThreadInv
    <3>3. QED
      BY <1>1, <3>1, <3>2 DEF FlThreadInv
  <2>3. CASE u # t /\ u \notin toAwake
    <3>1. FlThreadInv(u) /\ pc'[u] = pc[u] /\ sched'[u] = sched[u]
      BY <1>H, <1>3, <1>5, <2>3 DEF FlInv
    <3>2. QED
      BY <1>1, <2>3, <3>1 DEF FlThreadInv
  <2>4. QED
    BY <2>1, <2>2, <2>3
<1> QED
  BY <1>T, <1>F, <1>G, <1>L, <1>B, <1>C, <1>D, <1>H DEF FlInv

-----------------------------------------------------------------------------
(* The event flag: the other calls and the environment *)

(***************************************************************************)
(* destroy finds nobody in the list and nobody on the way to it.           *)
(***************************************************************************)
LEMMA FlDestroyInv ==
  ASSUME FlInv, NEW t \in Threads, Flag!Destroy(t)
  PROVE  FlInv'
<1>1. /\ pc[t] = "idle" /\ toSleep = {} /\ sq = <<>> /\ exists' = FALSE
      /\ \A u \in Threads : pc[u] # "w_lock"
      /\ UNCHANGED <<fifo, guard, pc, timed, sched, stopped, toSleep, saves, faults, pattern, single, sq,
                     req, bitptn, view, ok, toAwake>>
  BY DEF Flag!Destroy, Flag!Running, Flag!MayStep, Flag!own
<1>T. FlTypes' /\ FlFaultInv' /\ FlGuardInv' /\ FlListInv'
  BY <1>1 DEF FlInv, FlTypes, ObjTypeOK, FlFaultInv, FlGuardInv, FlListInv, FlWants
<1>B. FlBitsInv' /\ FlCopyInv' /\ FlLoadInv'
  BY <1>1 DEF FlInv, FlBitsInv, FlCopyInv, FlLoadInv, FlWants
<1>H. ASSUME NEW u \in Threads PROVE FlThreadInv(u)'
  BY <1>1, <1>H DEF FlInv, FlThreadInv
<1> QED
  BY <1>T, <1>B, <1>H DEF FlInv

(***************************************************************************)
(* An awakened thread runs, or a thread is told to stop.                   *)
(***************************************************************************)
LEMMA FlScheduleInv ==
  ASSUME FlInv, NEW t \in Threads, Flag!Schedule(t) \/ Flag!StopThread(t)
  PROVE  FlInv'
<1>1. /\ UNCHANGED <<fifo, exists, guard, pc, timed, toSleep, saves, faults, pattern, single, sq, req,
                     bitptn, view, ok, toAwake>>
      /\ \/ /\ sched[t] = "ready" /\ sched' = [sched EXCEPT ![t] = "signal"] /\ stopped' = stopped
         \/ /\ "save" \in faults /\ saves < MaxSaves /\ stopped' = stopped \union {t} /\ sched' = sched
  BY DEF Flag!Schedule, Flag!StopThread, Flag!ObjSchedule, Flag!ObjStop, Flag!world, Flag!own
<1>2. sched \in [Threads -> SchedStates] /\ sched' \in [Threads -> SchedStates]
  BY <1>1 DEF FlInv, FlTypes, ObjTypeOK, SchedStates
<1>T. FlTypes'
  BY <1>1, <1>2 DEF FlInv, FlTypes, ObjTypeOK
<1>F. FlFaultInv'
  BY <1>1 DEF FlInv, FlFaultInv
<1>W. FlGuardInv' /\ FlListInv' /\ FlBitsInv' /\ FlCopyInv' /\ FlLoadInv'
  BY <1>1 DEF FlInv, FlGuardInv, FlListInv, FlBitsInv, FlCopyInv, FlLoadInv, FlWants
<1>H. ASSUME NEW u \in Threads PROVE FlThreadInv(u)'
  BY <1>1, <1>2, <1>H DEF FlInv, FlThreadInv
<1> QED
  BY <1>T, <1>F, <1>W, <1>H DEF FlInv

(***************************************************************************)
(* The state is saved and loaded: the bits stay, the list goes, and who    *)
(* was in it is to sleep again.                                            *)
(***************************************************************************)
LEMMA FlSaveAndLoadInv ==
  ASSUME FlInv, Flag!SaveAndLoad
  PROVE  FlInv'
<1> USE ThreadsAssumption
<1>1. /\ stopped = Threads /\ saves' = saves + 1 /\ stopped' = {}
      /\ \A t \in Threads : pc[t] = "idle" \/ pc[t] \in {"a_wait", "a_set", "a_cancel"}
      /\ toSleep' = {t \in Threads : pc[t] # "idle" /\ sched[t] = "asleep"}
      /\ pc' = [t \in Threads |-> IF pc[t] = "idle" THEN "idle" ELSE Flag!Redo[pc[t]]]
      /\ sched' = [t \in Threads |-> "on"] /\ sq' = <<>>
      /\ UNCHANGED <<fifo, exists, guard, timed, faults, pattern, single, req, bitptn, view, ok, toAwake>>
  BY DEF Flag!SaveAndLoad, Flag!ObjSaveAndLoad, Flag!Redo
<1>2. /\ Flag!Redo["a_wait"] = "w_redo" /\ Flag!Redo["a_set"] = "s_redo"
      /\ Flag!Redo["a_cancel"] = "c_redo"
  BY DEF Flag!Redo
<1>3. \A t \in Threads :
        \/ pc[t] = "idle" /\ pc'[t] = "idle"
        \/ pc[t] = "a_wait" /\ pc'[t] = "w_redo"
        \/ pc[t] = "a_set" /\ pc'[t] = "s_redo"
        \/ pc[t] = "a_cancel" /\ pc'[t] = "c_redo"
  BY <1>1, <1>2
<1>4. \A t \in Threads : sched'[t] = "on" /\ ~Contains(sq', t)
  BY <1>1 DEF Contains
<1>5. \A t \in Threads : t \in toSleep' => pc[t] = "a_wait" /\ Contains(sq, t)
  BY <1>1, <1>3 DEF FlInv, FlThreadInv
<1>6. FlTypes /\ guard = NoThread /\ toAwake = {} /\ ok = {}
  <2>1. FlTypes /\ \A t \in Threads : guard # t
    BY <1>3 DEF FlInv, FlGuardInv, FlGuards
  <2>2. guard = NoThread
    BY <2>1 DEF FlTypes, ObjTypeOK
  <2>3. ok = {}
    BY <1>3 DEF FlInv, FlCopyInv
  <2>4. QED
    BY <2>1, <2>2, <2>3 DEF FlInv, FlGuardInv
<1>7. saves' \in 0..MaxSaves
  <2>1. Threads # {} /\ saves \in 0..MaxSaves
    BY <1>6, MainThreadAssumption DEF FlTypes, ObjTypeOK
  <2>2. saves < MaxSaves
    BY <1>1, <2>1 DEF FlInv, FlFaultInv
  <2>3. QED
    BY <1>1, <2>1, <2>2, SavesAssumption
<1>8. \A t \in Threads : FlWants(t)' => FlWants(t)
  BY <1>4, <1>5 DEF FlWants
<1>T. FlTypes'
  <2>1. pc' \in [Threads -> Flag!PCs]
    <3>1. \A t \in Threads : pc'[t] \in Flag!PCs
      BY <1>3 DEF Flag!PCs
    <3>2. QED
      BY <1>1, <3>1
  <2>2. sched' \in [Threads -> SchedStates] /\ sq' \in Seq(Threads)
    BY <1>1 DEF SchedStates
  <2>3. toSleep' \subseteq Threads /\ stopped' \subseteq Threads
    BY <1>1
  <2>4. ObjTypeOK(Flag!PCs)'
    BY <1>1, <1>6, <1>7, <2>1, <2>2, <2>3 DEF FlTypes, ObjTypeOK
  <2>5. QED
    BY <1>1, <1>6, <2>2, <2>4 DEF FlTypes
<1>F. FlFaultInv'
  BY <1>1, <1>3 DEF FlInv, FlFaultInv, FlWaits
<1>G. FlGuardInv'
  BY <1>1, <1>3, <1>6 DEF FlGuardInv, FlGuards
<1>L. FlListInv'
  <2>1. ASSUME single, NEW u \in Threads, NEW v \in Threads, FlWants(u)', FlWants(v)' PROVE u = v
    BY <1>8, <2>1 DEF FlInv, FlListInv
  <2>2. QED
    BY <1>1, <2>1 DEF FlListInv, Distinct
<1>B. FlBitsInv'
  BY <1>1, <1>8 DEF FlInv, FlBitsInv
<1>C. FlCopyInv'
  BY <1>1, <1>3, <1>6 DEF FlCopyInv
<1>D. FlLoadInv'
  <2>1. ASSUME NEW t \in toSleep' PROVE t \in Threads /\ exists' /\ pc'[t] = "w_redo"
    <3>1. t \in Threads /\ pc[t] = "a_wait" /\ Contains(sq, t)
      BY <1>1, <1>5, <2>1
    <3>2. sq # <<>>
      BY <3>1, RwSomebody DEF FlInv, FlTypes
    <3>3. QED
      BY <1>1, <1>3, <3>1, <3>2 DEF FlInv, FlListInv
  <2>2. \A t \in Threads : pc'[t] \notin {"s_lock", "c_lock", "s_try", "wake", "w_lock"}
    BY <1>3
  <2>3. QED
    BY <2>1, <2>2 DEF FlLoadInv
<1>H. ASSUME NEW t \in Threads PROVE FlThreadInv(t)'
  <2>1. toAwake' = {}
    BY <1>1, <1>6
  <2>2. QED
    BY <1>3, <1>4, <1>H, <2>1 DEF FlThreadInv
<1> QED
  BY <1>T, <1>F, <1>G, <1>L, <1>B, <1>C, <1>D, <1>H DEF FlInv

-----------------------------------------------------------------------------
(* The event flag: every step, and the theorems *)

(***************************************************************************)
(* A call, or a step of a call.                                            *)
(***************************************************************************)
LEMMA FlCallInv ==
  ASSUME OneFault, FlInv, NEW t \in Threads, Flag!Call(t) \/ Flag!Step(t)
  PROVE  FlInv'
<1>1. /\ timed[t] \in BOOLEAN /\ (timed[t] => "timeout" \in faults) /\ req[t] \in FlAsk
      /\ bitptn[t] \in SUBSET Bits
  BY FlReads
<1>2. ASSUME NEW r \in Requests[t], Flag!TryWait(t, r) \/ \E to \in Flag!Timeouts : Flag!Wait(t, "idle", r, to)
      PROVE  FlInv'
  <2>1. r \in FlAsk
    BY FlagsAssumption DEF FlAsk
  <2>2. CASE Flag!TryWait(t, r)
    BY <2>1, <2>2, FlFewerInv
  <2>3. ASSUME NEW to \in Flag!Timeouts, Flag!Wait(t, "idle", r, to) PROVE FlInv'
    <3>1. to \in BOOLEAN /\ (to => "timeout" \in faults)
      BY <2>3 DEF Flag!Timeouts
    <3>2. "idle" \in {"idle", "w_redo"} /\ ("idle" = "w_redo" => r = req[t])
      OBVIOUS
    <3>3. QED
      BY <2>1, <2>3, <3>1, <3>2, FlWaitInv
  <2>4. QED
    BY <1>2, <2>2, <2>3
<1>3. ASSUME NEW b \in Sets[t], Flag!Set(t, "idle", b) PROVE FlInv'
  <2>1. b \in SUBSET Bits
    BY FlagsAssumption
  <2>2. QED
    BY <1>3, <2>1, FlSetInv
<1>4. ASSUME NEW b \in Keeps[t], Flag!Clear(t, b) PROVE FlInv'
  BY <1>4, FlFewerInv
<1>5. ASSUME Flag!Wait(t, "w_redo", req[t], timed[t]) PROVE FlInv'
  BY <1>1, <1>5, FlWaitInv
<1>6. ASSUME Flag!Set(t, "s_redo", bitptn[t]) PROVE FlInv'
  BY <1>1, <1>6, FlSetInv
<1>7. ASSUME Flag!WaitStopped(t) PROVE FlInv'
  BY <1>7, FlServedInv, FlStoppedInv
<1>8. ASSUME Flag!SetLock(t) PROVE FlInv'
  BY <1>8, FlPutOffInv, FlSetLockInv
<1>9. ASSUME Flag!CancelLock(t) PROVE FlInv'
  BY <1>9, FlPutOffInv, FlCancelLockInv
<1>10. CASE Flag!Call(t)
  BY <1>2, <1>3, <1>4, <1>10, FlPutOffInv, FlDestroyInv DEF Flag!Call
<1>11. CASE Flag!Step(t)
  BY <1>5, <1>6, <1>7, <1>8, <1>9, <1>11, FlWaitSleepInv, FlServedInv, FlTimeOutCheckInv,
     FlTimeOutTestInv, FlTimeOutEndInv, FlSetTryInv, FlWakeInv, FlPutOffInv, FlRedoEsrchInv
     DEF Flag!Step
<1>12. QED
  BY <1>10, <1>11

(***************************************************************************)
(* Every step of the flag keeps its invariant.                             *)
(***************************************************************************)
LEMMA FlNextInv ==
  ASSUME OneFault, FlInv, [Flag!Next]_Flag!vars
  PROVE  FlInv'
<1>1. ASSUME NEW t \in Threads,
             \/ Flag!Call(t) \/ Flag!Step(t) \/ Flag!TimeOut(t) \/ Flag!Schedule(t)
             \/ Flag!StopThread(t)
      PROVE  FlInv'
  BY <1>1, FlCallInv, FlTimeOutInv, FlScheduleInv
<1>2. CASE UNCHANGED Flag!vars
  <2>1. UNCHANGED <<fifo, exists, guard, pc, timed, sched, stopped, toSleep, saves, faults, pattern, single,
                    sq, req, bitptn, view, ok, toAwake>>
    BY <1>2 DEF Flag!vars, Flag!objVars, Flag!own
  <2>2. FlTypes' /\ FlFaultInv' /\ FlGuardInv' /\ FlListInv'
    BY <2>1 DEF FlInv, FlTypes, ObjTypeOK, FlFaultInv, FlGuardInv, FlListInv, FlWants
  <2>3. FlBitsInv' /\ FlCopyInv' /\ FlLoadInv' /\ \A t \in Threads : FlThreadInv(t)'
    BY <2>1 DEF FlInv, FlBitsInv, FlCopyInv, FlLoadInv, FlWants, FlThreadInv
  <2>4. QED
    BY <2>2, <2>3 DEF FlInv
<1>3. QED
  BY <1>1, <1>2, FlSaveAndLoadInv DEF Flag!Next

(***************************************************************************)
(* Nobody waits on a new flag.                                             *)
(***************************************************************************)
LEMMA FlInitInv ==
  ASSUME Flag!Init
  PROVE  FlInv
<1> USE ThreadsAssumption
<1>1. /\ fifo \in BOOLEAN /\ exists = TRUE /\ guard = NoThread
      /\ pc = [t \in Threads |-> "idle"] /\ timed = [t \in Threads |-> FALSE]
      /\ sched = [t \in Threads |-> "on"] /\ stopped = {} /\ toSleep = {} /\ saves = 0
      /\ faults \in Faults /\ pattern \subseteq Bits /\ single \in BOOLEAN /\ sq = <<>>
      /\ req = [t \in Threads |-> Flag!NoRequest] /\ bitptn = [t \in Threads |-> {}]
      /\ view = {} /\ ok = {} /\ toAwake = {}
  BY DEF Flag!Init, Flag!ObjInit
<1>2. \A t \in Threads : pc[t] = "idle" /\ ~timed[t] /\ sched[t] = "on" /\ ~Contains(sq, t)
  BY <1>1 DEF Contains
<1>T. FlTypes
  <2>1. /\ pc \in [Threads -> Flag!PCs] /\ timed \in [Threads -> BOOLEAN]
        /\ sched \in [Threads -> SchedStates] /\ saves \in 0..MaxSaves
    BY <1>1, SavesAssumption DEF Flag!PCs, SchedStates
  <2>2. req \in [Threads -> FlAsk] /\ bitptn \in [Threads -> SUBSET Bits] /\ sq \in Seq(Threads)
    BY <1>1 DEF FlAsk
  <2>3. QED
    BY <1>1, <2>1, <2>2 DEF FlTypes, ObjTypeOK
<1>F. FlFaultInv /\ FlGuardInv
  BY <1>1, <1>2 DEF FlFaultInv, FlGuardInv, FlWaits, FlGuards
<1>L. FlListInv /\ FlLoadInv /\ FlBitsInv
  BY <1>1, <1>2 DEF FlListInv, FlLoadInv, FlBitsInv, FlWants, Distinct
<1>C. FlCopyInv
  BY <1>1, <1>2 DEF FlCopyInv
<1>H. \A t \in Threads : FlThreadInv(t)
  BY <1>1, <1>2 DEF FlThreadInv
<1> QED
  BY <1>T, <1>F, <1>L, <1>C, <1>H DEF FlInv

FlagsInv == kind = "flag" => FlInv

(***************************************************************************)
(* The invariant of the event flag holds in the composed specification.    *)
(***************************************************************************)
THEOREM FlagAmongObjects ==
  ASSUME OneFault
  PROVE  ObjectsSpec => []FlagsInv
<1>1. ObjectsInit => FlagsInv
  BY FlInitInv DEF ObjectsInit, FlagsInv
<1>2. ASSUME FlagsInv, [ObjectsNext]_objectsVars PROVE FlagsInv'
  <2>1. kind' = kind
    BY <1>2 DEF ObjectsNext, objectsVars
  <2>2. kind = "flag" => Flag!Next \/ UNCHANGED objectsVars
    BY <1>2 DEF ObjectsNext
  <2>3. UNCHANGED objectsVars => UNCHANGED Flag!vars
    BY DEF objectsVars, vars, objVars, flagVars, Flag!vars, Flag!objVars, Flag!own
  <2>4. QED
    BY <1>2, <2>1, <2>2, <2>3, FlNextInv DEF FlagsInv
<1>3. QED
  BY <1>1, <1>2, PTL DEF ObjectsSpec, objectsVars

(***************************************************************************)
(* sys_event_flag: nobody sleeps in front of its bits, for any number of   *)
(* threads and bits and whatever they wait for and set, as long as         *)
(* timeouts and savestates do not meet.                                    *)
(***************************************************************************)
THEOREM FlagOverlooksNobody ==
  ASSUME OneFault
  PROVE  ObjectsSpec => []FlagNobodyOverlooked
<1>1. ASSUME FlInv PROVE Flag!TypeOK
  <2>1. Flag!ObjTypeOK(Flag!PCs)
    BY <1>1 DEF FlInv, FlTypes, ObjTypeOK, Flag!ObjTypeOK, SchedStates, Flag!SchedStates
  <2>2. QED
    BY <1>1, <2>1 DEF Flag!TypeOK, FlInv, FlTypes, FlAsk
<1>2. ASSUME FlInv PROVE Flag!NobodyOverlooked
  <2>1. \A i \in 1..Len(sq) : sq[i] \in Threads /\ Contains(sq, sq[i])
    BY <1>2 DEF FlInv, FlTypes, Contains
  <2>2. QED
    BY <1>2, <2>1 DEF Flag!NobodyOverlooked, FlInv, FlBitsInv, FlWants
<1>3. FlagsInv => FlagNobodyOverlooked
  BY <1>1, <1>2 DEF FlagsInv, FlagNobodyOverlooked
<1>4. QED
  BY <1>3, FlagAmongObjects, PTL

(***************************************************************************)
(* sys_event_flag: who was taken off the list gets to know, awake comes    *)
(* while its thread is still in the wait, nobody waits on a flag that is   *)
(* gone, and loaded waiters sleep again.                                   *)
(***************************************************************************)
THEOREM FlagWakeups ==
  ASSUME OneFault
  PROVE  ObjectsSpec =>
           [](kind = "flag" => /\ Flag!ServedIsSeen /\ Flag!AwakeIsOnTime
                               /\ Flag!DestroyedIsEmpty /\ RedoSleeps)
<1>1. ASSUME FlInv PROVE Flag!ServedIsSeen
  BY <1>1, FlSame DEF Flag!ServedIsSeen, FlInv, FlThreadInv
<1>2. ASSUME FlInv PROVE Flag!AwakeIsOnTime
  <2>1. toAwake \subseteq Threads
    BY <1>2 DEF FlInv, FlTypes
  <2>2. QED
    BY <1>2, <2>1 DEF Flag!AwakeIsOnTime, FlInv, FlThreadInv, FlWaits
<1>3. ASSUME FlInv PROVE Flag!DestroyedIsEmpty
  BY <1>3 DEF Flag!DestroyedIsEmpty, FlInv, FlListInv
<1>4. ASSUME FlInv PROVE RedoSleeps
  BY <1>4 DEF RedoSleeps, FlInv, FlLoadInv
<1>5. FlagsInv => (kind = "flag" => /\ Flag!ServedIsSeen /\ Flag!AwakeIsOnTime
                                    /\ Flag!DestroyedIsEmpty /\ RedoSleeps)
  BY <1>1, <1>2, <1>3, <1>4 DEF FlagsInv
<1>6. QED
  BY <1>5, FlagAmongObjects, PTL

-----------------------------------------------------------------------------
(* The event flag: when a set is atomic *)

(***************************************************************************)
(* One waiter, processed on the copy x.p of the bits and on x.p without    *)
(* the bits d that have gone meanwhile.  If none of those is among the     *)
(* bits on which the waiters so far depended, and no waiter was satisfied  *)
(* before, the outcome differs by d alone.                                 *)
(***************************************************************************)
LEMMA FlProcessPair ==
  ASSUME FlTypes, NEW x \in FlState, NEW z \in FlState, NEW u \in Threads, NEW b \in SUBSET Bits,
         NEW v \in SUBSET Bits, NEW d, d \cap b = {},
         ~Flag!Satisfied(v, req[u]), x.p \subseteq v \union b, u \notin x.ok,
         d \cap x.dep = {} => z.p = x.p \ d /\ z.ok = x.ok,
         d \cap Flag!Process(x, u, b).dep = {}
  PROVE  /\ Flag!Process(z, u, b).p = Flag!Process(x, u, b).p \ d
         /\ Flag!Process(z, u, b).ok = Flag!Process(x, u, b).ok
<1> DEFINE r == req[u]
           y == Flag!Process(x, u, b)
           w == Flag!Process(z, u, b)
           e == IF ~r.all \/ r.bits \subseteq b \cap x.p THEN x.dep ELSE x.dep \union r.bits
<1>1. r \in FlAsk /\ r.clear \in {"none", "bits", "all"}
  BY DEF FlTypes, FlAsk, Flag!Request, Flag!NoRequest
<1>2. ~Flag!Satisfied({}, r)
  <2>1. {} \in SUBSET v
    OBVIOUS
  <2>2. QED
    BY <1>1, <2>1, FlFewer
<1>3. CASE x.p = {}
  <2>1. y = x
    BY <1>3 DEF Flag!Process
  <2>2. z.p = x.p \ d /\ z.ok = x.ok
    BY <2>1
  <2>3. w = z
    BY <1>3, <2>2 DEF Flag!Process
  <2>4. QED
    BY <2>1, <2>2, <2>3
<1>4. CASE x.p # {} /\ ~Flag!Satisfied(x.p, r)
  <2>1. y = [x EXCEPT !.ok = x.ok \ {u}]
    BY <1>4 DEF Flag!Process
  <2>2. y.p = x.p /\ y.ok = x.ok /\ y.dep = x.dep
    BY <2>1 DEF FlState
  <2>3. z.p = x.p \ d /\ z.ok = x.ok
    BY <2>2
  <2>4. ~Flag!Satisfied(z.p, r)
    <3>1. z.p \in SUBSET x.p
      BY <2>3
    <3>2. QED
      BY <1>1, <1>4, <3>1, FlFewer
  <2>5. w = z \/ w = [z EXCEPT !.ok = z.ok \ {u}]
    BY <2>4 DEF Flag!Process
  <2>6. w.p = z.p /\ w.ok = z.ok
    <3> HIDE DEF w
    <3>1. CASE w = [z EXCEPT !.ok = z.ok \ {u}]
      <4>1. w.p = z.p /\ w.ok = z.ok \ {u}
        BY <3>1 DEF FlState
      <4>2. z.ok \ {u} = z.ok
        BY <2>3
      <4>3. QED
        BY <4>1, <4>2
    <3>2. QED
      BY <2>5, <3>1
  <2>7. QED
    BY <2>2, <2>3, <2>6
<1>5. CASE x.p # {} /\ Flag!Satisfied(x.p, r)
  <2>1. y = [x EXCEPT !.p = Flag!Rest(x.p, r), !.ok = x.ok \union {u}, !.n = x.n + 1, !.dep = e]
    BY <1>5 DEF Flag!Process
  <2>2. y.p = Flag!Rest(x.p, r) /\ y.ok = x.ok \union {u} /\ y.dep = e
    <3> DEFINE k == Flag!Rest(x.p, r)
    <3> HIDE DEF k, e
    <3>1. y = [p |-> k, ok |-> x.ok \union {u}, n |-> x.n + 1, dep |-> e]
      BY <2>1 DEF FlState, k
    <3> HIDE DEF y
    <3>2. y.p = k /\ y.ok = x.ok \union {u} /\ y.dep = e
      BY <3>1
    <3>3. QED
      BY <3>2 DEF k
  <2>3. d \cap e = {} /\ z.p = x.p \ d /\ z.ok = x.ok
    BY <2>2
  <2>4. Flag!Satisfied(z.p, r)
    <3>1. CASE ~r.all
      <4>1. PICK c \in r.bits : c \in x.p
        BY <1>5, <3>1 DEF Flag!Satisfied
      <4>2. c \notin v
        BY <3>1, <4>1 DEF Flag!Satisfied
      <4>3. c \in z.p
        BY <2>3, <4>1, <4>2
      <4>4. QED
        BY <3>1, <4>1, <4>3 DEF Flag!Satisfied
    <3>2. CASE r.all
      <4>1. r.bits \subseteq x.p
        BY <1>5, <3>2 DEF Flag!Satisfied
      <4>2. d \cap r.bits = {}
        BY <2>3, <3>2
      <4>3. QED
        BY <2>3, <3>2, <4>1, <4>2 DEF Flag!Satisfied
    <3>3. QED
      BY <3>1, <3>2
  <2>5. z.p # {}
    BY <1>2, <2>4
  <2>6. w.p = Flag!Rest(z.p, r) /\ w.ok = z.ok \union {u}
    <3> DEFINE f == IF ~r.all \/ r.bits \subseteq b \cap z.p THEN z.dep ELSE z.dep \union r.bits
               k == Flag!Rest(z.p, r)
    <3>1. w = [z EXCEPT !.p = Flag!Rest(z.p, r), !.ok = z.ok \union {u}, !.n = z.n + 1, !.dep = f]
      BY <2>4, <2>5 DEF Flag!Process
    <3> HIDE DEF k, f
    <3>2. w = [p |-> k, ok |-> z.ok \union {u}, n |-> z.n + 1, dep |-> f]
      BY <3>1 DEF FlState, k
    <3> HIDE DEF w
    <3>3. w.p = k /\ w.ok = z.ok \union {u}
      BY <3>2
    <3>4. QED
      BY <3>3 DEF k
  <2>7. Flag!Rest(x.p \ d, r) = Flag!Rest(x.p, r) \ d
    BY <1>1 DEF Flag!Rest
  <2>8. QED
    BY <2>2, <2>3, <2>6, <2>7
<1>6. QED
  BY <1>3, <1>4, <1>5

\* No waiter is satisfied by v.
FlNobodySatisfied(v) == \A u \in Threads : Contains(sq, u) => ~Flag!Satisfied(v, req[u])

\* Setting b does not depend on the bits of v that are gone in p.
FlIndependent(v, p, b) == (v \ p) \cap (Flag!ProcessAll(v, b, {}).dep \ b) = {}

\* Setting b on p has the outcome of setting it on v, without the bits that are gone.
FlSameResult(v, p, b) ==
  /\ Flag!ProcessAll(p, b, {}).p = Flag!ProcessAll(v, b, {}).p \ ((v \ p) \ b)
  /\ Flag!ProcessAll(p, b, {}).ok = Flag!ProcessAll(v, b, {}).ok

(***************************************************************************)
(* All waiters, processed on a copy v of the bits and on the bits p that   *)
(* are left of it: if none that has gone is among the bits on which the    *)
(* outcome depended, the same waiters are served, and the bits left are    *)
(* those left of the copy, without the ones that have gone.                *)
(***************************************************************************)
LEMMA FlSameOutcome ==
  ASSUME FlTypes, Distinct(sq), NEW v \in SUBSET Bits, NEW p \in SUBSET v, NEW b \in SUBSET Bits,
         FlNobodySatisfied(v), FlIndependent(v, p, b)
  PROVE  FlSameResult(v, p, b)
<1> USE DEF FlNobodySatisfied, FlIndependent
<1> DEFINE n == Len(sq)
           w(k) == Flag!InOrder(sq)[k]
           d == (v \ p) \ b
<1>1. {} \in SUBSET Threads /\ p \in SUBSET Bits
  OBVIOUS
<1>2. PICK x \in [0..n -> FlState] :
        /\ x[0] = FlStart(v, b, {})
        /\ \A k \in 1..n : x[k] = Flag!Process(x[k - 1], w(k), b)
        /\ Flag!ProcessAll(v, b, {}) = x[n]
  BY <1>1, FlProcessLoop
<1>3. PICK z \in [0..n -> FlState] :
        /\ z[0] = FlStart(p, b, {})
        /\ \A k \in 1..n : z[k] = Flag!Process(z[k - 1], w(k), b)
        /\ Flag!ProcessAll(p, b, {}) = z[n]
  BY <1>1, FlProcessLoop
<1>4. n \in Nat /\ sq \in Seq(Threads) /\ \A i \in 1..n : sq[i] \in Threads
  BY DEF FlTypes
<1>5. \A k \in 1..n : w(k) \in Threads /\ Contains(sq, w(k))
  BY <1>4, FlOrder DEF Contains
<1>6. \A k \in 1..n, m \in 1..n : w(k) = w(m) => k = m
  BY <1>4, FlOrderOnce
<1>7. d \cap b = {} /\ d \cap x[n].dep = {}
  BY <1>2
<1> HIDE DEF w, d
<1> DEFINE Good(k) ==
             /\ x[k].p \subseteq v \union b
             /\ \A u \in x[k].ok : \E j \in 1..k : w(j) = u
             /\ d \cap x[k].dep = {} => z[k].p = x[k].p \ d /\ z[k].ok = x[k].ok
           K == {k \in 0..n : Good(k)}
<1>8. Good(0)
  <2>1. x[0].p = v \union b /\ x[0].ok = {} /\ z[0].p = p \union b /\ z[0].ok = {}
    BY <1>2, <1>3 DEF FlStart
  <2>2. (v \union b) \ d = p \union b
    BY DEF d
  <2>3. QED
    BY <2>1, <2>2
<1>9. ASSUME NEW k \in 1..n, Good(k - 1) PROVE Good(k)
  <2> DEFINE a == x[k - 1]
             c == z[k - 1]
             u == w(k)
             y == Flag!Process(a, u, b)
  <2>1. /\ a \in FlState /\ c \in FlState /\ x[k] = y /\ z[k] = Flag!Process(c, u, b)
        /\ u \in Threads /\ Contains(sq, u)
    BY <1>2, <1>3, <1>4, <1>5, <1>9
  <2>2. \A j \in 1..(k - 1) : j \in 1..k /\ j \in 1..n /\ j # k
    BY <1>4, <1>9
  <2>3. /\ a.p \subseteq v \union b
        /\ \A q \in a.ok : \E j \in 1..(k - 1) : w(j) = q
        /\ d \cap a.dep = {} => c.p = a.p \ d /\ c.ok = a.ok
    BY <1>9
  <2>4. u \notin a.ok
    BY <1>6, <1>9, <2>2, <2>3
  <2>5. /\ y.p \subseteq a.p
        /\ y = a \/ y.ok = a.ok \ {u} \/ y.ok = a.ok \union {u}
    BY <2>1, FlProcessOne
  <2>6. ASSUME d \cap y.dep = {}
        PROVE  Flag!Process(c, u, b).p = y.p \ d /\ Flag!Process(c, u, b).ok = y.ok
    <3>1. ~Flag!Satisfied(v, req[u]) /\ d \cap b = {} /\ d \cap Flag!Process(a, u, b).dep = {}
      BY <1>7, <2>1, <2>6
    <3>2. /\ a \in FlState /\ c \in FlState /\ u \in Threads /\ a.p \subseteq v \union b /\ u \notin a.ok
          /\ d \cap a.dep = {} => c.p = a.p \ d /\ c.ok = a.ok
      BY <2>1, <2>3, <2>4
    <3> HIDE DEF a, c, u, d
    <3>3. QED
      BY <3>1, <3>2, FlProcessPair, SMTT(60)
  <2>7. \A q \in y.ok : \E j \in 1..k : w(j) = q
    <3>1. \A q \in y.ok : q \in a.ok \/ q = w(k)
      BY <2>5
    <3>2. k \in 1..k
      BY <1>4, <1>9
    <3> HIDE DEF y, a
    <3>3. QED
      BY <2>2, <2>3, <3>1, <3>2
  <2>8. y.p \subseteq v \union b
    BY <2>3, <2>5
  <2> HIDE DEF a, c, u, y
  <2>9. QED
    BY <2>1, <2>6, <2>7, <2>8
<1>10. Good(n)
  <2>1. 0 \in K
    BY <1>4, <1>8
  <2>2. ASSUME NEW k \in 1..n, k - 1 \in K PROVE k \in K
    <3>1. Good(k - 1) /\ k \in 0..n
      BY <1>4, <2>2
    <3>2. Good(k)
      BY <1>9, <3>1
    <3> HIDE DEF Good
    <3>3. QED
      BY <3>1, <3>2
  <2>3. n \in K
    <3> HIDE DEF K
    <3>1. \A k \in 1..n : k - 1 \in K => k \in K
      BY <2>2
    <3>2. \A k \in 0..n : k \in K
      BY <1>4, <2>1, <3>1, LoopReaches
    <3>3. QED
      BY <1>4, <3>2
  <2>4. QED
    BY <2>3
<1>11. QED
  BY <1>2, <1>3, <1>7, <1>10 DEF d, FlSameResult

(***************************************************************************)
(* Only its own commit takes a thread from the copy to awake_all.          *)
(***************************************************************************)
LEMMA FlCommits ==
  ASSUME FlTypes, Flag!Next, NEW t \in Threads, pc[t] = "s_try", pc'[t] = "wake"
  PROVE  Flag!SetTry(t)
<1> DEFINE Moves(u) == pc' = pc \/ \E l : pc' = [pc EXCEPT ![u] = l]
<1>1. pc \in [Threads -> Flag!PCs]
  BY DEF FlTypes, ObjTypeOK
<1>2. ASSUME NEW u \in Threads, Flag!Call(u) PROVE Moves(u) /\ pc[u] # "s_try"
  BY <1>2 DEF Flag!Call, Flag!TryWait, Flag!Wait, Flag!Set, Flag!Clear, Flag!Cancel, Flag!Destroy,
     Flag!Running, Flag!MayStep, Flag!Return, Flag!Goto, Flag!Enter
<1>3. ASSUME NEW u \in Threads, Flag!Step(u), ~Flag!SetTry(u) PROVE Moves(u) /\ pc[u] # "s_try"
  <2>1. CASE Flag!Wait(u, "w_redo", req[u], timed[u]) \/ Flag!WaitSleep(u) \/ Flag!TakeSignal(u)
             \/ Flag!WaitStopped(u)
    BY <2>1 DEF Flag!Wait, Flag!WaitSleep, Flag!TakeSignal, Flag!WaitStopped, Flag!Running,
       Flag!MayStep, Flag!Signalled, Flag!Stopping, Flag!Return, Flag!Goto, Flag!Enter
  <2>2. CASE Flag!TimeOutCheck(u) \/ Flag!TimeOutTest(u) \/ Flag!TimeOutOver(u) \/ Flag!TimeOutLock(u)
    BY <2>2 DEF Flag!TimeOutCheck, Flag!TimeOutTest, Flag!TimeOutOver, Flag!TimeOutLock,
       Flag!CheckState, Flag!Return, Flag!Goto, Flag!Enter
  <2>3. CASE Flag!Set(u, "s_redo", bitptn[u]) \/ Flag!SetLock(u) \/ Flag!Wake(u)
    BY <2>3 DEF Flag!Set, Flag!SetLock, Flag!Wake, Flag!Running, Flag!MayStep, Flag!Return, Flag!Goto,
       Flag!Enter
  <2>4. CASE Flag!Cancel(u, "c_redo") \/ Flag!CancelLock(u) \/ Flag!RedoEsrch(u)
    BY <2>4 DEF Flag!Cancel, Flag!CancelLock, Flag!RedoEsrch, Flag!Running, Flag!MayStep, Flag!Return,
       Flag!Goto, Flag!Enter
  <2>5. QED
    BY <1>3, <2>1, <2>2, <2>3, <2>4 DEF Flag!Step
<1>4. ASSUME NEW u \in Threads, Flag!SetTry(u) PROVE Moves(u)
  BY <1>4 DEF Flag!SetTry, Flag!Goto, Flag!Enter
<1>5. ASSUME NEW u \in Threads, Flag!TimeOut(u) \/ Flag!Schedule(u) \/ Flag!StopThread(u)
      PROVE  Moves(u) /\ (pc[u] = "s_try" => pc' = pc)
  BY <1>5 DEF Flag!TimeOut, Flag!Schedule, Flag!StopThread, Flag!TimedOut, Flag!ObjSchedule, Flag!ObjStop,
     Flag!Goto, Flag!Enter
<1>6. ~Flag!SaveAndLoad
  BY DEF Flag!SaveAndLoad, Flag!ObjSaveAndLoad, Flag!Redo
<1>7. PICK u \in Threads : \/ Flag!Call(u) \/ Flag!Step(u) \/ Flag!TimeOut(u) \/ Flag!Schedule(u)
                           \/ Flag!StopThread(u)
  BY <1>6 DEF Flag!Next
<1>8. Moves(u) /\ (pc[u] = "s_try" => pc' = pc \/ Flag!SetTry(u))
  <2> HIDE DEF Moves
  <2>1. QED
    BY <1>2, <1>3, <1>4, <1>5, <1>7
<1>9. u = t
  BY <1>1, <1>8
<1>10. QED
  BY <1>8, <1>9

(***************************************************************************)
(* What a commit has made of the bits and of the list.                     *)
(***************************************************************************)
LEMMA FlAtomicCommit ==
  ASSUME FlInv, NEW t \in Threads, Flag!SetTry(t), pc'[t] = "wake", ok = {}
  PROVE  LET out == Flag!ProcessAll(pattern, bitptn[t], {})
         IN  pattern' = out.p /\ toAwake' = out.ok
<1> DEFINE b == bitptn[t]
           out == Flag!ProcessAll(view, b, {})
           fresh == Flag!ProcessAll(pattern, b, {})
<1>1. pc[t] = "s_try" /\ pc \in [Threads -> Flag!PCs]
  BY FlReads DEF Flag!SetTry
<1>2. /\ FlTypes /\ FlCopyInv /\ b \in SUBSET Bits /\ view \in SUBSET Bits
      /\ {} \in SUBSET Threads /\ Distinct(sq)
  BY FlReads DEF FlInv, FlListInv, FlTypes
<1>3. /\ pattern \in SUBSET view
      /\ \A u \in Threads : Contains(sq, u) => ~Flag!Satisfied(view, req[u])
  BY <1>1, <1>2 DEF FlCopyInv
<1>4. /\ ~(Flag!SymDiff(pattern, view) \cap (out.dep \ b) # {})
      /\ pattern' = (pattern \union b) \ ((view \union b) \ out.p)
      /\ toAwake' = IF out.n = 0 THEN {} ELSE out.ok
  BY <1>1 DEF Flag!SetTry
<1>5. /\ out \in FlState /\ out.p \subseteq view \union b
      /\ out.n = 0 => out.ok \subseteq {}
  BY <1>2, <1>3, FlOutcome
<1>6. (view \ pattern) \cap (out.dep \ b) = {}
  <2> HIDE DEF out
  <2>1. view \ pattern \subseteq Flag!SymDiff(pattern, view)
    BY DEF Flag!SymDiff
  <2>2. QED
    BY <1>4, <2>1
<1>7. fresh.p = out.p \ ((view \ pattern) \ b) /\ fresh.ok = out.ok
  <2>1. FlNobodySatisfied(view)
    BY <1>3 DEF FlNobodySatisfied
  <2>2. FlIndependent(view, pattern, b)
    BY <1>6 DEF FlIndependent
  <2>3. FlSameResult(view, pattern, b)
    <3> HIDE DEF b
    <3>1. QED
      BY <1>2, <1>3, <2>1, <2>2, FlSameOutcome
  <2>4. QED
    BY <2>3 DEF FlSameResult
<1> HIDE DEF out, fresh
<1>8. pattern' = out.p \ ((view \ pattern) \ b)
  BY <1>3, <1>4, <1>5
<1>9. toAwake' = out.ok
  BY <1>4, <1>5
<1>10. QED
  BY <1>7, <1>8, <1>9 DEF fresh

(***************************************************************************)
(* "Process all waiters in single atomic op" holds of every set that finds *)
(* no gpr[3] left at CELL_OK by an earlier round of its own: whatever      *)
(* trywait, wait and clear did while it worked on its copy, the waiters    *)
(* whom it awakens and the bits that it leaves are those of processing the *)
(* waiters on the bits as they are when it commits.                        *)
(***************************************************************************)
THEOREM FlagSetsAtomically ==
  ASSUME OneFault
  PROVE  ObjectsSpec => FlagSetIsAtomic
<1> DEFINE A == kind = "flag" => Flag!CleanRoundIsAtomic
<1>1. ASSUME FlagsInv, ObjectsNext, kind = "flag", ok = {},
             NEW t \in Threads, pc[t] = "s_try", pc'[t] = "wake"
      PROVE  Flag!AsOne(t)
  <2>1. FlInv /\ FlTypes /\ Flag!Next
    BY <1>1 DEF FlagsInv, FlInv, ObjectsNext
  <2>2. Flag!SetTry(t)
    BY <1>1, <2>1, FlCommits
  <2>3. QED
    BY <1>1, <2>1, <2>2, FlAtomicCommit DEF Flag!AsOne
<1>2. FlagsInv /\ ObjectsNext => A
  BY <1>1 DEF Flag!CleanRoundIsAtomic, Flag!Commits
<1>3. FlagsInv /\ [ObjectsNext]_objectsVars => [A]_objectsVars
  BY <1>2
<1> HIDE DEF A
<1>4. ObjectsSpec => [][A]_objectsVars
  BY <1>3, FlagAmongObjects, PTL DEF ObjectsSpec, objectsVars
<1>5. QED
  BY <1>4 DEF A, FlagSetIsAtomic, objectsVars

-----------------------------------------------------------------------------
(* All kinds of objects *)

\* One of the five kinds; the threads of a timer never sleep on an object.
KindInv ==
  /\ kind \in {"semaphore", "rwlock", "flag", "queue", "timer"}
  /\ kind = "timer" => toSleep = {}

LEMMA KindAlways == ObjectsSpec => []KindInv
<1>1. ObjectsInit => KindInv
  BY DEF ObjectsInit, KindInv, Init, ObjInit
<1>2. ASSUME KindInv, [ObjectsNext]_objectsVars PROVE KindInv'
  <2>1. kind' = kind
    BY <1>2 DEF ObjectsNext, objectsVars
  <2>2. kind = "timer" => toSleep' = toSleep
    BY <1>2 DEF ObjectsNext, objectsVars, vars, objVars
  <2>3. QED
    BY <1>2, <2>1, <2>2 DEF KindInv
<1>3. QED
  BY <1>1, <1>2, PTL DEF ObjectsSpec, objectsVars

\* What is proved of each kind by itself.
KindsWakeups ==
  /\ kind = "rwlock" => Rwlock!LetInIsSeen /\ Rwlock!AwakeIsOnTime
                        /\ Rwlock!ReaderLoopEnds /\ RedoSleeps
  /\ kind = "flag" => Flag!ServedIsSeen /\ Flag!AwakeIsOnTime /\ Flag!DestroyedIsEmpty /\ RedoSleeps
  /\ kind = "queue" => Queue!ServedIsSeen /\ Queue!AwakeIsOnTime /\ Queue!PortOutlivesSend /\ RedoSleeps

LEMMA KindsWakeupsAlways ==
  ASSUME OneFault
  PROVE  ObjectsSpec => []KindsWakeups
<1> DEFINE R == kind = "rwlock" => /\ Rwlock!LetInIsSeen /\ Rwlock!AwakeIsOnTime
                                   /\ Rwlock!ReaderLoopEnds /\ RedoSleeps
           G == kind = "flag" => /\ Flag!ServedIsSeen /\ Flag!AwakeIsOnTime
                                 /\ Flag!DestroyedIsEmpty /\ RedoSleeps
           Q == kind = "queue" => /\ Queue!ServedIsSeen /\ Queue!AwakeIsOnTime
                                  /\ Queue!PortOutlivesSend /\ RedoSleeps
<1>1. ObjectsSpec => []R
  BY RwlockWakeups
<1>2. ObjectsSpec => []G
  BY FlagWakeups
<1>3. ObjectsSpec => []Q
  BY QueueWakeups
<1>4. R /\ G /\ Q => KindsWakeups
  BY DEF KindsWakeups
<1> HIDE DEF R, G, Q
<1>5. QED
  BY <1>1, <1>2, <1>3, <1>4, PTL

(***************************************************************************)
(* Whatever the object, who was taken off its list gets to know, and awake *)
(* comes while its thread is still in that call, for any number of threads *)
(* and savestates, as long as timeouts and savestates do not meet.         *)
(***************************************************************************)
THEOREM EveryWakeupIsExact ==
  ASSUME OneFault
  PROVE  ObjectsSpec => []ObjectWakeupsAreExact
<1>1. SemaphoreInv => (kind = "semaphore" => ServedIsSeen /\ AwakeIsOnTime)
  BY InvWakeups DEF SemaphoreInv
<1>2. SemaphoreInv /\ KindInv /\ KindsWakeups => ObjectWakeupsAreExact
  BY <1>1 DEF KindInv, KindsWakeups, ObjectWakeupsAreExact
<1>3. QED
  BY <1>2, SemaphoreAmongObjects, KindAlways, KindsWakeupsAlways, PTL

(***************************************************************************)
(* Nobody waits on a semaphore or an event flag that is destroyed, and a   *)
(* port with senders inside stays connected while its queue exists.        *)
(***************************************************************************)
THEOREM NothingUsedIsDestroyed ==
  ASSUME OneFault
  PROVE  ObjectsSpec => []ObjectUsedExists
<1>1. SemaphoreInv => (kind = "semaphore" => DestroyedIsEmpty)
  BY InvWakeups DEF SemaphoreInv
<1>2. SemaphoreInv /\ KindInv /\ KindsWakeups => ObjectUsedExists
  BY <1>1 DEF KindInv, KindsWakeups, ObjectUsedExists
<1>3. QED
  BY <1>2, SemaphoreAmongObjects, KindAlways, KindsWakeupsAlways, PTL

(***************************************************************************)
(* Whatever the object, a call that slept when the state was saved sleeps  *)
(* again when it is made anew: g_to_sleep becomes empty only by that, and  *)
(* nobody in it has returned to the guest.                                 *)
(***************************************************************************)
THEOREM EveryLoadedSleeperSleeps ==
  ASSUME OneFault
  PROVE  ObjectsSpec => []RedoSleeps
<1>1. SemaphoreInv => (kind = "semaphore" => RedoSleeps)
  BY InvWakeups DEF SemaphoreInv
<1>2. SemaphoreInv /\ KindInv /\ KindsWakeups => RedoSleeps
  BY <1>1 DEF KindInv, KindsWakeups, RedoSleeps
<1>3. QED
  BY <1>2, SemaphoreAmongObjects, KindAlways, KindsWakeupsAlways, PTL
=============================================================================
