------------------------- MODULE SharedMutexProofs -------------------------
(***************************************************************************)
(* Proofs about SharedMutex, for any finite set of threads, any width of   *)
(* the fields that holds them and any number of spins.                     *)
(***************************************************************************)
EXTENDS SharedMutex, FiniteSetTheorems, TLAPS

\* The number of threads at a label in S when the threads are where f says.
Count(f, S) == Cardinality({t \in Threads : f[t] \in S})

\* 1 when a label is in S.
Unit(l, S) == IF l \in S THEN 1 ELSE 0

-----------------------------------------------------------------------------
(***************************************************************************)
(* Moving one thread changes a count by at most one.                       *)
(***************************************************************************)
LEMMA CountMove ==
  ASSUME NEW f, f \in [Threads -> PCs], NEW t \in Threads, NEW l \in PCs,
         NEW S
  PROVE  /\ Count(f, S) \in Nat
         /\ Count(f, S) >= Unit(f[t], S)
         /\ Count([f EXCEPT ![t] = l], S)
              = Count(f, S) + Unit(l, S) - Unit(f[t], S)
<1> DEFINE g == [f EXCEPT ![t] = l]
           A == {u \in Threads : f[u] \in S}
           B == {u \in Threads : g[u] \in S}
<1>1. IsFiniteSet(A) /\ IsFiniteSet(B)
  BY ThreadsFinite, FS_Subset
<1>2. Cardinality(A) \in Nat /\ Cardinality(B) \in Nat
  BY <1>1, FS_CardinalityType
<1>3. f[t] \in S => Cardinality(A) > 0
  <2>1. f[t] \in S => A # {}
    OBVIOUS
  <2>2. QED
    BY <1>1, <1>2, <2>1, FS_EmptySet
<1>4. CASE f[t] \in S /\ l \in S
  <2>1. A = B
    BY <1>4
  <2>2. QED
    BY <1>2, <1>3, <1>4, <2>1 DEF Count, Unit
<1>5. CASE f[t] \notin S /\ l \notin S
  <2>1. A = B
    BY <1>5
  <2>2. QED
    BY <1>2, <1>3, <1>5, <2>1 DEF Count, Unit
<1>6. CASE f[t] \notin S /\ l \in S
  <2>1. B = A \union {t} /\ t \notin A
    BY <1>6
  <2>2. Cardinality(B) = Cardinality(A) + 1
    BY <1>1, <2>1, FS_AddElement
  <2>3. QED
    BY <1>2, <1>3, <1>6, <2>2 DEF Count, Unit
<1>7. CASE f[t] \in S /\ l \notin S
  <2>1. B = A \ {t} /\ t \in A
    BY <1>7
  <2>2. Cardinality(B) = Cardinality(A) - 1
    BY <1>1, <2>1, FS_RemoveElement
  <2>3. QED
    BY <1>2, <1>3, <1>7, <2>2 DEF Count, Unit
<1>8. QED
  BY <1>4, <1>5, <1>6, <1>7

(***************************************************************************)
(* A count is positive exactly when some thread is at a label of S, and    *)
(* never exceeds the number of threads.                                    *)
(***************************************************************************)
LEMMA CountPositive ==
  ASSUME NEW f, NEW S
  PROVE  /\ Count(f, S) \in Nat
         /\ Count(f, S) <= Cardinality(Threads)
         /\ Count(f, S) > 0 <=> \E t \in Threads : f[t] \in S
<1> DEFINE A == {u \in Threads : f[u] \in S}
<1>1. IsFiniteSet(A) /\ Cardinality(A) <= Cardinality(Threads)
  BY ThreadsFinite, FS_Subset
<1>2. Cardinality(A) \in Nat /\ (Cardinality(A) = 0 <=> A = {})
  BY <1>1, FS_CardinalityType, FS_EmptySet
<1>3. QED
  BY <1>1, <1>2 DEF Count

(***************************************************************************)
(* When a count is one, the thread it counts is the only one.              *)
(***************************************************************************)
LEMMA CountOne ==
  ASSUME NEW f, NEW S, Count(f, S) = 1,
         NEW t \in Threads, f[t] \in S, NEW u \in Threads, f[u] \in S
  PROVE  t = u
<1> DEFINE A == {v \in Threads : f[v] \in S}
<1>1. IsFiniteSet(A)
  BY ThreadsFinite, FS_Subset
<1>2. \E x : A = {x}
  BY <1>1, FS_Singleton DEF Count
<1>3. QED
  BY <1>2

-----------------------------------------------------------------------------
ClaimPCs == ExclPCs \union WaitPCs

(***************************************************************************)
(* The number of shared holders and of claims after one thread has moved,  *)
(* in terms of the fields of the word before the step.                     *)
(***************************************************************************)
LEMMA CountsStep ==
  ASSUME TypeOK, CountsMatch, NEW t \in Threads, NEW l \in PCs,
         pc' = [pc EXCEPT ![t] = l]
  PROVE  /\ Cardinality(Holding(SharedPCs))'
              = m.rd + Unit(l, SharedPCs) - Unit(pc[t], SharedPCs)
         /\ m.rd >= Unit(pc[t], SharedPCs)
         /\ Cardinality(Claims)'
              = m.wr + Unit(l, ClaimPCs) - Unit(pc[t], ClaimPCs)
         /\ m.wr >= Unit(pc[t], ClaimPCs)
         /\ Cardinality(Claims)' <= MaxClaims
<1>1. pc \in [Threads -> PCs] /\ m.rd \in Nat /\ m.wr \in Nat
  BY DEF TypeOK, Word
<1>2. /\ m.rd = Count(pc, SharedPCs)
      /\ m.wr = Count(pc, ClaimPCs)
  BY DEF CountsMatch, Count, Holding, Claims, ClaimPCs
<1>3. /\ Cardinality(Holding(SharedPCs))' = Count(pc', SharedPCs)
      /\ Cardinality(Claims)' = Count(pc', ClaimPCs)
  BY DEF Count, Holding, Claims, ClaimPCs
<1>4. Count(pc', ClaimPCs) <= Cardinality(Threads)
  BY CountPositive
<1>5. /\ Count(pc', SharedPCs)
           = m.rd + Unit(l, SharedPCs) - Unit(pc[t], SharedPCs)
      /\ m.rd >= Unit(pc[t], SharedPCs)
  <2>1. /\ Count(pc, SharedPCs) >= Unit(pc[t], SharedPCs)
        /\ Count([pc EXCEPT ![t] = l], SharedPCs)
             = Count(pc, SharedPCs) + Unit(l, SharedPCs) - Unit(pc[t], SharedPCs)
    BY <1>1, CountMove, Zenon
  <2>2. QED
    BY <1>2, <2>1, Zenon
<1>6. /\ Count(pc', ClaimPCs)
           = m.wr + Unit(l, ClaimPCs) - Unit(pc[t], ClaimPCs)
      /\ m.wr >= Unit(pc[t], ClaimPCs)
  <2>1. /\ Count(pc, ClaimPCs) >= Unit(pc[t], ClaimPCs)
        /\ Count([pc EXCEPT ![t] = l], ClaimPCs)
             = Count(pc, ClaimPCs) + Unit(l, ClaimPCs) - Unit(pc[t], ClaimPCs)
    BY <1>1, CountMove, Zenon
  <2>2. QED
    BY <1>2, <2>1, Zenon
<1>7. Cardinality(Threads) \in Nat /\ Count(pc', ClaimPCs) \in Nat
  BY ThreadsFinite, FS_CardinalityType, CountPositive
<1>8. QED
  BY <1>3, <1>4, <1>5, <1>6, <1>7, FieldWidths

(***************************************************************************)
(* The fields tell which labels are empty.                                 *)
(***************************************************************************)
LEMMA FieldsSay ==
  ASSUME TypeOK, CountsMatch
  PROVE  /\ m.rd > 0 <=> \E u \in Threads : pc[u] \in SharedPCs
         /\ m.wr > 0 <=> \E u \in Threads : pc[u] \in ClaimPCs
         /\ m.rd = 1 => \A u, v \in Threads :
                          pc[u] \in SharedPCs /\ pc[v] \in SharedPCs => u = v
<1>1. /\ m.rd = Count(pc, SharedPCs)
      /\ m.wr = Count(pc, ClaimPCs)
  BY DEF CountsMatch, Count, Holding, Claims, ClaimPCs
<1>2. QED
  BY <1>1, CountPositive, CountOne

-----------------------------------------------------------------------------
(***************************************************************************)
(* Initially nobody holds the lock and the word is zero.                   *)
(***************************************************************************)
LEMMA InitInv == Init => Inv
<1> SUFFICES ASSUME Init PROVE Inv
  OBVIOUS
<1>1. TypeOK
  BY SpinsNat DEF Init, TypeOK, Word, Zero, PCs
<1>2. /\ Holding(SharedPCs) = {} /\ Claims = {} /\ Carriers = {}
      /\ Holding({"sg_add"}) = {}
  BY DEF Init, Holding, Claims, Carriers, SharedPCs, ExclPCs, WaitPCs
<1>3. CountsMatch /\ OneCarrier /\ WakeupPending /\ SignalHasWaiter
  BY <1>2, FS_EmptySet, FieldWidths
     DEF Init, Zero, CountsMatch, OneCarrier, WakeupPending, SignalHasWaiter
<1>4. SlowPathLocals
  BY DEF Init, Zero, SlowPathLocals, WaitPCs
<1>5. QED
  BY <1>1, <1>3, <1>4 DEF Inv

-----------------------------------------------------------------------------
(***************************************************************************)
(* Every step of the lock is one of a few moves of a thread t to a label l *)
(* together with one change of the word.                                   *)
(***************************************************************************)
NeutralPCs == PCs \ (SharedPCs \union ClaimPCs \union {"sg_add", "sg_notify"})

Quiet(t, l) ==
  /\ m' = m
  /\ \/ pc[t] \in NeutralPCs /\ l \in NeutralPCs
     \/ pc[t] \in SharedPCs /\ l \in SharedPCs
     \/ pc[t] \in WaitPCs /\ l \in WaitPCs /\ (m.sig = 0 \/ l = "wt_op")

TakeFree(t, l) ==
  pc[t] \in NeutralPCs /\ l \in ExclPCs /\ m = Zero /\ m' = AddClaim(m)

TakeStolen(t, l) ==
  pc[t] \in NeutralPCs /\ l \in ExclPCs /\ m.sig > 0 /\ m' = StealExcl(m)

ShareStolen(t, l) ==
  pc[t] \in NeutralPCs /\ l = "shared" /\ m.sig > 0 /\ m' = StealShared(m)

ShareFree(t, l) ==
  pc[t] \in NeutralPCs /\ l = "shared" /\ CanShare(m) /\ m' = AddReader(m)

Enqueue(t, l) ==
  pc[t] \in NeutralPCs /\ l = "wt_op" /\ m # Zero /\ m' = AddClaim(m)

ToShared(t, l) ==
  pc[t] \in ExclPCs /\ l = "shared" /\ m' = ClaimToReader(m)

UpgradeLast(t, l) ==
  pc[t] \in SharedPCs /\ l = "excl" /\ m.rd = 1 /\ m' = ReaderToClaim(m)

UpgradeWait(t, l) ==
  pc[t] \in SharedPCs /\ l = "wt_op" /\ m.rd # 1 /\ m' = ReaderToClaim(m)

LeaveExcl(t, l) ==
  /\ pc[t] \in ExclPCs /\ m' = DropClaim(m)
  /\ l = IF DropClaim(m) # Zero THEN "sg_add" ELSE "idle"

LeaveShared(t, l) ==
  /\ pc[t] \in SharedPCs /\ m' = [m EXCEPT !.rd = @ - 1]
  /\ l = IF m.rd = 1 /\ (m.wr > 0 \/ m.sig > 0) THEN "sg_add" ELSE "idle"

Consume(t, l) ==
  /\ pc[t] = "wt_op" /\ l \in ExclPCs
  /\ m.sig > 0 /\ m' = [m EXCEPT !.sig = @ - 1]

Signal(t, l) ==
  pc[t] = "sg_add" /\ l = "sg_notify" /\ m' = [m EXCEPT !.sig = @ + 1]

Move(t, l) ==
  \/ Quiet(t, l) \/ TakeFree(t, l) \/ TakeStolen(t, l) \/ ShareStolen(t, l)
  \/ ShareFree(t, l) \/ Enqueue(t, l) \/ ToShared(t, l) \/ UpgradeLast(t, l)
  \/ UpgradeWait(t, l) \/ LeaveExcl(t, l) \/ LeaveShared(t, l)
  \/ Consume(t, l) \/ Signal(t, l)

\* What the moves preserve; the rest of Inv is about locals.
WordInv == CountsMatch /\ OneCarrier /\ WakeupPending /\ SignalHasWaiter

(***************************************************************************)
(* The facts of the invariant in the form in which the moves use them.     *)
(***************************************************************************)
LEMMA InvFacts ==
  ASSUME Inv
  PROVE  /\ m \in Word /\ pc \in [Threads -> PCs] /\ val \in [Threads -> Word]
         /\ m.rd \in Nat /\ m.wr \in Nat /\ m.sig \in Nat
         /\ m.rd <= MaxReaders /\ m.wr <= MaxClaims /\ m.sig <= 1
         /\ m = [rd |-> m.rd, wr |-> m.wr, sig |-> m.sig]
         /\ m.rd > 0 <=> \E u \in Threads : pc[u] \in SharedPCs
         /\ m.wr > 0 <=> \E u \in Threads : pc[u] \in ClaimPCs
         /\ m.rd > 0 => m.sig = 0
         /\ m.sig > 0 => m.wr > 0
         /\ \A u \in Threads : pc[u] \in ExclPCs \union {"sg_add"} =>
              /\ m.rd = 0 /\ m.sig = 0
              /\ \A v \in Threads : pc[v] \in ExclPCs \union {"sg_add"} => u = v
         /\ \A u \in Threads : pc[u] = "sg_add" => m.wr > 0
<1>1. /\ m \in Word /\ pc \in [Threads -> PCs] /\ val \in [Threads -> Word]
      /\ m.rd <= MaxReaders /\ m.wr <= MaxClaims /\ m.sig <= 1
  BY DEF Inv, TypeOK, CountsMatch
<1>2. /\ m.rd \in Nat /\ m.wr \in Nat /\ m.sig \in Nat
      /\ m = [rd |-> m.rd, wr |-> m.wr, sig |-> m.sig]
  BY <1>1 DEF Word
<1>3. /\ m.rd > 0 <=> \E u \in Threads : pc[u] \in SharedPCs
      /\ m.wr > 0 <=> \E u \in Threads : pc[u] \in ClaimPCs
  BY FieldsSay DEF Inv
<1>4. /\ m.rd > 0 => m.sig = 0
      /\ m.sig > 0 => m.wr > 0
  BY <1>2 DEF Inv, OneCarrier, SignalHasWaiter
<1>5. \A u \in Threads : pc[u] \in ExclPCs \union {"sg_add"} =>
        /\ m.rd = 0 /\ m.sig = 0
        /\ \A v \in Threads : pc[v] \in ExclPCs \union {"sg_add"} => u = v
  BY <1>2 DEF Inv, OneCarrier, Carriers, Holding
<1>6. \A u \in Threads : pc[u] = "sg_add" => m.wr > 0
  BY DEF Inv, SignalHasWaiter, Holding
<1>7. QED
  BY <1>1, <1>2, <1>3, <1>4, <1>5, <1>6

(***************************************************************************)
(* Every move preserves the invariant of the word.                         *)
(***************************************************************************)
LEMMA MoveInv ==
  ASSUME Inv, NEW t \in Threads, NEW l \in PCs, NEW w \in Word,
         pc' = [pc EXCEPT ![t] = l], val' = [val EXCEPT ![t] = w],
         Move(t, l)
  PROVE  m' \in Word /\ WordInv'
<1>1. /\ m \in Word /\ pc \in [Threads -> PCs] /\ val \in [Threads -> Word]
      /\ m.rd \in Nat /\ m.wr \in Nat /\ m.sig \in Nat
      /\ m.rd <= MaxReaders /\ m.wr <= MaxClaims /\ m.sig <= 1
      /\ m = [rd |-> m.rd, wr |-> m.wr, sig |-> m.sig]
  BY InvFacts, Zenon
<1>2. /\ m.rd > 0 <=> \E u \in Threads : pc[u] \in SharedPCs
      /\ m.wr > 0 <=> \E u \in Threads : pc[u] \in ClaimPCs
  BY InvFacts, Zenon
<1>3. /\ m.rd > 0 => m.sig = 0
      /\ m.sig > 0 => m.wr > 0
      /\ \A u \in Threads : pc[u] \in ExclPCs \union {"sg_add"} =>
           /\ m.rd = 0 /\ m.sig = 0
           /\ \A v \in Threads : pc[v] \in ExclPCs \union {"sg_add"} => u = v
      /\ \A u \in Threads : pc[u] = "sg_add" => m.wr > 0
  BY InvFacts, Zenon
<1>4. TypeOK /\ CountsMatch
  BY DEF Inv
<1>5. /\ Cardinality(Holding(SharedPCs))'
           = m.rd + Unit(l, SharedPCs) - Unit(pc[t], SharedPCs)
      /\ m.rd >= Unit(pc[t], SharedPCs)
      /\ Cardinality(Claims)'
           = m.wr + Unit(l, ClaimPCs) - Unit(pc[t], ClaimPCs)
      /\ m.wr >= Unit(pc[t], ClaimPCs)
      /\ Cardinality(Claims)' <= MaxClaims
  BY <1>4, CountsStep, Zenon
<1>6. \A u \in Threads : /\ pc'[u] = IF u = t THEN l ELSE pc[u]
                         /\ val'[u] = IF u = t THEN w ELSE val[u]
  BY <1>1
<1>7. /\ m.wr > 0 => \/ m.rd > 0 \/ m.sig > 0
                     \/ \E u \in Threads : pc[u] \in ExclPCs \union {"sg_add"}
      /\ m.sig > 0 => \E u \in Threads :
                        pc[u] \in {"sg_notify", "wt_op", "wt_check"}
      /\ \A u \in Threads : pc[u] = "wt_check" => val[u].sig = 0
  BY DEF Inv, WakeupPending, Carriers, Holding, SlowPathLocals
<1> DEFINE
      Counted == /\ m' \in Word
                 /\ m'.rd = m.rd + Unit(l, SharedPCs) - Unit(pc[t], SharedPCs)
                 /\ m'.wr = m.wr + Unit(l, ClaimPCs) - Unit(pc[t], ClaimPCs)
                 /\ m'.rd <= MaxReaders /\ m'.sig <= 1
      Alone == \A u \in Threads : pc'[u] \in ExclPCs \union {"sg_add"} =>
                 /\ m'.rd = 0 /\ m'.sig = 0
                 /\ \A v \in Threads :
                      pc'[v] \in ExclPCs \union {"sg_add"} => u = v
      Apart == /\ m'.rd > 0 => m'.sig = 0
               /\ m'.sig > 0 => m'.wr > 0
               /\ \A u \in Threads : pc'[u] = "sg_add" => m'.wr > 0
      Passed == m'.wr > 0 =>
                  \/ m'.rd > 0 \/ m'.sig > 0
                  \/ \E u \in Threads : pc'[u] \in ExclPCs \union {"sg_add"}
      Awake == m'.sig > 0 => \E u \in Threads :
                 \/ pc'[u] \in {"sg_notify", "wt_op"}
                 \/ pc'[u] = "wt_check" /\ val'[u] # m'
      Goal == Counted /\ Alone /\ Apart /\ Passed /\ Awake
<1>8. Goal => m' \in Word /\ WordInv'
  BY <1>5 DEF WordInv, CountsMatch, OneCarrier, WakeupPending, SignalHasWaiter,
              Carriers, Holding, Word
<1> USE <1>1, <1>3, <1>6, FieldWidths
    DEF Unit, Word, ClaimPCs, SharedPCs, ExclPCs, WaitPCs, NeutralPCs
<1>a. CASE TakeFree(t, l)
  <2>1. Counted
    BY <1>a, <1>5 DEF TakeFree, Zero, AddClaim
  <2>2. Alone
    BY <1>a, <1>2 DEF TakeFree, Zero, AddClaim
  <2>3. Apart
    BY <1>a, <1>2, <1>5 DEF TakeFree, Zero, AddClaim
  <2>4. Passed
    BY <1>a, <1>2, <1>7 DEF TakeFree, Zero, AddClaim
  <2>5. Awake
    BY <1>a, <1>2, <1>7 DEF TakeFree, Zero, AddClaim
  <2>6. QED
    BY <1>8, <2>1, <2>2, <2>3, <2>4, <2>5
<1>b. CASE TakeStolen(t, l)
  <2>1. Counted
    <3>1. m' = [rd |-> m.rd, wr |-> m.wr + 1, sig |-> m.sig - 1]
      BY <1>b DEF TakeStolen, StealExcl
    <3>2. m'.rd = m.rd /\ m'.wr = m.wr + 1 /\ m'.sig = m.sig - 1
      BY <3>1
    <3>3. m'.rd \in Nat /\ m'.wr \in Nat /\ m'.sig \in Nat
      BY <1>b, <1>5, <3>2 DEF TakeStolen
    <3>4. m' \in Word
      BY <3>1, <3>2, <3>3
    <3>5. QED
      BY <1>b, <1>5, <3>2, <3>4 DEF TakeStolen
  <2>2. Alone
    BY <1>b, <1>2 DEF TakeStolen, StealExcl
  <2>3. Apart
    BY <1>b, <1>2, <1>5 DEF TakeStolen, StealExcl
  <2>4. Passed
    BY <1>b, <1>2, <1>7 DEF TakeStolen, StealExcl
  <2>5. Awake
    BY <1>b, <1>2, <1>7 DEF TakeStolen, StealExcl
  <2>6. QED
    BY <1>8, <2>1, <2>2, <2>3, <2>4, <2>5
<1>c. CASE ShareStolen(t, l)
  <2>1. Counted
    <3>1. m' = [rd |-> m.rd + 1, wr |-> m.wr, sig |-> m.sig - 1]
      BY <1>c DEF ShareStolen, StealShared
    <3>2. m'.rd = m.rd + 1 /\ m'.wr = m.wr /\ m'.sig = m.sig - 1
      BY <3>1
    <3>3. m'.rd \in Nat /\ m'.wr \in Nat /\ m'.sig \in Nat
      BY <1>c, <1>5, <3>2 DEF ShareStolen
    <3>4. m' \in Word
      BY <3>1, <3>2, <3>3
    <3>5. QED
      BY <1>c, <1>5, <3>2, <3>4 DEF ShareStolen
  <2>2. Alone
    BY <1>c, <1>2 DEF ShareStolen, StealShared
  <2>3. Apart
    BY <1>c, <1>2, <1>5 DEF ShareStolen, StealShared
  <2>4. Passed
    BY <1>c, <1>2, <1>7 DEF ShareStolen, StealShared
  <2>5. Awake
    BY <1>c, <1>2, <1>7 DEF ShareStolen, StealShared
  <2>6. QED
    BY <1>8, <2>1, <2>2, <2>3, <2>4, <2>5
<1>d. CASE ShareFree(t, l)
  <2>1. Counted
    BY <1>d, <1>5 DEF ShareFree, CanShare, AddReader
  <2>2. Alone
    BY <1>d, <1>2 DEF ShareFree, CanShare, AddReader
  <2>3. Apart
    BY <1>d, <1>2, <1>5 DEF ShareFree, CanShare, AddReader
  <2>4. Passed
    BY <1>d, <1>2, <1>7 DEF ShareFree, CanShare, AddReader
  <2>5. Awake
    BY <1>d, <1>2, <1>7 DEF ShareFree, CanShare, AddReader
  <2>6. QED
    BY <1>8, <2>1, <2>2, <2>3, <2>4, <2>5
<1>e. CASE Enqueue(t, l)
  <2>1. Counted
    BY <1>e, <1>5 DEF Enqueue, Zero, AddClaim
  <2>2. Alone
    BY <1>e, <1>2 DEF Enqueue, Zero, AddClaim
  <2>3. Apart
    BY <1>e, <1>2, <1>5 DEF Enqueue, Zero, AddClaim
  <2>4. Passed
    BY <1>e, <1>2, <1>7 DEF Enqueue, Zero, AddClaim
  <2>5. Awake
    BY <1>e, <1>2, <1>7 DEF Enqueue, Zero, AddClaim
  <2>6. QED
    BY <1>8, <2>1, <2>2, <2>3, <2>4, <2>5
<1>f. CASE ToShared(t, l)
  <2>1. Counted
    <3>1. m' = [rd |-> m.rd + 1, wr |-> m.wr - 1, sig |-> m.sig]
      BY <1>f DEF ToShared, ClaimToReader
    <3>2. m'.rd = m.rd + 1 /\ m'.wr = m.wr - 1 /\ m'.sig = m.sig
      BY <3>1
    <3>3. m'.rd \in Nat /\ m'.wr \in Nat /\ m'.sig \in Nat
      BY <1>f, <1>5, <3>2 DEF ToShared
    <3>4. m' \in Word
      BY <3>1, <3>2, <3>3
    <3>5. QED
      BY <1>f, <1>5, <3>2, <3>4 DEF ToShared
  <2>2. Alone
    BY <1>f, <1>2 DEF ToShared, ClaimToReader
  <2>3. Apart
    BY <1>f, <1>2, <1>5 DEF ToShared, ClaimToReader
  <2>4. Passed
    BY <1>f, <1>2, <1>7 DEF ToShared, ClaimToReader
  <2>5. Awake
    BY <1>f, <1>2, <1>7 DEF ToShared, ClaimToReader
  <2>6. QED
    BY <1>8, <2>1, <2>2, <2>3, <2>4, <2>5
<1>g. CASE UpgradeLast(t, l)
  <2>1. Counted
    <3>1. m' = [rd |-> m.rd - 1, wr |-> m.wr + 1, sig |-> m.sig]
      BY <1>g DEF UpgradeLast, ReaderToClaim
    <3>2. m'.rd = m.rd - 1 /\ m'.wr = m.wr + 1 /\ m'.sig = m.sig
      BY <3>1
    <3>3. m'.rd \in Nat /\ m'.wr \in Nat /\ m'.sig \in Nat
      BY <1>g, <1>5, <3>2 DEF UpgradeLast
    <3>4. m' \in Word
      BY <3>1, <3>2, <3>3
    <3>5. QED
      BY <1>g, <1>5, <3>2, <3>4 DEF UpgradeLast
  <2>2. Alone
    BY <1>g, <1>2 DEF UpgradeLast, ReaderToClaim
  <2>3. Apart
    BY <1>g, <1>2, <1>5 DEF UpgradeLast, ReaderToClaim
  <2>4. Passed
    BY <1>g, <1>2, <1>7 DEF UpgradeLast, ReaderToClaim
  <2>5. Awake
    BY <1>g, <1>2, <1>7 DEF UpgradeLast, ReaderToClaim
  <2>6. QED
    BY <1>8, <2>1, <2>2, <2>3, <2>4, <2>5
<1>h. CASE UpgradeWait(t, l)
  <2>1. Counted
    <3>1. m' = [rd |-> m.rd - 1, wr |-> m.wr + 1, sig |-> m.sig]
      BY <1>h DEF UpgradeWait, ReaderToClaim
    <3>2. m'.rd = m.rd - 1 /\ m'.wr = m.wr + 1 /\ m'.sig = m.sig
      BY <3>1
    <3>3. m'.rd \in Nat /\ m'.wr \in Nat /\ m'.sig \in Nat
      BY <1>h, <1>5, <3>2 DEF UpgradeWait
    <3>4. m' \in Word
      BY <3>1, <3>2, <3>3
    <3>5. QED
      BY <1>h, <1>5, <3>2, <3>4 DEF UpgradeWait
  <2>2. Alone
    BY <1>h, <1>2 DEF UpgradeWait, ReaderToClaim
  <2>3. Apart
    BY <1>h, <1>2, <1>5 DEF UpgradeWait, ReaderToClaim
  <2>4. Passed
    BY <1>h, <1>2, <1>7 DEF UpgradeWait, ReaderToClaim
  <2>5. Awake
    BY <1>h, <1>2, <1>7 DEF UpgradeWait, ReaderToClaim
  <2>6. QED
    BY <1>8, <2>1, <2>2, <2>3, <2>4, <2>5
<1>i. CASE LeaveExcl(t, l)
  <2>1. Counted
    BY <1>i, <1>5 DEF LeaveExcl, DropClaim, Zero
  <2>2. Alone
    BY <1>i, <1>2 DEF LeaveExcl, DropClaim, Zero
  <2>3. Apart
    BY <1>i, <1>2, <1>5 DEF LeaveExcl, DropClaim, Zero
  <2>4. Passed
    BY <1>i, <1>2, <1>7 DEF LeaveExcl, DropClaim, Zero
  <2>5. Awake
    BY <1>i, <1>2, <1>7 DEF LeaveExcl, DropClaim, Zero
  <2>6. QED
    BY <1>8, <2>1, <2>2, <2>3, <2>4, <2>5
<1>j. CASE LeaveShared(t, l)
  <2>1. Counted
    BY <1>j, <1>5 DEF LeaveShared
  <2>2. Alone
    BY <1>j, <1>2 DEF LeaveShared
  <2>3. Apart
    BY <1>j, <1>2, <1>5 DEF LeaveShared
  <2>4. Passed
    BY <1>j, <1>2, <1>7 DEF LeaveShared
  <2>5. Awake
    BY <1>j, <1>2, <1>7 DEF LeaveShared
  <2>6. QED
    BY <1>8, <2>1, <2>2, <2>3, <2>4, <2>5
<1>k. CASE Consume(t, l)
  <2>1. Counted
    BY <1>k, <1>5 DEF Consume
  <2>2. Alone
    BY <1>k, <1>2 DEF Consume
  <2>3. Apart
    BY <1>k, <1>2, <1>5 DEF Consume
  <2>4. Passed
    BY <1>k, <1>2, <1>7 DEF Consume
  <2>5. Awake
    BY <1>k, <1>2, <1>7 DEF Consume
  <2>6. QED
    BY <1>8, <2>1, <2>2, <2>3, <2>4, <2>5
<1>l. CASE Signal(t, l)
  <2>1. Counted
    BY <1>l, <1>5 DEF Signal
  <2>2. Alone
    BY <1>l, <1>2 DEF Signal
  <2>3. Apart
    BY <1>l, <1>2, <1>5 DEF Signal
  <2>4. Passed
    BY <1>l, <1>2, <1>7 DEF Signal
  <2>5. Awake
    BY <1>l, <1>2, <1>7 DEF Signal
  <2>6. QED
    BY <1>8, <2>1, <2>2, <2>3, <2>4, <2>5
<1>m. CASE Quiet(t, l)
  <2>1. Counted
    BY <1>m, <1>5 DEF Quiet
  <2>2. Alone
    BY <1>m, <1>2 DEF Quiet
  <2>3. Apart
    BY <1>m, <1>2, <1>5 DEF Quiet
  <2>4. Passed
    BY <1>m, <1>2, <1>7 DEF Quiet
  <2>5. Awake
    BY <1>m, <1>2, <1>7 DEF Quiet
  <2>6. QED
    BY <1>8, <2>1, <2>2, <2>3, <2>4, <2>5
<1>n. QED
  BY <1>a, <1>b, <1>c, <1>d, <1>e, <1>f, <1>g, <1>h, <1>i, <1>j, <1>k, <1>l, <1>m DEF Move

-----------------------------------------------------------------------------
\* A step of thread t is one of the moves.
IsMove(t) ==
  \E l \in PCs, w \in Word : /\ pc' = [pc EXCEPT ![t] = l]
                             /\ val' = [val EXCEPT ![t] = w]
                             /\ Move(t, l)

(***************************************************************************)
(* The step forms of SharedMutex are moves when the word changes as one.   *)
(***************************************************************************)
LEMMA UpdateIsMove ==
  ASSUME NEW t \in Threads, NEW w, NEW l \in PCs, Update(t, w, l), Move(t, l)
  PROVE  IsMove(t)
<1>1. Zero \in Word
  BY DEF Zero, Word
<1>2. QED
  BY <1>1 DEF Update, Goto, IsMove

(***************************************************************************)
(* A plain load of m_value moves the thread and leaves the word alone.     *)
(***************************************************************************)
LEMMA LoadIsMove ==
  ASSUME Inv, NEW t \in Threads, NEW n, NEW l \in PCs, Load(t, n, l), Quiet(t, l)
  PROVE  IsMove(t)
<1>1. m \in Word
  BY InvFacts
<1>2. QED
  BY <1>1 DEF Load, Goto, IsMove, Move

(***************************************************************************)
(* So does a compare-and-swap that fails.                                  *)
(***************************************************************************)
LEMMA FailIsMove ==
  ASSUME Inv, NEW t \in Threads, NEW l \in PCs, Fail(t, l), Quiet(t, l)
  PROVE  IsMove(t)
<1>1. Zero \in Word /\ val[t] \in Word
  BY InvFacts DEF Zero, Word
<1>2. QED
  BY <1>1 DEF Fail, Goto, IsMove, Move

(***************************************************************************)
(* A compare-and-swap is a move whether it succeeds or fails.              *)
(***************************************************************************)
LEMMA CasIsMove ==
  ASSUME Inv, NEW t \in Threads, NEW c, NEW w, NEW ok \in PCs, NEW no \in PCs,
         Cas(t, c, w, ok, no),
         c /\ m = val[t] /\ m' = w => Move(t, ok),
         m' = m => Quiet(t, no)
  PROVE  IsMove(t)
<1>1. CASE c /\ m = val[t] /\ Update(t, w, ok)
  BY <1>1, UpdateIsMove DEF Update
<1>2. CASE Fail(t, no)
  BY <1>2, FailIsMove DEF Fail
<1>3. QED
  BY <1>1, <1>2 DEF Cas

(***************************************************************************)
(* Every step of a thread, except the notification, is a move.             *)
(***************************************************************************)
LEMMA StepIsMove ==
  ASSUME Inv, NEW t \in Threads, Call(t) \/ Step(t) \/ Release(t),
         ~ImpSignalNotify(t)
  PROVE  IsMove(t)
<1> USE DEF PCs, NeutralPCs, SharedPCs, ClaimPCs, ExclPCs, WaitPCs
<1>1. ASSUME TryLock(t) PROVE IsMove(t)
  BY <1>1, UpdateIsMove DEF TryLock, Update, Move, TakeFree
<1>2. ASSUME Lock(t) PROVE IsMove(t)
  <2>1. CASE m = Zero
    BY <1>2, <2>1, UpdateIsMove DEF Lock, Update, Move, TakeFree
  <2>2. CASE m # Zero
    BY <1>2, <2>2, LoadIsMove DEF Lock, Load, Quiet
  <2>3. QED
    BY <2>1, <2>2
<1>3. ASSUME ImpLockSteal(t) PROVE IsMove(t)
  BY <1>3, CasIsMove DEF ImpLockSteal, HasSignal, CanShare, Quiet, Move, TakeStolen
<1>4. ASSUME ImpLockSpin(t) PROVE IsMove(t)
  BY <1>4, LoadIsMove DEF ImpLockSpin, Load, Quiet
<1>5. ASSUME ImpLockCas(t) PROVE IsMove(t)
  <2>1. CASE Cas(t, TRUE, AddClaim(m), "excl", "il_spin") /\ val[t] = Zero
    BY <1>5, <2>1, CasIsMove DEF ImpLockCas, HasSignal, CanShare, Quiet, Move, TakeFree
  <2>2. CASE Cas(t, HasSignal(val[t]), StealExcl(m), "excl", "il_spin")
    BY <1>5, <2>2, CasIsMove DEF ImpLockCas, HasSignal, CanShare, Quiet, Move, TakeStolen
  <2>3. QED
    BY <1>5, <2>1, <2>2 DEF ImpLockCas
<1>6. ASSUME ImpLockAdd(t) PROVE IsMove(t)
  <2>1. CASE m = Zero
    BY <1>6, <2>1, UpdateIsMove DEF ImpLockAdd, Update, Move, TakeFree
  <2>2. CASE m # Zero
    BY <1>6, <2>2, UpdateIsMove DEF ImpLockAdd, Queue, Update, Move, Enqueue
  <2>3. QED
    BY <2>1, <2>2
<1>7. ASSUME TryLockShared(t) PROVE IsMove(t)
  BY <1>7, LoadIsMove DEF TryLockShared, Load, Quiet
<1>8. ASSUME TryLockSharedCas(t) PROVE IsMove(t)
  BY ZenonT(30), <1>8, CasIsMove DEF TryLockSharedCas, HasSignal, CanShare, Quiet, Move, ShareFree
<1>9. ASSUME LockShared(t) PROVE IsMove(t)
  BY <1>9, LoadIsMove DEF LockShared, Load, Quiet
<1>10. ASSUME LockSharedCas(t) PROVE IsMove(t)
  BY ZenonT(30), <1>10, CasIsMove DEF LockSharedCas, HasSignal, CanShare, Quiet, Move, ShareFree
<1>11. ASSUME ImpLockSharedSteal(t) PROVE IsMove(t)
  BY ZenonT(30), <1>11, CasIsMove
     DEF ImpLockSharedSteal, HasSignal, CanShare, Quiet, Move, ShareStolen
<1>12. ASSUME ImpLockSharedSpin(t) PROVE IsMove(t)
  BY <1>12, LoadIsMove DEF ImpLockSharedSpin, Load, Quiet
<1>13. ASSUME ImpLockSharedTry(t) PROVE IsMove(t)
  BY ZenonT(30), <1>13, CasIsMove
     DEF ImpLockSharedTry, HasSignal, CanShare, Quiet, Move, ShareFree
<1>14. ASSUME ImpLockSharedLoad(t) PROVE IsMove(t)
  BY <1>14, LoadIsMove DEF ImpLockSharedLoad, Load, Quiet
<1>15. ASSUME ImpLockSharedCas(t) PROVE IsMove(t)
  BY <1>15, CasIsMove DEF ImpLockSharedCas, HasSignal, CanShare, Quiet, Move, ShareStolen
<1>16. ASSUME ImpLockSharedAdd(t) PROVE IsMove(t)
  <2>1. CASE m = Zero
    BY <1>16, <2>1, UpdateIsMove DEF ImpLockSharedAdd, Update, Move, TakeFree
  <2>2. CASE m # Zero
    BY <1>16, <2>2, UpdateIsMove DEF ImpLockSharedAdd, Queue, Update, Move, Enqueue
  <2>3. QED
    BY <2>1, <2>2
<1>17. ASSUME LockDowngrade(t) PROVE IsMove(t)
  BY <1>17, UpdateIsMove DEF LockDowngrade, Update, Move, ToShared
<1>18. ASSUME TryLockUpgrade(t) PROVE IsMove(t)
  BY <1>18, LoadIsMove DEF TryLockUpgrade, Load, Quiet
<1>19. ASSUME TryLockUpgradeCas(t) PROVE IsMove(t)
  BY ZenonT(30), <1>19, CasIsMove
     DEF TryLockUpgradeCas, HasSignal, CanShare, Quiet, Move, UpgradeLast
<1>20. ASSUME LockUpgrade(t) PROVE IsMove(t)
  BY <1>20, LoadIsMove DEF LockUpgrade, Load, Quiet
<1>21. ASSUME LockUpgradeCas(t) PROVE IsMove(t)
  BY ZenonT(30), <1>21, CasIsMove
     DEF LockUpgradeCas, HasSignal, CanShare, Quiet, Move, UpgradeLast
<1>22. ASSUME ImpLockUpgradeLoad(t) PROVE IsMove(t)
  BY <1>22, LoadIsMove DEF ImpLockUpgradeLoad, Load, Quiet
<1>23. ASSUME ImpLockUpgradeAdd(t) PROVE IsMove(t)
  <2>1. CASE m.rd = 1
    BY <1>23, <2>1, UpdateIsMove DEF ImpLockUpgradeAdd, Update, Move, UpgradeLast
  <2>2. CASE m.rd # 1
    BY <1>23, <2>2, UpdateIsMove DEF ImpLockUpgradeAdd, Queue, Update, Move, UpgradeWait
  <2>3. QED
    BY <2>1, <2>2
<1>24. ASSUME LockUnlock(t) PROVE IsMove(t)
  BY <1>24, FailIsMove DEF LockUnlock, Fail, Quiet
<1>25. ASSUME ImpLockUnlockAdd(t) PROVE IsMove(t)
  <2>1. CASE m = Zero
    BY <1>25, <2>1, UpdateIsMove DEF ImpLockUnlockAdd, Update, Move, TakeFree
  <2>2. CASE m # Zero
    BY <1>25, <2>2, UpdateIsMove DEF ImpLockUnlockAdd, Queue, Update, Move, Enqueue
  <2>3. QED
    BY <2>1, <2>2
<1>26. ASSUME ImpSignalAdd(t) PROVE IsMove(t)
  BY <1>26, UpdateIsMove DEF ImpSignalAdd, Update, Move, Signal
<1>27. ASSUME Unlock(t) PROVE IsMove(t)
  <2> DEFINE l == IF DropClaim(m) # Zero THEN "sg_add" ELSE "idle"
  <2>1. l \in PCs
    BY DEF PCs
  <2>2. LeaveExcl(t, l)
    BY <1>27 DEF Unlock, Update, LeaveExcl, ExclPCs
  <2>3. QED
    BY <1>27, <2>1, <2>2, UpdateIsMove DEF Unlock, Move
<1>28. ASSUME UnlockShared(t) PROVE IsMove(t)
  <2> DEFINE l == IF m.rd = 1 /\ (m.wr > 0 \/ m.sig > 0) THEN "sg_add" ELSE "idle"
  <2>1. l \in PCs
    BY DEF PCs
  <2>2. LeaveShared(t, l)
    BY <1>28 DEF UnlockShared, Update, LeaveShared, SharedPCs
  <2>3. QED
    BY <1>28, <2>1, <2>2, UpdateIsMove DEF UnlockShared, Move
<1>29. ASSUME ImpLockUnlockSpin(t) PROVE IsMove(t)
  <2> DEFINE l == pc'[t]
  <2>1. /\ l \in {"idle", "lu_spin"} /\ pc' = [pc EXCEPT ![t] = l]
        /\ m' = m /\ val' = [val EXCEPT ![t] = val[t]] /\ val[t] \in Word
        /\ pc[t] = "lu_spin"
    BY <1>29, InvFacts DEF ImpLockUnlockSpin, Goto
  <2>2. Quiet(t, l) /\ l \in PCs
    BY <2>1 DEF Quiet
  <2>3. QED
    BY <2>1, <2>2 DEF IsMove, Move
<1>30. ASSUME ImpWaitOp(t) PROVE IsMove(t)
  <2>1. CASE HasSignal(m)
    <3>1. Owner(op[t]) \in ExclPCs
      BY <1>30 DEF ImpWaitOp, Inv, TypeOK, SlowPathLocals, Owner, ExclPCs, WaitPCs
    <3>2. Consume(t, Owner(op[t]))
      BY <1>30, <2>1, <3>1 DEF ImpWaitOp, Update, Consume, HasSignal
    <3>3. QED
      BY <1>30, <2>1, <3>1, <3>2, UpdateIsMove DEF ImpWaitOp, Move, ExclPCs, PCs
  <2>2. CASE ~HasSignal(m)
    <3>1. m.sig = 0
      BY <2>2, InvFacts DEF HasSignal
    <3>2. QED
      BY <1>30, <2>2, <3>1, LoadIsMove DEF ImpWaitOp, Load, Quiet
  <2>3. QED
    BY <2>1, <2>2
<1>31. ASSUME ImpWaitCheck(t) PROVE IsMove(t)
  <2> DEFINE l == IF m = val[t] THEN "wt_blocked" ELSE "wt_op"
  <2>1. m = val[t] => m.sig = 0
    BY <1>31 DEF ImpWaitCheck, Inv, SlowPathLocals
  <2>2. Quiet(t, l) /\ l \in PCs
    BY <1>31, <2>1 DEF ImpWaitCheck, Fail, Quiet
  <2>3. QED
    BY <1>31, <2>2, FailIsMove DEF ImpWaitCheck
<1>32. QED
  BY <1>1, <1>2, <1>3, <1>4, <1>5, <1>6, <1>7, <1>8, <1>9, <1>10, <1>11, <1>12, <1>13, <1>14, <1>15, <1>16, <1>17, <1>18, <1>19, <1>20, <1>21, <1>22, <1>23, <1>24, <1>25, <1>26, <1>27, <1>28, <1>29, <1>30, <1>31 DEF Call, Step, Release

(***************************************************************************)
(* The notification wakes a blocked thread and changes no count.           *)
(***************************************************************************)
LEMMA NotifyInv ==
  ASSUME Inv, NEW t \in Threads, ImpSignalNotify(t)
  PROVE  m' \in Word /\ WordInv'
<1>1. /\ m \in Word /\ pc \in [Threads -> PCs] /\ m' = m /\ val' = val
      /\ pc[t] = "sg_notify"
  BY InvFacts DEF ImpSignalNotify
<1>2. \A u \in Threads : \/ u # t /\ pc'[u] = pc[u]
                         \/ u = t /\ pc'[u] = "idle"
                         \/ u # t /\ pc[u] = "wt_blocked" /\ pc'[u] = "wt_op"
  BY <1>1 DEF ImpSignalNotify, Goto, Holding
<1>3. /\ Holding(SharedPCs)' = Holding(SharedPCs)
      /\ Claims' = Claims /\ Carriers' = Carriers
      /\ Holding({"sg_add"})' = Holding({"sg_add"})
  BY <1>1, <1>2 DEF Holding, Claims, Carriers, SharedPCs, ExclPCs, WaitPCs
<1>4. CountsMatch' /\ OneCarrier' /\ SignalHasWaiter'
  BY <1>1, <1>3 DEF Inv, CountsMatch, OneCarrier, SignalHasWaiter
<1>5. m.sig > 0 => \E u \in Threads : pc[u] \in WaitPCs
  BY InvFacts DEF ClaimPCs, ExclPCs, Word
<1>6. m'.sig > 0 => \E u \in Threads :
                      \/ pc'[u] \in {"sg_notify", "wt_op"}
                      \/ pc'[u] = "wt_check" /\ val'[u] # m'
  <2>1. CASE Holding({"wt_blocked"}) = {}
    BY <1>1, <1>2, <1>5, <2>1 DEF Inv, SlowPathLocals, Holding, WaitPCs
  <2>2. CASE Holding({"wt_blocked"}) # {}
    <3>1. PICK u \in Threads : pc[u] = "wt_blocked"
                               /\ pc' = [pc EXCEPT ![t] = "idle", ![u] = "wt_op"]
      BY <2>2 DEF ImpSignalNotify, Holding
    <3>2. pc'[u] = "wt_op"
      BY <1>1, <3>1
    <3>3. QED
      BY <3>2
  <2>3. QED
    BY <2>1, <2>2
<1>7. WakeupPending'
  BY <1>1, <1>3, <1>6 DEF Inv, WakeupPending
<1>8. QED
  BY <1>1, <1>4, <1>7 DEF WordInv

(***************************************************************************)
(* The locals keep their types and what the slow paths rely on.            *)
(***************************************************************************)
LEMMA LocalsInv ==
  ASSUME Inv, NEW t \in Threads, Call(t) \/ Step(t) \/ Release(t), m' \in Word
  PROVE  TypeOK' /\ SlowPathLocals'
<1> USE SpinsNat DEF Inv, TypeOK, SlowPathLocals, PCs, WaitPCs, Update, Load,
                     Fail, Cas, Goto, Queue
<1>1. Zero \in Word
  BY DEF Zero, Word
<1>2. \A o \in {"lock", "lock_shared", "lock_unlock"} : Owner(o) \in ExclPCs
  BY DEF Owner, ExclPCs
<1>3. ASSUME TryLock(t) PROVE TypeOK' /\ SlowPathLocals'
  BY <1>1, <1>3 DEF TryLock
<1>4. ASSUME Lock(t) PROVE TypeOK' /\ SlowPathLocals'
  BY <1>1, <1>4 DEF Lock
<1>5. ASSUME ImpLockSteal(t) PROVE TypeOK' /\ SlowPathLocals'
  BY <1>1, <1>5 DEF ImpLockSteal
<1>6. ASSUME ImpLockSpin(t) PROVE TypeOK' /\ SlowPathLocals'
  BY <1>1, <1>6 DEF ImpLockSpin
<1>7. ASSUME ImpLockCas(t) PROVE TypeOK' /\ SlowPathLocals'
  BY <1>1, <1>7 DEF ImpLockCas
<1>8. ASSUME ImpLockAdd(t) PROVE TypeOK' /\ SlowPathLocals'
  BY <1>1, <1>8 DEF ImpLockAdd
<1>9. ASSUME TryLockShared(t) PROVE TypeOK' /\ SlowPathLocals'
  BY <1>1, <1>9 DEF TryLockShared
<1>10. ASSUME TryLockSharedCas(t) PROVE TypeOK' /\ SlowPathLocals'
  BY <1>1, <1>10 DEF TryLockSharedCas
<1>11. ASSUME LockShared(t) PROVE TypeOK' /\ SlowPathLocals'
  BY <1>1, <1>11 DEF LockShared
<1>12. ASSUME LockSharedCas(t) PROVE TypeOK' /\ SlowPathLocals'
  BY <1>1, <1>12 DEF LockSharedCas
<1>13. ASSUME ImpLockSharedSteal(t) PROVE TypeOK' /\ SlowPathLocals'
  BY <1>1, <1>13 DEF ImpLockSharedSteal
<1>14. ASSUME ImpLockSharedSpin(t) PROVE TypeOK' /\ SlowPathLocals'
  BY <1>1, <1>14 DEF ImpLockSharedSpin
<1>15. ASSUME ImpLockSharedTry(t) PROVE TypeOK' /\ SlowPathLocals'
  BY <1>1, <1>15 DEF ImpLockSharedTry
<1>16. ASSUME ImpLockSharedLoad(t) PROVE TypeOK' /\ SlowPathLocals'
  BY <1>1, <1>16 DEF ImpLockSharedLoad
<1>17. ASSUME ImpLockSharedCas(t) PROVE TypeOK' /\ SlowPathLocals'
  BY <1>1, <1>17 DEF ImpLockSharedCas
<1>18. ASSUME ImpLockSharedAdd(t) PROVE TypeOK' /\ SlowPathLocals'
  BY <1>1, <1>18 DEF ImpLockSharedAdd
<1>19. ASSUME LockDowngrade(t) PROVE TypeOK' /\ SlowPathLocals'
  BY <1>1, <1>19 DEF LockDowngrade, EndSection
<1>20. ASSUME TryLockUpgrade(t) PROVE TypeOK' /\ SlowPathLocals'
  BY <1>1, <1>20 DEF TryLockUpgrade
<1>21. ASSUME TryLockUpgradeCas(t) PROVE TypeOK' /\ SlowPathLocals'
  BY <1>1, <1>21 DEF TryLockUpgradeCas
<1>22. ASSUME LockUpgrade(t) PROVE TypeOK' /\ SlowPathLocals'
  BY <1>1, <1>22 DEF LockUpgrade
<1>23. ASSUME LockUpgradeCas(t) PROVE TypeOK' /\ SlowPathLocals'
  BY <1>1, <1>23 DEF LockUpgradeCas
<1>24. ASSUME ImpLockUpgradeLoad(t) PROVE TypeOK' /\ SlowPathLocals'
  BY <1>1, <1>24 DEF ImpLockUpgradeLoad
<1>25. ASSUME ImpLockUpgradeAdd(t) PROVE TypeOK' /\ SlowPathLocals'
  BY <1>1, <1>25 DEF ImpLockUpgradeAdd
<1>26. ASSUME Unlock(t) PROVE TypeOK' /\ SlowPathLocals'
  BY <1>1, <1>26 DEF Unlock, EndSection
<1>27. ASSUME UnlockShared(t) PROVE TypeOK' /\ SlowPathLocals'
  BY <1>1, <1>27 DEF UnlockShared
<1>28. ASSUME LockUnlock(t) PROVE TypeOK' /\ SlowPathLocals'
  BY <1>1, <1>28 DEF LockUnlock, Holding
<1>29. ASSUME ImpLockUnlockSpin(t) PROVE TypeOK' /\ SlowPathLocals'
  <2>1. m.wr \in Nat /\ m.sig \in {0, 1} /\ MaxClaims \in Nat
    <3>1. Inv
      OBVIOUS
    <3>2. m.wr \in Nat /\ m.sig \in Nat /\ m.sig <= 1
      BY ONLY <3>1, InvFacts, Zenon
    <3>3. QED
      BY ONLY <3>2, FieldWidths
  <2>2. Quotient(m) \in Nat
    <3>1. CASE m.sig = 0
      BY <2>1, <3>1 DEF Quotient
    <3>2. CASE m.sig = 1
      BY <2>1, <3>2 DEF Quotient
    <3>3. QED
      BY <2>1, <3>1, <3>2
  <2>3. QED
    BY <1>1, <1>29, <2>2 DEF ImpLockUnlockSpin
<1>30. ASSUME ImpLockUnlockAdd(t) PROVE TypeOK' /\ SlowPathLocals'
  BY <1>1, <1>30 DEF ImpLockUnlockAdd
<1>31. ASSUME ImpWaitOp(t) PROVE TypeOK' /\ SlowPathLocals'
  <2>1. CASE HasSignal(m)
    <3>1. Owner(op[t]) \in ExclPCs
      BY <1>2, <1>31 DEF ImpWaitOp
    <3>2. QED
      BY <1>1, <1>31, <2>1, <3>1 DEF ImpWaitOp, ExclPCs
  <2>2. CASE ~HasSignal(m)
    <3>1. m.sig = 0
      BY <2>2 DEF HasSignal, Word
    <3>2. QED
      BY <1>31, <2>2, <3>1 DEF ImpWaitOp
  <2>3. QED
    BY <2>1, <2>2
<1>32. ASSUME ImpWaitCheck(t) PROVE TypeOK' /\ SlowPathLocals'
  BY <1>1, <1>32 DEF ImpWaitCheck
<1>33. ASSUME ImpSignalAdd(t) PROVE TypeOK' /\ SlowPathLocals'
  BY <1>1, <1>33 DEF ImpSignalAdd
<1>34. ASSUME ImpSignalNotify(t) PROVE TypeOK' /\ SlowPathLocals'
  BY <1>1, <1>34 DEF ImpSignalNotify, Holding
<1>35. QED
  BY <1>3, <1>4, <1>5, <1>6, <1>7, <1>8, <1>9, <1>10, <1>11, <1>12, <1>13, <1>14, <1>15, <1>16, <1>17, <1>18, <1>19, <1>20, <1>21, <1>22, <1>23, <1>24, <1>25, <1>26, <1>27, <1>28, <1>29, <1>30, <1>31, <1>32, <1>33, <1>34 DEF Call, Step, Release

-----------------------------------------------------------------------------
(***************************************************************************)
(* Inv is inductive.                                                       *)
(***************************************************************************)
LEMMA NextInv == Inv /\ [Next]_vars => Inv'
<1> SUFFICES ASSUME Inv, [Next]_vars PROVE Inv'
  OBVIOUS
<1>1. CASE UNCHANGED vars
  BY <1>1 DEF vars, Inv, TypeOK, CountsMatch, OneCarrier, WakeupPending,
              SignalHasWaiter, SlowPathLocals, Holding, Claims, Carriers
<1>2. CASE Next
  <2>1. PICK t \in Threads : Call(t) \/ Step(t) \/ Release(t)
    BY <1>2 DEF Next
  <2>2. m' \in Word /\ WordInv'
    <3>1. CASE ImpSignalNotify(t)
      BY <3>1, NotifyInv
    <3>2. CASE ~ImpSignalNotify(t)
      <4>1. IsMove(t)
        BY <2>1, <3>2, StepIsMove
      <4>2. QED
        BY <4>1, MoveInv DEF IsMove
    <3>3. QED
      BY <3>1, <3>2
  <2>3. TypeOK' /\ SlowPathLocals'
    BY <2>1, <2>2, LocalsInv
  <2>4. QED
    BY <2>2, <2>3 DEF Inv, WordInv
<1>3. QED
  BY <1>1, <1>2

(***************************************************************************)
(* In every reachable state the lock word of mutex.h accounts for all      *)
(* holders and waiters, the right to the lock is in one place, and no      *)
(* wake-up is lost.                                                        *)
(***************************************************************************)
THEOREM Invariance == Spec => []Inv
<1>1. QED
  BY InitInv, NextInv, PTL DEF Spec

(***************************************************************************)
(* The word, the labels and the values read keep their types: readers never *)
(* exceed c_one - 1, there is at most one c_sig.                           *)
(***************************************************************************)
THEOREM TypeCorrect == Spec => []TypeOK
<1>1. Inv => TypeOK
  BY DEF Inv
<1>2. QED
  BY <1>1, Invariance, PTL

(***************************************************************************)
(* The fields of m_value count the holders and the queued threads exactly, *)
(* so the unconditional additions and subtractions of mutex.h never borrow *)
(* from a neighbouring field and no ensure() of mutex.cpp fires.           *)
(***************************************************************************)
THEOREM WordIsExact == Spec => []CountsMatch
<1>1. Inv => CountsMatch
  BY DEF Inv
<1>2. QED
  BY <1>1, Invariance, PTL

(***************************************************************************)
(* The right to the lock is in one place: a writer, the readers, the pending *)
(* signal, or the thread that is about to add the signal.                  *)
(***************************************************************************)
THEOREM OwnershipIsUnique == Spec => []OneCarrier
<1>1. Inv => OneCarrier
  BY DEF Inv
<1>2. QED
  BY <1>1, Invariance, PTL

(***************************************************************************)
(* Whenever threads are queued somebody holds the lock, is about to signal, *)
(* or has signalled, and a signal finds a thread that will look at it: the *)
(* waits of imp_wait miss no wake-up.                                      *)
(***************************************************************************)
THEOREM NoWakeupLost == Spec => []WakeupPending
<1>1. Inv => WakeupPending
  BY DEF Inv
<1>2. QED
  BY <1>1, Invariance, PTL

-----------------------------------------------------------------------------
(***************************************************************************)
(* A move of the lock is a step of the abstract reader/writer lock, or     *)
(* changes nothing there.                                                  *)
(***************************************************************************)
LEMMA MoveRefines ==
  ASSUME Inv, NEW t \in Threads, NEW l \in PCs,
         pc' = [pc EXCEPT ![t] = l], Move(t, l)
  PROVE  [RW!Next]_hold
<1>1. /\ pc \in [Threads -> PCs]
      /\ m.rd \in Nat /\ m.wr \in Nat /\ m.sig \in Nat
      /\ m.rd > 0 <=> \E u \in Threads : pc[u] \in SharedPCs
      /\ m.wr > 0 <=> \E u \in Threads : pc[u] \in ClaimPCs
      /\ m.rd > 0 => m.sig = 0
      /\ \A u \in Threads : pc[u] \in ExclPCs \union {"sg_add"} =>
           /\ m.rd = 0 /\ m.sig = 0
           /\ \A v \in Threads : pc[v] \in ExclPCs \union {"sg_add"} => u = v
  BY InvFacts, Zenon
<1>2. m.rd = 1 => \A u, v \in Threads :
                    pc[u] \in SharedPCs /\ pc[v] \in SharedPCs => u = v
  BY FieldsSay DEF Inv
<1>3. hold' = [hold EXCEPT ![t] = HoldOf(l)]
  BY <1>1 DEF hold
<1>4. \A u \in Threads : /\ hold[u] = "shared" <=> pc[u] \in SharedPCs
                         /\ hold[u] = "excl" <=> pc[u] \in ExclPCs
                         /\ hold[u] \in {"none", "shared", "excl"}
  BY <1>1 DEF hold, HoldOf, SharedPCs, ExclPCs
<1> USE DEF ClaimPCs, NeutralPCs, SharedPCs, ExclPCs, WaitPCs, HoldOf
<1>5. CASE Quiet(t, l) \/ Signal(t, l) \/ Enqueue(t, l)
  <2>1. HoldOf(l) = hold[t]
    BY <1>5 DEF Quiet, Signal, Enqueue, hold
  <2>2. hold' = hold
    BY <1>3, <2>1 DEF hold
  <2>3. QED
    BY <2>2
<1>6. CASE \/ TakeFree(t, l) \/ TakeStolen(t, l) \/ UpgradeLast(t, l)
           \/ Consume(t, l)
  <2>1. \A u \in Threads \ {t} : hold[u] = "none"
    BY <1>1, <1>2, <1>4, <1>6
       DEF TakeFree, TakeStolen, UpgradeLast, Consume, Zero
  <2>2. HoldOf(l) = "excl" /\ hold[t] \in {"none", "shared"}
    BY <1>4, <1>6 DEF TakeFree, TakeStolen, UpgradeLast, Consume
  <2>3. RW!AcquireExcl(t)
    BY <1>3, <2>1, <2>2 DEF RW!AcquireExcl, RW!Free
  <2>4. QED
    BY <2>3 DEF RW!Next
<1>7. CASE ShareFree(t, l) \/ ShareStolen(t, l)
  <2>1. \A u \in Threads \ {t} : hold[u] # "excl"
    BY <1>1, <1>4, <1>7 DEF ShareFree, ShareStolen, CanShare
  <2>2. HoldOf(l) = "shared" /\ hold[t] = "none"
    BY <1>4, <1>7 DEF ShareFree, ShareStolen
  <2>3. RW!AcquireShared(t)
    BY <1>3, <2>1, <2>2 DEF RW!AcquireShared, RW!NoWriter
  <2>4. QED
    BY <2>3 DEF RW!Next
<1>8. CASE ToShared(t, l)
  <2>1. HoldOf(l) = "shared" /\ hold[t] = "excl"
    BY <1>4, <1>8 DEF ToShared
  <2>2. RW!Downgrade(t)
    BY <1>3, <2>1 DEF RW!Downgrade
  <2>3. QED
    BY <2>2 DEF RW!Next
<1>9. CASE UpgradeWait(t, l) \/ LeaveExcl(t, l) \/ LeaveShared(t, l)
  <2>1. HoldOf(l) = "none" /\ hold[t] # "none"
    BY <1>4, <1>9 DEF UpgradeWait, LeaveExcl, LeaveShared
  <2>2. RW!Release(t)
    BY <1>3, <2>1 DEF RW!Release
  <2>3. QED
    BY <2>2 DEF RW!Next
<1>10. QED
  BY <1>5, <1>6, <1>7, <1>8, <1>9 DEF Move

(***************************************************************************)
(* shared_mutex implements the abstract reader/writer lock: readers share, *)
(* a writer is alone, whatever the interleaving, the steals and the        *)
(* upgrades.                                                               *)
(***************************************************************************)
THEOREM Refinement == Spec => ImplementsRWLock
<1>1. Init => RW!Init
  BY DEF Init, RW!Init, hold, HoldOf, SharedPCs, ExclPCs
<1>2. Inv /\ [Next]_vars => [RW!Next]_hold
  <2> SUFFICES ASSUME Inv, [Next]_vars PROVE [RW!Next]_hold
    OBVIOUS
  <2>1. CASE UNCHANGED vars
    BY <2>1 DEF vars, hold
  <2>2. CASE Next
    <3>1. PICK t \in Threads : Call(t) \/ Step(t) \/ Release(t)
      BY <2>2 DEF Next
    <3>2. CASE ImpSignalNotify(t)
      <4>1. \A u \in Threads : HoldOf(pc'[u]) = HoldOf(pc[u])
        BY <3>2, InvFacts
           DEF ImpSignalNotify, Goto, Holding, HoldOf, SharedPCs, ExclPCs
      <4>2. QED
        BY <4>1 DEF hold
    <3>3. CASE ~ImpSignalNotify(t)
      <4>1. IsMove(t)
        BY <3>1, <3>3, StepIsMove
      <4>2. QED
        BY <4>1, MoveRefines DEF IsMove
    <3>4. QED
      BY <3>2, <3>3
  <2>3. QED
    BY <2>1, <2>2
<1>3. QED
  BY <1>1, <1>2, Invariance, PTL DEF Spec, ImplementsRWLock, RW!Spec

(***************************************************************************)
(* Mutual exclusion, the promise of the abstract lock that the emulator's  *)
(* critical sections rely on: while one thread is between lock and unlock  *)
(* nobody else holds the lock in either mode.                              *)
(***************************************************************************)
THEOREM MutualExclusion == Spec => []RW!Exclusion
<1>1. Inv => RW!Exclusion
  <2> SUFFICES ASSUME Inv, NEW t \in Threads, NEW u \in Threads, t # u,
                      hold[t] = "excl"
               PROVE  hold[u] = "none"
    BY DEF RW!Exclusion
  <2>1. pc[t] \in ExclPCs
    BY DEF hold, HoldOf
  <2>2. m.rd = 0 /\ pc[u] \notin ExclPCs
    BY <2>1, InvFacts
  <2>3. pc[u] \notin SharedPCs
    BY <2>2, InvFacts
  <2>4. QED
    BY <2>2, <2>3 DEF hold, HoldOf
<1>2. QED
  BY <1>1, Invariance, PTL

-----------------------------------------------------------------------------
(* lock_unlock *)

(***************************************************************************)
(* Who is watched is an exclusive holder, and not the watcher itself; and  *)
(* as long as a watched holder has not released, no claim has been given   *)
(* up, so that a spinning thread sees no smaller count than before.        *)
(***************************************************************************)
WatchInv ==
  \A t \in Threads :
    /\ watch[t] \subseteq Holding(ExclPCs) \ {t}
    /\ pc[t] = "lu_spin" /\ watch[t] # {} => max[t] <= m.wr

(***************************************************************************)
(* The only moves of an exclusive holder end its section, and no other     *)
(* move gives up a claim.                                                  *)
(***************************************************************************)
LEMMA MoveKeepsClaims ==
  ASSUME Inv, NEW t \in Threads, NEW l \in PCs, Move(t, l), pc[t] \notin ExclPCs
  PROVE  m'.wr \in Nat /\ m.wr <= m'.wr
<1>1. m \in Word /\ m.wr \in Nat /\ m = [rd |-> m.rd, wr |-> m.wr, sig |-> m.sig]
  BY InvFacts
<1>2. CASE Quiet(t, l)
  BY <1>1, <1>2 DEF Quiet
<1>3. CASE TakeFree(t, l) \/ Enqueue(t, l)
  BY <1>1, <1>3 DEF TakeFree, Enqueue, AddClaim, Word
<1>4. CASE TakeStolen(t, l)
  BY <1>1, <1>4 DEF TakeStolen, StealExcl, Word
<1>5. CASE ShareStolen(t, l) \/ ShareFree(t, l)
  <2>1. CASE m' = StealShared(m)
    BY <1>1, <2>1 DEF StealShared, Word
  <2>2. CASE m' = AddReader(m)
    BY <1>1, <2>2 DEF AddReader, Word
  <2>3. QED
    BY <1>5, <2>1, <2>2 DEF ShareStolen, ShareFree
<1>6. CASE UpgradeLast(t, l) \/ UpgradeWait(t, l)
  <2>1. m' = ReaderToClaim(m)
    BY <1>6 DEF UpgradeLast, UpgradeWait
  <2>2. m'.wr = m.wr + 1
    BY <1>1, <2>1 DEF ReaderToClaim, Word
  <2>3. QED
    BY <1>1, <2>2
<1>7. CASE LeaveShared(t, l) \/ Consume(t, l) \/ Signal(t, l)
  BY <1>1, <1>7 DEF LeaveShared, Consume, Signal, Word
<1>8. QED
  BY <1>2, <1>3, <1>4, <1>5, <1>6, <1>7 DEF Move, ToShared, LeaveExcl

(***************************************************************************)
(* What a step does to the watched sections and to the largest count.      *)
(***************************************************************************)
LEMMA WatchSteps ==
  ASSUME Inv, NEW t \in Threads, Call(t) \/ Step(t) \/ Release(t)
  PROVE  \/ pc[t] \in ExclPCs /\ EndSection(t) /\ max' = max /\ ~ImpSignalNotify(t)
         \/ /\ pc[t] \notin ExclPCs /\ watch' = watch /\ max' = max /\ pc'[t] # "lu_spin"
            /\ pc[t] # "lu_spin"
         \/ LockUnlock(t) \/ ImpLockUnlockSpin(t) \/ ImpLockUnlockAdd(t)
<1>1. pc \in [Threads -> PCs]
  BY InvFacts
<1>2. CASE Unlock(t) \/ LockDowngrade(t)
  BY <1>2 DEF Unlock, LockDowngrade, ExclPCs, ImpSignalNotify
<1>3. CASE TryLock(t) \/ Lock(t) \/ TryLockShared(t) \/ LockShared(t)
  BY <1>1, <1>3
     DEF TryLock, Lock, TryLockShared, LockShared, Update, Load, Goto, ExclPCs
<1>4. CASE TryLockUpgrade(t) \/ LockUpgrade(t) \/ UnlockShared(t)
  BY <1>1, <1>4 DEF TryLockUpgrade, LockUpgrade, UnlockShared, Update, Load, Goto, ExclPCs
<1>5. CASE ImpLockSteal(t) \/ ImpLockSpin(t) \/ ImpLockCas(t)
  BY <1>1, <1>5 DEF ImpLockSteal, ImpLockSpin, ImpLockCas, Cas, Fail, Update, Load, Goto, ExclPCs
<1>6. CASE ImpLockAdd(t) \/ ImpLockSharedAdd(t) \/ ImpLockUpgradeAdd(t)
  BY <1>1, <1>6
     DEF ImpLockAdd, ImpLockSharedAdd, ImpLockUpgradeAdd, Queue, Update, Goto, ExclPCs
<1>7. CASE TryLockSharedCas(t) \/ LockSharedCas(t) \/ ImpLockSharedSteal(t)
  BY <1>1, <1>7
     DEF TryLockSharedCas, LockSharedCas, ImpLockSharedSteal, Cas, Fail, Update, Goto, ExclPCs
<1>8. CASE ImpLockSharedSpin(t) \/ ImpLockSharedTry(t) \/ ImpLockSharedLoad(t)
  BY <1>1, <1>8 DEF ImpLockSharedSpin, ImpLockSharedTry, ImpLockSharedLoad, Cas, Fail, Update, Load,
                    Goto, ExclPCs
<1>9. CASE ImpLockSharedCas(t) \/ TryLockUpgradeCas(t) \/ LockUpgradeCas(t)
  BY <1>1, <1>9
     DEF ImpLockSharedCas, TryLockUpgradeCas, LockUpgradeCas, Cas, Fail, Update, Goto, ExclPCs
<1>10. CASE ImpLockUpgradeLoad(t) \/ ImpSignalAdd(t)
  BY <1>1, <1>10 DEF ImpLockUpgradeLoad, ImpSignalAdd, Load, Update, Goto, ExclPCs
<1>11. CASE ImpWaitOp(t)
  <2>1. pc[t] = "wt_op" /\ op[t] \in {"lock", "lock_shared", "lock_unlock"}
    BY <1>11 DEF ImpWaitOp, Inv, TypeOK, SlowPathLocals, WaitPCs
  <2>2. Owner(op[t]) # "lu_spin"
    BY <2>1 DEF Owner
  <2>3. QED
    BY <1>1, <1>11, <2>2 DEF ImpWaitOp, Load, Update, Goto, ExclPCs
<1>12. CASE ImpWaitCheck(t)
  BY <1>1, <1>12 DEF ImpWaitCheck, Fail, Goto, ExclPCs
<1>13. CASE ImpSignalNotify(t)
  BY <1>1, <1>13 DEF ImpSignalNotify, Goto, Holding, ExclPCs
<1>14. QED
  BY <1>2, <1>3, <1>4, <1>5, <1>6, <1>7, <1>8, <1>9, <1>10, <1>11, <1>12, <1>13
     DEF Call, Step, Release

(***************************************************************************)
(* A step leaves the other threads where they are, as far as exclusive     *)
(* sections and lock_unlock go, and gives up a claim only at the end of a  *)
(* section.                                                                *)
(***************************************************************************)
LEMMA WatchOthers ==
  ASSUME Inv, NEW t \in Threads, Call(t) \/ Step(t) \/ Release(t)
  PROVE  /\ \A u \in Threads \ {t} : /\ pc'[u] \in ExclPCs <=> pc[u] \in ExclPCs
                                     /\ pc'[u] = "lu_spin" <=> pc[u] = "lu_spin"
                                     /\ pc[u] = "lu_spin" => pc'[u] = pc[u]
         /\ pc[t] \notin ExclPCs => m.wr <= m'.wr /\ m'.wr \in Nat
<1>1. pc \in [Threads -> PCs] /\ m.wr \in Nat
  BY InvFacts
<1>2. CASE ImpSignalNotify(t)
  BY <1>1, <1>2 DEF ImpSignalNotify, Goto, Holding, ExclPCs
<1>3. CASE ~ImpSignalNotify(t)
  <2>1. PICK l \in PCs, w \in Word : pc' = [pc EXCEPT ![t] = l] /\ Move(t, l)
    BY <1>3, StepIsMove DEF IsMove
  <2>2. \A u \in Threads \ {t} : pc'[u] = pc[u]
    BY <1>1, <2>1
  <2>3. pc[t] \notin ExclPCs => m.wr <= m'.wr /\ m'.wr \in Nat
    BY <2>1, MoveKeepsClaims
  <2>4. QED
    BY <2>2, <2>3
<1>4. QED
  BY <1>2, <1>3

(***************************************************************************)
(* Every step keeps the invariant of lock_unlock.                          *)
(***************************************************************************)
LEMMA WatchNext ==
  ASSUME Inv, WatchInv, NEW t \in Threads, Call(t) \/ Step(t) \/ Release(t)
  PROVE  WatchInv'
<1>1. /\ \A u \in Threads \ {t} : /\ pc'[u] \in ExclPCs <=> pc[u] \in ExclPCs
                                  /\ pc'[u] = "lu_spin" <=> pc[u] = "lu_spin"
      /\ pc[t] \notin ExclPCs => m.wr <= m'.wr /\ m'.wr \in Nat
  BY WatchOthers
<1>2. /\ watch \in [Threads -> SUBSET Threads] /\ max \in [Threads -> Nat] /\ m.wr \in Nat
      /\ pc \in [Threads -> PCs]
  BY InvFacts DEF Inv, TypeOK
<1>3. \A u \in Threads : watch[u] \subseteq {v \in Threads : pc[v] \in ExclPCs} \ {u}
  BY DEF WatchInv, Holding
<1>4. CASE pc[t] \in ExclPCs /\ EndSection(t)
  <2>1. \A u, v \in Threads : v \in watch[u] => v = t
    BY <1>3, <1>4, InvFacts
  <2>2. \A u \in Threads : watch'[u] = {}
    BY <1>2, <1>4, <2>1 DEF EndSection
  <2>3. QED
    BY <2>2 DEF WatchInv
<1>5. ASSUME pc[t] \notin ExclPCs, NEW u \in Threads, watch'[u] = watch[u]
      PROVE  watch'[u] \subseteq {v \in Threads : pc'[v] \in ExclPCs} \ {u}
  BY <1>1, <1>3, <1>5
<1>6. ASSUME pc[t] \notin ExclPCs, NEW u \in Threads \ {t}, watch'[u] = watch[u], max'[u] = max[u],
             pc'[u] = "lu_spin", watch'[u] # {}
      PROVE  max'[u] <= m'.wr
  <2>1. max[u] <= m.wr /\ max[u] \in Nat
    BY <1>1, <1>2, <1>6 DEF WatchInv
  <2>2. QED
    BY <1>1, <1>2, <1>6, <2>1
<1>7. CASE pc[t] \notin ExclPCs /\ watch' = watch /\ max' = max /\ pc'[t] # "lu_spin"
  BY <1>5, <1>6, <1>7 DEF WatchInv, Holding
<1>8. CASE LockUnlock(t)
  <2>1. /\ pc[t] = "idle" /\ pc[t] \notin ExclPCs /\ max' = [max EXCEPT ![t] = 1] /\ m' = m
        /\ watch' = [watch EXCEPT ![t] = Holding(ExclPCs)]
    BY <1>8 DEF LockUnlock, Fail, ExclPCs
  <2>2. /\ max'[t] = 1 /\ watch'[t] = Holding(ExclPCs)
        /\ \A u \in Threads \ {t} : watch'[u] = watch[u] /\ max'[u] = max[u]
    BY <1>2, <2>1
  <2>3. watch'[t] \subseteq {v \in Threads : pc'[v] \in ExclPCs} \ {t}
    BY <1>1, <2>1, <2>2 DEF Holding
  <2>4. watch'[t] # {} => max'[t] <= m'.wr
    <3>1. watch'[t] # {} => m.wr > 0
      BY <2>2, InvFacts DEF Holding, ClaimPCs
    <3>2. QED
      BY <1>2, <2>1, <2>2, <3>1
  <2>5. QED
    BY <1>5, <1>6, <2>1, <2>2, <2>3, <2>4 DEF WatchInv, Holding
<1>9. CASE ImpLockUnlockSpin(t)
  <2>1. pc[t] = "lu_spin" /\ pc[t] \notin ExclPCs /\ watch' = watch /\ m' = m
    BY <1>9 DEF ImpLockUnlockSpin, ExclPCs
  <2>2. \A u \in Threads \ {t} : max'[u] = max[u]
    BY <1>2, <1>9 DEF ImpLockUnlockSpin
  <2>3. pc'[t] = "lu_spin" => max'[t] = Quotient(m)
    BY <1>2, <1>9 DEF ImpLockUnlockSpin, Goto
  <2>4. watch[t] # {} => m.sig = 0
    BY <1>3, InvFacts
  <2>5. m.sig = 0 => Quotient(m) = m.wr
    BY <1>2, FieldWidths DEF Quotient
  <2>6. pc'[t] = "lu_spin" /\ watch'[t] # {} => max'[t] <= m'.wr
    BY <1>2, <2>1, <2>3, <2>4, <2>5
  <2>7. QED
    BY <1>5, <1>6, <2>1, <2>2, <2>6 DEF WatchInv, Holding
<1>10. CASE ImpLockUnlockAdd(t)
  <2>1. pc[t] = "lu_spin" /\ pc[t] \notin ExclPCs /\ watch' = watch /\ max' = [max EXCEPT ![t] = 0]
    BY <1>10 DEF ImpLockUnlockAdd, ExclPCs
  <2>2. pc'[t] # "lu_spin" /\ \A u \in Threads \ {t} : max'[u] = max[u]
    BY <1>2, <1>10, <2>1 DEF ImpLockUnlockAdd, Queue, Update, Goto
  <2>3. QED
    BY <1>5, <1>6, <2>1, <2>2 DEF WatchInv, Holding
<1>11. QED
  BY <1>4, <1>7, <1>8, <1>9, <1>10, WatchSteps

(***************************************************************************)
(* A thread that leaves lock_unlock watches nobody any more.               *)
(***************************************************************************)
LEMMA WatchOver ==
  ASSUME Inv, WatchInv, NEW u \in Threads, Call(u) \/ Step(u) \/ Release(u), NEW t \in Threads,
         pc[t] \in {"lu_spin", "lu_unlock"}, pc'[t] \in {"idle", "sg_add"}
  PROVE  watch[t] = {}
<1>1. watch[t] \subseteq {v \in Threads : pc[v] \in ExclPCs} \ {t}
  BY DEF WatchInv, Holding
<1>2. CASE pc[t] = "lu_unlock"
  BY <1>1, <1>2, InvFacts DEF ExclPCs
<1>3. CASE pc[t] = "lu_spin"
  <2>1. u = t
    BY <1>3, WatchOthers
  <2>2. ImpLockUnlockSpin(t) \/ ImpLockUnlockAdd(t)
    BY <1>3, <2>1, WatchSteps DEF ExclPCs, LockUnlock
  <2>3. SeenFree(m, max[t])
    BY <1>3, <2>2, InvFacts DEF ImpLockUnlockSpin, ImpLockUnlockAdd, Queue, Update, Goto
  <2>4. SUFFICES ASSUME watch[t] # {} PROVE FALSE
    OBVIOUS
  <2>5. m.sig = 0 /\ m.wr \in Nat /\ max[t] \in Nat
    BY <1>1, <2>4, InvFacts DEF Inv, TypeOK
  <2>6. max[t] <= m.wr
    BY <1>3, <2>4 DEF WatchInv
  <2>7. Quotient(m) = m.wr
    BY <2>5, FieldWidths DEF Quotient
  <2>8. QED
    BY <2>3, <2>5, <2>6, <2>7 DEF SeenFree, HasSignal
<1>4. QED
  BY <1>2, <1>3

(***************************************************************************)
(* lock_unlock returns only after every exclusive section that was running *)
(* when it was called has ended, for any number of threads and rounds of   *)
(* busy waiting: although the spinning thread looks at nothing but counts, *)
(* a smaller count or a signal is never seen before that.                  *)
(***************************************************************************)
THEOREM LockUnlockIsExact == Spec => LockUnlockWaits
<1>1. Init => WatchInv
  BY DEF Init, WatchInv
<1>2. Inv /\ WatchInv /\ [Next]_vars => WatchInv'
  <2>1. SUFFICES ASSUME Inv, WatchInv, [Next]_vars PROVE WatchInv'
    OBVIOUS
  <2>2. CASE UNCHANGED vars
    BY <2>1, <2>2 DEF vars, WatchInv, Holding
  <2>3. QED
    BY <2>1, <2>2, WatchNext DEF Next
<1>3. Inv /\ WatchInv /\ [Next]_vars =>
        [\A t \in Threads :
           pc[t] \in {"lu_spin", "lu_unlock"} /\ pc'[t] \in {"idle", "sg_add"}
           => watch[t] = {}]_vars
  BY WatchOver DEF Next
<1>4. QED
  BY <1>1, <1>2, <1>3, Invariance, PTL DEF Spec, LockUnlockWaits
=============================================================================
